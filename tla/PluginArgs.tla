----------------------------- MODULE PluginArgs -----------------------------
(***************************************************************************)
(* The arguments of the plugins on their way from the configuration file   *)
(* to the plugin: versioned object (pkg/apis/config/v1beta1), defaults,    *)
(* conversion to the internal object (pkg/apis/config), and the checks of  *)
(* the constructors.  A versioned field that may be absent is a pointer:   *)
(* Nil or a sequence of one value.                                         *)
(***************************************************************************)
EXTENDS Integers, Sequences

CONSTANTS
    Foreign,   \* an arguments object of another plugin's type
    Floats     \* the strings that strconv.ParseFloat accepts

Nil == <<>>
Undecoded == {Foreign, Nil}   \* the object of another plugin, or none at all
Pointer(x) == <<x>>
Deref(p, zero) == IF p = Nil THEN zero ELSE p[1]
OrElse(p, value) == IF p = Nil THEN Pointer(value) ELSE p

Providers == {"KubernetesMetricsServer", "Prometheus", "SignalFx"}

-----------------------------------------------------------------------------
(* The versioned objects, and those with every field left out.             *)

Unset == ""   \* a string that was not set
DefaultKubeConfigPath == "/etc/kubernetes/scheduler.conf"
DefaultRequestsMultiplier == "1.5"

\* Strings of the code that take the place of strings of a configuration file.
ASSUME StringAssumption ==
    {Unset, "cpu", "memory", "Least", "KubernetesMetricsServer",
     DefaultRequestsMultiplier, DefaultKubeConfigPath} \subseteq STRING

Optional(S) == {p \in Seq(S) : Len(p) <= 1}
Provider == [type : STRING, address : Optional(STRING), token : Optional(STRING)]

Versioned(plugin) ==
    CASE plugin = "Coscheduling" ->
            [permit : Optional(Int), denied : Optional(Int),
             kubeMaster : Optional(STRING), kubeConfig : Optional(STRING)]
      [] plugin = "CapacityScheduling" -> [kubeConfig : Optional(STRING)]
      [] plugin = "NodeResourcesAllocatable" ->
            [resources : Seq([name : STRING, weight : Int]), mode : STRING]
      [] plugin = "TargetLoadPacking" ->
            [requests : Optional(Int), multiplier : Optional(STRING), target : Optional(Int),
             provider : Provider, watcher : Optional(STRING)]
      [] plugin = "LoadVariationRiskBalancing" ->
            [provider : Provider, watcher : Optional(STRING),
             margin : Optional(Int), sensitivity : Optional(Int)]

NoProvider == [type |-> Unset, address |-> Nil, token |-> Nil]

Empty(plugin) ==
    CASE plugin = "Coscheduling" ->
            [permit |-> Nil, denied |-> Nil, kubeMaster |-> Nil, kubeConfig |-> Nil]
      [] plugin = "CapacityScheduling" -> [kubeConfig |-> Nil]
      [] plugin = "NodeResourcesAllocatable" -> [resources |-> <<>>, mode |-> Unset]
      [] plugin = "TargetLoadPacking" ->
            [requests |-> Nil, multiplier |-> Nil, target |-> Nil,
             provider |-> NoProvider, watcher |-> Nil]
      [] plugin = "LoadVariationRiskBalancing" ->
            [provider |-> NoProvider, watcher |-> Nil, margin |-> Nil, sensitivity |-> Nil]

-----------------------------------------------------------------------------
(* Defaults                                                                *)

SetDefaultsCoschedulingArgs(v) ==
    [v EXCEPT !.permit = OrElse(@, 60), !.denied = OrElse(@, 20)]

SetDefaultsCapacitySchedulingArgs(v) ==
    [v EXCEPT !.kubeConfig = OrElse(@, DefaultKubeConfigPath)]

\* The weight of a millicore is that of a MiB (1 << 20 bytes).
DefaultResources == <<[name |-> "cpu", weight |-> 1048576], [name |-> "memory", weight |-> 1]>>

SetDefaultsNodeResourcesAllocatableArgs(v) ==
    [v EXCEPT !.resources = IF @ = <<>> THEN DefaultResources ELSE @,
              !.mode = IF @ = Unset THEN "Least" ELSE @]

SetDefaultTargetLoadPackingArgs(v) ==
    [v EXCEPT !.requests = OrElse(@, 1000),
              !.multiplier = OrElse(@, DefaultRequestsMultiplier),
              !.target = IF Deref(@, 0) <= 0 THEN Pointer(40) ELSE @]

\* The provider is only looked at when there is no watcher address at all.
SetDefaultLoadVariationRiskBalancingArgs(v) ==
    [v EXCEPT !.provider.type = IF v.watcher = Nil /\ @ \notin Providers
                                THEN "KubernetesMetricsServer" ELSE @,
              !.margin = IF Deref(@, -1) < 0 THEN Pointer(1) ELSE @,
              !.sensitivity = IF Deref(@, -1) < 0 THEN Pointer(1) ELSE @]

\* The defaulting functions that RegisterDefaults puts into the scheme.
SetObjectDefaults(plugin, v) ==
    CASE plugin = "Coscheduling" -> SetDefaultsCoschedulingArgs(v)
      [] plugin = "CapacityScheduling" -> SetDefaultsCapacitySchedulingArgs(v)
      [] plugin = "NodeResourcesAllocatable" -> SetDefaultsNodeResourcesAllocatableArgs(v)
      [] plugin = "TargetLoadPacking" -> SetDefaultTargetLoadPackingArgs(v)
      [] plugin = "LoadVariationRiskBalancing" -> SetDefaultLoadVariationRiskBalancingArgs(v)

-----------------------------------------------------------------------------
(* Conversions.  The pointer fields of each versioned type, with the value *)
(* that stands for nil in the internal type; other fields are assigned.    *)

CapacitySchedulingPointers == [kubeConfig |-> Unset]
CoschedulingPointers == [permit |-> 0, denied |-> 0, kubeMaster |-> Unset, kubeConfig |-> Unset]
LoadVariationPointers == [watcher |-> Unset, margin |-> 0, sensitivity |-> 0]
MetricProviderPointers == [address |-> Unset, token |-> Unset]
TargetLoadPackingPointers == [multiplier |-> Unset, target |-> 0, watcher |-> Unset]

Pointers(plugin) ==
    CASE plugin = "Coscheduling" -> CoschedulingPointers
      [] plugin = "CapacityScheduling" -> CapacitySchedulingPointers
      [] plugin = "NodeResourcesAllocatable" -> <<>>
      [] plugin = "TargetLoadPacking" -> TargetLoadPackingPointers
      [] plugin = "LoadVariationRiskBalancing" -> LoadVariationPointers

\* Convert_v1beta1_X_To_config_X on the pointers of one object.
ToValues(zero, v) ==
    [f \in DOMAIN v |-> IF f \in DOMAIN zero THEN Deref(v[f], zero[f]) ELSE v[f]]

\* Slip: the zero value becomes nil on the way back, as omitempty would have it.
ToPointersOmitEmpty(zero, c) ==
    [f \in DOMAIN c |-> IF f \notin DOMAIN zero THEN c[f]
                        ELSE IF c[f] = zero[f] THEN Nil ELSE Pointer(c[f])]

\* Convert_config_X_To_v1beta1_X on the pointers of one object; never nil.
ToPointers(zero, c) ==
    [f \in DOMAIN c |-> IF f \in DOMAIN zero THEN Pointer(c[f]) ELSE c[f]]

\* The whole object, with the metric provider that is nested in some.
ToConfig(plugin, v) ==
    LET c == ToValues(Pointers(plugin), v)
    IN  IF "provider" \notin DOMAIN c THEN c
        ELSE [c EXCEPT !.provider = ToValues(MetricProviderPointers, @)]

ToV1beta1(plugin, c) ==
    LET v == ToPointers(Pointers(plugin), c)
    IN  IF "provider" \notin DOMAIN v THEN v
        ELSE [v EXCEPT !.provider = ToPointers(MetricProviderPointers, @)]

\* The codec of the scheme: defaults, then the conversion.
Decode(plugin, v) == ToConfig(plugin, SetObjectDefaults(plugin, v))

-----------------------------------------------------------------------------
(* What the constructors do with the internal object.                      *)

\* getArgs of TargetLoadPacking: its result and when it is an error.
GetTargetLoadPackingArgs(args) ==
    IF args.watcher = Unset /\ args.provider.type = Unset
    THEN [args EXCEPT !.provider.type = "KubernetesMetricsServer"] ELSE args

TargetLoadPackingRefuses(args) ==
    \/ args.watcher = Unset /\ args.provider.type \notin Providers \cup {Unset}
    \/ args.multiplier \notin Floats

\* getArgs of LoadVariationRiskBalancing never fails.
GetLoadVariationArgs(args) ==
    IF args \notin Undecoded THEN args
    ELSE [provider |-> [type |-> "KubernetesMetricsServer", address |-> Unset, token |-> Unset],
          watcher |-> Unset, margin |-> 1, sensitivity |-> 1]

\* NewAllocatable, which starts from the defaults, and validateResources
GetAllocatableArgs(args) ==
    IF args # Nil THEN args ELSE [resources |-> DefaultResources, mode |-> "Least"]

AllocatableRefuses(args) ==
    \/ args.mode \notin {Unset, "Least", "Most"}
    \/ \E i \in DOMAIN args.resources : args.resources[i].weight <= 0

\* The constructor of the plugin returns an error because of its arguments.
Refuses(plugin, args) ==
    CASE plugin = "LoadVariationRiskBalancing" -> FALSE
      [] plugin = "NodeResourcesAllocatable" ->
            args # Nil /\ (args = Foreign \/ AllocatableRefuses(args))
      [] plugin = "TargetLoadPacking" -> args \in Undecoded \/ TargetLoadPackingRefuses(args)
      [] OTHER -> args \in Undecoded

\* The arguments the plugin works with.
Effective(plugin, args) ==
    CASE plugin = "LoadVariationRiskBalancing" -> GetLoadVariationArgs(args)
      [] plugin = "TargetLoadPacking" -> GetTargetLoadPackingArgs(args)
      [] plugin = "NodeResourcesAllocatable" -> GetAllocatableArgs(args)
      [] OTHER -> args

=============================================================================
