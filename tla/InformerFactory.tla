--------------------------- MODULE InformerFactory ---------------------------
(***************************************************************************)
(* Shared informer factories: the generated one of the PodGroups and       *)
(* ElasticQuotas (pkg/generated/informers/externalversions) and those of   *)
(* client-go, which are generated from the same template.  An informer     *)
(* that is asked for after the Start of its factory is not started.        *)
(***************************************************************************)
CONSTANTS
    Informers,   \* one per factory and type
    FactoryOf    \* FactoryOf[i]: the factory of informer i

VARIABLES
    informers,   \* informers that some lister, handler or HasSynced has asked for
    started,     \* informers that Start has set going
    synced       \* informers that have listed all objects

FactoryTypeOK ==
    /\ informers \subseteq Informers
    /\ started \subseteq informers
    /\ synced \subseteq started

\* NewSharedInformerFactory
FactoryInit == informers = {} /\ started = {} /\ synced = {}

\* InformerFor, by way of Informer() or Lister() of any of the informers I
InformerFor(I) ==
    /\ informers' = informers \cup I
    /\ UNCHANGED <<started, synced>>

\* Slip: everything the factories can make is taken for started.
StartFactoriesAll(F) ==
    /\ started' = started \cup {i \in Informers : FactoryOf[i] \in F}
    /\ UNCHANGED <<informers, synced>>

\* Start of the factories F: of what has been asked for so far.
StartFactories(F) ==
    /\ started' = started \cup {i \in informers : FactoryOf[i] \in F}
    /\ UNCHANGED <<informers, synced>>

\* WaitForCacheSync of the factories: of their started informers only.
FactorySynced(f) == {i \in started : FactoryOf[i] = f} \subseteq synced

\* The informer's first list of all objects is in its store (client-go).
Sync(i) ==
    /\ i \in started \ synced
    /\ synced' = synced \cup {i}
    /\ UNCHANGED <<informers, started>>

=============================================================================
