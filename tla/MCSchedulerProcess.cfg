SPECIFICATION ProcessSpec
CONSTANTS
    n1 = n1  n2 = n2  n3 = n3  g1 = g1  g2 = g2
    p1 = p1  p2 = p2  p3 = p3  p4 = p4  p5 = p5
    Foreign = Foreign  Absent = Absent  NoGroup = NoGroup
    Floats = {"1.5", "2"}
    Half = 16777216
    Nodes = {n1, n2, n3}
    QueuePods = {p1, p2, p3, p4, p5}
    RawArgs <- MCRawArgs
    Snapshots <- MCSnapshots
    Responses <- MCResponses
    Capacity <- MCCapacity
    PodRequest <- MCPodRequest
    MaxNominated = 1
    PodInfo <- MCPodInfo
    Created <- MCCreated
INVARIANTS ProcessTypeOK PluginListersSynced RoundTrip ScoresInRange RanksFaithfully HeadIsFirst
PROPERTIES StartUpEnds
CHECK_DEADLOCK FALSE
