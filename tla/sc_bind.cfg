\* Tasks on their way to a node, with volumes and with cards.
SPECIFICATION FairSpec
CONSTANTS
    Class <- MCClass
    PodVols <- MCPodVols
    Request <- MCRequest
    Card <- MCCard
    Nodes <- MCNodes
    Scenarios <- MCScenarios
    Word = 256
INVARIANTS
    TypeOK
    BoundReachable
    CardsFit
PROPERTIES
    CardsSettle
CHECK_DEADLOCK FALSE
