SPECIFICATION Spec
CONSTANTS
    node1 = node1
    node10 = node10
    Nodes <- MCNodes
    Occurs <- Names
INVARIANTS DeletionComplete OthersKeepHosts
PROPERTY RecordsGoLast
