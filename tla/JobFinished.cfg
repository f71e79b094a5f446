CONSTANTS
    Outputs = {"a", "b"}
    Finishes = {"f1", "f2"}
    Puts = {"p1", "p2"}
    Completes = {"c1", "c2"}
    PutOutput <- MCPutOutput
SPECIFICATION OutputSpec
PROPERTY FinishedIsFinal
CHECK_DEADLOCK FALSE
