SPECIFICATION PluginsSpec
CONSTANTS
    Nodes = {n1, n2, n3, n4}
    Faulty = {n4}
    F = 1
    RangeLimit = 2
    MaxSent = 3
    ExecSent = 2
    NoRound = NoRound
    FaultyIntervals <- LiesAboutIntervals
    FaultyMessages <- LiesAboutMessages
    Sender <- OneSender
    TokenValue <- FullValue
    TokenLimit = 1
INVARIANT NothingForged
PROPERTIES ImplementsStore AllCommitted AllExecuted
