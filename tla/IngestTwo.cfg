SPECIFICATION Spec
CONSTANTS
    m1 = m1
    m2 = m2
    m3 = m3
    Ingesters = {i1, i2}
    Mcap = {m1, m2, m3}
    McapId = {m1, m2, m3}
    Topic = {"battery"}
    None = None
    FieldName <- MCFieldName
    KeyRank <- MCKeyRank
    McapIdOf <- MCMcapIdOf
    Groups <- MCBatteryGroups
    Undecodable = {}
    ExclusiveReset = TRUE
SYMMETRY MCSymmetry
INVARIANTS
    AtMostOnce
    SchemaWellFormed
    EveryFieldWritten
    RewritePreservesValues
PROPERTIES
    FinishedRunCommittedAll
