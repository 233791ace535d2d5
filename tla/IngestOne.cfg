SPECIFICATION Spec
CONSTANTS
    m1 = m1
    m2 = m2
    m3 = m3
    Ingesters = {i1}
    Mcap = {m1, m2, m3}
    McapId = {m1, m2, m3}
    Topic = {"battery", "status"}
    None = None
    FieldName <- MCFieldName
    KeyRank <- MCKeyRank
    McapIdOf <- MCMcapIdOf
    Groups <- MCGroups
    Undecodable = {m3}
    ExclusiveReset = TRUE
INVARIANTS
    TypeOK
    NoDanglingReference
    CommitInvariant
PROPERTIES
    TablesOnlyGrow
    ImplementsLake
