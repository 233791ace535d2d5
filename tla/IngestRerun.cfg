SPECIFICATION RerunSpec
CONSTANTS
    m1 = m1
    m2 = m2
    m3 = m3
    Ingesters = {i1}
    Mcap = {m1, m2}
    McapId = {m1, m2}
    Topic = {"battery"}
    None = None
    FieldName <- MCFieldName
    KeyRank <- MCKeyRank
    McapIdOf <- MCMcapIdOf
    Groups <- MCBatteryGroups
    Undecodable = {}
    ExclusiveReset = TRUE
PROPERTIES
    EveryMcapIsCommitted
