SPECIFICATION RecoverySpec
CONSTANTS
    k1 = k1
    k2 = k2
    k3 = k3
    Key = {k1, k2, k3}
    FileContent = {"partial"}
    Place <- MCPlace
    Raises <- MCLastRaises
    Topic = {"battery"}
    FieldName <- MCFieldName
    TopicsOf <- MCTopicsOf
    None = None
PROPERTY EveryReachedLogIsIngested
