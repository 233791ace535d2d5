SPECIFICATION Spec
CONSTANTS
    k1 = k1
    k2 = k2
    k3 = k3
    Key = {k1, k2}
    FileContent = {"partial", "whole"}
    Place <- MCPlace
    Raises <- MCRaises
    Topic = {"battery"}
    FieldName <- MCFieldName
    TopicsOf <- MCTopicsOf
    None = None
INVARIANTS
    TypeOK
    RowsMatchUlog
    ListedIsThere
    WholeBatch
    AtMostOnce
PROPERTIES
    TablesOnlyGrow
