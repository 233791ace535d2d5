SPECIFICATION BatchSpec
CONSTANTS
    k1 = k1  k2 = k2  c1 = c1  c2 = c2
    Converter = {c1, c2}
    Key = {k1, k2}
    Place <- MCPlace
    Raises <- MCRaises
INVARIANTS TypeOK McapMatchesUlog PassedKeysAreConverted
PROPERTY EveryReachedUlogIsConverted
