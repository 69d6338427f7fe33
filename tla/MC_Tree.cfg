CONSTANTS
    i1 = i1
    i2 = i2
    v1 = v1
    v2 = v2
    v3 = v3
    Ids <- MCIds
    Versions <- MCVersions
    BufMax = 1

SYMMETRY MCSymmetry

INIT TreeInit
NEXT TreeNext

INVARIANT TreeTypeOK
INVARIANT HeadsIndexExact
