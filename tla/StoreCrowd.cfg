SPECIFICATION Spec
CONSTANTS
    Writers = {w1, w2, w3}
    Readers = {}
    Documents = {d1, d2}
    Recorded = {}
    Inodes = {i1, i2, i3, i4}
    Roots = {w1, w2, w3}
    MaxFaults = 0
    PowerFails = FALSE
INVARIANTS
    QuietIsWhole
SYMMETRY CrowdSymmetry
