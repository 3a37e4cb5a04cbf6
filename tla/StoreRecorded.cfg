SPECIFICATION FairSpec
CONSTANTS
    Writers = {w1}
    Readers = {r1}
    Documents = {d1, d2}
    Recorded = {d2}
    Inodes = {i1, i2, i3}
    Roots = {w1}
    MaxFaults = 0
    PowerFails = FALSE
PROPERTIES
    DeployedAgentReads
