\* A batch one nonce short of a word, as stratum_main.c accepts it.
CONSTANTS
    Setups <- MCSetups
    MaxDevices = 2
    MaxNpi = 8
    MaxStarts = 1
    Word = 8
    Kernels <- MCKernels
    Groups = {2}
    Counts = {7}
    MaxResults = 1
    TestNonces = 3
    TestResults = 4
    MaxHits = 1
    MaxScans = 1
SPECIFICATION GpuSpec
INVARIANTS StaysInRange
