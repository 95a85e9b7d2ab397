\* One device of every kind in every configuration and lists of several; scans
\* of up to 7 of 8 nonces, the largest batch of a word.
CONSTANTS
    Setups <- MCSetups
    MaxDevices = 2
    MaxNpi = 8
    MaxStarts = 2
    Word = 8
    Kernels <- MCKernels
    Groups = {2, 3}
    Counts = {1, 4, 7}
    MaxResults = 1
    TestNonces = 3
    TestResults = 4
    MaxHits = 2
    MaxScans = 2
SPECIFICATION GpuSpec
INVARIANTS ScanSound SelfTestSound ObjectsReleased DeviceSound
