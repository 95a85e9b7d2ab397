\* A CPU and a GPU worker, two jobs, every failure of miner_start.
CONSTANTS
  CpuThreads = 1
  OpenclDevices = 1
  CudaDevices = 0
  MaxNonce = 1
  CpuBatch = 2
  MixedCpuBatch = 1
  GpuBatch = 2
  QueueSize = 1
  MaxSeq = 2
  MaxEpoch = 1
SPECIFICATION FairSpec
INVARIANTS TypeOK RangesDisjoint HandedExactlyOnce QueueConsistent NoDuplicateShares ExhaustionSound
  NoLostWakeup NoUseAfterDestroy HashAccounting
PROPERTIES PauseBarrier ImplementsShareStream StopCompletes JobProgress
