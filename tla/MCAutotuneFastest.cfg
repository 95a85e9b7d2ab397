CONSTANTS
  Setups <- MCSetups
  OpenclKernels <- MCOpenclKernels
  CudaKernels <- MCCudaKernels
  Npis <- MCNpis
  Batches <- MCBatches
  MaxResults = 96
  MaxStarts = 2
  MaxEdits = 1
SPECIFICATION TunerSpec
INVARIANT FastestSelected
