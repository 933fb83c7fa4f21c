CONSTANTS
  Kernels <- FourKernels
  Pool <- Mixed
  BridgeKernel <- NewBridgeKernel
  BridgeSource <- Bridge
  Nothing = nothing
  MaxPublished = 4
SPECIFICATION Spec
INVARIANTS TypeOK LatestRelease NearestSeries
