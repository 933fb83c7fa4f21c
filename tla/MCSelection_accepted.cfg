CONSTANTS
  Kernels <- SeriesKernels
  Pool <- OneSeries
  BridgeKernel <- NewBridgeKernel
  BridgeSource <- Bridge
  Nothing = nothing
  MaxPublished = 4
SPECIFICATION Spec
INVARIANT AcceptableIsChosen
