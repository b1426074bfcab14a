SPECIFICATION Spec
CONSTANTS
  a = a
  b = b
  c = c
  x = x
  p = p
  q = q
  NoOffset = NoOffset
  Buffers <- MCBuffers
  ScopeOf <- MCScopeOf
  SizeOf <- MCSizeOf
  MemoryLimit <- MCMemoryLimit
  OriginOrder <- MCOriginOrder
  Kernels <- InLoopSetupKernels
  TripBound = 2
INVARIANT
  LoopCarriedSurvive
