SPECIFICATION MixedSpec
CONSTANTS
  CubeBuffers <- MCCubeBuffers
  VecBuffers <- MCVecBuffers
  Workspaces <- MCWorkspaces
  Kernels <- MCKernels
  BodyOf <- MCBodyOf
  LanesOf <- MCLanesOf
INVARIANTS
  MixedTypeOK
  FlagsMeet
  ReadsFollowWrites
  AheadUnseen
  SameValues
  WorkKept
  BarriersStay
