SPECIFICATION MixedSpec
CONSTANTS
  CubeBuffers <- TutorialCubeBuffers
  VecBuffers <- TutorialVecBuffers
  Workspaces <- TutorialWorkspaces
  Kernels <- TutorialKernels
  BodyOf <- TutorialBodyOf
  LanesOf <- TutorialLanesOf
INVARIANT TimelineKept
