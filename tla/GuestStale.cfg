\* A forced build after one whose disk was copied and not resized.
SPECIFICATION Spec
CONSTANTS
  Clean = "clean"
  SnapNames = {"clean"}
  Platforms = {"linux"}
  MayFail = {"resize"}
  AgentPolls = 1
  ShutdownPolls = 1
INVARIANT ForcedBuildStartsClean
