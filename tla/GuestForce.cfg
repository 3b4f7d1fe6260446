\* --force on a guest whose snapshot is not called "clean".
SPECIFICATION Spec
CONSTANTS
  Clean = "clean"
  SnapNames = {"clean", "ready"}
  Platforms = {"windows"}
  MayFail = {}
  AgentPolls = 1
  ShutdownPolls = 1
INVARIANT ForceTearsDown
