SPECIFICATION Spec
CONSTANTS
  Thread = {"main", "worker"}
  Main = "main"
  Domain = {"project"}
  Project = "project"
  Id = {"", "fr"}
  Stream = {"tty", "file"}
  Tty = {"tty"}
  Level <- Levels
  MaxCalls <- TwoEach
INVARIANTS LocalesSound ColourEnds
PROPERTIES Delivered
