SPECIFICATION Spec
CONSTANTS
  a = a
  b = b
  Library = {a, b}
  HostRuby = a
  Holder = {"search", "api"}
  Obj = {1, 2}
  Configs <- Processes
INVARIANTS LibrarySound ObjectsSound
PROPERTIES VmSound
