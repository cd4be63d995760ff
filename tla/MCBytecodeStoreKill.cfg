SPECIFICATION Spec
CONSTANTS
  c1 = c1
  c2 = c2
  c3 = c3
  c4 = c4
  Chunks <- MCChunks
  Key <- MCKey
  Size <- MCSize
  Misbuilt = {c2}
  Builds = {"old", "new"}
  MayFail = {"blob", "read", "build", "index"}
  MaxEntries = 3
  MaxFileBytes = 5
  ProveFirst = 2
PROPERTY KillKeepsSaved
