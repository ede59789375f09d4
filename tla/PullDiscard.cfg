SPECIFICATION Spec
CONSTANTS
  a = a  root = root  sub = sub  v1 = v1  v2 = v2
  Files = {a}
  Dirs = {root}
  Tree <- OneFile
  Leaves = {}
  Versions = {v1, v2}
  Size <- TwoBytesOrNone
  Given <- AnyTarget
  Perms = {"rw", "ro", "stuck"}
  MaxChanges = 1
  MaxFaults = 2
  MaxRuns = 2
  None = None
PROPERTIES DiscardsOnlyPartial
CHECK_DEADLOCK FALSE
