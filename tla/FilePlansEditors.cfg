SPECIFICATION Spec
CONSTANTS
  p1 = p1
  p2 = p2
  a = a
  b = b
  c = c
  i1 = i1
  i2 = i2
  i3 = i3
  top = top
  sub = sub
  NoGrant = NoGrant
  NoInode = NoInode
  NoRequest = NoRequest
  NoCall = NoCall
  NoReview = NoReview
  g1 = g1
  g2 = g2
  r1 = r1
  r2 = r2
  Plans = {p1}
  Grants = {g1, g2}
  Requests = {r1, r2}
  SrcOf <- SingleSrc
  DstOf <- SingleDst
  Names = {a, b}
  Inodes = {i1, i2}
  Dirs = {top}
  DirOf <- OneDir
  InitNames <- OneFile
  InitDirs = {top}
  Actions = {"approve"}
  Faults = {}
  MaxCrashes = 0
  MaxEdits = 2
  MaxTtl = 1
  Skew = 1
  MaxTime = 1
SYMMETRY Symmetry
INVARIANTS
  EveryMoveAuthorized
  PlanMovesOnce
  RightFileMoved
