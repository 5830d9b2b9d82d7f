SPECIFICATION FairSpec
CONSTANTS
  p1 = p1
  p2 = p2
  a = a
  b = b
  c = c
  i1 = i1
  i2 = i2
  i3 = i3
  top = top
  sub = sub
  NoGrant = NoGrant
  NoInode = NoInode
  NoRequest = NoRequest
  NoCall = NoCall
  NoReview = NoReview
  g1 = g1
  r1 = r1
  r2 = r2
  Plans = {p1}
  Grants = {g1}
  Requests = {r1, r2}
  SrcOf <- SingleSrc
  DstOf <- SingleDst
  Names = {a, b}
  Inodes = {i1}
  Dirs = {top}
  DirOf <- OneDir
  InitNames <- OneFile
  InitDirs = {top}
  Actions = {"approve", "reject"}
  Faults = {"log_write", "log_update", "ledger", "audit", "link", "unlink", "rollback"}
  MaxCrashes = 1
  MaxEdits = 0
  MaxTtl = 1
  Skew = 0
  MaxTime = 0
PROPERTY EveryRequestAnswered
