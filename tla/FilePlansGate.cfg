SPECIFICATION Spec
CONSTANTS
  p1 = p1
  p2 = p2
  a = a
  b = b
  c = c
  i1 = i1
  i2 = i2
  i3 = i3
  top = top
  sub = sub
  NoGrant = NoGrant
  NoInode = NoInode
  NoRequest = NoRequest
  NoCall = NoCall
  NoReview = NoReview
  g1 = g1
  g2 = g2
  r1 = r1
  r2 = r2
  Plans = {p1, p2}
  Grants = {g1, g2}
  Requests = {r1, r2}
  SrcOf <- CompeteSrc
  DstOf <- CompeteDst
  Names = {a, b, c}
  Inodes = {i1, i2}
  Dirs = {top, sub}
  DirOf <- SubForC
  InitNames <- TwoFiles
  InitDirs = {top}
  Actions = {"approve", "reject"}
  Faults = {"audit", "unlink"}
  MaxCrashes = 1
  MaxEdits = 0
  MaxTtl = 1
  Skew = 0
  MaxTime = 0
SYMMETRY Symmetry
INVARIANTS
  GrantsSingleUse
  FilesKeepOneName
  RecordsTellMoved
  TouchedPlansGoStale
PROPERTY ImplementsMoveGate
