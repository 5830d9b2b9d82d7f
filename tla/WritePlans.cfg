SPECIFICATION Spec
CONSTANTS
  patch = patch  artifact = artifact  chart = chart
  i1 = i1  i2 = i2  i3 = i3  i4 = i4
  WriteIds = {patch, artifact, chart}
  Kind <- MCKind  Source <- MCSource  Target <- MCTarget  ChartOf <- MCChartOf
  Charts = {"bar", "line"}
  Recommended <- MCRecommended
  Texts = {"draft", "final"}
  Found = {"draft"}
  Patched <- MCPatched
  Partial = Partial  Picture = Picture  NoText = NoText  NoCall = NoCall
  InitText <- MCInitText
  WriteFaults = {"write", "audit", "ledger"}
  Crashes = 1
  Plans <- MCPlans
  Grants = {g1, g2}
  NoGrant = NoGrant
  MaxTtl = 1  Skew = 0  MaxTime = 0
  Names = {"sheet", "script", "picture"}
  Inodes = {i1, i2, i3, i4}
  Dirs = {"top", "artifacts"}
  DirOf <- MCDirOf
  NoInode = NoInode
  InitNames <- MCInitNames
  InitDirs = {"top"}
  MaxEdits = 1
SYMMETRY GrantSymmetry
INVARIANTS
  PatchesOfReviewed
  WritesAreSigned
CHECK_DEADLOCK FALSE
