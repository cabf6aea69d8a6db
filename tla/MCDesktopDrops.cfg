SPECIFICATION DesktopSpec
CONSTANTS
  d1 = d1
  o1 = o1
  s1 = s1
  s2 = s2
  f1 = f1
  notes = notes
  workNotes = workNotes
  g1 = g1
  g2 = g2
  m1 = m1
  fa = fa
  fb = fb
  r1 = r1
  r2 = r2
  t1 = t1
  t2 = t2
  k1 = k1
  p1 = p1
  p2 = p2
  c1 = c1
  c2 = c2
  Parts = {"share"}
  Writers = {1, 2}
  Letters = {1}
  Source <- OneLetter
  MaxOperations = 3
  MaxEdits = 2
  FilesMayFail = {1}
  Devices = {d1}
  Drops = {o1}
  MaxLate = 1
  Senders = {s1, s2}
  LeaseTime = 1
  MaxClock = 1
  MaxBlocks = 2
  MaxSends = 2
  ProtonFiles = {f1}
  MaxSaves = 3
  ChangeLimit = 1
  ChangePercent = 50
  MaxMounts = 2
  MaxRetries = 1
  CacheFiles = {notes, workNotes}
  SamePath <- SamePathPairs
  CacheQuota = 1
  MaxChanges = 2
  Retention = 1
  MaxDays = 2
  MaxContents = 2
  MaxArchives = 3
  GitFiles = {g1, g2}
  MaxDelete = 2
  MaxGitEdits = 3
  Indexed <- TwoFiles
  MaxEntries = 2
  Refreshers = {r1, r2}
  MaxFileChanges = 2
  MaxReleases = 2
  MaxChecks = 2
  MaxDownloads = 2
  Installers = {t1, t2}
  MaxWizards = 2
  Keys = {k1}
  MaxRestarts = 2
  MaxDialogs = 2
  MaxProtonRuns = 2
  Callers = {c1, c2}
  MaxConfigs = 3
  Operations = {1, 2}
  Paths = {p1, p2}
  MaxRequests = 3
CONSTRAINTS Followed Bounded
CHECK_DEADLOCK FALSE
INVARIANT UsedDropIsRevoked
