\* Two requests for one product, two scrapes side by side, two escalations.
SPECIFICATION AcqSpec
CONSTANTS
  Items = {i1, i2}
  Queries = {q1}
  Answers = {a1}
  Blank = Blank
  None = None
  Runs = {r1}
  Configs <- QueueConfigs
  MaxCache = 1
  MaxApprovals = 0
  MaxCrashes = 1
  Products = {p1}
  Names = {n1}
  Contents = {c1}
  Absent = Absent
  MaxRows = 1
  Requests = {d1, d2}
  Supported = {p1}
  Scrapes = {s1, s2}
  MaxGrants = 2
  MaxResults = 1
INVARIANTS AcqTypeOK NetworkApproved CloudCallsApproved OneScrapePerRequest PathsFiledOnce
PROPERTIES RequestDecisionsStand
SYMMETRY AcqSymmetry
