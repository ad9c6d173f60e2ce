\* One request, one escalation, products with and without a scraper.
SPECIFICATION AcqSpec
CONSTANTS
  Items = {i1}
  Queries = {q1}
  Answers = {a1, Blank}
  Blank = Blank
  None = None
  Runs = {r1}
  Configs <- RecordingConfigs
  MaxCache = 1
  MaxApprovals = 2
  MaxCrashes = 0
  Products = {p1, p2}
  Names = {n1}
  Contents = {c1}
  Absent = Absent
  MaxRows = 1
  Requests = {d1}
  Supported = {p1}
  Scrapes = {s1}
  MaxGrants = 2
  MaxResults = 1
PROPERTIES RequestsSettle ApprovedSettles
CHECK_DEADLOCK FALSE
