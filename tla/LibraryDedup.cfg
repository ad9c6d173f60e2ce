\* Two products with one document, and the deletion of a row.
SPECIFICATION AcqSpec
CONSTANTS
  Items = {i1}
  Queries = {q1}
  Answers = {a1}
  Blank = Blank
  None = None
  Runs = {r1}
  Configs <- QueueConfigs
  MaxCache = 1
  MaxApprovals = 0
  MaxCrashes = 0
  Products = {p1, p2}
  Names = {n1}
  Contents = {c1}
  Absent = Absent
  MaxRows = 0
  Requests = {d1, d2, d3}
  Supported = {p1, p2}
  Scrapes = {s1}
  MaxGrants = 1
  MaxResults = 1
PROPERTY ResultsPointToFiles
CHECK_DEADLOCK FALSE
