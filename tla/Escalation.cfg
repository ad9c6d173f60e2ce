\* Two rows, two runs, two query classes, every deployment.
SPECIFICATION Spec
CONSTANTS
  Items = {i1, i2}
  Queries = {q1, q2}
  Answers = {a1, Blank}
  Blank = Blank
  None = None
  Runs = {r1, r2}
  Configs <- Deployments
  MaxCache = 1
  MaxApprovals = 2
  MaxCrashes = 1
INVARIANTS TypeOK ClientDataGated OneRunPerItem AnswersAreGenuine
PROPERTIES DecisionsStand CacheKeepsNewest ImplementsGate
SYMMETRY Symmetry
