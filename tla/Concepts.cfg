SPECIFICATION Spec
CONSTANTS
  Docs = {d1, d2}
  Global = Global
  Clients = {c1}
  Projects = {}
  Conversations = {}
  ClientOf <- MCClientOf
  NumChunks = 1
  None = None
  Classes = {"client"}
  MaxPatches = 1
  MaxFaults = 1
SYMMETRY DocSymmetry
INVARIANTS
  IndexTypeOK
  ListedIsInProgress
  ReindexProgress
  VocabularyStaysHome
CHECK_DEADLOCK FALSE
