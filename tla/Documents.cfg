SPECIFICATION StoreSpec
CONSTANTS
  c1 = c1
  p1 = p1
  Docs = {d1, d2}
  Global = Global
  Clients = {c1}
  Projects = {p1}
  Conversations = {v1}
  ClientOf <- MCClientOf
  NumChunks = 1
  None = None
  Classes = {"public", "client"}
  MaxPatches = 2
  MaxFaults = 2
SYMMETRY DocSymmetry
INVARIANTS
  StoreTypeOK
  VectorsMatchRows
  ConfidentialScopes
PROPERTIES
  SearchFlagsClientDocs
  DeletedNeverQuoted
CHECK_DEADLOCK FALSE
