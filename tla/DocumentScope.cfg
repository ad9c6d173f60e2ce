\* A document moved to another scope, and a chat elsewhere that is led to it.
SPECIFICATION StoreSpec
CONSTANTS
  c1 = c1
  p1 = p1
  Docs = {d1, d2}
  Global = Global
  Clients = {c1}
  Projects = {p1}
  Conversations = {v1}
  ClientOf <- MCClientOf
  NumChunks = 1
  None = None
  Classes = {"public", "client"}
  MaxPatches = 1
  MaxFaults = 0
PROPERTY ContextInScope
CHECK_DEADLOCK FALSE
