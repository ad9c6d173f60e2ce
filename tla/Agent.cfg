SPECIFICATION Spec
CONSTANTS
  Convs = {c1}
  Chats = {q1, q2}
  Runs = {r1, r2, r3}
  Turns <- AgentTurns
  None = None
  MaxTurns = 3
SYMMETRY AgentSymmetry
INVARIANTS AgentTypeOK TurnsKeptWhole StopFindsTheRun SessionStands
PROPERTIES ConversationsStand
CHECK_DEADLOCK FALSE
