----------------------------- MODULE AgentProofs -----------------------------
(***************************************************************************)
(* Proofs about agent turns beside plain chats, for every set of           *)
(* conversations, chats and turns and every bound.                         *)
(***************************************************************************)
EXTENDS AgentSession, TLAPS, SequenceTheorems

-----------------------------------------------------------------------------
(* The registry, the sessions and the turns, without what is said.         *)

AgentTypes ==
  /\ turn \in [Runs -> Turn]
  /\ active \in [Convs -> Runs \cup {None}]
  /\ session \in [Convs -> Sessions \cup {None}]
  /\ sidecar \in [Runs -> Statuses \cup {None}]
  /\ hermes \in [Runs -> Sessions \cup {None}]
  /\ overlapped \subseteq Runs
  /\ resuming \subseteq Runs
  /\ halved \subseteq Runs

SessionInv ==
  /\ AgentTypes /\ TurnsWellFormed /\ OverlapsSeen /\ StopFindsTheRun
  /\ SessionsOpened /\ ResumesSession /\ SessionStands

ConvInv == ConvTypeOK /\ ChatsWellFormed

(* A conversation stays in the table's history.                            *)
KnownStays == \A c \in Convs : Known(c) => Known(c)'

LEMMA NoneIsNothing == None \notin Convs /\ None \notin Runs /\ None \notin Turns
BY ConversationAssumption, AgentAssumption

(* Steps that leave the turns, the registry and the sessions alone.        *)
LEMMA SessionFrame ==
  ASSUME SessionInv, UNCHANGED agentVars, KnownStays
  PROVE  SessionInv'
<1> USE DEF agentVars, SessionInv
<1>1. AgentTypes' /\ OverlapsSeen' /\ StopFindsTheRun' /\ SessionsOpened' /\ ResumesSession' /\ SessionStands'
  BY DEF AgentTypes, OverlapsSeen, StopFindsTheRun, SessionsOpened, ResumesSession, SessionStands,
         Live, Relays, OpenedIn
<1>2. TurnsWellFormed'
  BY DEF TurnsWellFormed, KnownStays, Known, Live
<1>3. QED
  BY <1>1, <1>2

(* A turn that goes on streaming, breaks or is being stopped.              *)
LEMMA RelayGoesOn ==
  ASSUME SessionInv, KnownStays, NEW t \in Runs, Relays(t), NEW x \in Turn,
         turn' = [turn EXCEPT ![t] = x],
         x.conv = turn[t].conv, x.session = turn[t].session,
         x.stage \in {"streaming", "broken", "stopping"},
         UNCHANGED <<active, session, sidecar, hermes, overlapped, resuming, halved>>
  PROVE  SessionInv'
<1> USE DEF SessionInv
<1>1. /\ turn' \in [Runs -> Turn]
      /\ \A u \in Runs : turn'[u].conv = turn[u].conv /\ turn'[u].session = turn[u].session
      /\ \A u \in Runs : Live(u)' <=> Live(u)
      /\ \A u \in Runs : Relays(u)' <=> Relays(u)
      /\ \A u \in Runs : turn'[u].stage = "creating" <=> turn[u].stage = "creating"
      /\ \A u \in Runs : turn'[u].stage = "mapping" <=> turn[u].stage = "mapping"
      /\ \A u \in Runs : turn'[u].stage = "idle" <=> turn[u].stage = "idle"
      /\ \A u \in Runs : turn'[u].stage = "ended" <=> turn[u].stage = "ended"
  BY DEF AgentTypes, Live, Relays
<1>2. AgentTypes'
  BY <1>1 DEF AgentTypes
<1>3. TurnsWellFormed'
  BY <1>1 DEF TurnsWellFormed, KnownStays, Known
<1>4. OverlapsSeen'
  BY <1>1 DEF OverlapsSeen
<1>5. StopFindsTheRun'
  <2>1. \A c \in Convs : active[c] # None => active[c] \in Runs
    BY DEF AgentTypes
  <2>2. QED
    BY <1>1, <2>1 DEF StopFindsTheRun
<1>6. SessionsOpened' /\ SessionStands'
  <2>1. \A c \in Convs : session[c] # None => session[c] \in Runs
    BY DEF AgentTypes, Sessions
  <2>2. \A u \in Runs : /\ hermes[u] # None => hermes[u] \in Runs
                        /\ turn[u].session # None => turn[u].session \in Runs
    BY DEF AgentTypes, Sessions, Turn
  <2>3. \A s \in Runs : \A c : OpenedIn(s, c) => OpenedIn(s, c)'
    BY <1>1 DEF OpenedIn
  <2>4. SessionStands'
    BY <1>1, <2>1 DEF SessionStands, AgentTypes
  <2>5. SessionsOpened'
    BY <1>1, <2>2, <2>3 DEF SessionsOpened
  <2>6. QED
    BY <2>4, <2>5
<1>7. ResumesSession'
  BY <1>1 DEF ResumesSession, AgentTypes
<1>8. QED
  BY <1>2, <1>3, <1>4, <1>5, <1>6, <1>7

(* The conversation of a turn that is not idle.                            *)
LEMMA TurnsConv ==
  ASSUME SessionInv, NEW t \in Runs, turn[t].stage # "idle"
  PROVE  turn[t].conv \in Convs /\ Known(turn[t].conv)
BY DEF SessionInv, TurnsWellFormed, Known

(* A turn begins in a conversation.                                        *)
LEMMA TurnBegins ==
  ASSUME SessionInv, KnownStays, NEW t \in Runs, NEW c \in Convs, turn[t].stage = "idle",
         TurnInto(t, c), Known(c)'
  PROVE  SessionInv'
<1> USE NoneIsNothing DEF SessionInv
<1> DEFINE others == {u \in Runs : Live(u) /\ turn[u].conv = c}
<1>0. AgentTypes
  OBVIOUS
<1>1. /\ turn'[t].stage = "creating" /\ turn'[t].conv = c /\ turn'[t].session = session[c]
      /\ turn' \in [Runs -> Turn]
      /\ \A u \in Runs : u # t => turn'[u] = turn[u]
      /\ UNCHANGED <<active, session, sidecar, hermes, halved>>
  BY DEF TurnInto, Resumed, NoTurn, AgentTypes, Turn, Stages, Statuses
<1>2. /\ overlapped' = overlapped \cup others \cup (IF others = {} THEN {} ELSE {t})
      /\ resuming' = IF session[c] = None THEN resuming ELSE resuming \cup {t}
  BY DEF TurnInto
<1>3. /\ turn[t].conv = None /\ t \notin overlapped \cup resuming
      /\ sidecar[t] = None /\ hermes[t] = None
  BY DEF TurnsWellFormed
<1>4. AgentTypes'
  BY <1>1, <1>2 DEF AgentTypes
<1>5. TurnsWellFormed'
  <2>1. t \notin others
    BY DEF Live
  <2>2. ASSUME NEW u \in Runs, u # t
        PROVE  u \in overlapped' \cup resuming' => u \in overlapped \cup resuming \/ Live(u)
    BY <1>2, <2>2
  <2>3. QED
    BY <1>1, <1>3, <2>2 DEF TurnsWellFormed, KnownStays, Known, Live
<1>6. OverlapsSeen'
  <2>1. \A u \in Runs : u # t => (Live(u)' <=> Live(u))
    BY <1>1 DEF Live
  <2>2. ASSUME NEW u \in Runs, u # t, Live(u), turn[u].conv = c
        PROVE  u \in overlapped' /\ t \in overlapped'
    BY <1>2, <2>2
  <2>3. overlapped \subseteq overlapped'
    BY <1>2
  <2>4. ASSUME NEW u \in Runs, NEW v \in Runs, u # v, Live(u)', Live(v)', turn'[u].conv = turn'[v].conv
        PROVE  u \in overlapped'
    <3>1. CASE u = t
      BY <1>1, <2>1, <2>2, <2>4, <3>1
    <3>2. CASE v = t
      BY <1>1, <2>1, <2>2, <2>4, <3>2
    <3>3. CASE u # t /\ v # t
      BY <1>1, <2>1, <2>3, <2>4, <3>3 DEF OverlapsSeen
    <3>4. QED
      BY <3>1, <3>2, <3>3
  <2>5. QED
    BY <2>4 DEF OverlapsSeen
<1>7. StopFindsTheRun'
  <2>1. \A d \in Convs : active[d] # None => active[d] \in Runs \ {t}
    BY <1>0 DEF AgentTypes, StopFindsTheRun, Relays
  <2>2. \A u \in Runs : Relays(u)' <=> u # t /\ Relays(u)
    BY <1>1 DEF Relays
  <2>3. Runs \ overlapped' \subseteq Runs \ overlapped
    BY <1>2
  <2>4. QED
    BY <1>1, <2>1, <2>2, <2>3 DEF StopFindsTheRun
<1>8. SessionsOpened' /\ SessionStands'
  <2>1. \A s \in Runs, d \in Convs : OpenedIn(s, d) => OpenedIn(s, d)'
    BY <1>1, <1>3 DEF OpenedIn
  <2>2. \A d \in Convs : session[d] # None => session[d] \in Runs /\ OpenedIn(session[d], d)
    BY <1>0 DEF AgentTypes, Sessions, SessionStands, OpenedIn
  <2>3. \A u \in Runs \ {t} :
          /\ hermes[u] # None => hermes[u] \in Runs /\ turn[u].conv \in Convs
          /\ turn[u].session # None => turn[u].session \in Runs /\ turn[u].conv \in Convs
    <3>1. \A u \in Runs : /\ hermes[u] # None => hermes[u] \in Runs
                          /\ turn[u].session # None => turn[u].session \in Runs
      BY <1>0 DEF AgentTypes, Sessions, Turn
    <3>2. \A s, d : OpenedIn(s, d) /\ s \in Runs => hermes[s] # None /\ turn[s].conv = d
      BY DEF OpenedIn
    <3>3. \A u \in Runs : hermes[u] # None => turn[u].conv \in Convs
      BY TurnsConv DEF TurnsWellFormed
    <3>4. QED
      BY <3>1, <3>2, <3>3 DEF SessionsOpened
  <2>4. SessionsOpened'
    BY <1>1, <1>3, <2>1, <2>2, <2>3 DEF SessionsOpened
  <2>5. \A d \in Convs : session'[d] # None => hermes'[session'[d]] = session'[d] /\ turn'[session'[d]].conv = d
    BY <1>1, <2>1, <2>2 DEF OpenedIn
  <2>6. \A u \in resuming' \ overlapped' : u = t \/ u \in (resuming \ overlapped) \ {t}
    BY <1>2, <1>3
  <2>7. \A u \in resuming' \ overlapped' : hermes'[u] # None => hermes'[u] = session'[turn'[u].conv]
    BY <1>0, <1>1, <1>3, <2>6 DEF SessionStands, AgentTypes
  <2>8. QED
    BY <2>4, <2>5, <2>7 DEF SessionStands
<1>9. ResumesSession'
  <2>1. ASSUME NEW v \in resuming'
        PROVE  /\ session'[turn'[v].conv] # None
               /\ v \notin overlapped' =>
                    /\ turn'[v].stage = "creating" => turn'[v].session = session'[turn'[v].conv]
                    /\ \A u \in Runs : turn'[u].conv = turn'[v].conv => turn'[u].stage # "mapping"
    <3>1. CASE v = t
      <4>1. session[c] # None
        BY <1>2, <1>3, <2>1, <3>1
      <4>2. ASSUME t \notin overlapped', NEW u \in Runs, turn'[u].conv = c
            PROVE  turn'[u].stage # "mapping"
        <5>1. others = {}
          BY <1>2, <4>2
        <5>2. CASE u = t
          BY <1>1, <5>2
        <5>3. CASE u # t
          BY <1>1, <4>2, <5>1, <5>3 DEF Live
        <5>4. QED
          BY <5>2, <5>3
      <4>3. QED
        BY <1>1, <3>1, <4>1, <4>2
    <3>2. CASE v # t
      <4>1. v \in resuming /\ v \in Runs /\ turn'[v] = turn[v]
        BY <1>0, <1>1, <1>2, <2>1, <3>2 DEF AgentTypes
      <4>2. v \notin overlapped' => v \notin overlapped
        BY <1>2
      <4>3. QED
        BY <1>1, <4>1, <4>2 DEF ResumesSession
    <3>3. QED
      BY <3>1, <3>2
  <2>2. QED
    BY <2>1 DEF ResumesSession
<1>10. QED
  BY <1>4, <1>5, <1>6, <1>7, <1>8, <1>9

(* hermes has made the run: it streams, in a session of its conversation.  *)
LEMMA RunCreatedKeeps ==
  ASSUME SessionInv, KnownStays, NEW t \in Runs, RunCreated(t)
  PROVE  SessionInv'
<1> USE NoneIsNothing DEF SessionInv
<1>0. AgentTypes /\ turn[t].stage = "creating"
  BY DEF RunCreated
<1> PICK c \in Convs : c = turn[t].conv
  BY <1>0, TurnsConv
<1>1. /\ turn[t].stage = "creating" /\ hermes[t] = None
      /\ turn[t].session \in Runs \cup {None}
  BY <1>0 DEF TurnsWellFormed, AgentTypes, Turn, Sessions
<1> PICK s \in Runs : s = IF turn[t].session = None THEN t ELSE turn[t].session
  BY <1>1
<1>2. /\ turn' \in [Runs -> Turn]
      /\ turn'[t].stage = "streaming" /\ turn'[t].conv = c /\ turn'[t].session = None
      /\ \A u \in Runs : u # t => turn'[u] = turn[u]
      /\ UNCHANGED <<session, sidecar, overlapped, resuming, halved>>
  <2>a. UNCHANGED <<session, sidecar, overlapped, resuming, halved>>
    BY DEF RunCreated
  <2>1. turn' = [turn EXCEPT ![t] = [turn[t] EXCEPT !.stage = "streaming", !.session = None]]
    BY <1>0 DEF RunCreated, AgentTypes, Turn
  <2>2. [turn[t] EXCEPT !.stage = "streaming", !.session = None] \in Turn
    <3>1. turn[t] \in Turn /\ "streaming" \in Stages
      BY <1>0 DEF AgentTypes, Stages
    <3>2. QED
      BY <3>1 DEF Turn
  <2>3. QED
    BY <1>0, <2>1, <2>2, <2>a DEF AgentTypes, Turn
<1>3. hermes' = [hermes EXCEPT ![t] = s] /\ active' = [active EXCEPT ![c] = t]
  BY <1>1 DEF RunCreated
<1>4. /\ hermes'[t] = s /\ \A u \in Runs : u # t => hermes'[u] = hermes[u]
      /\ active'[c] = t /\ \A d \in Convs : d # c => active'[d] = active[d]
  BY <1>0, <1>1, <1>3 DEF AgentTypes
<1>5. /\ hermes'[s] = s /\ turn'[s].conv = c
      /\ \A x \in Runs, d \in Convs : OpenedIn(x, d) => hermes'[x] = x /\ turn'[x].conv = d
  <2>1. \A x \in Runs, d \in Convs : OpenedIn(x, d) => x # t
    BY <1>1, NoneIsNothing DEF OpenedIn
  <2>2. \A x \in Runs, d \in Convs : OpenedIn(x, d) => hermes'[x] = x /\ turn'[x].conv = d
    BY <1>2, <1>4, <2>1 DEF OpenedIn
  <2>3. CASE turn[t].session = None
    BY <1>2, <1>4, <2>2, <2>3
  <2>4. CASE turn[t].session # None
    <3>1. OpenedIn(s, c)
      BY <1>1, <2>4 DEF SessionsOpened
    <3>2. QED
      BY <2>2, <3>1
  <2>5. QED
    BY <2>2, <2>3, <2>4
<1>7. AgentTypes'
  BY <1>0, <1>2, <1>3 DEF AgentTypes, Sessions
<1>8. TurnsWellFormed'
  BY <1>1, <1>2, <1>4 DEF TurnsWellFormed, KnownStays, Known, Live
<1>9. OverlapsSeen'
  BY <1>1, <1>2 DEF OverlapsSeen, Live
<1>10. StopFindsTheRun'
  <2>1. ASSUME NEW d \in Convs, NEW r \in Runs, active'[d] = r
        PROVE  turn'[r].conv = d /\ Relays(r)'
    <3>1. CASE d = c
      BY <1>2, <1>4, <2>1, <3>1 DEF Relays
    <3>2. CASE d # c
      <4>1. turn[r].conv = d /\ Relays(r)
        BY <1>4, <2>1, <3>2 DEF StopFindsTheRun
      <4>2. r # t
        BY <1>1, <4>1 DEF Relays
      <4>3. QED
        BY <1>2, <4>1, <4>2 DEF Relays
    <3>3. QED
      BY <3>1, <3>2
  <2>2. ASSUME NEW u \in Runs \ overlapped', Relays(u)'
        PROVE  active'[turn'[u].conv] = u
    <3>1. CASE u = t
      BY <1>2, <1>4, <3>1
    <3>2. CASE u # t
      <4>1. Relays(u) /\ turn'[u] = turn[u] /\ u \notin overlapped
        BY <1>2, <2>2, <3>2 DEF Relays
      <4>2. turn[u].conv # c
        BY <1>1, <3>2, <4>1 DEF OverlapsSeen, Live, Relays
      <4>3. turn[u].conv \in Convs
        BY <4>1, TurnsConv DEF Relays
      <4>4. QED
        BY <1>4, <4>1, <4>2, <4>3 DEF StopFindsTheRun
    <3>3. QED
      BY <3>1, <3>2
  <2>3. \A d \in Convs : active'[d] # None => active'[d] \in Runs
    BY <1>7 DEF AgentTypes
  <2>4. QED
    BY <2>1, <2>2, <2>3 DEF StopFindsTheRun, Relays
<1>11. SessionsOpened'
  <2>1. ASSUME NEW u \in Runs, NEW x, x # None, x = hermes'[u] \/ x = turn'[u].session
        PROVE  hermes'[x] = x /\ turn'[x].conv = turn'[u].conv
    <3>1. CASE u = t
      BY <1>2, <1>4, <1>5, <2>1, <3>1
    <3>2. CASE u # t
      <4>1. x \in Runs /\ OpenedIn(x, turn[u].conv) /\ turn'[u].conv = turn[u].conv
        BY <1>0, <1>2, <1>4, <2>1, <3>2 DEF AgentTypes, Turn, Sessions, SessionsOpened
      <4>2. turn[x].conv \in Convs
        BY <4>1, TurnsConv DEF TurnsWellFormed, OpenedIn
      <4>3. QED
        BY <1>5, <4>1, <4>2 DEF OpenedIn
    <3>3. QED
      BY <3>1, <3>2
  <2>2. QED
    BY <2>1 DEF SessionsOpened, OpenedIn
<1>12. ResumesSession'
  BY <1>0, <1>1, <1>2 DEF ResumesSession, AgentTypes
<1>13. SessionStands'
  <2>1. ASSUME NEW u \in resuming' \ overlapped', hermes'[u] # None
        PROVE  hermes'[u] = session'[turn'[u].conv]
    <3>1. u \in resuming \ overlapped /\ u \in Runs
      BY <1>0, <1>2, <2>1 DEF AgentTypes
    <3>2. CASE u = t
      <4>1. turn[t].session = session[c] /\ session[c] # None
        BY <1>1, <3>1, <3>2 DEF ResumesSession
      <4>2. QED
        BY <1>2, <1>4, <3>2, <4>1
    <3>3. CASE u # t
      BY <1>2, <1>4, <2>1, <3>1, <3>3 DEF SessionStands
    <3>4. QED
      BY <3>2, <3>3
  <2>2. ASSUME NEW d \in Convs, session'[d] # None
        PROVE  hermes'[session'[d]] = session'[d] /\ turn'[session'[d]].conv = d
    <3>1. session[d] \in Runs /\ OpenedIn(session[d], d) /\ session'[d] = session[d]
      BY <1>0, <1>2, <2>2 DEF AgentTypes, Sessions, SessionStands, OpenedIn
    <3>2. QED
      BY <1>5, <3>1
  <2>3. QED
    BY <2>1, <2>2 DEF SessionStands
<1>14. QED
  BY <1>7, <1>8, <1>9, <1>10, <1>11, <1>12, <1>13

(* A turn that ends, or waits for the session hermes ran it in because its *)
(* conversation has none: its entry in the registry goes.                  *)
LEMMA TurnLeaves ==
  ASSUME SessionInv, KnownStays, NEW t \in Runs, Live(t), NEW x \in Turn,
         turn' = [turn EXCEPT ![t] = x],
         x.conv = turn[t].conv, x.session \in {None, turn[t].session},
         \/ x.stage = "ended"
         \/ x.stage = "mapping" /\ Relays(t) /\ session[turn[t].conv] = None
            /\ UNCHANGED <<session, sidecar>>,
         NEW status \in Statuses \cup {None}, sidecar' = [sidecar EXCEPT ![t] = status],
         active' = Popped(t) \/ (~Relays(t) /\ active' = active),
         \/ session' = session
         \/ turn[t].stage = "mapping" /\ session' = Mapped(t),
         UNCHANGED <<hermes, overlapped, resuming, halved>>
  PROVE  SessionInv'
<1> USE NoneIsNothing DEF SessionInv
<1>0. AgentTypes
  OBVIOUS
<1>1. turn[t].stage \notin {"idle", "ended"}
  BY DEF Live
<1> PICK c \in Convs : c = turn[t].conv
  BY <1>1, TurnsConv
<1>2. /\ turn' \in [Runs -> Turn] /\ turn'[t] = x
      /\ \A u \in Runs : u # t => turn'[u] = turn[u]
      /\ \A u \in Runs : turn'[u].conv = turn[u].conv /\ turn'[u].session \in {None, turn[u].session}
  BY <1>0 DEF AgentTypes
<1>3. /\ \A d \in Convs : d # c => active'[d] = active[d]
      /\ active'[c] = None \/ (~Relays(t) /\ active'[c] = active[c])
      /\ active' \in [Convs -> Runs \cup {None}]
  BY <1>0, <1>1 DEF AgentTypes, Popped
<1>4. /\ session' \in [Convs -> Sessions \cup {None}]
      /\ \A d \in Convs : d # c => session'[d] = session[d]
      /\ session'[c] = session[c] \/ (turn[t].stage = "mapping" /\ session'[c] = hermes[t])
  BY <1>0, <1>1 DEF AgentTypes, Mapped
<1>6. AgentTypes'
  BY <1>0, <1>2, <1>3, <1>4 DEF AgentTypes
<1>7. \A u \in Runs : Live(u)' => Live(u)
  BY <1>2 DEF Live
<1>8. \A u \in Runs : Relays(u)' <=> (u # t /\ Relays(u))
  BY <1>2 DEF Relays
<1>9. TurnsWellFormed'
  <2>1. ASSUME NEW u \in Runs, NEW d, d = turn[u].conv
        PROVE  /\ turn'[u].stage = "idle" => d = None /\ u \notin overlapped \cup resuming
               /\ turn'[u].stage # "idle" => Known(d)'
               /\ turn'[u].stage # "ended" => sidecar'[u] = None
               /\ turn'[u].stage \in {"idle", "creating"} => hermes[u] = None
               /\ Live(u)' /\ turn'[u].stage # "creating" => hermes[u] # None
    <3>1. CASE u = t
      <4>1. Known(d)'
        BY <1>1, <2>1, <3>1, TurnsConv DEF KnownStays
      <4>2. x.stage # "ended" => sidecar'[t] = None /\ hermes[t] # None
        BY <1>1 DEF TurnsWellFormed, Relays, Live
      <4>3. x.stage \in {"ended", "mapping"} /\ turn'[u] = x
        BY <1>2, <3>1
      <4>4. QED
        BY <3>1, <4>1, <4>2, <4>3 DEF Live
    <3>2. CASE u # t
      <4>1. turn'[u] = turn[u] /\ sidecar'[u] = sidecar[u] /\ (Live(u)' => Live(u))
        BY <1>0, <1>2, <1>7, <3>2 DEF AgentTypes
      <4>2. turn[u].stage # "idle" => Known(d)'
        BY <2>1, TurnsConv DEF KnownStays
      <4>3. QED
        BY <2>1, <4>1, <4>2 DEF TurnsWellFormed
    <3>3. QED
      BY <3>1, <3>2
  <2>2. QED
    BY <1>2, <2>1 DEF TurnsWellFormed, Known
<1>10. OverlapsSeen'
  BY <1>2, <1>7 DEF OverlapsSeen
<1>11. StopFindsTheRun'
  <2>1. ASSUME NEW d \in Convs, NEW r \in Runs, active'[d] = r
        PROVE  turn'[r].conv = d /\ Relays(r)'
    <3>1. active[d] = r /\ (d = c => ~Relays(t))
      BY <1>3, <2>1, NoneIsNothing
    <3>2. turn[r].conv = d /\ Relays(r)
      BY <3>1 DEF StopFindsTheRun
    <3>3. r # t
      BY <3>1, <3>2
    <3>4. QED
      BY <1>2, <1>8, <3>2, <3>3
  <2>2. ASSUME NEW u \in Runs \ overlapped', Relays(u)'
        PROVE  active'[turn'[u].conv] = u
    <3>1. u # t /\ Relays(u) /\ u \in Runs \ overlapped
      BY <1>8, <2>2
    <3>2. turn[u].conv # c /\ turn[u].conv \in Convs
      <4>1. Live(u) /\ turn[u].stage # "idle"
        BY <3>1 DEF Live, Relays
      <4>2. QED
        BY <3>1, <4>1, TurnsConv DEF OverlapsSeen
    <3>3. QED
      BY <1>2, <1>3, <3>1, <3>2 DEF StopFindsTheRun
  <2>3. \A d \in Convs : active'[d] # None => active'[d] \in Runs
    BY <1>6 DEF AgentTypes
  <2>4. QED
    BY <2>1, <2>2, <2>3 DEF StopFindsTheRun, Relays
<1>12. \A s \in Runs : \A d : OpenedIn(s, d) => hermes'[s] = s /\ turn'[s].conv = d
  BY <1>2 DEF OpenedIn
<1>13. SessionsOpened'
  <2>1. ASSUME NEW u \in Runs, NEW y, y # None, y = hermes'[u] \/ y = turn'[u].session
        PROVE  hermes'[y] = y /\ turn'[y].conv = turn'[u].conv
    <3>1. y \in Runs /\ OpenedIn(y, turn[u].conv)
      BY <1>0, <1>2, <2>1 DEF AgentTypes, Turn, Sessions, SessionsOpened
    <3>2. QED
      BY <1>2, <1>12, <3>1
  <2>2. QED
    BY <2>1 DEF SessionsOpened, OpenedIn
<1>14. ASSUME NEW v \in resuming
       PROVE  /\ v \in Runs /\ turn[v].conv \in Convs
              /\ session'[turn[v].conv] # None
              /\ v \notin overlapped => session'[turn[v].conv] = session[turn[v].conv]
  <2>1. v \in Runs /\ turn[v].conv \in Convs
    BY <1>0, TurnsConv DEF AgentTypes, TurnsWellFormed
  <2>2. session[turn[v].conv] # None
    BY DEF ResumesSession
  <2>3. turn[t].stage = "mapping" => hermes[t] # None
    BY <1>1 DEF TurnsWellFormed, Live
  <2>4. v \notin overlapped /\ turn[v].conv = c => turn[t].stage # "mapping"
    BY DEF ResumesSession
  <2>5. QED
    BY <1>4, <2>1, <2>2, <2>3, <2>4
<1>15. ResumesSession'
  <2>1. ASSUME NEW v \in resuming'
        PROVE  /\ session'[turn'[v].conv] # None
               /\ v \notin overlapped' =>
                    /\ turn'[v].stage = "creating" => turn'[v].session = session'[turn'[v].conv]
                    /\ \A u \in Runs : turn'[u].conv = turn'[v].conv => turn'[u].stage # "mapping"
    <3>1. v \in resuming /\ v \in Runs /\ turn'[v].conv = turn[v].conv
      BY <1>2, <1>14
    <3>2. turn'[v].stage = "creating" => v # t /\ turn'[v] = turn[v]
      BY <1>2, <3>1
    <3>3. x.stage = "mapping" => turn[v].conv # c
      BY <1>1, <3>1 DEF ResumesSession
    <3>4. ASSUME v \notin overlapped, NEW u \in Runs, turn'[u].conv = turn'[v].conv
          PROVE  turn'[u].stage # "mapping"
      BY <1>2, <3>1, <3>3, <3>4 DEF ResumesSession
    <3>5. QED
      BY <1>14, <3>1, <3>2, <3>4 DEF ResumesSession
  <2>2. QED
    BY <2>1 DEF ResumesSession
<1>16. SessionStands'
  <2>1. ASSUME NEW v \in resuming' \ overlapped', hermes'[v] # None
        PROVE  hermes'[v] = session'[turn'[v].conv]
    BY <1>2, <1>14, <2>1 DEF SessionStands
  <2>2. ASSUME NEW d \in Convs, session'[d] # None
        PROVE  hermes'[session'[d]] = session'[d] /\ turn'[session'[d]].conv = d
    <3>1. CASE session'[d] = session[d]
      <4>1. session[d] \in Runs /\ OpenedIn(session[d], d)
        BY <1>0, <2>2, <3>1 DEF AgentTypes, Sessions, SessionStands, OpenedIn
      <4>2. QED
        BY <1>12, <3>1, <4>1 DEF OpenedIn
    <3>2. CASE session'[d] # session[d]
      <4>1. d = c /\ session'[d] = hermes[t] /\ hermes[t] \in Runs
        BY <1>0, <1>4, <2>2, <3>2 DEF AgentTypes, Sessions
      <4>2. OpenedIn(hermes[t], c)
        BY <2>2, <4>1 DEF SessionsOpened
      <4>3. QED
        BY <1>12, <4>1, <4>2 DEF OpenedIn
    <3>3. QED
      BY <3>1, <3>2
  <2>3. QED
    BY <2>1, <2>2 DEF SessionStands
<1>17. QED
  BY <1>6, <1>9, <1>10, <1>11, <1>13, <1>15, <1>16

LEMMA AgentCrashKeeps ==
  ASSUME SessionInv, KnownStays, Crash
  PROVE  SessionInv'
<1> USE NoneIsNothing DEF SessionInv
<1>0. AgentTypes
  OBVIOUS
<1>1. /\ \A t \in Runs : turn'[t] = IF Live(t) THEN Over(t) ELSE turn[t]
      /\ turn' = [t \in Runs |-> turn'[t]]
      /\ active' = [c \in Convs |-> None]
      /\ UNCHANGED <<hermes, overlapped, resuming>>
  BY DEF Crash
<1>a. sidecar' = sidecar /\ (halved' = halved \/ \E t \in Runs : halved' = halved \cup {t})
  BY DEF Crash, CutOff
<1>b. \/ session' = session
      \/ \E t \in Runs : turn[t].stage = "mapping" /\ session' = Mapped(t)
  BY DEF Crash, CutOff
<1>c. ASSUME NEW d \in Convs, session'[d] # session[d]
      PROVE  \E u \in Runs : /\ turn[u].stage = "mapping" /\ turn[u].conv = d
                            /\ session'[d] = hermes[u] /\ OpenedIn(hermes[u], d)
                            /\ hermes[u] \in Runs
  <2>1. PICK u \in Runs : turn[u].stage = "mapping" /\ session' = Mapped(u)
    BY <1>b, <1>c
  <2>2. turn[u].conv = d /\ session'[d] = hermes[u]
    BY <1>0, <1>c, <2>1 DEF Mapped, AgentTypes
  <2>3. hermes[u] # None /\ hermes[u] \in Runs
    BY <1>0, <2>1 DEF TurnsWellFormed, Live, AgentTypes, Sessions
  <2>4. QED
    BY <2>1, <2>2, <2>3 DEF SessionsOpened
<1>d. session' \in [Convs -> Sessions \cup {None}]
  <2>1. ASSUME NEW u \in Runs, turn[u].stage = "mapping", session' = Mapped(u)
        PROVE  session' \in [Convs -> Sessions \cup {None}]
    <3>1. hermes[u] \in Sessions \cup {None}
      BY <1>0 DEF AgentTypes
    <3>2. QED
      BY <1>0, <2>1, <3>1 DEF Mapped, AgentTypes
  <2>2. QED
    BY <1>0, <1>b, <2>1 DEF AgentTypes
<1>2. \A t \in Runs :
        /\ turn'[t] \in Turn /\ turn'[t].conv = turn[t].conv /\ ~Live(t)' /\ ~Relays(t)'
        /\ turn'[t].stage = "idle" <=> turn[t].stage = "idle"
        /\ turn'[t].stage \in {"idle", "ended"}
        /\ turn'[t].session \in {None, turn[t].session}
  <2>1. ASSUME NEW t \in Runs
        PROVE  /\ Over(t) \in Turn /\ Over(t).conv = turn[t].conv
               /\ Over(t).stage = "ended" /\ Over(t).session = None
    BY <1>0 DEF AgentTypes, Over, NoTurn, Turn, Stages, Statuses
  <2>2. \A t \in Runs : turn[t] \in Turn
    BY <1>0 DEF AgentTypes
  <2>3. QED
    BY <1>1, <2>1, <2>2 DEF Live, Relays
<1>3. AgentTypes'
  BY <1>0, <1>1, <1>2, <1>a, <1>d DEF AgentTypes
<1>4. TurnsWellFormed'
  <2>1. \A t \in Runs : turn'[t].stage # "ended" => turn[t].stage = "idle"
    BY <1>2
  <2>2. ASSUME NEW t \in Runs, NEW d, d = turn[t].conv, turn'[t].stage # "idle"
        PROVE  Known(d)'
    BY <1>2, <2>2, TurnsConv DEF KnownStays
  <2>3. QED
    BY <1>1, <1>2, <1>a, <2>1, <2>2 DEF TurnsWellFormed, Known
<1>5. OverlapsSeen' /\ StopFindsTheRun'
  BY <1>1, <1>2 DEF OverlapsSeen, StopFindsTheRun
<1>6. \A s \in Runs : \A d : OpenedIn(s, d) => hermes'[s] = s /\ turn'[s].conv = d
  BY <1>1, <1>2 DEF OpenedIn
<1>7. SessionsOpened'
  <2>1. \A u \in Runs : /\ hermes[u] # None => hermes[u] \in Runs
                        /\ turn[u].session # None => turn[u].session \in Runs
    BY <1>0 DEF AgentTypes, Sessions, Turn
  <2>2. QED
    BY <1>1, <1>2, <1>6, <2>1 DEF SessionsOpened, OpenedIn
<1>8. ResumesSession'
  <2>1. ASSUME NEW t \in resuming'
        PROVE  /\ session'[turn'[t].conv] # None
               /\ turn'[t].stage # "creating"
               /\ \A u \in Runs : turn'[u].stage # "mapping"
    <3>1. t \in Runs /\ t \in resuming /\ turn'[t].conv = turn[t].conv
      BY <1>0, <1>1, <1>2, <2>1 DEF AgentTypes
    <3>2. turn[t].conv \in Convs /\ session[turn[t].conv] # None
      BY <1>0, <3>1, TurnsConv DEF TurnsWellFormed, ResumesSession
    <3>3. session'[turn[t].conv] # None
      BY <1>c, <3>2
    <3>4. QED
      BY <1>2, <3>1, <3>3
  <2>2. QED
    BY <2>1 DEF ResumesSession
<1>9. SessionStands'
  <2>1. ASSUME NEW t \in resuming' \ overlapped', hermes'[t] # None
        PROVE  hermes'[t] = session'[turn'[t].conv]
    <3>1. t \in Runs /\ t \in resuming \ overlapped /\ turn'[t].conv = turn[t].conv
      BY <1>0, <1>1, <1>2, <2>1 DEF AgentTypes
    <3>2. turn[t].conv \in Convs /\ hermes[t] = session[turn[t].conv]
      BY <1>0, <1>1, <2>1, <3>1, TurnsConv DEF TurnsWellFormed, SessionStands
    <3>3. \A u \in Runs : turn[u].conv = turn[t].conv => turn[u].stage # "mapping"
      BY <3>1 DEF ResumesSession
    <3>4. session'[turn[t].conv] = session[turn[t].conv]
      BY <1>c, <3>2, <3>3
    <3>5. QED
      BY <1>1, <3>1, <3>2, <3>4
  <2>2. ASSUME NEW d \in Convs, session'[d] # None
        PROVE  hermes'[session'[d]] = session'[d] /\ turn'[session'[d]].conv = d
    <3>1. CASE session'[d] = session[d]
      <4>1. session[d] \in Runs /\ OpenedIn(session[d], d)
        BY <1>0, <2>2, <3>1 DEF AgentTypes, Sessions, SessionStands, OpenedIn
      <4>2. QED
        BY <1>6, <3>1, <4>1
    <3>2. CASE session'[d] # session[d]
      BY <1>6, <1>c, <3>2
    <3>3. QED
      BY <3>1, <3>2
  <2>3. QED
    BY <2>1, <2>2 DEF SessionStands
<1>10. QED
  BY <1>3, <1>4, <1>5, <1>7, <1>8, <1>9

-----------------------------------------------------------------------------
(* What is said.                                                           *)

EndedIn(t, c) == TurnOf(t).stage = "ended" /\ TurnOf(t).conv = c

(* A turn that has ended has ended for good.                               *)
EndsStay == \A t \in Turns, c \in Convs : EndedIn(t, c) => EndedIn(t, c)'

KeptWhole(c) == SavedOnce(c) /\ AnswersFollow(c) /\ MarkedAsRecorded(c)

(* The messages of a conversation are of turns that have ended in it.      *)
LEMMA MessagesOfEnded ==
  ASSUME ConvTypeOK, NEW c \in Convs, KeptWhole(c), NEW m, m = conv[c].messages
  PROVE  /\ m \in Seq(Msg) /\ Len(m) \in Nat /\ DOMAIN m = 1 .. Len(m)
         /\ \A k \in 1 .. Len(m) : m[k] \in Msg /\ m[k].turn \in Turns /\ EndedIn(m[k].turn, c)
<1>1. m \in Seq(Msg)
  BY DEF ConvTypeOK, Conv
<1>2. Len(m) \in Nat /\ DOMAIN m = 1 .. Len(m) /\ \A k \in 1 .. Len(m) : m[k] \in Msg
  BY <1>1, LenProperties
<1>3. \A k \in 1 .. Len(m) : m[k].turn \in Turns
  BY <1>2 DEF Msg
<1>4. \A k \in 1 .. Len(m) : EndedIn(m[k].turn, c)
  BY <1>2 DEF KeptWhole, AnswersFollow, EndedIn
<1>5. QED
  BY <1>1, <1>2, <1>3, <1>4

(* Steps that say nothing in a conversation.                               *)
LEMMA NothingSaid ==
  ASSUME ConvTypeOK, NEW c \in Convs, KeptWhole(c), EndsStay, halved \subseteq halved',
         conv'[c].messages = conv[c].messages, Present(c)' => Present(c),
         \A t \in Runs : Present(c)' /\ turn'[t].conv = c =>
           /\ sidecar'[t] = sidecar[t]
           /\ turn[t].conv = c \/ sidecar[t] = None
  PROVE  KeptWhole(c)'
<1> DEFINE m == conv[c].messages
<1>1. /\ Len(m) \in Nat /\ DOMAIN m = 1 .. Len(m)
      /\ \A k \in 1 .. Len(m) : m[k].turn \in Turns /\ EndedIn(m[k].turn, c)
  BY MessagesOfEnded
<1>2. SavedOnce(c)'
  BY DEF KeptWhole, SavedOnce
<1>3. AnswersFollow(c)'
  <2>1. \A k \in 1 .. Len(m) : EndedIn(m[k].turn, c)'
    BY <1>1 DEF EndsStay
  <2>2. QED
    BY <1>1, <2>1 DEF KeptWhole, AnswersFollow, EndedIn
<1>4. MarkedAsRecorded(c)'
  <2>1. \A t : Of(t, c)' = Of(t, c) /\ MarksOf(t, c)' = MarksOf(t, c)
    BY DEF Of, MarksOf
  <2>2. ASSUME NEW t \in Runs, turn'[t].conv = c, Present(c)', turn[t].conv # c
        PROVE  Of(t, c) = {} /\ MarksOf(t, c) = {} /\ sidecar'[t] = None
    <3>1. Of(t, c) = {}
      BY <1>1, <2>2, AgentAssumption DEF Of, EndedIn, TurnOf
    <3>2. QED
      BY <2>2, <3>1 DEF MarksOf
  <2>3. ASSUME NEW t \in Runs, turn'[t].conv = c, Present(c)', turn[t].conv = c
        PROVE  /\ sidecar'[t] # None => Of(t, c) # {}
               /\ Of(t, c) # {} => sidecar'[t] # None \/ t \in halved'
               /\ sidecar'[t] \in {"failed", "stopped"} => MarksOf(t, c) = {sidecar'[t]}
               /\ sidecar'[t] = "completed" => MarksOf(t, c) \subseteq {"none"}
    BY <2>3 DEF KeptWhole, MarkedAsRecorded
  <2>4. None # "completed" /\ None \notin {"failed", "stopped"}
    BY AgentAssumption DEF Statuses
  <2>5. QED
    BY <2>1, <2>2, <2>3, <2>4 DEF MarkedAsRecorded
<1>5. QED
  BY <1>2, <1>3, <1>4 DEF KeptWhole

(* Conversations that hold no messages.                                    *)
LEMMA NothingSaidYet ==
  ASSUME NEW c \in Convs, conv'[c].messages = <<>>,
         \A t \in Runs : Present(c)' => turn'[t].conv # c \/ sidecar'[t] = None
  PROVE  KeptWhole(c)'
<1>1. DOMAIN conv'[c].messages = {}
  OBVIOUS
<1>2. SavedOnce(c)' /\ AnswersFollow(c)'
  BY <1>1 DEF SavedOnce, AnswersFollow
<1>3. \A t : Of(t, c)' = {} /\ MarksOf(t, c)' = {}
  BY <1>1 DEF Of, MarksOf
<1>4. None # "completed" /\ None \notin {"failed", "stopped"}
  BY AgentAssumption DEF Statuses
<1>5. MarkedAsRecorded(c)'
  BY <1>3, <1>4 DEF MarkedAsRecorded
<1>6. QED
  BY <1>2, <1>5 DEF KeptWhole

(* What a turn adds to a conversation: a question, and perhaps an answer.  *)
SaysOf(t, mark) ==
  {<<Said(t, "user", "none")>>, <<Said(t, "user", "none"), Said(t, "assistant", mark)>>}

(* The messages with what is said after them.                              *)
Joined(m, new) == m \o new

LEMMA SaidAfter ==
  ASSUME NEW m \in Seq(Msg), NEW t \in Turns, NEW mark \in Marks, NEW new \in SaysOf(t, mark)
  PROVE  /\ Joined(m, new) \in Seq(Msg)
         /\ Len(m) \in Nat /\ DOMAIN m = 1 .. Len(m)
         /\ Len(new) \in {1, 2}
         /\ Len(Joined(m, new)) = Len(m) + Len(new)
         /\ DOMAIN Joined(m, new) = 1 .. Len(m) + Len(new)
         /\ \A k \in 1 .. Len(m) : Joined(m, new)[k] = m[k]
         /\ Joined(m, new)[Len(m) + 1] = Said(t, "user", "none")
         /\ Len(new) = 2 => Joined(m, new)[Len(m) + 2] = Said(t, "assistant", mark)
         /\ Extends(m, Joined(m, new))
<1>1. /\ Said(t, "user", "none") \in Msg /\ Said(t, "assistant", mark) \in Msg
  BY DEF Said, Msg, Marks
<1>2. /\ new \in Seq(Msg) /\ Len(new) \in {1, 2} /\ new[1] = Said(t, "user", "none")
      /\ Len(new) = 2 => new[2] = Said(t, "assistant", mark)
  <2>1. CASE new = <<Said(t, "user", "none")>>
    BY <1>1, <2>1
  <2>2. CASE new = <<Said(t, "user", "none"), Said(t, "assistant", mark)>>
    BY <1>1, <2>2
  <2>3. QED
    BY <2>1, <2>2 DEF SaysOf
<1>3. Len(m) \in Nat /\ DOMAIN m = 1 .. Len(m)
  BY LenProperties
<1>4. /\ Joined(m, new) \in Seq(Msg)
      /\ Len(Joined(m, new)) = Len(m) + Len(new)
      /\ \A i \in 1 .. Len(m) + Len(new) :
           Joined(m, new)[i] = IF i <= Len(m) THEN m[i] ELSE new[i - Len(m)]
  BY <1>2, ConcatProperties DEF Joined
<1>5. DOMAIN Joined(m, new) = 1 .. Len(m) + Len(new)
  BY <1>4, LenProperties
<1>6. /\ \A k \in 1 .. Len(m) : Joined(m, new)[k] = m[k]
      /\ Joined(m, new)[Len(m) + 1] = Said(t, "user", "none")
      /\ Len(new) = 2 => Joined(m, new)[Len(m) + 2] = Said(t, "assistant", mark)
  BY <1>2, <1>3, <1>4
<1>7. Extends(m, Joined(m, new))
  <2> DEFINE all == Joined(m, new)
             head == SubSeq(all, 1, Len(m))
  <2>1. 1 \in Int /\ Len(m) \in Int /\ \A i \in 1 .. Len(m) : all[i] \in Msg
    BY <1>3, <1>6, LenProperties
  <2>2. /\ head \in Seq(Msg)
        /\ Len(head) = IF 1 <= Len(m) THEN Len(m) - 1 + 1 ELSE 0
        /\ \A i \in 1 .. Len(m) - 1 + 1 : head[i] = all[1 + i - 1]
    BY <2>1, SubSeqProperties
  <2>3. Len(head) = Len(m)
    BY <1>3, <2>2
  <2>4. ASSUME NEW i \in 1 .. Len(m) PROVE head[i] = m[i]
    <3>1. i \in 1 .. Len(m) - 1 + 1 /\ 1 + i - 1 = i
      BY <1>3
    <3>2. QED
      BY <1>6, <2>2, <3>1
  <2>5. head = m
    BY <2>2, <2>3, <2>4, SeqEqual
  <2>6. Len(m) <= Len(all)
    BY <1>2, <1>3, <1>4
  <2>7. QED
    BY <2>5, <2>6 DEF Extends
<1>8. QED
  BY <1>2, <1>3, <1>4, <1>5, <1>6, <1>7

LEMMA LastOnes ==
  ASSUME NEW L \in Nat, NEW n \in {1, 2}, NEW k \in 1 .. L + n
  PROVE  k \in 1 .. L \/ k = L + 1 \/ (k = L + 2 /\ n = 2)
<1>1. CASE n = 1
  BY <1>1
<1>2. CASE n = 2
  BY <1>2
<1>3. QED
  BY <1>1, <1>2

(* all is m, of length L, and then the n messages of a turn.               *)
ThenSaid(m, L, n, all, t, mark) ==
  /\ L \in Nat /\ n \in {1, 2} /\ DOMAIN m = 1 .. L
  /\ Len(all) = L + n /\ DOMAIN all = 1 .. L + n
  /\ \A k \in 1 .. L : all[k] = m[k]
  /\ all[L + 1] = Said(t, "user", "none")
  /\ n = 2 => all[L + 2] = Said(t, "assistant", mark)
  /\ \A k \in 1 .. L + n :
       \/ k \in 1 .. L
       \/ k = L + 1 /\ all[k] = Said(t, "user", "none")
       \/ k = L + 2 /\ n = 2 /\ all[k] = Said(t, "assistant", mark)

LEMMA SaidThen ==
  ASSUME NEW m \in Seq(Msg), NEW t \in Turns, NEW mark \in Marks, NEW new \in SaysOf(t, mark)
  PROVE  ThenSaid(m, Len(m), Len(new), Joined(m, new), t, mark)
<1> DEFINE all == Joined(m, new)
<1>1. Len(m) \in Nat /\ DOMAIN m = 1 .. Len(m) /\ Len(new) \in {1, 2}
  BY SaidAfter
<1>2. Len(all) = Len(m) + Len(new) /\ DOMAIN all = 1 .. Len(m) + Len(new)
  BY SaidAfter
<1>3. \A k \in 1 .. Len(m) : all[k] = m[k]
  BY SaidAfter
<1>4. all[Len(m) + 1] = Said(t, "user", "none")
  BY SaidAfter
<1>5. Len(new) = 2 => all[Len(m) + 2] = Said(t, "assistant", mark)
  BY SaidAfter
<1>6. \A k \in 1 .. Len(m) + Len(new) :
        k \in 1 .. Len(m) \/ k = Len(m) + 1 \/ (k = Len(m) + 2 /\ Len(new) = 2)
  BY <1>1, LastOnes
<1> HIDE DEF all
<1>7. QED
  BY <1>1, <1>2, <1>3, <1>4, <1>5, <1>6, Zenon DEF ThenSaid, all

(* A turn that ends and says what it has to say.                           *)
LEMMA TurnSpeaks ==
  ASSUME ConvTypeOK, NEW c \in Convs, KeptWhole(c), EndsStay,
         NEW t \in Turns, TurnOf(t).stage # "ended", EndedIn(t, c)',
         NEW mark \in Marks, NEW new \in SaysOf(t, mark),
         conv'[c].messages = conv[c].messages \o new, Present(c),
         t \in Chats => Len(new) = 2,
         halved \subseteq halved',
         t \in Runs => /\ sidecar'[t] # None \/ t \in halved'
                       /\ sidecar'[t] \in {"failed", "stopped"} => Len(new) = 2 /\ mark = sidecar'[t]
                       /\ sidecar'[t] = "completed" => mark = "none",
         \A r \in Runs : r # t /\ turn'[r].conv = c => turn[r].conv = c /\ sidecar'[r] = sidecar[r]
  PROVE  KeptWhole(c)'
<1> PICK m : m = conv[c].messages
  OBVIOUS
<1> PICK all : all = Joined(m, new)
  OBVIOUS
<1>1. /\ m \in Seq(Msg)
      /\ Len(m) \in Nat
      /\ \A k \in 1 .. Len(m) : m[k].turn \in Turns /\ EndedIn(m[k].turn, c)
  BY MessagesOfEnded
<1> PICK L : L = Len(m)
  OBVIOUS
<1> PICK n : n = Len(new)
  OBVIOUS
<1>2. /\ L \in Nat /\ n \in {1, 2} /\ DOMAIN m = 1 .. L
      /\ Len(all) = L + n /\ DOMAIN all = 1 .. L + n
      /\ \A k \in 1 .. L : all[k] = m[k]
      /\ all[L + 1] = Said(t, "user", "none")
      /\ n = 2 => all[L + 2] = Said(t, "assistant", mark)
      /\ \A k \in 1 .. L + n :
           \/ k \in 1 .. L
           \/ k = L + 1 /\ all[k] = Said(t, "user", "none")
           \/ k = L + 2 /\ n = 2 /\ all[k] = Said(t, "assistant", mark)
  <2>1. ThenSaid(m, L, n, all, t, mark)
    BY <1>1, SaidThen
  <2>2. QED
    BY <2>1, Zenon DEF ThenSaid
<1>a. L \in Nat /\ n \in {1, 2}
  BY <1>2
<1>3. \A k \in 1 .. L : m[k].turn # t
  BY <1>1 DEF EndedIn
<1>4. conv'[c].messages = all
  BY DEF Joined
<1>5. \A k \in 1 .. L + n :
        \/ k \in 1 .. L
        \/ k = L + 1 /\ all[k] = Said(t, "user", "none")
        \/ k = L + 2 /\ n = 2 /\ all[k] = Said(t, "assistant", mark)
  BY <1>2
<1>6. Said(t, "user", "none").turn = t /\ Said(t, "user", "none").role = "user"
      /\ Said(t, "assistant", mark).turn = t /\ Said(t, "assistant", mark).role = "assistant"
      /\ Said(t, "assistant", mark).mark = mark
  BY DEF Said
<1>7. \A k \in 1 .. L : k \in 1 .. L + n
  BY <1>a
<1>b. \A k \in 1 .. L : all[k].turn = m[k].turn /\ all[k].role = m[k].role /\ all[k].turn # t
  BY <1>2, <1>3
<1>c. \A k \in 1 .. L + n : k \notin 1 .. L =>
        /\ all[k].turn = t
        /\ \/ k = L + 1 /\ all[k].role = "user"
           \/ k = L + 2 /\ all[k].role = "assistant"
  BY <1>5, <1>6
<1>8. SavedOnce(c)'
  <2>a. conv'[c].messages = all /\ DOMAIN all = 1 .. L + n
    BY <1>2, <1>4
  <2>1. SUFFICES ASSUME NEW j \in 1 .. L + n, NEW k \in 1 .. L + n,
                        all[j].turn = all[k].turn, all[j].role = all[k].role
                 PROVE  j = k
    BY <2>a DEF SavedOnce
  <2>2. CASE j \in 1 .. L /\ k \in 1 .. L
    <3>1. m[j].turn = m[k].turn /\ m[j].role = m[k].role
      BY <1>b, <2>1, <2>2
    <3>2. QED
      BY <1>2, <2>2, <3>1 DEF KeptWhole, SavedOnce
  <2>3. CASE j \in 1 .. L /\ k \notin 1 .. L
    BY <1>b, <1>c, <2>1, <2>3
  <2>4. CASE j \notin 1 .. L /\ k \in 1 .. L
    BY <1>b, <1>c, <2>1, <2>4
  <2>5. CASE j \notin 1 .. L /\ k \notin 1 .. L
    BY <1>c, <2>1, <2>5
  <2>6. QED
    BY <2>2, <2>3, <2>4, <2>5
<1>9. AnswersFollow(c)'
  <2>1. ASSUME NEW k \in 1 .. L + n
        PROVE  /\ EndedIn(all[k].turn, c)'
               /\ all[k].role = "user" =>
                    \/ k < L + n /\ all[k + 1].turn = all[k].turn /\ all[k + 1].role = "assistant"
                    \/ all[k].turn \in Runs
               /\ all[k].role = "assistant" => k > 1 /\ all[k - 1].turn = all[k].turn
    <3>1. CASE k \in 1 .. L
      <4>1. all[k] = m[k] /\ EndedIn(m[k].turn, c)'
        BY <1>1, <1>2, <3>1 DEF EndsStay
      <4>2. /\ m[k].role = "user" =>
                 \/ k < L /\ m[k + 1].turn = m[k].turn /\ m[k + 1].role = "assistant"
                 \/ m[k].turn \in Runs
            /\ m[k].role = "assistant" => k > 1 /\ m[k - 1].turn = m[k].turn
        BY <1>2, <3>1 DEF KeptWhole, AnswersFollow
      <4>3. k < L => k + 1 \in 1 .. L /\ k < L + n
        BY <1>2, <3>1
      <4>4. k > 1 => k - 1 \in 1 .. L
        BY <1>2, <3>1
      <4>5. QED
        BY <1>2, <4>1, <4>2, <4>3, <4>4
    <3>2. CASE k = L + 1 /\ all[k] = Said(t, "user", "none")
      <4>1. n = 2 => k < L + n /\ all[k + 1] = Said(t, "assistant", mark)
        BY <1>2, <3>2
      <4>2. t \in Chats \/ t \in Runs
        BY AgentAssumption
      <4>3. all[k].turn = t /\ all[k].role = "user"
        BY <1>6, <3>2
      <4>4. QED
        BY <1>6, <4>1, <4>2, <4>3
    <3>3. CASE k = L + 2 /\ n = 2 /\ all[k] = Said(t, "assistant", mark)
      <4>1. k > 1 /\ all[k - 1] = Said(t, "user", "none")
        BY <1>2, <3>3
      <4>2. all[k].turn = t /\ all[k].role = "assistant"
        BY <1>6, <3>3
      <4>3. QED
        BY <1>6, <4>1, <4>2
    <3>4. QED
      BY <1>5, <3>1, <3>2, <3>3
  <2>2. DOMAIN conv'[c].messages = 1 .. L + n /\ Len(conv'[c].messages) = L + n
    BY <1>2, <1>4
  <2>3. \A k \in 1 .. L + n :
          /\ TurnOf(all[k].turn)'.conv = c
          /\ TurnOf(all[k].turn)'.stage = "ended"
    BY <2>1 DEF EndedIn
  <2>4. QED
    BY <1>4, <2>1, <2>2, <2>3 DEF AnswersFollow
<1>10. MarkedAsRecorded(c)'
  <2>1. ASSUME NEW r \in Runs, r # t
        PROVE  Of(r, c)' = Of(r, c) /\ MarksOf(r, c)' = MarksOf(r, c)
    <3>1. \A k \in 1 .. L + n : all[k].turn = r => k \in 1 .. L
      BY <1>5, <1>6, <2>1
    <3>2. {k \in 1 .. L + n : all[k].turn = r} = {k \in 1 .. L : m[k].turn = r}
      BY <1>2, <1>7, <3>1
    <3>3. Of(r, c)' = Of(r, c)
      BY <1>2, <1>4, <3>2 DEF Of
    <3>4. \A k \in Of(r, c) : k \in 1 .. L /\ all[k] = m[k]
      BY <1>2 DEF Of
    <3>5. QED
      BY <1>4, <3>3, <3>4 DEF MarksOf
  <2>2. ASSUME t \in Runs
        PROVE  /\ Of(t, c)' # {}
               /\ MarksOf(t, c)' = IF n = 2 THEN {mark} ELSE {}
    <3>1. {k \in 1 .. L + n : all[k].turn = t} = IF n = 2 THEN {L + 1, L + 2} ELSE {L + 1}
      <4>1. \A k \in 1 .. L : all[k].turn # t
        BY <1>2, <1>3
      <4>2. \A k \in 1 .. L + n : all[k].turn = t => k = L + 1 \/ (k = L + 2 /\ n = 2)
        BY <1>5, <4>1
      <4>3. L + 1 \in 1 .. L + n /\ all[L + 1].turn = t
        BY <1>2, <1>6
      <4>4. n = 2 => L + 2 \in 1 .. L + n /\ all[L + 2].turn = t
        BY <1>2, <1>6
      <4>5. QED
        BY <4>2, <4>3, <4>4
    <3>2. Of(t, c)' = IF n = 2 THEN {L + 1, L + 2} ELSE {L + 1}
      BY <1>2, <1>4, <3>1 DEF Of
    <3>3. MarksOf(t, c)' = {all[k].mark : k \in {j \in Of(t, c)' : all[j].role = "assistant"}}
      BY <1>4 DEF MarksOf
    <3>4. all[L + 1].role # "assistant"
      BY <1>2, <1>6
    <3>5. n = 2 => all[L + 2].role = "assistant" /\ all[L + 2].mark = mark
      BY <1>2, <1>6
    <3>6. CASE n = 2
      <4>1. {j \in Of(t, c)' : all[j].role = "assistant"} = {L + 2}
        BY <3>2, <3>4, <3>5, <3>6
      <4>2. QED
        BY <3>2, <3>3, <3>5, <3>6, <4>1
    <3>7. CASE n # 2
      <4>1. {j \in Of(t, c)' : all[j].role = "assistant"} = {}
        BY <3>2, <3>4, <3>7
      <4>2. QED
        BY <3>2, <3>3, <3>7, <4>1
    <3>8. QED
      BY <3>6, <3>7
  <2>3. ASSUME NEW r \in Runs, turn'[r].conv = c
        PROVE  /\ sidecar'[r] # None => Of(r, c)' # {}
               /\ Of(r, c)' # {} => sidecar'[r] # None \/ r \in halved'
               /\ sidecar'[r] \in {"failed", "stopped"} => MarksOf(r, c)' = {sidecar'[r]}
               /\ sidecar'[r] = "completed" => MarksOf(r, c)' \subseteq {"none"}
    <3>1. CASE r = t
      BY <2>2, <3>1
    <3>2. CASE r # t
      BY <2>1, <2>3, <3>2 DEF KeptWhole, MarkedAsRecorded
    <3>3. QED
      BY <3>1, <3>2
  <2>4. QED
    BY <2>3 DEF MarkedAsRecorded
<1>11. QED
  BY <1>8, <1>9, <1>10 DEF KeptWhole


-----------------------------------------------------------------------------
(* The table conversations.                                                *)

(* Rows of agent_turns stand in the conversations that live.               *)
RowsStand ==
  /\ halved \subseteq halved'
  /\ \A r \in Runs, c \in Convs : Present(c)' /\ turn'[r].conv = c =>
       /\ sidecar'[r] = sidecar[r]
       /\ turn[r].conv = c \/ sidecar[r] = None

(* What every step does to the conversations.                              *)
ConvKept ==
  /\ conv' \in [Convs -> Conv]
  /\ KnownStays
  /\ \A c \in Convs : KeptWhole(c) => KeptWhole(c)'
  /\ \A c \in Convs : ConversationStands(c)

LEMMA ExtendsItself ==
  ASSUME NEW m \in Seq(Msg)
  PROVE  Extends(m, m)
<1> PICK h : h = SubSeq(m, 1, Len(m))
  OBVIOUS
<1>1. Len(m) \in Nat /\ \A i \in 1 .. Len(m) : m[i] \in Msg
  BY LenProperties
<1>2. /\ h \in Seq(Msg)
      /\ Len(h) = IF 1 <= Len(m) THEN Len(m) - 1 + 1 ELSE 0
      /\ \A i \in 1 .. Len(m) - 1 + 1 : h[i] = m[1 + i - 1]
  BY <1>1, SubSeqProperties
<1>3. Len(h) = Len(m) /\ \A i \in 1 .. Len(m) : h[i] = m[i]
  BY <1>1, <1>2
<1>4. h = m
  BY <1>2, <1>3, SeqEqual
<1>5. QED
  BY <1>1, <1>4 DEF Extends

LEMMA ConversationUnchanged ==
  ASSUME ConvTypeOK, EndsStay, NEW c \in Convs, conv'[c] = conv[c], halved \subseteq halved',
         \A r \in Runs : Present(c)' /\ turn'[r].conv = c =>
           /\ sidecar'[r] = sidecar[r]
           /\ turn[r].conv = c \/ sidecar[r] = None
  PROVE  /\ Known(c) => Known(c)'
         /\ KeptWhole(c) => KeptWhole(c)'
         /\ ConversationStands(c)
<1>1. Present(c)' => Present(c)
  BY DEF Present
<1>2. KeptWhole(c) => KeptWhole(c)'
  BY <1>1, NothingSaid
<1>3. conv[c].messages \in Seq(Msg)
  BY DEF ConvTypeOK, Conv
<1>4. ConversationStands(c)
  BY <1>3, ExtendsItself DEF ConversationStands
<1>5. QED
  BY <1>2, <1>4 DEF Known

LEMMA TableUnchanged ==
  ASSUME ConvTypeOK, EndsStay, RowsStand, UNCHANGED conv
  PROVE  ConvKept
<1>1. \A c \in Convs : /\ Known(c) => Known(c)'
                       /\ KeptWhole(c) => KeptWhole(c)'
                       /\ ConversationStands(c)
  BY ConversationUnchanged, NoneIsNothing DEF RowsStand
<1>2. QED
  BY <1>1 DEF ConvKept, KnownStays, ConvTypeOK

LEMMA InsertKeeps ==
  ASSUME ConvTypeOK, EndsStay, RowsStand, NEW c \in Convs, conv[c].state = "absent",
         NEW title \in Titles, conv' = Inserted(c, title),
         \A r \in Runs : turn'[r].conv = c => sidecar'[r] = None
  PROVE  ConvKept /\ Known(c)'
<1>1. /\ conv' \in [Convs -> Conv]
      /\ conv'[c].state = "present" /\ conv'[c].messages = <<>>
      /\ \A d \in Convs : d # c => conv'[d] = conv[d]
  <2>1. [state |-> "present", title |-> title, messages |-> <<>>] \in Conv
    BY DEF Conv
  <2>2. QED
    BY <2>1 DEF Inserted, ConvTypeOK
<1>2. KeptWhole(c)'
  BY <1>1, NothingSaidYet
<1>3. Known(c)' /\ ConversationStands(c)
  BY <1>1 DEF Known, ConversationStands, Present
<1>4. \A d \in Convs \ {c} : /\ Known(d) => Known(d)'
                             /\ KeptWhole(d) => KeptWhole(d)'
                             /\ ConversationStands(d)
  BY <1>1, ConversationUnchanged, NoneIsNothing DEF RowsStand
<1>5. QED
  BY <1>1, <1>2, <1>3, <1>4 DEF ConvKept, KnownStays

(* A turn that ends adds what it says to its conversation.                 *)
SpeaksIn(t, c, mark, new, row) ==
  /\ t \in Turns /\ c \in Convs /\ mark \in Marks /\ new \in SaysOf(t, mark)
  /\ Present(c) /\ TurnOf(t).stage # "ended" /\ EndedIn(t, c)'
  /\ row \in [state: {"present"}, title: Titles, messages: {Joined(conv[c].messages, new)}]
  /\ conv' = [conv EXCEPT ![c] = row]
  /\ row.title # conv[c].title => /\ t \in Chats /\ row.title = t
                                  /\ chat[t].conv = c /\ chat[t].creates
  /\ t \in Chats => Len(new) = 2
  /\ halved \subseteq halved'
  /\ t \in Runs => /\ sidecar'[t] # None \/ t \in halved'
                   /\ sidecar'[t] \in {"failed", "stopped"} => Len(new) = 2 /\ mark = sidecar'[t]
                   /\ sidecar'[t] = "completed" => mark = "none"
  /\ \A r \in Runs : r # t => turn'[r].conv = turn[r].conv /\ sidecar'[r] = sidecar[r]

LEMMA SpeakKeeps ==
  ASSUME ConvTypeOK, EndsStay, NEW t, NEW c, NEW mark, NEW new, NEW row,
         SpeaksIn(t, c, mark, new, row)
  PROVE  ConvKept
<1> USE DEF SpeaksIn
<1> PICK m : m = conv[c].messages
  OBVIOUS
<1>1. m \in Seq(Msg)
  BY DEF ConvTypeOK, Conv
<1>2. Joined(m, new) \in Seq(Msg) /\ Extends(m, Joined(m, new))
  BY <1>1, SaidAfter
<1>3. row.messages = Joined(m, new) /\ row.state = "present"
  OBVIOUS
<1>4. row \in Conv
  BY <1>2, <1>3 DEF Conv
<1>5. /\ conv' \in [Convs -> Conv] /\ conv'[c] = row
      /\ \A d \in Convs : d # c => conv'[d] = conv[d]
  BY <1>4 DEF ConvTypeOK
<1>6. KeptWhole(c) => KeptWhole(c)'
  <2>1. conv'[c].messages = conv[c].messages \o new
    BY <1>5 DEF Joined
  <2>2. \A r \in Runs : r # t /\ turn'[r].conv = c => turn[r].conv = c /\ sidecar'[r] = sidecar[r]
    OBVIOUS
  <2>3. QED
    BY <2>1, <2>2, TurnSpeaks
<1>7. ConversationStands(c)
  <2>1. conv[c].state # "deleted"
    BY DEF Present
  <2>2. Extends(conv[c].messages, conv'[c].messages)
    BY <1>2, <1>3, <1>5
  <2>3. ASSUME conv'[c].title # conv[c].title
        PROVE  \E q \in Chats : /\ conv'[c].title = q
                                /\ chat[q].conv = c /\ chat[q].creates
                                /\ chat[q].stage # "ended" /\ chat'[q].stage = "ended"
    <3>1. t \in Chats /\ row.title = t /\ chat[t].conv = c /\ chat[t].creates
      BY <1>5, <2>3
    <3>2. chat[t].stage # "ended" /\ chat'[t].stage = "ended"
      BY <3>1 DEF EndedIn, TurnOf
    <3>3. QED
      BY <1>5, <3>1, <3>2
  <2>4. QED
    BY <2>1, <2>2, <2>3 DEF ConversationStands
<1>8. Known(c)'
  BY <1>5 DEF Known
<1>9. ASSUME NEW d \in Convs \ {c}
      PROVE  /\ Known(d) => Known(d)'
             /\ KeptWhole(d) => KeptWhole(d)'
             /\ ConversationStands(d)
  <2>1. t \in Runs => turn'[t].conv # d
    BY <1>9, AgentAssumption DEF EndedIn, TurnOf
  <2>2. \A r \in Runs : turn'[r].conv = d =>
          /\ sidecar'[r] = sidecar[r]
          /\ turn[r].conv = d \/ sidecar[r] = None
    BY <2>1
  <2>3. conv'[d] = conv[d]
    BY <1>5
  <2>4. QED
    BY <2>2, <2>3, ConversationUnchanged
<1>10. QED
  BY <1>5, <1>6, <1>7, <1>8, <1>9 DEF ConvKept, KnownStays

-----------------------------------------------------------------------------
(* The endpoints of a conversation and the plain chats.                    *)

LEMMA RowsStandStill ==
  ASSUME UNCHANGED agentVars
  PROVE  RowsStand
BY DEF agentVars, RowsStand

LEMMA EmptySays == <<>> \in Seq(Msg)
OBVIOUS

LEMMA DeletedRow == [NoConv EXCEPT !.state = "deleted"] \in Conv
BY EmptySays DEF NoConv, Conv, Titles

LEMMA EndpointKeeps ==
  ASSUME ConvInv, SessionInv, NEW c \in Convs, Endpoint(c), UNCHANGED agentVars
  PROVE  ConvKept /\ ConvInv'
<1> USE DEF ConvInv
<1>1. UNCHANGED chat
  BY DEF Endpoint, CreateConversation, RenameConversation, DeleteConversation
<1>2. EndsStay
  BY <1>1 DEF EndsStay, EndedIn, TurnOf, agentVars
<1>3. RowsStand
  BY RowsStandStill
<1>4. ConvKept
  <2>1. CASE CreateConversation(c)
    <3>1. "New Conversation" \in Titles
      BY DEF Titles
    <3>2. \A r \in Runs : turn'[r].conv # c
      BY <2>1, TurnsConv, NoneIsNothing DEF SessionInv, TurnsWellFormed, agentVars, CreateConversation, Known
    <3>3. QED
      BY <1>2, <1>3, <2>1, <3>1, <3>2, InsertKeeps DEF CreateConversation
  <2>2. CASE RenameConversation(c)
    <3>1. /\ conv' \in [Convs -> Conv]
          /\ conv'[c].state = "present" /\ conv[c].state = "present"
          /\ conv'[c].messages = conv[c].messages /\ conv'[c].title = "renamed"
          /\ \A d \in Convs : d # c => conv'[d] = conv[d]
      BY <2>2 DEF RenameConversation, ConvTypeOK, Conv, Titles, Present
    <3>2. KeptWhole(c) => KeptWhole(c)'
      <4>1. Present(c)' => Present(c)
        BY <3>1 DEF Present
      <4>2. QED
        BY <1>2, <3>1, <4>1, NothingSaid DEF agentVars
    <3>3. ConversationStands(c) /\ Known(c)'
      <4>1. conv[c].messages \in Seq(Msg)
        BY DEF ConvTypeOK, Conv
      <4>2. QED
        BY <3>1, <4>1, ExtendsItself DEF ConversationStands, Present, Known
    <3>4. \A d \in Convs \ {c} : /\ Known(d) => Known(d)'
                                 /\ KeptWhole(d) => KeptWhole(d)'
                                 /\ ConversationStands(d)
      BY <1>2, <1>3, <3>1, ConversationUnchanged DEF RowsStand
    <3>5. QED
      BY <3>1, <3>2, <3>3, <3>4 DEF ConvKept, KnownStays
  <2>3. CASE DeleteConversation(c)
    <3>1. /\ conv' \in [Convs -> Conv]
          /\ conv'[c].state = "deleted" /\ conv[c].state = "present"
          /\ conv'[c].messages = <<>>
          /\ \A d \in Convs : d # c => conv'[d] = conv[d]
      BY <2>3, DeletedRow DEF DeleteConversation, ConvTypeOK, NoConv, Present
    <3>2. KeptWhole(c)'
      BY <3>1, NothingSaidYet DEF Present
    <3>3. ConversationStands(c) /\ Known(c)'
      BY <3>1 DEF ConversationStands, Present, Known
    <3>4. \A d \in Convs \ {c} : /\ Known(d) => Known(d)'
                                 /\ KeptWhole(d) => KeptWhole(d)'
                                 /\ ConversationStands(d)
      BY <1>2, <1>3, <3>1, ConversationUnchanged DEF RowsStand
    <3>5. QED
      BY <3>1, <3>2, <3>3, <3>4 DEF ConvKept, KnownStays
  <2>4. QED
    BY <2>1, <2>2, <2>3 DEF Endpoint
<1>5. ConvTypeOK'
  BY <1>1, <1>4 DEF ConvTypeOK, ConvKept
<1>6. ChatsWellFormed'
  BY <1>1, <1>4 DEF ChatsWellFormed, ConvKept, KnownStays, Known
<1>7. QED
  BY <1>4, <1>5, <1>6

(* A chat that goes on, or ends.                                           *)
LEMMA ChatMoves ==
  ASSUME ConvInv, ConvKept, NEW t \in Chats, NEW y \in Chat, chat' = [chat EXCEPT ![t] = y],
         y.stage # "idle" => y.conv \in Convs /\ conv'[y.conv].state # "absent"
  PROVE  ConvInv'
<1>1. ConvTypeOK'
  BY DEF ConvInv, ConvTypeOK, ConvKept
<1>2. ASSUME NEW q \in Chats, NEW d, d = chat'[q].conv, chat'[q].stage # "idle"
      PROVE  Known(d)'
  <2>1. CASE q = t
    BY <1>2, <2>1 DEF ConvInv, ConvTypeOK, Known
  <2>2. CASE q # t
    BY <1>2, <2>2 DEF ConvInv, ConvTypeOK, ConvKept, KnownStays, ChatsWellFormed, Known
  <2>3. QED
    BY <2>1, <2>2
<1>3. ChatsWellFormed'
  BY <1>2 DEF ChatsWellFormed, Known
<1>4. QED
  BY <1>1, <1>3 DEF ConvInv

LEMMA ChatEndsStay ==
  ASSUME NEW t \in Chats, chat[t].stage # "ended", NEW y, chat' = [chat EXCEPT ![t] = y],
         ConvTypeOK, UNCHANGED turn
  PROVE  EndsStay
BY DEF EndsStay, EndedIn, TurnOf, ConvTypeOK

(* A chat that saves its answer.                                           *)
LEMMA SavedChatKeeps ==
  ASSUME ConvInv, NEW t \in Chats, chat[t].stage \in {"first", "followup"},
         NEW partial \in BOOLEAN, conv' = SavedChat(t, partial), ChatEnds(t), UNCHANGED agentVars
  PROVE  ConvKept
<1> USE DEF ConvInv
<1> PICK c \in Convs : c = chat[t].conv
  BY DEF ChatsWellFormed, Known
<1>1. EndsStay /\ RowsStand
  BY ChatEndsStay, RowsStandStill DEF ChatEnds, agentVars
<1>2. CASE ~chat[t].text \/ ~Present(c)
  BY <1>1, <1>2, TableUnchanged DEF SavedChat
<1>3. CASE chat[t].text /\ Present(c)
  <2> PICK mark : mark = IF partial THEN "response interrupted" ELSE "none"
    OBVIOUS
  <2> PICK new : new = Pair(t, partial)
    OBVIOUS
  <2> PICK title : title = IF chat[t].creates THEN t ELSE conv[c].title
    OBVIOUS
  <2> PICK row : row = [conv[c] EXCEPT !.messages = Joined(conv[c].messages, new), !.title = title]
    OBVIOUS
  <2>1. conv' = [conv EXCEPT ![c] = row]
    BY <1>3 DEF SavedChat, ConvTypeOK, Joined
  <2>2. mark \in Marks /\ new \in SaysOf(t, mark) /\ Len(new) = 2
    BY DEF Marks, Pair, SaysOf
  <2>3. t \in Turns /\ t \notin Runs /\ title \in Titles
    BY ConversationAssumption, AgentAssumption DEF Titles, ConvTypeOK, Conv
  <2>4. TurnOf(t).stage # "ended" /\ EndedIn(t, c)'
    BY DEF TurnOf, EndedIn, ChatEnds, ChatOver, NoChat, ConvTypeOK
  <2>5. \A r \in Runs : r # t => turn'[r].conv = turn[r].conv /\ sidecar'[r] = sidecar[r]
    BY DEF agentVars
  <2>6. row \in [state: {"present"}, title: Titles, messages: {Joined(conv[c].messages, new)}]
        /\ row.title = title
    <3>1. conv[c] \in Conv /\ conv[c].state = "present"
      BY <1>3 DEF ConvTypeOK, Present
    <3>2. QED
      BY <2>3, <3>1 DEF Conv
  <2>7. row.title # conv[c].title => t \in Chats /\ row.title = t /\ chat[t].conv = c /\ chat[t].creates
    BY <2>6
  <2>a. halved \subseteq halved'
    BY DEF agentVars
  <2>8. t \in Runs =>
          /\ sidecar'[t] # None \/ t \in halved'
          /\ sidecar'[t] \in {"failed", "stopped"} => Len(new) = 2 /\ mark = sidecar'[t]
          /\ sidecar'[t] = "completed" => mark = "none"
    BY <2>3
  <2>9. SpeaksIn(t, c, mark, new, row)
    BY <1>3, <2>1, <2>2, <2>3, <2>4, <2>5, <2>6, <2>7, <2>8, <2>a, Zenon DEF SpeaksIn
  <2>10. QED
    BY <1>1, <2>9, SpeakKeeps
<1>4. QED
  BY <1>2, <1>3

LEMMA ChatStepKeeps ==
  ASSUME ConvInv, SessionInv, NEW t \in Chats, ChatStep(t), UNCHANGED agentVars
  PROVE  ConvKept /\ ConvInv'
<1> USE DEF ConvInv
<1>0. ConvTypeOK /\ chat[t] \in Chat
  BY DEF ConvTypeOK
<1>1. RowsStand /\ UNCHANGED turn
  BY RowsStandStill DEF agentVars
<1>2. ASSUME NEW c \in Convs, ChatStart(t, c)
      PROVE  ConvKept /\ ConvInv'
  <2> PICK y : y = [stage |-> "preparing", conv |-> c, creates |-> FALSE,
                    heard |-> Len(conv[c].messages), text |-> FALSE]
    OBVIOUS
  <2>1. y \in Chat /\ chat' = [chat EXCEPT ![t] = y] /\ y.conv = c
    <3>1. Len(conv[c].messages) \in Nat
      BY LenProperties DEF ConvTypeOK, Conv
    <3>2. QED
      BY <1>2, <3>1 DEF Chat, ChatStages, ChatStart, ChatInto
  <2>2. UNCHANGED conv /\ chat[t].stage # "ended" /\ conv[c].state # "absent"
    BY <1>2 DEF ChatStart, Present
  <2>3. ConvKept
    BY <1>1, <2>1, <2>2, ChatEndsStay, TableUnchanged
  <2>4. QED
    BY <2>1, <2>2, <2>3, ChatMoves
<1>3. ASSUME NEW c \in Convs, ChatCreates(t, c)
      PROVE  ConvKept /\ ConvInv'
  <2> PICK y : y = [stage |-> "preparing", conv |-> c, creates |-> TRUE,
                    heard |-> Len(conv[c].messages), text |-> FALSE]
    OBVIOUS
  <2>1. y \in Chat /\ chat' = [chat EXCEPT ![t] = y] /\ y.conv = c
    <3>1. Len(conv[c].messages) \in Nat
      BY LenProperties DEF ConvTypeOK, Conv
    <3>2. QED
      BY <1>3, <3>1 DEF Chat, ChatStages, ChatCreates, ChatInto
  <2>2. conv' = Inserted(c, t) /\ chat[t].stage # "ended" /\ conv[c].state = "absent" /\ t \in Titles
    BY <1>3, ConversationAssumption DEF ChatCreates, Titles
  <2>3. \A r \in Runs : turn'[r].conv # c
    BY <1>1, <2>2, TurnsConv, NoneIsNothing DEF SessionInv, TurnsWellFormed, Known
  <2>4. EndsStay
    BY <1>1, <2>1, <2>2, ChatEndsStay
  <2>5. ConvKept /\ Known(c)'
    BY <1>1, <2>2, <2>3, <2>4, InsertKeeps
  <2>6. QED
    BY <2>1, <2>5, ChatMoves DEF Known
<1>4. ASSUME NEW y \in Chat, chat' = [chat EXCEPT ![t] = y], UNCHANGED conv,
             chat[t].stage \notin {"idle", "ended"}, y.conv = chat[t].conv
      PROVE  ConvKept /\ ConvInv'
  <2>1. ConvKept
    BY <1>1, <1>4, ChatEndsStay, TableUnchanged
  <2>2. chat[t].conv \in Convs /\ conv[chat[t].conv].state # "absent"
    BY <1>4 DEF ChatsWellFormed, Known
  <2>3. QED
    BY <1>4, <2>1, <2>2, ChatMoves
<1>5. CASE ChatPrepared(t) \/ ChatToken(t) \/ ChatToolCall(t)
  <2>1. \E y \in Chat : y.conv = chat[t].conv /\ chat' = [chat EXCEPT ![t] = y]
    <3>1. CASE ChatPrepared(t)
      <4>1. [chat[t] EXCEPT !.stage = "first"] \in Chat
        BY <1>0 DEF Chat, ChatStages
      <4>2. [chat[t] EXCEPT !.stage = "first"].conv = chat[t].conv
        BY <1>0 DEF Chat
      <4>3. QED
        BY <3>1, <4>1, <4>2 DEF ChatPrepared, ConvTypeOK
    <3>2. CASE ChatToken(t)
      <4>1. [chat[t] EXCEPT !.text = TRUE] \in Chat
        BY <1>0 DEF Chat
      <4>2. [chat[t] EXCEPT !.text = TRUE].conv = chat[t].conv
        BY <1>0 DEF Chat
      <4>3. QED
        BY <3>2, <4>1, <4>2 DEF ChatToken, ConvTypeOK
    <3>3. CASE ChatToolCall(t)
      <4>1. [chat[t] EXCEPT !.stage = "followup", !.text = FALSE] \in Chat
        BY <1>0 DEF Chat, ChatStages
      <4>2. [chat[t] EXCEPT !.stage = "followup", !.text = FALSE].conv = chat[t].conv
        BY <1>0 DEF Chat
      <4>3. chat' = [chat EXCEPT ![t] = [chat[t] EXCEPT !.stage = "followup", !.text = FALSE]]
        BY <3>3 DEF ChatToolCall, ConvTypeOK
      <4>4. QED
        BY <4>1, <4>2, <4>3
    <3>4. QED
      BY <1>5, <3>1, <3>2, <3>3
  <2>2. UNCHANGED conv /\ chat[t].stage \notin {"idle", "ended"}
    BY <1>5 DEF ChatPrepared, ChatToken, ChatToolCall
  <2>3. QED
    BY <1>4, <2>1, <2>2
<1>6. ChatOver(t) \in Chat /\ ChatOver(t).conv = chat[t].conv
  BY <1>0 DEF ChatOver, NoChat, Chat, ChatStages
<1>7. CASE ChatFails(t)
  BY <1>4, <1>6, <1>7 DEF ChatFails, ChatEnds
<1>8. ASSUME NEW partial \in BOOLEAN, conv' = SavedChat(t, partial), ChatEnds(t),
             chat[t].stage \in {"first", "followup"}
      PROVE  ConvKept /\ ConvInv'
  <2>1. ConvKept
    BY <1>8, SavedChatKeeps
  <2>2. chat[t].conv \in Convs /\ conv'[chat[t].conv].state # "absent"
    BY <1>8, <2>1 DEF ChatsWellFormed, Known, ConvKept, KnownStays
  <2>3. QED
    BY <1>6, <1>8, <2>1, <2>2, ChatMoves DEF ChatEnds
<1>9. CASE ChatCompletes(t)
  BY <1>8, <1>9 DEF ChatCompletes
<1>10. CASE ChatCancelled(t)
  <2>1. CASE chat[t].stage = "followup"
    BY <1>8, <1>10, <2>1 DEF ChatCancelled
  <2>2. CASE chat[t].stage # "followup"
    BY <1>4, <1>6, <1>10, <2>2 DEF ChatCancelled, ChatEnds
  <2>3. QED
    BY <2>1, <2>2
<1>11. QED
  BY <1>2, <1>3, <1>5, <1>7, <1>9, <1>10 DEF ChatStep

-----------------------------------------------------------------------------
(* Agent turns and the conversations.                                      *)

LEMMA RowOfTurn ==
  ASSUME NEW a, NEW b
  PROVE  <<a>> \o <<>> = <<a>> /\ <<a>> \o <<b>> = <<a, b>>
<1> PICK S : S = {a, b}
  OBVIOUS
<1>1. <<a>> \in Seq(S)
  OBVIOUS
<1>2. <<b>> \in Seq(S)
  OBVIOUS
<1>3. <<a, b>> \in Seq(S)
  OBVIOUS
<1> PICK r : r = <<a>> \o <<b>>
  OBVIOUS
<1>4. Len(<<a>>) = 1 /\ Len(<<b>>) = 1 /\ <<a>>[1] = a /\ <<b>>[1] = b
  OBVIOUS
<1>5. /\ r \in Seq(S) /\ Len(r) = 1 + 1
      /\ \A i \in 1 .. 1 + 1 : r[i] = IF i <= 1 THEN <<a>>[i] ELSE <<b>>[i - 1]
  BY <1>1, <1>2, <1>4, ConcatProperties
<1>6. Len(r) = 2 /\ r[1] = a /\ r[2] = b
  BY <1>4, <1>5
<1>7. Len(<<a, b>>) = 2
  OBVIOUS
<1>8. <<a, b>>[1] = a
  OBVIOUS
<1>9. <<a, b>>[2] = b
  OBVIOUS
<1> PICK w : w = <<a, b>>
  OBVIOUS
<1>10. Len(r) = Len(w) /\ \A i \in 1 .. Len(r) : r[i] = w[i]
  <2>1. w[1] = a /\ w[2] = b /\ Len(w) = 2
    BY <1>7, <1>8, <1>9, Zenon
  <2>2. \A i \in 1 .. 2 : i = 1 \/ i = 2
    OBVIOUS
  <2>3. QED
    BY <1>6, <2>1, <2>2
<1>11. r = <<a, b>>
  BY <1>3, <1>5, <1>10, SeqEqual
<1>12. <<a>> \o <<>> = <<a>>
  BY <1>1, ConcatEmptySeq
<1>13. QED
  BY <1>11, <1>12

(* What a turn is rendered as.                                             *)
LEMMA RenderedSays ==
  ASSUME NEW t \in Runs, NEW status \in Statuses, NEW mark,
         mark = IF status = "completed" THEN "none" ELSE status
  PROVE  /\ mark \in Marks /\ Rendered(t, status) \in SaysOf(t, mark)
         /\ status # "completed" => Len(Rendered(t, status)) = 2
<1>1. mark \in Marks
  BY DEF Marks, Statuses
<1>2. CASE status # "completed"
  <2>1. Rendered(t, status) = <<Said(t, "user", "none"), Said(t, "assistant", mark)>>
    BY <1>2, RowOfTurn DEF Rendered
  <2>2. QED
    BY <1>1, <2>1 DEF SaysOf
<1>3. CASE status = "completed"
  <2>1. Rendered(t, status) \in {<<Said(t, "user", "none")>>,
                                 <<Said(t, "user", "none"), Said(t, "assistant", mark)>>}
    BY <1>3, RowOfTurn DEF Rendered
  <2>2. QED
    BY <1>1, <1>3, <2>1 DEF SaysOf
<1>4. QED
  BY <1>2, <1>3

LEMMA TurnEndsStay ==
  ASSUME NEW t \in Runs, turn[t].stage # "ended", NEW x, turn' = [turn EXCEPT ![t] = x],
         AgentTypes, UNCHANGED chat
  PROVE  EndsStay
BY DEF EndsStay, EndedIn, TurnOf, AgentTypes

LEMMA TurnOver ==
  ASSUME AgentTypes, NEW t \in Runs
  PROVE  Over(t) \in Turn /\ Over(t).conv = turn[t].conv /\ Over(t).stage = "ended"
         /\ Over(t).session = None
BY DEF AgentTypes, Over, NoTurn, Turn, Stages, Statuses

(* A turn that ends with its messages: its row of agent_turns is written   *)
(* too, unless the save is cut off.                                        *)
LEMMA TurnSaid ==
  ASSUME ConvTypeOK, EndsStay, NEW t \in Runs, turn[t].stage # "ended",
         NEW c \in Convs, c = turn[t].conv, Present(c),
         NEW status \in Statuses, conv' = WithTurn(t, status),
         turn'[t].conv = c, turn'[t].stage = "ended", halved \subseteq halved',
         sidecar'[t] = status \/ (sidecar'[t] = None /\ t \in halved'),
         \A r \in Runs : r # t => turn'[r].conv = turn[r].conv /\ sidecar'[r] = sidecar[r]
  PROVE  ConvKept
<1> PICK mark : mark = IF status = "completed" THEN "none" ELSE status
  OBVIOUS
<1> PICK new : new = Rendered(t, status)
  OBVIOUS
<1> PICK row : row = [conv[c] EXCEPT !.messages = Joined(conv[c].messages, new)]
  OBVIOUS
<1>1. mark \in Marks /\ new \in SaysOf(t, mark) /\ (status # "completed" => Len(new) = 2)
  BY RenderedSays
<1>2. conv' = [conv EXCEPT ![c] = row]
  BY DEF WithTurn, ConvTypeOK, Joined
<1>3. row \in [state: {"present"}, title: Titles, messages: {Joined(conv[c].messages, new)}]
      /\ row.title = conv[c].title
  <2>1. conv[c] \in Conv /\ conv[c].state = "present"
    BY DEF ConvTypeOK, Present
  <2>2. QED
    BY <2>1 DEF Conv
<1>4. t \in Turns /\ t \notin Chats
  BY AgentAssumption
<1>5. TurnOf(t).stage # "ended" /\ EndedIn(t, c)'
  BY <1>4 DEF TurnOf, EndedIn
<1>6. None \notin {"failed", "stopped"} /\ None # "completed"
  BY AgentAssumption DEF Statuses
<1>7. /\ sidecar'[t] # None \/ t \in halved'
      /\ sidecar'[t] \in {"failed", "stopped"} => Len(new) = 2 /\ mark = sidecar'[t]
      /\ sidecar'[t] = "completed" => mark = "none"
  BY <1>1, <1>6, AgentAssumption
<1>8. SpeaksIn(t, c, mark, new, row)
  BY <1>1, <1>2, <1>3, <1>4, <1>5, <1>7, Zenon DEF SpeaksIn
<1>9. QED
  BY <1>8, SpeakKeeps

(* A turn that ends and is saved.                                          *)
LEMMA SaveTurnKeeps ==
  ASSUME ConvTypeOK, SessionInv, NEW t \in Runs, Live(t), NEW status \in Statuses,
         SaveTurn(t, status), Ends(t), UNCHANGED chat, UNCHANGED halved
  PROVE  ConvKept
<1>0. AgentTypes /\ turn[t].stage \notin {"idle", "ended"}
  BY DEF SessionInv, Live
<1> PICK c \in Convs : c = turn[t].conv
  BY <1>0, TurnsConv
<1>1. EndsStay
  BY <1>0, TurnEndsStay DEF Ends
<1>2. /\ turn'[t].conv = c /\ turn'[t].stage = "ended" /\ sidecar'[t] = status
      /\ \A r \in Runs : r # t => turn'[r].conv = turn[r].conv /\ sidecar'[r] = sidecar[r]
  <2>1. Over(t).conv = c /\ Over(t).stage = "ended"
    BY <1>0, TurnOver
  <2>2. turn' = [turn EXCEPT ![t] = Over(t)] /\ sidecar' = [sidecar EXCEPT ![t] = status]
    BY DEF Ends, SaveTurn
  <2>3. QED
    BY <1>0, <2>1, <2>2 DEF AgentTypes
<1>3. CASE ~Present(c)
  <2>1. UNCHANGED conv
    BY <1>3 DEF SaveTurn, WithTurn
  <2>2. RowsStand
    BY <1>2, <1>3, <2>1 DEF RowsStand, Present
  <2>3. QED
    BY <1>1, <2>1, <2>2, TableUnchanged
<1>4. CASE Present(c)
  <2>1. conv' = WithTurn(t, status) /\ halved \subseteq halved'
    BY DEF SaveTurn
  <2>2. QED
    BY <1>0, <1>1, <1>2, <1>4, <2>1, TurnSaid
<1>5. QED
  BY <1>3, <1>4

(* A turn that moves on without a word.                                    *)
LEMMA TurnQuiet ==
  ASSUME ConvTypeOK, SessionInv, NEW t \in Runs, turn[t].stage # "ended",
         NEW x, turn' = [turn EXCEPT ![t] = x], x.conv = turn[t].conv,
         UNCHANGED <<convVars, sidecar, halved>>
  PROVE  ConvKept
<1>1. UNCHANGED conv /\ UNCHANGED chat /\ UNCHANGED sidecar /\ UNCHANGED halved
  BY DEF convVars
<1>2. EndsStay
  BY <1>1, TurnEndsStay DEF SessionInv
<1>3. RowsStand
  BY <1>1 DEF RowsStand, SessionInv, AgentTypes
<1>4. QED
  BY <1>1, <1>2, <1>3, TableUnchanged

(* Every step of a turn keeps the conversations, the registry and the      *)
(* sessions.                                                               *)
LEMMA TurnStepKeeps ==
  ASSUME ConvTypeOK, SessionInv, NEW t \in Runs, TurnStep(t)
  PROVE  ConvKept /\ SessionInv' /\ UNCHANGED chat
<1>0. AgentTypes /\ turn[t] \in Turn
  BY DEF SessionInv, AgentTypes
<1>a. ConvKept => KnownStays
  BY DEF ConvKept
<1>b. Over(t) \in Turn /\ Over(t).conv = turn[t].conv /\ Over(t).stage = "ended" /\ Over(t).session = None
  BY <1>0, TurnOver
<1>1. ASSUME NEW c \in Convs, AgentStart(t, c)
      PROVE  ConvKept /\ SessionInv' /\ UNCHANGED chat
  <2>1. UNCHANGED <<conv, chat, sidecar, halved>> /\ turn[t].stage = "idle" /\ Known(c)
    BY <1>1 DEF AgentStart, TurnInto, Known
  <2> PICK x : x = [NoTurn EXCEPT !.stage = "creating", !.conv = c, !.session = Resumed(c)]
    OBVIOUS
  <2>2. turn' = [turn EXCEPT ![t] = x] /\ x.conv = c
    BY <1>1 DEF AgentStart, TurnInto, NoTurn
  <2>3. EndsStay
    BY <1>0, <2>1, <2>2, TurnEndsStay
  <2>4. RowsStand
    BY <1>0, <2>1, <2>2 DEF RowsStand, AgentTypes, SessionInv, TurnsWellFormed
  <2>5. ConvKept
    BY <2>1, <2>3, <2>4, TableUnchanged
  <2>6. TurnInto(t, c) /\ Known(c)'
    BY <1>1, <1>a, <2>1, <2>5 DEF AgentStart, KnownStays
  <2>7. QED
    BY <1>a, <2>1, <2>5, <2>6, TurnBegins
<1>2. ASSUME NEW c \in Convs, AgentCreates(t, c)
      PROVE  ConvKept /\ SessionInv' /\ UNCHANGED chat
  <2>1. /\ UNCHANGED <<chat, sidecar, halved>> /\ turn[t].stage = "idle" /\ conv[c].state = "absent"
        /\ conv' = Inserted(c, t) /\ TurnInto(t, c) /\ t \in Titles
    BY <1>2, AgentAssumption DEF AgentCreates, TurnInto, Titles
  <2> PICK x : x = [NoTurn EXCEPT !.stage = "creating", !.conv = c, !.session = Resumed(c)]
    OBVIOUS
  <2>2. turn' = [turn EXCEPT ![t] = x] /\ x.conv = c
    BY <2>1 DEF TurnInto, NoTurn
  <2>3. EndsStay
    BY <1>0, <2>1, <2>2, TurnEndsStay
  <2>4. sidecar'[t] = None /\ \A r \in Runs : r # t => turn'[r].conv = turn[r].conv
    BY <1>0, <2>1, <2>2 DEF AgentTypes, SessionInv, TurnsWellFormed
  <2>5. RowsStand
    BY <2>1, <2>4 DEF RowsStand
  <2>6. \A r \in Runs : r # t => turn'[r].conv # c
    BY <2>1, <2>4, TurnsConv, NoneIsNothing DEF SessionInv, TurnsWellFormed, Known
  <2>7. \A r \in Runs : turn'[r].conv = c => sidecar'[r] = None
    BY <2>4, <2>6
  <2>8. ConvKept /\ Known(c)'
    BY <2>1, <2>3, <2>5, <2>7, InsertKeeps
  <2>9. QED
    BY <1>a, <2>1, <2>8, TurnBegins
<1>3. CASE RunCreated(t)
  <2> PICK x : x = [turn[t] EXCEPT !.stage = "streaming", !.session = None]
    OBVIOUS
  <2>1. x.conv = turn[t].conv
    BY <1>0 DEF Turn
  <2>2. /\ turn' = [turn EXCEPT ![t] = x] /\ turn[t].stage # "ended"
        /\ UNCHANGED <<convVars, sidecar, halved>>
    BY <1>0, <1>3 DEF RunCreated, AgentTypes
  <2>3. ConvKept
    BY <2>1, <2>2, TurnQuiet
  <2>4. QED
    BY <1>3, <1>a, <2>2, <2>3, RunCreatedKeeps DEF convVars
<1>4. ASSUME Relays(t), NEW x \in Turn, turn' = [turn EXCEPT ![t] = x],
             x.conv = turn[t].conv, x.session = turn[t].session,
             x.stage \in {"streaming", "broken", "stopping"},
             UNCHANGED <<convVars, active, session, sidecar, hermes, overlapped, resuming, halved>>
      PROVE  ConvKept /\ SessionInv' /\ UNCHANGED chat
  <2>1. turn[t].stage # "ended" /\ UNCHANGED <<convVars, sidecar, halved>> /\ UNCHANGED chat
    BY <1>4 DEF Relays, convVars
  <2>2. ConvKept
    BY <1>4, <2>1, TurnQuiet
  <2>3. UNCHANGED <<active, session, sidecar, hermes, overlapped, resuming, halved>>
    BY <1>4
  <2>4. QED
    BY <1>4, <1>a, <2>1, <2>2, <2>3, RelayGoesOn
<1>5. CASE Delta(t)
  <2>1. [turn[t] EXCEPT !.reply = TRUE] \in Turn
    BY <1>0 DEF Turn
  <2>2. /\ [turn[t] EXCEPT !.reply = TRUE].conv = turn[t].conv
        /\ [turn[t] EXCEPT !.reply = TRUE].session = turn[t].session
        /\ [turn[t] EXCEPT !.reply = TRUE].stage = turn[t].stage
    BY <1>0 DEF Turn
  <2>3. turn' = [turn EXCEPT ![t] = [turn[t] EXCEPT !.reply = TRUE]]
    BY <1>0, <1>5 DEF Delta, AgentTypes
  <2>4. QED
    BY <1>4, <1>5, <2>1, <2>2, <2>3 DEF Delta, Relays
<1>6. ASSUME NEW status \in Statuses, NEW output \in BOOLEAN, RunEvent(t, status, output)
      PROVE  ConvKept /\ SessionInv' /\ UNCHANGED chat
  <2> PICK reply : reply = (turn[t].reply \/ (status = "completed" /\ output))
    OBVIOUS
  <2> PICK x : x = [turn[t] EXCEPT !.status = status, !.reply = reply]
    OBVIOUS
  <2>1. reply \in BOOLEAN
    BY Zenon
  <2>2. x \in Turn /\ x.conv = turn[t].conv /\ x.session = turn[t].session /\ x.stage = turn[t].stage
    BY <1>0, <2>1 DEF Turn
  <2>3. turn' = [turn EXCEPT ![t] = x]
    BY <1>0, <1>6 DEF RunEvent, AgentTypes
  <2>4. QED
    BY <1>4, <1>6, <2>2, <2>3 DEF RunEvent, Relays
<1>7. CASE StreamBreaks(t)
  <2> PICK x : x = [turn[t] EXCEPT !.stage = "broken"]
    OBVIOUS
  <2>1. x \in Turn /\ x.conv = turn[t].conv /\ x.session = turn[t].session /\ x.stage = "broken"
    BY <1>0 DEF Turn, Stages
  <2>2. turn' = [turn EXCEPT ![t] = x]
    BY <1>0, <1>7 DEF StreamBreaks, At, AgentTypes
  <2>3. QED
    BY <1>4, <1>7, <2>1, <2>2 DEF StreamBreaks, Relays
<1>8. CASE ClosedAtYield(t)
  <2> PICK x : x = [turn[t] EXCEPT !.stage = "stopping", !.status = "stopped"]
    OBVIOUS
  <2>1. x \in Turn /\ x.conv = turn[t].conv /\ x.session = turn[t].session /\ x.stage = "stopping"
    BY <1>0 DEF Turn, Stages, Statuses
  <2>2. turn' = [turn EXCEPT ![t] = x]
    BY <1>0, <1>8 DEF ClosedAtYield, AgentTypes
  <2>3. QED
    BY <1>4, <1>8, <2>1, <2>2 DEF ClosedAtYield, Relays
(* The turn ends and is saved. *)
<1>9. ASSUME Live(t), Ends(t), NEW status \in Statuses, SaveTurn(t, status),
             active' = Popped(t) \/ (~Relays(t) /\ active' = active),
             \/ session' = session
             \/ turn[t].stage = "mapping" /\ session' = Mapped(t),
             UNCHANGED <<hermes, overlapped, resuming, halved>>, UNCHANGED chat
      PROVE  ConvKept /\ SessionInv' /\ UNCHANGED chat
  <2>1. ConvKept
    BY <1>9, SaveTurnKeeps
  <2> PICK x : x = Over(t)
    OBVIOUS
  <2>2. /\ sidecar' = [sidecar EXCEPT ![t] = status] /\ status \in Statuses \cup {None}
        /\ turn' = [turn EXCEPT ![t] = x]
        /\ x \in Turn /\ x.conv = turn[t].conv /\ x.stage = "ended" /\ x.session \in {None, turn[t].session}
    BY <1>9, <1>b DEF SaveTurn, Ends
  <2>3. QED
    BY <1>9, <1>a, <2>1, <2>2, TurnLeaves
(* The turn leaves and is not saved. *)
<1>10. ASSUME Live(t), NEW x \in Turn, turn' = [turn EXCEPT ![t] = x],
              x.conv = turn[t].conv, x.session \in {None, turn[t].session},
              \/ x.stage = "ended"
              \/ x.stage = "mapping" /\ Relays(t) /\ session[turn[t].conv] = None,
              active' = Popped(t) \/ (~Relays(t) /\ active' = active),
              UNCHANGED <<session, sidecar, hermes, overlapped, resuming, halved>>, UNCHANGED convVars
       PROVE  ConvKept /\ SessionInv' /\ UNCHANGED chat
  <2>1. turn[t].stage # "ended" /\ UNCHANGED <<convVars, sidecar, halved>> /\ UNCHANGED chat
    BY <1>10 DEF Live, convVars
  <2>2. ConvKept
    BY <1>10, <2>1, TurnQuiet
  <2>3. sidecar[t] = None
    BY <2>1 DEF SessionInv, TurnsWellFormed
  <2> PICK status : status = sidecar[t]
    OBVIOUS
  <2>4. sidecar' = [sidecar EXCEPT ![t] = status] /\ status \in Statuses \cup {None}
    BY <1>0, <1>10, <2>3 DEF AgentTypes
  <2>5. UNCHANGED <<session, sidecar>> /\ UNCHANGED <<hermes, overlapped, resuming, halved>> /\ session' = session
    BY <1>10
  <2>6. KnownStays
    BY <1>a, <2>2
  <2>7. SessionInv'
    BY <1>10, <2>4, <2>5, <2>6, TurnLeaves
  <2>8. QED
    BY <2>1, <2>2, <2>7
<1>11. CASE RunNotCreated(t) \/ ClosedAtMapping(t) \/ ClosedAtAwait(t)
  BY <1>10, <1>11, <1>b DEF RunNotCreated, ClosedAtMapping, ClosedAtAwait, Ends, Live, Relays
<1>12. ASSUME turn[t].stage \in {"streaming", "broken"}, Unregistered(t)
       PROVE  ConvKept /\ SessionInv' /\ UNCHANGED chat
  <2>1. Live(t) /\ Relays(t) /\ turn[t].status \in Statuses
    BY <1>0, <1>12 DEF Live, Relays, Turn
  <2>2. CASE session[turn[t].conv] = None
    <3> PICK x : x = [turn[t] EXCEPT !.stage = "mapping"]
      OBVIOUS
    <3>1. x \in Turn /\ x.conv = turn[t].conv /\ x.session = turn[t].session /\ x.stage = "mapping"
      BY <1>0 DEF Turn, Stages
    <3>2. turn' = [turn EXCEPT ![t] = x]
      BY <1>0, <1>12, <2>2 DEF Unregistered, At, AgentTypes
    <3>3. /\ UNCHANGED convVars /\ UNCHANGED <<session, sidecar, hermes, overlapped, resuming, halved>>
          /\ active' = Popped(t)
      BY <1>12, <2>2 DEF Unregistered, convVars
    <3>4. QED
      BY <1>10, <2>1, <2>2, <3>1, <3>2, <3>3
  <2>3. CASE session[turn[t].conv] # None
    BY <1>9, <1>12, <2>1, <2>3 DEF Unregistered
  <2>4. QED
    BY <2>2, <2>3
<1>13. CASE StreamCloses(t) \/ BreakReported(t)
  BY <1>12, <1>13 DEF StreamCloses, BreakReported
<1>14. CASE MappingStored(t) \/ MappingFails(t)
  <2>1. Live(t) /\ ~Relays(t) /\ turn[t].status \in Statuses
    BY <1>0, <1>14 DEF Live, Relays, Turn, MappingStored, MappingFails
  <2>2. QED
    BY <1>9, <1>14, <2>1 DEF MappingStored, MappingFails
<1>15. CASE ClosedTurnSaved(t)
  BY <1>9, <1>15 DEF ClosedTurnSaved, Live, Statuses
<1>16. QED
  BY <1>1, <1>2, <1>3, <1>5, <1>6, <1>7, <1>8, <1>11, <1>13, <1>14, <1>15 DEF TurnStep

-----------------------------------------------------------------------------
(* The inductive invariant.                                                *)

LEMMA AgentInit ==
  ASSUME Init
  PROVE  AgentIndInv
<1> USE DEF Init, ConvInit
<1>1. ConvTypeOK /\ ChatsWellFormed
  <2>1. NoConv \in Conv
    BY EmptySays DEF NoConv, Conv, Titles
  <2>2. NoChat \in Chat /\ NoChat.stage = "idle"
    BY DEF NoChat, Chat, ChatStages
  <2>3. QED
    BY <2>1, <2>2 DEF ConvTypeOK, ChatsWellFormed
<1>2. NoTurn \in Turn /\ NoTurn.stage = "idle" /\ NoTurn.conv = None /\ NoTurn.session = None
  BY DEF NoTurn, Turn, Stages, Statuses
<1>3. AgentTypeOK
  BY <1>1, <1>2 DEF AgentTypeOK
<1>4. TurnsWellFormed /\ OverlapsSeen
  BY <1>2 DEF TurnsWellFormed, OverlapsSeen, Live
<1>5. StopFindsTheRun
  BY <1>2 DEF StopFindsTheRun, Relays
<1>6. SessionsOpened /\ ResumesSession /\ SessionStands
  BY <1>2 DEF SessionsOpened, ResumesSession, SessionStands
<1>7. TurnsKeptWhole
  <2>1. ASSUME NEW c \in Convs PROVE DOMAIN conv[c].messages = {}
    <3>1. conv[c].messages = <<>>
      BY DEF NoConv
    <3>2. DOMAIN <<>> = {}
      OBVIOUS
    <3>3. QED
      BY <3>1, <3>2, Zenon
  <2>2. ASSUME NEW c \in Convs, NEW t \in Runs PROVE turn[t].conv # c
    BY <1>2, NoneIsNothing
  <2>3. QED
    BY <2>1, <2>2 DEF TurnsKeptWhole, SavedOnce, AnswersFollow, MarkedAsRecorded
<1>8. QED
  BY <1>1, <1>3, <1>4, <1>5, <1>6, <1>7 DEF AgentIndInv

AllKept == \A c \in Convs : KeptWhole(c)

LEMMA InvariantParts == AgentIndInv <=> ConvInv /\ SessionInv /\ AllKept
BY DEF AllKept, AgentIndInv, AgentTypeOK, ConvInv, SessionInv, AgentTypes, TurnsKeptWhole, KeptWhole

LEMMA AgentCrashConv ==
  ASSUME ConvInv, SessionInv, Crash
  PROVE  ConvKept /\ ConvInv'
<1> USE DEF ConvInv
<1>1. /\ \A t \in Chats : chat'[t] = IF chat[t].stage = "idle" THEN chat[t] ELSE ChatOver(t)
      /\ chat' = [t \in Chats |-> chat'[t]]
      /\ \A t \in Runs : turn'[t] = IF Live(t) THEN Over(t) ELSE turn[t]
  BY DEF Crash, ChatsCrash
<1>a. UNCHANGED sidecar /\ halved \subseteq halved'
  BY DEF Crash, CutOff
<1>2. \A t \in Chats : /\ ChatOver(t) \in Chat /\ ChatOver(t).conv = chat[t].conv
                       /\ ChatOver(t).stage = "ended"
  BY DEF ConvTypeOK, ChatOver, NoChat, Chat, ChatStages
<1>3. \A t \in Runs : /\ turn'[t].conv = turn[t].conv
                      /\ Live(t) \/ turn[t].stage = "ended" => turn'[t].stage = "ended"
  BY <1>1, TurnOver DEF SessionInv, Live
<1>4. EndsStay
  <2>1. \A t \in Chats, c \in Convs :
          chat[t].stage = "ended" /\ chat[t].conv = c => chat'[t].stage = "ended" /\ chat'[t].conv = c
    BY <1>1, <1>2
  <2>2. \A t \in Turns : t \in Chats \/ t \in Runs
    BY AgentAssumption
  <2>3. QED
    BY <1>3, <2>1, <2>2 DEF EndsStay, EndedIn, TurnOf
<1>5. RowsStand
  BY <1>3, <1>a DEF RowsStand
<1>6. ConvKept
  <2>1. CASE UNCHANGED conv
    BY <1>4, <1>5, <2>1, TableUnchanged
  <2>2. ASSUME NEW t \in Runs, Saving(t), Present(turn[t].conv),
               conv' = WithTurn(t, turn[t].status), halved' = halved \cup {t}
        PROVE  ConvKept
    <3>1. AgentTypes /\ Live(t) /\ turn[t].stage \notin {"idle", "ended"}
      BY <2>2 DEF Saving, Live, SessionInv
    <3>2. turn[t].conv \in Convs /\ turn[t].status \in Statuses
      BY <3>1, TurnsConv DEF AgentTypes, Turn
    <3>3. sidecar'[t] = None /\ t \in halved'
      BY <1>a, <2>2, <3>1 DEF SessionInv, TurnsWellFormed
    <3>4. QED
      BY <1>3, <1>4, <1>a, <2>2, <3>1, <3>2, <3>3, TurnSaid
  <2>3. QED
    BY <2>1, <2>2 DEF Crash, CutOff
<1>7. ConvTypeOK'
  <2>1. chat' \in [Chats -> Chat]
    BY <1>1, <1>2 DEF ConvTypeOK
  <2>2. QED
    BY <1>6, <2>1 DEF ConvTypeOK, ConvKept
<1>8. ChatsWellFormed'
  BY <1>1, <1>2, <1>6 DEF ChatsWellFormed, ConvKept, KnownStays, Known
<1>9. QED
  BY <1>6, <1>7, <1>8

LEMMA AgentNext ==
  ASSUME AgentIndInv, [Next]_vars
  PROVE  AgentIndInv' /\ \A c \in Convs : ConversationStands(c)
<1>1. ConvInv /\ SessionInv /\ ConvTypeOK /\ \A c \in Convs : KeptWhole(c)
  BY InvariantParts DEF ConvInv, AllKept
<1>2. ConvKept => KnownStays
  BY DEF ConvKept
<1>3. SUFFICES ConvKept /\ ConvInv' /\ SessionInv'
  <2>1. ASSUME ConvKept PROVE AllKept' /\ \A c \in Convs : ConversationStands(c)
    BY <1>1, <2>1 DEF ConvKept, AllKept
  <2>2. ASSUME ConvInv', SessionInv', AllKept' PROVE AgentIndInv'
    BY <2>2, InvariantParts, PTL
  <2>3. QED
    BY <2>1, <2>2
<1>4. ASSUME UNCHANGED agentVars, ConvKept PROVE SessionInv'
  BY <1>1, <1>2, <1>4, SessionFrame
<1>5. ASSUME UNCHANGED chat, ConvKept PROVE ConvInv'
  BY <1>1, <1>5 DEF ConvInv, ConvTypeOK, ChatsWellFormed, ConvKept, KnownStays, Known
<1>6. CASE (\E c \in Convs : Endpoint(c)) /\ UNCHANGED agentVars
  BY <1>1, <1>4, <1>6, EndpointKeeps
<1>7. CASE (\E t \in Chats : ChatStep(t)) /\ UNCHANGED agentVars
  BY <1>1, <1>4, <1>7, ChatStepKeeps
<1>8. CASE \E t \in Runs : TurnStep(t)
  BY <1>1, <1>5, <1>8, TurnStepKeeps
<1>9. ASSUME NEW c \in Convs, AgentStop(c)
      PROVE  ConvKept /\ ConvInv' /\ SessionInv'
  <2> PICK t \in Runs : t = active[c]
    BY <1>1, <1>9 DEF AgentStop, SessionInv, AgentTypes
  <2> PICK x : x = [turn[t] EXCEPT !.status = "stopped"]
    OBVIOUS
  <2>1. turn[t] \in Turn /\ turn \in [Runs -> Turn]
    BY <1>1 DEF SessionInv, AgentTypes
  <2>2. x \in Turn /\ x.conv = turn[t].conv /\ x.session = turn[t].session /\ x.stage = turn[t].stage
    BY <2>1 DEF Turn, Statuses
  <2>3. /\ turn' = [turn EXCEPT ![t] = x] /\ turn[t].stage = "streaming"
        /\ UNCHANGED <<active, session, sidecar, hermes, overlapped, resuming, halved>>
        /\ UNCHANGED <<convVars, sidecar, halved>> /\ UNCHANGED chat
    BY <1>9, <2>1 DEF AgentStop, convVars
  <2>4. ConvKept
    BY <1>1, <2>2, <2>3, TurnQuiet
  <2>5. QED
    BY <1>1, <1>2, <1>5, <2>2, <2>3, <2>4, RelayGoesOn DEF Relays
<1>10. CASE Crash
  BY <1>1, <1>2, <1>10, AgentCrashConv, AgentCrashKeeps
<1>11. CASE UNCHANGED vars
  <2>1. UNCHANGED agentVars /\ UNCHANGED conv /\ UNCHANGED chat /\ UNCHANGED turn
    BY <1>11 DEF vars, convVars, agentVars
  <2>2. EndsStay
    BY <2>1 DEF EndsStay, EndedIn, TurnOf
  <2>3. ConvKept
    BY <1>1, <2>1, <2>2, RowsStandStill, TableUnchanged
  <2>4. QED
    BY <1>4, <1>5, <2>1, <2>3
<1>12. QED
  BY <1>6, <1>7, <1>8, <1>9, <1>10, <1>11 DEF Next

(* The inductive invariant of turns and chats holds throughout.            *)
THEOREM AgentInvariance == Spec => []AgentIndInv
<1>1. Init => AgentIndInv
  BY AgentInit
<1>2. AgentIndInv /\ [Next]_vars => AgentIndInv'
  BY AgentNext
<1>3. QED
  BY <1>1, <1>2, PTL DEF Spec

(* The tables, the registry and the requests keep their types.             *)
THEOREM AgentTypeCorrect == Spec => []AgentTypeOK
<1>1. AgentIndInv => AgentTypeOK
  BY DEF AgentIndInv
<1>2. QED
  BY <1>1, AgentInvariance, PTL

(* Conversations hold whole turns of their own, each saved once and marked *)
(* as its row of agent_turns says, whatever turns stream together.         *)
THEOREM TurnsAreKeptWhole == Spec => []TurnsKeptWhole
<1>1. AgentIndInv => TurnsKeptWhole
  BY DEF AgentIndInv
<1>2. QED
  BY <1>1, AgentInvariance, PTL

(* The registry of POST /agent/stop names turns that stream, and every     *)
(* turn that streams and has lived alone.                                  *)
THEOREM StopsFindTheRun == Spec => []StopFindsTheRun
<1>1. AgentIndInv => StopFindsTheRun
  BY DEF AgentIndInv
<1>2. QED
  BY <1>1, AgentInvariance, PTL

(* A conversation goes on in one hermes session.                           *)
THEOREM SessionsStand == Spec => []SessionStands
<1>1. AgentIndInv => SessionStands
  BY DEF AgentIndInv
<1>2. QED
  BY <1>1, AgentInvariance, PTL

(* What is saved stays until the conversation is deleted, a deleted        *)
(* conversation never comes back, and titles change as they may.           *)
THEOREM ConversationsLast == Spec => ConversationsStand
<1>1. AgentIndInv /\ [Next]_vars => [\A c \in Convs : ConversationStands(c)]_convVars
  BY AgentNext
<1>2. QED
  BY <1>1, AgentInvariance, PTL DEF Spec, ConversationsStand
=============================================================================
