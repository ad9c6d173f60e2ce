----------------------------- MODULE AgentSession -----------------------------
(***************************************************************************)
(* Agent turns: routers/agent.py over agent_client.py, beside the plain    *)
(* chats of Conversations.                                                 *)
(*                                                                         *)
(* A turn is executed by the hermes service, which is outside this source: *)
(* it gives a run an id and a session, emits events, and may be            *)
(* unreachable at any call.  The router keeps a registry of the runs that  *)
(* stream (in memory), the session of each conversation and the outcome of *)
(* each turn (on disk).                                                    *)
(***************************************************************************)
EXTENDS Conversations, FiniteSets

CONSTANTS
  Runs,         \* agent turns, and the runs hermes makes of them
  MaxTurns      \* bound: plain chats and agent turns begun

VARIABLES
  turn,         \* the requests of POST /agent/chat
  active,       \* _active_runs: the run a conversation is streaming
  session,      \* the table agent_sessions
  sidecar,      \* the table agent_turns: the status a turn was saved with
  hermes,       \* the session hermes runs a turn in
  (* what an observer has seen *)
  overlapped,   \* turns that lived beside another turn of their conversation
  resuming,     \* turns that began when their conversation had a session
  halved        \* turns whose save was cut off between its two rows

agentVars == <<turn, active, session, sidecar, hermes, overlapped, resuming, halved>>
vars == <<convVars, agentVars>>

-----------------------------------------------------------------------------
(* "creating", "mapping" and "stopping" are the awaits of create_run,      *)
(* get_run and stop_run; "streaming" is the loop over the events; "broken" *)
(* is the yield that reports a stream that failed.                         *)
Stages == {"idle", "creating", "streaming", "broken", "stopping", "mapping", "ended"}

(* A session is named by the run it was opened for.                        *)
Sessions == Runs

(* "failed" stands for every end but the other two.                        *)
Statuses == {"completed", "failed", "stopped"}

ASSUME AgentAssumption ==
  /\ Runs = Turns \ Chats
  /\ None \notin Statuses
  /\ MaxTurns \in Nat

Turn == [stage: Stages, conv: Convs \cup {None}, session: Sessions \cup {None},
         reply: BOOLEAN, status: Statuses]
NoTurn == [stage |-> "idle", conv |-> None, session |-> None, reply |-> FALSE,
           status |-> "failed"]

Live(t) == turn[t].stage \notin {"idle", "ended"}
Relays(t) == turn[t].stage \in {"streaming", "broken", "stopping"}

(* The types of the tables, of the registry and of the requests.           *)
AgentTypeOK ==
  /\ ConvTypeOK
  /\ turn \in [Runs -> Turn]
  /\ active \in [Convs -> Runs \cup {None}]
  /\ session \in [Convs -> Sessions \cup {None}]
  /\ sidecar \in [Runs -> Statuses \cup {None}]
  /\ hermes \in [Runs -> Sessions \cup {None}]
  /\ overlapped \subseteq Runs
  /\ resuming \subseteq Runs
  /\ halved \subseteq Runs

-----------------------------------------------------------------------------
(* Saving a turn.                                                          *)

(* Mutant: the answer is saved without the mark of an incomplete turn.     *)
Unmarked(t, status) ==
  <<Said(t, "user", "none")>>
  \o IF turn[t].reply THEN <<Said(t, "assistant", "none")>> ELSE <<>>

(* Mutant: the mark is the name of the event of hermes, not the status.    *)
NamedAsEvent(t, status) ==
  <<Said(t, "user", "none"), Said(t, "assistant", <<"run", status>>)>>

(* The answer, unless it is empty and complete.  Marked if not complete.   *)
Rendered(t, status) ==
  <<Said(t, "user", "none")>>
  \o IF status # "completed" THEN <<Said(t, "assistant", status)>>
     ELSE IF turn[t].reply THEN <<Said(t, "assistant", "none")>> ELSE <<>>

(* The messages are written if the conversation is still there.            *)
WithTurn(t, status) ==
  LET c == turn[t].conv IN
  IF Present(c) THEN [conv EXCEPT ![c].messages = @ \o Rendered(t, status)] ELSE conv

(* _save_turn: two statements, each committed by itself, with no await     *)
(* between them: the messages, and then the row of agent_turns.  A process *)
(* that dies between the two is CutOff below.                              *)
SaveTurn(t, status) ==
  /\ conv' = WithTurn(t, status)
  /\ sidecar' = [sidecar EXCEPT ![t] = status]

At(t, stage) == turn' = [turn EXCEPT ![t].stage = stage]

Over(t) == [NoTurn EXCEPT !.stage = "ended", !.conv = turn[t].conv]
Ends(t) == turn' = [turn EXCEPT ![t] = Over(t)]

(* Mutant: a turn that ends leaves its entry in the registry.              *)
Kept(t) == active

(* The entry of the conversation goes, whichever run it names.             *)
Popped(t) == [active EXCEPT ![turn[t].conv] = None]

-----------------------------------------------------------------------------
(* POST /agent/chat.                                                       *)

(* Mutant: a turn does not ask for the session of its conversation.        *)
NoSession(c) == None

Resumed(c) == session[c]

TurnInto(t, c) ==
  LET others == {u \in Runs : Live(u) /\ turn[u].conv = c} IN
  /\ turn' = [turn EXCEPT ![t] = [NoTurn EXCEPT !.stage = "creating", !.conv = c,
                                               !.session = Resumed(c)]]
  /\ overlapped' = overlapped \cup others \cup (IF others = {} THEN {} ELSE {t})
  /\ resuming' = IF session[c] = None THEN resuming ELSE resuming \cup {t}
  /\ UNCHANGED <<active, session, sidecar, hermes, halved, chat>>

(* A conversation id the browser sends is taken as it is: the conversation *)
(* may have been deleted.                                                  *)
AgentStart(t, c) ==
  /\ turn[t].stage = "idle"
  /\ conv[c].state # "absent"
  /\ TurnInto(t, c)
  /\ UNCHANGED conv

AgentCreates(t, c) ==
  /\ turn[t].stage = "idle"
  /\ conv[c].state = "absent"
  /\ conv' = Inserted(c, t)
  /\ TurnInto(t, c)

(* create_run returns.  hermes resumes the session it was given, or opens  *)
(* one.  The registry entry of another turn is overwritten.                *)
RunCreated(t) ==
  /\ turn[t].stage = "creating"
  /\ hermes' = [hermes EXCEPT ![t] = IF turn[t].session = None THEN t ELSE turn[t].session]
  /\ active' = [active EXCEPT ![turn[t].conv] = t]
  /\ turn' = [turn EXCEPT ![t].stage = "streaming", ![t].session = None]
  /\ UNCHANGED <<convVars, session, sidecar, overlapped, resuming, halved>>

(* hermes cannot be reached, or the browser closes the stream before the   *)
(* answer of create_run: nothing is saved.                                 *)
RunNotCreated(t) ==
  /\ turn[t].stage = "creating"
  /\ Ends(t)
  /\ UNCHANGED <<convVars, active, session, sidecar, hermes, overlapped, resuming, halved>>

Delta(t) ==
  /\ turn[t].stage = "streaming"
  /\ ~turn[t].reply
  /\ turn' = [turn EXCEPT ![t].reply = TRUE]
  /\ UNCHANGED <<convVars, active, session, sidecar, hermes, overlapped, resuming, halved>>

(* run.completed may carry the whole answer; any other run.X is the status *)
(* X.  The loop goes on until hermes closes the stream.                    *)
RunEvent(t, status, output) ==
  /\ turn[t].stage = "streaming"
  /\ status # "stopped"
  /\ turn' = [turn EXCEPT ![t].status = status,
                          ![t].reply = @ \/ (status = "completed" /\ output)]
  /\ UNCHANGED <<convVars, active, session, sidecar, hermes, overlapped, resuming, halved>>

(* After the loop: the session is asked for unless the conversation has    *)
(* one, and then the turn is saved.                                        *)
Unregistered(t) ==
  /\ active' = Popped(t)
  /\ IF session[turn[t].conv] = None
     THEN At(t, "mapping") /\ UNCHANGED <<conv, sidecar>>
     ELSE Ends(t) /\ SaveTurn(t, turn[t].status)
  /\ UNCHANGED <<session, hermes, overlapped, resuming, halved, chat>>

StreamCloses(t) == turn[t].stage = "streaming" /\ Unregistered(t)

StreamBreaks(t) ==
  /\ turn[t].stage = "streaming"
  /\ At(t, "broken")
  /\ UNCHANGED <<convVars, active, session, sidecar, hermes, overlapped, resuming, halved>>

BreakReported(t) == turn[t].stage = "broken" /\ Unregistered(t)

(* get_run answers with the session, which replaces what another turn has  *)
(* stored during the await; if it fails the conversation keeps none.       *)
Mapped(t) == [session EXCEPT ![turn[t].conv] = hermes[t]]

MappingStored(t) ==
  /\ turn[t].stage = "mapping"
  /\ session' = Mapped(t)
  /\ SaveTurn(t, turn[t].status)
  /\ Ends(t)
  /\ UNCHANGED <<active, hermes, overlapped, resuming, halved, chat>>

MappingFails(t) ==
  /\ turn[t].stage = "mapping"
  /\ SaveTurn(t, turn[t].status)
  /\ Ends(t)
  /\ UNCHANGED <<active, session, hermes, overlapped, resuming, halved, chat>>

-----------------------------------------------------------------------------
(* The browser closes the stream.                                          *)

(* At a yield of the loop: GeneratorExit, and hermes is asked to stop.     *)
ClosedAtYield(t) ==
  /\ turn[t].stage = "streaming"
  /\ turn' = [turn EXCEPT ![t].stage = "stopping", ![t].status = "stopped"]
  /\ UNCHANGED <<convVars, active, session, sidecar, hermes, overlapped, resuming, halved>>

(* hermes has answered, or has not: the turn is saved as stopped.          *)
ClosedTurnSaved(t) ==
  /\ turn[t].stage = "stopping"
  /\ SaveTurn(t, "stopped")
  /\ active' = Popped(t)
  /\ Ends(t)
  /\ UNCHANGED <<session, hermes, overlapped, resuming, halved, chat>>

(* At an await of the loop, or at the yield of a broken stream: only the   *)
(* finally clause runs, and the run goes on at hermes.                     *)
ClosedAtAwait(t) ==
  /\ turn[t].stage \in {"streaming", "broken"}
  /\ active' = Popped(t)
  /\ Ends(t)
  /\ UNCHANGED <<convVars, session, sidecar, hermes, overlapped, resuming, halved>>

(* During get_run: the turn is not saved.                                  *)
ClosedAtMapping(t) ==
  /\ turn[t].stage = "mapping"
  /\ Ends(t)
  /\ UNCHANGED <<convVars, active, session, sidecar, hermes, overlapped, resuming, halved>>

(* POST /agent/stop: the run the registry names is asked to stop, and      *)
(* hermes ends it with run.stopped.  If hermes is not reached nothing      *)
(* happens.                                                                *)
AgentStop(c) ==
  /\ active[c] # None
  /\ turn[active[c]].stage = "streaming"
  /\ turn' = [turn EXCEPT ![active[c]].status = "stopped"]
  /\ UNCHANGED <<convVars, active, session, sidecar, hermes, overlapped, resuming, halved>>

(* The next step of the turn saves it.                                     *)
Saving(t) ==
  \/ turn[t].stage \in {"stopping", "mapping"}
  \/ turn[t].stage \in {"streaming", "broken"} /\ session[turn[t].conv] # None

(* What the last step of a turn has written when the process dies in it:   *)
(* the session it asked for, the messages without the row of agent_turns,  *)
(* or both.                                                                *)
CutOff(t) ==
  /\ Saving(t)
  /\ \/ session' = session
     \/ turn[t].stage = "mapping" /\ session' = Mapped(t)
  /\ \/ UNCHANGED <<conv, halved>>
     \/ /\ Present(turn[t].conv)
        /\ conv' = WithTurn(t, turn[t].status)
        /\ halved' = halved \cup {t}
  /\ UNCHANGED sidecar

(* A crash ends the chats and the turns, empties the registry, and may cut *)
(* off the step of one turn.                                               *)
Crash ==
  /\ ChatsCrash
  /\ turn' = [t \in Runs |-> IF Live(t) THEN Over(t) ELSE turn[t]]
  /\ active' = [c \in Convs |-> None]
  /\ \/ UNCHANGED <<conv, session, sidecar, halved>>
     \/ \E t \in Runs : CutOff(t)
  /\ UNCHANGED <<hermes, overlapped, resuming>>

-----------------------------------------------------------------------------
Init ==
  /\ ConvInit
  /\ turn = [t \in Runs |-> NoTurn]
  /\ active = [c \in Convs |-> None]
  /\ session = [c \in Convs |-> None]
  /\ sidecar = [t \in Runs |-> None]
  /\ hermes = [t \in Runs |-> None]
  /\ overlapped = {}
  /\ resuming = {}
  /\ halved = {}

TurnStep(t) ==
  \/ \E c \in Convs : AgentStart(t, c) \/ AgentCreates(t, c)
  \/ RunCreated(t) \/ RunNotCreated(t) \/ Delta(t)
  \/ \E status \in Statuses, output \in BOOLEAN : RunEvent(t, status, output)
  \/ StreamCloses(t) \/ StreamBreaks(t) \/ BreakReported(t)
  \/ MappingStored(t) \/ MappingFails(t)
  \/ ClosedAtYield(t) \/ ClosedTurnSaved(t) \/ ClosedAtAwait(t) \/ ClosedAtMapping(t)

Begun == Cardinality({t \in Chats : chat[t].stage # "idle"})
         + Cardinality({t \in Runs : turn[t].stage # "idle"})

Next ==
  \/ (\E c \in Convs : Endpoint(c)) /\ UNCHANGED agentVars
  \/ (\E t \in Chats : ChatStep(t)) /\ UNCHANGED agentVars /\ Begun' <= MaxTurns
  \/ (\E t \in Runs : TurnStep(t)) /\ Begun' <= MaxTurns
  \/ \E c \in Convs : AgentStop(c)
  \/ Crash

Spec == Init /\ [][Next]_vars

-----------------------------------------------------------------------------
(* A conversation holds whole turns of its own: an answer follows its      *)
(* question at once, also when two turns of the conversation stream        *)
(* together; no turn is saved twice; an agent turn is marked as its row of *)
(* agent_turns says; and while the conversation lives, a turn that has its *)
(* row has its messages, and one that has its messages has its row, unless *)
(* the process died between the two writes of its save.                    *)
TurnOf(t) == IF t \in Chats THEN chat[t] ELSE turn[t]

SavedOnce(c) ==
  \A j, k \in DOMAIN conv[c].messages :
    LET m == conv[c].messages IN
    m[j].turn = m[k].turn /\ m[j].role = m[k].role => j = k

AnswersFollow(c) ==
  \A k \in DOMAIN conv[c].messages :
    LET m == conv[c].messages
        answered == k < Len(m) /\ m[k + 1].turn = m[k].turn /\ m[k + 1].role = "assistant"
    IN  /\ TurnOf(m[k].turn).conv = c
        /\ TurnOf(m[k].turn).stage = "ended"
        /\ m[k].role = "user" => answered \/ m[k].turn \in Runs
        /\ m[k].role = "assistant" => k > 1 /\ m[k - 1].turn = m[k].turn

Of(t, c) == {k \in DOMAIN conv[c].messages : conv[c].messages[k].turn = t}

MarksOf(t, c) ==
  {conv[c].messages[k].mark : k \in {j \in Of(t, c) : conv[c].messages[j].role = "assistant"}}

MarkedAsRecorded(c) ==
  \A t \in Runs : turn[t].conv = c /\ Present(c) =>
    /\ sidecar[t] # None => Of(t, c) # {}
    /\ Of(t, c) # {} => sidecar[t] # None \/ t \in halved
    /\ sidecar[t] \in {"failed", "stopped"} => MarksOf(t, c) = {sidecar[t]}
    /\ sidecar[t] = "completed" => MarksOf(t, c) \subseteq {"none"}

TurnsKeptWhole ==
  \A c \in Convs : SavedOnce(c) /\ AnswersFollow(c) /\ MarkedAsRecorded(c)

(* The registry names a turn that streams in that conversation, and a turn *)
(* that streams is named by it unless another turn of the conversation     *)
(* lived beside it: POST /agent/stop then reaches the turn the user sees.  *)
StopFindsTheRun ==
  /\ \A c \in Convs : active[c] # None =>
       turn[active[c]].conv = c /\ Relays(active[c])
  /\ \A t \in Runs \ overlapped : Relays(t) => active[turn[t].conv] = t

(* A conversation resumes one hermes session: a turn that began when the   *)
(* conversation had a session runs in the one that the conversation has,   *)
(* unless the two first turns of the conversation overlapped and each      *)
(* opened a session; and what is stored is a session of the conversation.  *)
SessionStands ==
  /\ \A t \in resuming \ overlapped :
       hermes[t] # None => hermes[t] = session[turn[t].conv]
  /\ \A c \in Convs : session[c] # None =>
       hermes[session[c]] = session[c] /\ turn[session[c]].conv = c

-----------------------------------------------------------------------------
(* The inductive invariant behind the safety properties.                   *)

(* A conversation that something is said in is or was in the table.        *)
Known(c) == c \in Convs /\ conv[c].state # "absent"

ChatsWellFormed == \A t \in Chats : chat[t].stage # "idle" => Known(chat[t].conv)

TurnsWellFormed ==
  \A t \in Runs :
    /\ turn[t].stage = "idle" => turn[t].conv = None /\ t \notin overlapped \cup resuming
    /\ turn[t].stage # "idle" => Known(turn[t].conv)
    /\ turn[t].stage # "ended" => sidecar[t] = None
    /\ turn[t].stage \in {"idle", "creating"} => hermes[t] = None
    /\ Live(t) /\ turn[t].stage # "creating" => hermes[t] # None

OverlapsSeen ==
  \A t, u \in Runs :
    t # u /\ Live(t) /\ Live(u) /\ turn[t].conv = turn[u].conv => t \in overlapped

(* A run of hermes is in a session that was opened in its conversation.    *)
OpenedIn(s, c) == hermes[s] = s /\ turn[s].conv = c

SessionsOpened ==
  \A t \in Runs :
    /\ hermes[t] # None => OpenedIn(hermes[t], turn[t].conv)
    /\ turn[t].session # None => OpenedIn(turn[t].session, turn[t].conv)

(* A resuming turn has a session to resume; while no other turn lives      *)
(* beside it, it keeps that session and nobody is about to store another.  *)
ResumesSession ==
  \A t \in resuming :
    /\ session[turn[t].conv] # None
    /\ t \notin overlapped =>
         /\ turn[t].stage = "creating" => turn[t].session = session[turn[t].conv]
         /\ \A u \in Runs : turn[u].conv = turn[t].conv => turn[u].stage # "mapping"

AgentIndInv ==
  /\ AgentTypeOK /\ ChatsWellFormed /\ TurnsWellFormed
  /\ OverlapsSeen /\ StopFindsTheRun
  /\ SessionsOpened /\ ResumesSession /\ SessionStands
  /\ TurnsKeptWhole
=============================================================================
