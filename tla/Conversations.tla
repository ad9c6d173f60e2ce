---------------------------- MODULE Conversations ----------------------------
(***************************************************************************)
(* The table conversations and the plain chat that writes it:              *)
(* routers/conversations.py and routers/chat.py.                           *)
(*                                                                         *)
(* A chat reads its conversation when it starts, waits for the retrieval   *)
(* and for the stream of the language model, and writes the conversation   *)
(* when the answer is whole.  Other requests run during every one of these *)
(* awaits, and the browser may close the stream at any of them.            *)
(*                                                                         *)
(* One user is modelled.  What is said is abstracted to who said it, in    *)
(* which turn, and with which mark behind it.                              *)
(***************************************************************************)
EXTENDS Naturals, Sequences

CONSTANTS
  Convs,        \* ids of conversations
  Turns,        \* requests that say something in a conversation
  Chats,        \* those of them that are plain chats
  None

ASSUME ConversationAssumption ==
  /\ Chats \subseteq Turns
  /\ None \notin Convs \cup Turns

VARIABLES
  conv,         \* the table conversations
  chat          \* the requests of POST /chat

convVars == <<conv, chat>>

-----------------------------------------------------------------------------
Marks == {"none", "response interrupted", "failed", "stopped", "completed"}

Msg == [turn: Turns, role: {"user", "assistant"}, mark: Marks]

(* A title is the beginning of the message of the turn that created the    *)
(* conversation, or what the user typed.                                   *)
Titles == Turns \cup {"New Conversation", "renamed"}

Conv == [state: {"absent", "present", "deleted"}, title: Titles, messages: Seq(Msg)]
NoConv == [state |-> "absent", title |-> "New Conversation", messages |-> <<>>]

Present(c) == conv[c].state = "present"

Said(t, role, mark) == [turn |-> t, role |-> role, mark |-> mark]

Inserted(c, title) ==
  [conv EXCEPT ![c] = [state |-> "present", title |-> title, messages |-> <<>>]]

(* The stages of a chat.  "preparing": the page fetch and the search;      *)
(* "first": the first stream, offered the search tool, or the second one   *)
(* for a model that cannot use tools; "followup": the stream after the     *)
(* tool was called.                                                        *)
ChatStages == {"idle", "preparing", "first", "followup", "ended"}

(* heard: how many messages the request read; text: a token of the stream  *)
(* under way has reached the browser.                                      *)
Chat == [stage: ChatStages, conv: Convs \cup {None}, creates: BOOLEAN,
         heard: Nat, text: BOOLEAN]
NoChat == [stage |-> "idle", conv |-> None, creates |-> FALSE, heard |-> 0, text |-> FALSE]

ConvTypeOK ==
  /\ conv \in [Convs -> Conv]
  /\ chat \in [Chats -> Chat]

-----------------------------------------------------------------------------
(* routers/conversations.py.                                               *)

CreateConversation(c) ==
  /\ conv[c].state = "absent"
  /\ conv' = Inserted(c, "New Conversation")
  /\ UNCHANGED chat

RenameConversation(c) ==
  /\ Present(c)
  /\ conv' = [conv EXCEPT ![c].title = "renamed"]
  /\ UNCHANGED chat

(* The row goes.  The rows of agent_sessions and agent_turns stay.         *)
DeleteConversation(c) ==
  /\ Present(c)
  /\ conv' = [conv EXCEPT ![c] = [NoConv EXCEPT !.state = "deleted"]]
  /\ UNCHANGED chat

-----------------------------------------------------------------------------
(* Saving a chat.                                                          *)

Pair(t, partial) ==
  <<Said(t, "user", "none"),
    Said(t, "assistant", IF partial THEN "response interrupted" ELSE "none")>>

(* Mutant: the messages read when the chat started are written back.       *)
WritesBackHistory(t, partial) ==
  LET c == chat[t].conv IN
  IF ~chat[t].text \/ ~Present(c) THEN conv
  ELSE [conv EXCEPT ![c].messages = SubSeq(@, 1, chat[t].heard) \o Pair(t, partial)]

(* _save_to_db: an empty answer is not saved.  The row is read again under *)
(* the lock and appended to.  A chat that created its conversation writes  *)
(* the title once more.                                                    *)
SavedChat(t, partial) ==
  LET c == chat[t].conv IN
  IF ~chat[t].text \/ ~Present(c) THEN conv
  ELSE [conv EXCEPT ![c].messages = @ \o Pair(t, partial),
                    ![c].title = IF chat[t].creates THEN t ELSE @]

ChatOver(t) == [NoChat EXCEPT !.stage = "ended", !.conv = chat[t].conv]
ChatEnds(t) == chat' = [chat EXCEPT ![t] = ChatOver(t)]

-----------------------------------------------------------------------------
(* POST /chat.                                                             *)

ChatInto(t, c, creates) ==
  chat' = [chat EXCEPT ![t] = [stage |-> "preparing", conv |-> c, creates |-> creates,
                               heard |-> Len(conv[c].messages), text |-> FALSE]]

(* An id that is not in the table is answered 404.                         *)
ChatStart(t, c) ==
  /\ chat[t].stage = "idle"
  /\ Present(c)
  /\ ChatInto(t, c, FALSE)
  /\ UNCHANGED conv

ChatCreates(t, c) ==
  /\ chat[t].stage = "idle"
  /\ conv[c].state = "absent"
  /\ conv' = Inserted(c, t)
  /\ ChatInto(t, c, TRUE)

(* A failure of the fetch or of the search leaves the context empty.       *)
ChatPrepared(t) ==
  /\ chat[t].stage = "preparing"
  /\ chat' = [chat EXCEPT ![t].stage = "first"]
  /\ UNCHANGED conv

(* A token is shown, and kept for the answer.                              *)
ChatToken(t) ==
  /\ chat[t].stage \in {"first", "followup"}
  /\ chat' = [chat EXCEPT ![t].text = TRUE]
  /\ UNCHANGED conv

(* The model called the tool: the answer is that of a second stream, and   *)
(* what the first one showed is not part of it.                            *)
ChatToolCall(t) ==
  /\ chat[t].stage = "first"
  /\ chat' = [chat EXCEPT ![t].stage = "followup", ![t].text = FALSE]
  /\ UNCHANGED conv

(* The stream ends: what it sent is the answer.                            *)
ChatCompletes(t) ==
  /\ chat[t].stage \in {"first", "followup"}
  /\ conv' = SavedChat(t, FALSE)
  /\ ChatEnds(t)

(* The browser closes the stream while the generator waits for the model:  *)
(* the CancelledError saves reply_parts, which a first stream fills only   *)
(* when it is over.                                                        *)
ChatCancelled(t) ==
  /\ chat[t].stage \in {"first", "followup"}
  /\ conv' = IF chat[t].stage = "followup" THEN SavedChat(t, TRUE) ELSE conv
  /\ ChatEnds(t)

(* The model reports an error, cannot be reached or times out, or the      *)
(* browser closes the stream while the generator is at a yield (its        *)
(* GeneratorExit is not caught): nothing is saved.                         *)
ChatFails(t) ==
  /\ chat[t].stage \in {"first", "followup"}
  /\ ChatEnds(t)
  /\ UNCHANGED conv

-----------------------------------------------------------------------------
(* A crash ends the chats under way.  What one of them saves is one row.   *)
ChatsCrash ==
  chat' = [t \in Chats |-> IF chat[t].stage = "idle" THEN chat[t] ELSE ChatOver(t)]

ConvInit ==
  /\ conv = [c \in Convs |-> NoConv]
  /\ chat = [t \in Chats |-> NoChat]

Endpoint(c) == CreateConversation(c) \/ RenameConversation(c) \/ DeleteConversation(c)

ChatStep(t) ==
  \/ \E c \in Convs : ChatStart(t, c) \/ ChatCreates(t, c)
  \/ ChatPrepared(t) \/ ChatToken(t) \/ ChatToolCall(t)
  \/ ChatCompletes(t) \/ ChatCancelled(t) \/ ChatFails(t)

-----------------------------------------------------------------------------
(* Once a message is saved it stays, and later messages come after it,     *)
(* until the conversation is deleted; a deleted conversation never comes   *)
(* back, whatever answers are still streaming for it; and a title changes  *)
(* only when the user renames, or when the chat that created the           *)
(* conversation saves its answer.                                          *)
Extends(old, new) == Len(old) <= Len(new) /\ SubSeq(new, 1, Len(old)) = old

ConversationStands(c) ==
  /\ conv[c].state = "deleted" => conv'[c] = conv[c]
  /\ Present(c) /\ conv'[c].state = "present" =>
       /\ Extends(conv[c].messages, conv'[c].messages)
       /\ conv'[c].title # conv[c].title =>
            \/ conv'[c].title = "renamed" /\ conv'[c].messages = conv[c].messages
            \/ \E t \in Chats : /\ conv'[c].title = t
                               /\ chat[t].conv = c /\ chat[t].creates
                               /\ chat[t].stage # "ended" /\ chat'[t].stage = "ended"

ConversationsStand == [][\A c \in Convs : ConversationStands(c)]_convVars
=============================================================================
