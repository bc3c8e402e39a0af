----------------------------- MODULE ChatThread -----------------------------
(***************************************************************************)
(* One conversation thread of a learner, after its first turn: turns that  *)
(* several tabs send or stream, the numbers of their messages, and the     *)
(* side effects (memory, summary) that follow a committed turn.            *)
(*                                                                         *)
(*   src/src/api/chat.py, src/src/models/runtime.py.                       *)
(*                                                                         *)
(* The thread and its history are read before the model is asked; the      *)
(* thread's row is locked only to write the two messages of the turn.      *)
(***************************************************************************)
EXTENDS HttpRequests

CONSTANTS
  MaxTurns,      \* bound on turns ever begun
  HistoryLimit   \* settings.chat_history_limit, in messages

ASSUME ChatAssumption == MaxTurns \in Nat \ {0} /\ HistoryLimit \in Nat

VARIABLES
  turnsBegun,  \* turns begun so far, committed or not
  messages,    \* conversation_messages of the thread
  summary,     \* the turns that agent_threads.metadata's summary tells of
  memories,    \* turns captured as memories
  chatTx       \* request -> its place, its turn and what it has read

chatVars == <<turnsBegun, messages, summary, memories, chatTx>>

Turns == 1..MaxTurns

Message == [sequence : 1..(2 * MaxTurns), turn : Turns, role : {"user", "assistant"}]

ChatTx ==
  [pc : {Idle, "replying", "writing", "finishing"}, turn : Turns, streamed : BOOLEAN,
   history : SUBSET Message, summary : SUBSET Turns, next : Nat]

ChatIdle ==
  [pc |-> Idle, turn |-> 1, streamed |-> FALSE, history |-> {}, summary |-> {}, next |-> 0]

ChatTypeOK ==
  /\ turnsBegun \in Turns
  /\ messages \in SUBSET Message
  /\ summary \in SUBSET Turns
  /\ memories \in SUBSET Turns
  /\ chatTx \in [Requests -> ChatTx]

MessagesOf(t, n) == {[sequence |-> n, turn |-> t, role |-> "user"],
                     [sequence |-> n + 1, turn |-> t, role |-> "assistant"]}

(* A new thread has an id of its own: nothing else writes its first turn.  *)
ChatInit ==
  /\ turnsBegun = 1
  /\ messages = MessagesOf(1, 1)
  /\ summary = {}
  /\ memories = {}
  /\ chatTx = [r \in Requests |-> ChatIdle]

-----------------------------------------------------------------------------
(* Reading                                                                 *)

TurnsOf(M) == {m.turn : m \in M}

Sequences == {m.sequence : m \in messages}

LastSequence == CHOOSE n \in Sequences : \A k \in Sequences : k <= n

(* _conversation_history: ORDER BY sequence DESC LIMIT.                    *)
History == {m \in messages : m.sequence + HistoryLimit > LastSequence}

ReadThread(r, streamed) ==
  /\ chatTx[r].pc = Idle
  /\ turnsBegun < MaxTurns
  /\ turnsBegun' = turnsBegun + 1
  /\ chatTx' = [chatTx EXCEPT ![r] =
       [ChatIdle EXCEPT !.pc = "replying", !.turn = turnsBegun + 1, !.streamed = streamed,
                        !.history = History, !.summary = summary]]
  /\ UNCHANGED <<messages, summary, memories>>

-----------------------------------------------------------------------------
(* _persist_chat_messages                                                  *)

ThreadFree_NoLock(r) == TRUE

(* _thread_for_message_write: FOR UPDATE, given up by the commit.          *)
ThreadFree(r) == \A q \in Requests \ {r} : chatTx[q].pc # "writing"

(* _next_message_sequence, under the lock.  A stream has a session of its  *)
(* own, which loads the thread here; chat_send keeps what it loaded first. *)
LockThread(r) ==
  /\ chatTx[r].pc = "replying"
  /\ ThreadFree(r)
  /\ chatTx' = [chatTx EXCEPT ![r].pc = "writing",
       ![r].next = LastSequence + 1,
       ![r].summary = IF chatTx[r].streamed THEN summary ELSE chatTx[r].summary]
  /\ UNCHANGED <<turnsBegun, messages, summary, memories>>

(* The unique constraint refuses a number that is taken; _touch_thread     *)
(* writes the metadata back, with the summary it was loaded with.          *)
CommitTurn(r) ==
  /\ chatTx[r].pc = "writing"
  /\ {chatTx[r].next, chatTx[r].next + 1} \cap Sequences = {}
  /\ messages' = messages \cup MessagesOf(chatTx[r].turn, chatTx[r].next)
  /\ summary' = chatTx[r].summary
  /\ chatTx' = [chatTx EXCEPT ![r].pc = "finishing"]
  /\ UNCHANGED <<turnsBegun, memories>>

-----------------------------------------------------------------------------
(* _persist_chat_side_effects, in a second transaction                     *)

MayFinish_Early(r) == chatTx[r].pc \in {"writing", "finishing"}

MayFinish(r) == chatTx[r].pc = "finishing"

(* _capture_chat_memory_safely may fail without the summary.               *)
Memorized(r) == {memories, memories \cup {chatTx[r].turn}}

(* _maybe_update_thread_summary: when the history no longer holds it all,  *)
(* and the model answers; over the summary as it was loaded.               *)
Summarized(r) ==
  IF Cardinality(chatTx[r].history) + 2 <= HistoryLimit THEN {summary}
  ELSE {summary,
        chatTx[r].summary \cup TurnsOf(chatTx[r].history) \cup {chatTx[r].turn}}

FinishTurn(r) ==
  /\ MayFinish(r)
  /\ ThreadFree(r)
  /\ memories' \in Memorized(r)
  /\ summary' \in Summarized(r)
  /\ chatTx' = [chatTx EXCEPT ![r] = ChatIdle]
  /\ UNCHANGED <<turnsBegun, messages>>

(* The model provider fails, the reader of a stream goes away, an          *)
(* exception, a crash: what is not committed is rolled back.               *)
ChatAbort(r) ==
  /\ chatTx[r].pc # Idle
  /\ chatTx' = [chatTx EXCEPT ![r] = ChatIdle]
  /\ UNCHANGED <<turnsBegun, messages, summary, memories>>

ChatStep(r) ==
  \/ \E streamed \in BOOLEAN : ReadThread(r, streamed)
  \/ LockThread(r) \/ CommitTurn(r) \/ FinishTurn(r) \/ ChatAbort(r)

ChatNext == \E r \in Requests : ChatStep(r)

ChatSpec == ChatInit /\ [][ChatNext]_chatVars

-----------------------------------------------------------------------------
(* Properties.                                                             *)

(* The messages are numbered without a gap, each question directly before  *)
(* its own answer however turns overlap, and the turn that holds the lock  *)
(* has numbers that the unique constraint will not refuse.                 *)
TurnsAreWhole ==
  /\ \E n \in 0..MaxTurns : Sequences = 1..(2 * n)
  /\ \A m, k \in messages : m.sequence = k.sequence => m = k
  /\ \A m \in messages : m.role = "user" =>
       [sequence |-> m.sequence + 1, turn |-> m.turn, role |-> "assistant"] \in messages
  /\ \A r \in Requests : chatTx[r].pc = "writing" =>
       {chatTx[r].next, chatTx[r].next + 1} \cap Sequences = {}

(* Nothing is remembered or summarised of a turn that was rolled back,     *)
(* although a summary may be written over by one that was loaded earlier.  *)
SideEffectsFollowCommit == summary \cup memories \subseteq TurnsOf(messages)

=============================================================================
