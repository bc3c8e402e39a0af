----------------------------- MODULE FeishuSync -----------------------------
(***************************************************************************)
(* The synchronisation of a learning group with its Feishu chat: a page of *)
(* messages is listed after the stored cursor, the help requests on it are *)
(* answered in the chat, the messages are imported, and the cursor and the *)
(* ids that were answered are stored with the source.                      *)
(*                                                                         *)
(*   src/src/group_learning/feishu_mcp_importer.py,                        *)
(*   src/src/group_learning/feishu_mcp_client.py,                          *)
(*   src/src/group_learning/service.py, src/src/api/group_learning.py.     *)
(*                                                                         *)
(* An answer in the chat is not undone by a rollback.  The messages are    *)
(* those that ask for help, of an active source; GroupLearning has what an *)
(* import does with the others.                                            *)
(***************************************************************************)
EXTENDS HttpRequests

CONSTANTS
  MaxPosted,     \* bound on messages posted in the chat
  PageSize,      \* messages of a page
  MaxAnswers,    \* bound on answers to one message
  OtherImports   \* whether the summary is also written by other calls

ASSUME SyncAssumption ==
  MaxPosted \in Nat /\ MaxAnswers \in Nat /\ PageSize \in Nat \ {0}

VARIABLES
  posted,      \* how many messages the chat has
  answers,     \* answers to each message that reached the chat
  lastCursor,  \* last_cursor, the messages before it were listed
  remembered,  \* last_import_summary: help_replied_external_message_ids
  imported,    \* group_learning_messages
  recorded,    \* ids that any committed summary has held
  syncTx       \* request -> its place and what it has read and done

syncVars == <<posted, answers, lastCursor, remembered, imported, recorded, syncTx>>

sourceVars == <<lastCursor, remembered, imported, recorded>>

HelpMessages == 1..MaxPosted

SyncTx ==
  [pc : {Idle, "listing", "answering", "importing"},
   from : 0..MaxPosted,              \* the cursor as it was loaded
   known : SUBSET HelpMessages,      \* the remembered ids as loaded
   settled : SUBSET HelpMessages,    \* the ids recorded by then
   page : SUBSET HelpMessages,
   more : BOOLEAN,                   \* the page had a successor
   answered : SUBSET HelpMessages,   \* answered by this call
   new : SUBSET HelpMessages]        \* inserted, not committed

SyncIdle ==
  [pc |-> Idle, from |-> 0, known |-> {}, settled |-> {}, page |-> {},
   more |-> FALSE, answered |-> {}, new |-> {}]

SyncTypeOK ==
  /\ posted \in 0..MaxPosted
  /\ answers \in [HelpMessages -> 0..MaxAnswers]
  /\ lastCursor \in 0..MaxPosted
  /\ remembered \in SUBSET HelpMessages
  /\ imported \in SUBSET HelpMessages
  /\ recorded \in SUBSET HelpMessages
  /\ syncTx \in [Requests -> SyncTx]

SyncInit ==
  /\ posted = 0
  /\ answers = [m \in HelpMessages |-> 0]
  /\ lastCursor = 0
  /\ remembered = {}
  /\ imported = {}
  /\ recorded = {}
  /\ syncTx = [r \in Requests |-> SyncIdle]

(* The source's row lock, which the UPDATE at the end of the import takes. *)
SourceRowFree(r) == \A q \in Requests \ {r} : syncTx[q].pc # "importing"

PostHelp ==
  /\ posted < MaxPosted
  /\ posted' = posted + 1
  /\ UNCHANGED <<answers, sourceVars, syncTx>>

-----------------------------------------------------------------------------
(* sync_source                                                             *)

OpenSync(r) ==
  /\ syncTx[r].pc = Idle
  /\ syncTx' = [syncTx EXCEPT ![r] =
       [SyncIdle EXCEPT !.pc = "listing", !.from = lastCursor, !.known = remembered,
                        !.settled = recorded]]
  /\ UNCHANGED <<posted, answers, sourceVars>>

HasMore_Always(r) == syncTx[r].from + PageSize <= MaxPosted

(* Feishu names a next page only when there is one.                        *)
HasMore(r) == syncTx[r].from + PageSize < posted

ListPage(r) ==
  /\ syncTx[r].pc = "listing"
  /\ syncTx' = [syncTx EXCEPT ![r].pc = "answering",
       ![r].page = {m \in 1..posted : syncTx[r].from < m /\ m <= syncTx[r].from + PageSize},
       ![r].more = HasMore(r)]
  /\ UNCHANGED <<posted, answers, sourceVars>>

Unanswered(r) == syncTx[r].page \ (syncTx[r].known \cup syncTx[r].answered)

(* The calls that may reach the chat for one answer: the fallback client   *)
(* sends it again when the answer of the first client was lost.            *)
AnswerHelp(r, copies) ==
  /\ syncTx[r].pc = "answering"
  /\ \E m \in Unanswered(r) :
       /\ \A n \in Unanswered(r) : m <= n
       /\ answers[m] + copies <= MaxAnswers
       /\ answers' = [answers EXCEPT ![m] = @ + copies]
       /\ syncTx' = [syncTx EXCEPT ![r].answered = @ \cup {m}]
  /\ UNCHANGED <<posted, sourceVars>>

(* import_group_messages, up to its last flush: the inserts wait for those *)
(* of another sync, the UPDATE of the summary for its commit.              *)
ImportPage(r) ==
  /\ syncTx[r].pc = "answering"
  /\ Unanswered(r) = {}
  /\ SourceRowFree(r)
  /\ syncTx' = [syncTx EXCEPT ![r].pc = "importing", ![r].new = syncTx[r].page \ imported]
  /\ UNCHANGED <<posted, answers, sourceVars>>

(* The import has just put a summary of its own in place of the one that   *)
(* held the ids, so that _remembered_help_reply_ids finds none to add to.  *)
RememberedIds(r) == syncTx[r].answered

(* last_cursor is written only when the page named a next one.             *)
CommitSync(r) ==
  /\ syncTx[r].pc = "importing"
  /\ imported' = imported \cup syncTx[r].new
  /\ lastCursor' = IF syncTx[r].more THEN syncTx[r].from + PageSize ELSE lastCursor
  /\ remembered' = RememberedIds(r)
  /\ recorded' = recorded \cup syncTx[r].answered
  /\ syncTx' = [syncTx EXCEPT ![r] = SyncIdle]
  /\ UNCHANGED <<posted, answers>>

(* A sync without a client, or an import of other messages: the summary is *)
(* replaced by one without ids.                                            *)
ReplaceSummary(r) ==
  /\ OtherImports
  /\ syncTx[r].pc = Idle
  /\ SourceRowFree(r)
  /\ remembered' = {}
  /\ UNCHANGED <<posted, answers, lastCursor, imported, recorded, syncTx>>

(* The chat cannot be reached, a constraint, an exception: the transaction *)
(* is rolled back, the answers stay in the chat.                           *)
SyncAbort(r) ==
  /\ syncTx[r].pc # Idle
  /\ syncTx' = [syncTx EXCEPT ![r] = SyncIdle]
  /\ UNCHANGED <<posted, answers, sourceVars>>

SyncStep(r) ==
  \/ OpenSync(r) \/ ListPage(r) \/ ImportPage(r) \/ CommitSync(r)
  \/ ReplaceSummary(r) \/ SyncAbort(r)
  \/ \E copies \in 1..2 : AnswerHelp(r, copies)

SyncNext == PostHelp \/ \E r \in Requests : SyncStep(r)

SyncSpec == SyncInit /\ [][SyncNext]_syncVars

-----------------------------------------------------------------------------
(* Properties.                                                             *)

(* Syncs that overlap, list a page again, move the cursor back or fail     *)
(* after they wrote in the chat lose no message: every message before the  *)
(* cursor has been stored, every stored one was answered, and an id is     *)
(* remembered only if its answer was sent.                                 *)
SyncLosesNothing ==
  /\ 1..lastCursor \subseteq imported
  /\ \A m \in imported \cup remembered : answers[m] > 0

(* A help message whose answer a committed sync had recorded before a sync *)
(* loaded the source is not answered by that one again ("系统会记录已回复的   *)
(* message_id，避免同一条 help 反复刷屏").                                     *)
HelpAnsweredOnce == \A r \in Requests : syncTx[r].answered \cap syncTx[r].settled = {}

=============================================================================
