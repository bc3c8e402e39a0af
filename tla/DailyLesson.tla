---------------------------- MODULE DailyLesson ----------------------------
(***************************************************************************)
(* The daily lessons of one learner: an episode per lesson, and the graph  *)
(* checkpoint at which it waits for the answer.                            *)
(*                                                                         *)
(*   src/src/learning/orchestrator.py, src/src/graph/checkpoint_store.py,  *)
(*   src/src/runtime/episode.py, src/src/api/daily_lessons.py.             *)
(*                                                                         *)
(* Nothing here is locked before it is read.  A step is a statement that   *)
(* reads rows of others; an UPDATE waits for the row lock of another       *)
(* request and then writes blindly what its request decided earlier.       *)
(***************************************************************************)
EXTENDS HttpRequests

CONSTANT MaxLessons  \* bound on lessons ever started

ASSUME MaxLessonsAssumption == MaxLessons \in Nat

VARIABLES
  begun,       \* transactions that started a lesson, committed or not
  checkpoint,  \* learning_graph_checkpoints.status of each lesson
  episode,     \* agent_episodes.status of each lesson
  graded,      \* how many answers of the lesson were graded and recorded
  lessonTx     \* request -> its place, its lesson, what it found waiting

lessonVars == <<begun, checkpoint, episode, graded, lessonTx>>

(* Numbered by the start of their transaction, which is their created_at.  *)
Lessons == 1..MaxLessons

CheckpointStatus == {"none", "waiting", "completed", "abandoned"}

EpisodeStatus == {"none", "waiting", "completed", "abandoned"}

LessonTx ==
  [pc : {Idle, "starting", "superseding", "answering", "grading", "looking"},
   on : Lessons \cup {None}, seen : SUBSET Lessons]

LessonAt(pc, e) == [pc |-> pc, on |-> e, seen |-> {}]

LessonTypeOK ==
  /\ begun \in 0..MaxLessons
  /\ checkpoint \in [Lessons -> CheckpointStatus]
  /\ episode \in [Lessons -> EpisodeStatus]
  /\ graded \in [Lessons -> Nat]
  /\ lessonTx \in [Requests -> LessonTx]

LessonInit ==
  /\ begun = 0
  /\ checkpoint = [e \in Lessons |-> "none"]
  /\ episode = [e \in Lessons |-> "none"]
  /\ graded = [e \in Lessons |-> 0]
  /\ lessonTx = [r \in Requests |-> LessonAt(Idle, None)]

(* The row lock that mark_resumed takes and the commit gives up.           *)
CheckpointFree(r, e) ==
  \A q \in Requests \ {r} : ~(lessonTx[q].pc = "grading" /\ lessonTx[q].on = e)

-----------------------------------------------------------------------------
(* start_task                                                              *)

StartLesson(r) ==
  /\ lessonTx[r].pc = Idle
  /\ begun < MaxLessons
  /\ begun' = begun + 1
  /\ lessonTx' = [lessonTx EXCEPT ![r] = LessonAt("starting", begun + 1)]
  /\ UNCHANGED <<checkpoint, episode, graded>>

(* No published question: the episode waits without a checkpoint.          *)
StartEmpty(r) ==
  /\ lessonTx[r].pc = "starting"
  /\ episode' = [episode EXCEPT ![lessonTx[r].on] = "waiting"]
  /\ lessonTx' = [lessonTx EXCEPT ![r] = LessonAt(Idle, None)]
  /\ UNCHANGED <<begun, checkpoint, graded>>

(* The learner's other waiting checkpoints, as far as they are committed.  *)
FindWaiting(r) ==
  /\ lessonTx[r].pc = "starting"
  /\ lessonTx' = [lessonTx EXCEPT ![r].pc = "superseding",
                    ![r].seen = {e \in Lessons : checkpoint[e] = "waiting"}]
  /\ UNCHANGED <<begun, checkpoint, episode, graded>>

(* They are abandoned, their episodes left as they are.                    *)
CommitStart(r) ==
  /\ lessonTx[r].pc = "superseding"
  /\ \A e \in lessonTx[r].seen : CheckpointFree(r, e)
  /\ checkpoint' = [e \in Lessons |->
       IF e = lessonTx[r].on THEN "waiting"
       ELSE IF e \in lessonTx[r].seen THEN "abandoned" ELSE checkpoint[e]]
  /\ episode' = [episode EXCEPT ![lessonTx[r].on] = "waiting"]
  /\ lessonTx' = [lessonTx EXCEPT ![r] = LessonAt(Idle, None)]
  /\ UNCHANGED <<begun, graded>>

-----------------------------------------------------------------------------
(* submit_answer                                                           *)

AwaitsAnswer_Opened(e) == checkpoint[e] # "none"

(* get_active_checkpoint; otherwise the answer is refused with 409.        *)
AwaitsAnswer(e) == checkpoint[e] = "waiting"

SubmitAnswer(r, e) ==
  /\ lessonTx[r].pc = Idle
  /\ AwaitsAnswer(e)
  /\ lessonTx' = [lessonTx EXCEPT ![r] = LessonAt("answering", e)]
  /\ UNCHANGED <<begun, checkpoint, episode, graded>>

(* mark_resumed: the row is locked, its status is not looked at again.     *)
MarkResumed(r) ==
  /\ lessonTx[r].pc = "answering"
  /\ CheckpointFree(r, lessonTx[r].on)
  /\ lessonTx' = [lessonTx EXCEPT ![r].pc = "grading"]
  /\ UNCHANGED <<begun, checkpoint, episode, graded>>

AfterAnswer_Unmarked == "resumed"

(* mark_completed over resumed, which no commit shows.                     *)
AfterAnswer == "completed"

(* The attempt, the mastery, the verified episode, the checkpoint.         *)
CommitAnswered(r) ==
  /\ lessonTx[r].pc = "grading"
  /\ graded' = [graded EXCEPT ![lessonTx[r].on] = @ + 1]
  /\ checkpoint' = [checkpoint EXCEPT ![lessonTx[r].on] = AfterAnswer]
  /\ episode' = [episode EXCEPT ![lessonTx[r].on] = "completed"]
  /\ lessonTx' = [lessonTx EXCEPT ![r] = LessonAt(Idle, None)]
  /\ UNCHANGED begun

-----------------------------------------------------------------------------
(* get_daily_lesson_status                                                 *)

LookAtLesson(r, e) ==
  /\ lessonTx[r].pc = Idle
  /\ checkpoint[e] = "waiting"
  /\ lessonTx' = [lessonTx EXCEPT ![r] = LessonAt("looking", e)]
  /\ UNCHANGED <<begun, checkpoint, episode, graded>>

Superseded(e) == \E f \in Lessons : f > e /\ checkpoint[f] # "none"

(* The episode had been read as waiting, like the checkpoint after it.     *)
AbandonSuperseded(r) ==
  /\ lessonTx[r].pc = "looking"
  /\ Superseded(lessonTx[r].on)
  /\ CheckpointFree(r, lessonTx[r].on)
  /\ checkpoint' = [checkpoint EXCEPT ![lessonTx[r].on] = "abandoned"]
  /\ episode' = [episode EXCEPT ![lessonTx[r].on] = "abandoned"]
  /\ lessonTx' = [lessonTx EXCEPT ![r] = LessonAt(Idle, None)]
  /\ UNCHANGED <<begun, graded>>

(* Nothing to abandon, a refusal, an exception: no change is committed.    *)
LessonAbort(r) ==
  /\ lessonTx[r].pc # Idle
  /\ lessonTx' = [lessonTx EXCEPT ![r] = LessonAt(Idle, None)]
  /\ UNCHANGED <<begun, checkpoint, episode, graded>>

LessonStep(r) ==
  \/ StartLesson(r) \/ StartEmpty(r) \/ FindWaiting(r) \/ CommitStart(r)
  \/ MarkResumed(r) \/ CommitAnswered(r) \/ AbandonSuperseded(r) \/ LessonAbort(r)
  \/ \E e \in Lessons : SubmitAnswer(r, e) \/ LookAtLesson(r, e)

LessonNext == \E r \in Requests : LessonStep(r)

LessonSpec == LessonInit /\ [][LessonNext]_lessonVars

-----------------------------------------------------------------------------
(* Properties.                                                             *)

(* A lesson is graded more than once only by answers that overlap: once an *)
(* answer is recorded a new one is refused, whatever starts and status     *)
(* requests write over the checkpoint, so there are never more gradings    *)
(* than requests were in progress; and although three kinds of request     *)
(* write checkpoint and episode blindly, a graded lesson waits for nothing *)
(* and what is completed has been graded.                                  *)
GradedOnce ==
  \A e \in Lessons :
    /\ graded[e] <= Cardinality(Requests)
    /\ graded[e] > 0 => /\ checkpoint[e] \in {"completed", "abandoned"}
                        /\ episode[e] \in {"completed", "abandoned"}
    /\ "completed" \in {checkpoint[e], episode[e]} => graded[e] > 0

=============================================================================
