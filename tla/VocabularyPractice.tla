------------------------- MODULE VocabularyPractice -------------------------
(***************************************************************************)
(* One vocabulary practice session: attempts at the current word, retried  *)
(* under an idempotency key, and the cursor that advances over the words.  *)
(*                                                                         *)
(*   src/src/api/vocabulary_learning.py, src/src/vocabulary/learning.py,   *)
(*   src/src/models/vocabulary.py.                                         *)
(*                                                                         *)
(* Session and word are read without a lock and written back from what     *)
(* was read.  The words' confidence, the mastery vector and the knowledge  *)
(* states that follow an attempt are left out.                             *)
(***************************************************************************)
EXTENDS HttpRequests

CONSTANTS
  WordCount,    \* words of the session
  AttemptKeys   \* idempotency keys that clients use

ASSUME WordCountAssumption == WordCount \in Nat

VARIABLES
  cursor,     \* vocabulary_practice_sessions.current_index
  practice,   \* vocabulary_practice_sessions.status
  correct,    \* vocabulary_practice_sessions.correct_count
  reviews,    \* vocabulary_items.review_count, of the session's words
  attempts,   \* vocabulary_attempts: each with its key, its word, its result
  advanced,   \* words that a learner has moved on from
  vocabTx     \* request -> its place, and the columns it has read

vocabVars == <<cursor, practice, correct, reviews, attempts, advanced, vocabTx>>

Words == 0..(WordCount - 1)

Attempt == [key : AttemptKeys, word : Words, right : BOOLEAN]

VocabTx ==
  [pc : {Idle, "opened", "loaded", "inserted", "advancing"},
   attempt : Attempt \cup {None}, cursor : Nat, correct : Nat, reviews : Nat]

VocabIdle == [pc |-> Idle, attempt |-> None, cursor |-> 0, correct |-> 0, reviews |-> 0]

VocabTypeOK ==
  /\ cursor \in 0..WordCount
  /\ practice \in {"in_progress", "completed"}
  /\ correct \in Nat
  /\ reviews \in [Words -> Nat]
  /\ attempts \in SUBSET Attempt
  /\ advanced \in SUBSET Words
  /\ vocabTx \in [Requests -> VocabTx]

(* start_practice_session has picked the words.                            *)
VocabInit ==
  /\ cursor = 0
  /\ practice = "in_progress"
  /\ correct = 0
  /\ reviews = [w \in Words |-> 0]
  /\ attempts = {}
  /\ advanced = {}
  /\ vocabTx = [r \in Requests |-> VocabIdle]

-----------------------------------------------------------------------------
(* submit_practice_attempt                                                 *)

Recorded(k) == \E a \in attempts : a.key = k

(* The session is read; the attempt must be at its current word, and a key *)
(* that is already recorded is answered from its row.                      *)
OpenAttempt(r, a) ==
  /\ vocabTx[r].pc = Idle
  /\ a.word = cursor
  /\ ~Recorded(a.key)
  /\ vocabTx' = [vocabTx EXCEPT ![r] =
                   [VocabIdle EXCEPT !.pc = "opened", !.attempt = a, !.correct = correct]]
  /\ UNCHANGED <<cursor, practice, correct, reviews, attempts, advanced>>

LoadWord(r) ==
  /\ vocabTx[r].pc = "opened"
  /\ vocabTx' = [vocabTx EXCEPT ![r].pc = "loaded",
                                ![r].reviews = reviews[vocabTx[r].attempt.word]]
  /\ UNCHANGED <<cursor, practice, correct, reviews, attempts, advanced>>

KeyFree_NoConstraint(r) == TRUE

(* uq_vocabulary_attempt_idempotency: the INSERT waits for one in doubt    *)
(* and fails, with its request, after one that is committed.               *)
KeyFree(r) ==
  /\ ~Recorded(vocabTx[r].attempt.key)
  /\ \A q \in Requests \ {r} :
       vocabTx[q].pc = "inserted" => vocabTx[q].attempt.key # vocabTx[r].attempt.key

(* record_attempt: the attempt is flushed by the next SELECT.              *)
InsertAttempt(r) ==
  /\ vocabTx[r].pc = "loaded"
  /\ KeyFree(r)
  /\ vocabTx' = [vocabTx EXCEPT ![r].pc = "inserted"]
  /\ UNCHANGED <<cursor, practice, correct, reviews, attempts, advanced>>

(* The counters are those that were read, plus one.                        *)
CommitAttempt(r) ==
  /\ vocabTx[r].pc = "inserted"
  /\ attempts' = attempts \cup {vocabTx[r].attempt}
  /\ reviews' = [reviews EXCEPT ![vocabTx[r].attempt.word] = vocabTx[r].reviews + 1]
  /\ correct' = IF vocabTx[r].attempt.right THEN vocabTx[r].correct + 1 ELSE correct
  /\ vocabTx' = [vocabTx EXCEPT ![r] = VocabIdle]
  /\ UNCHANGED <<cursor, practice, advanced>>

-----------------------------------------------------------------------------
(* advance_practice_session, mark_current_item_too_easy                    *)

(* The call names the word it leaves; another one is refused.              *)
OpenAdvance(r, w) ==
  /\ vocabTx[r].pc = Idle
  /\ w = cursor
  /\ vocabTx' = [vocabTx EXCEPT ![r] =
                   [VocabIdle EXCEPT !.pc = "advancing", !.cursor = cursor]]
  /\ UNCHANGED <<cursor, practice, correct, reviews, attempts, advanced>>

NextCursor_Increment(r) == IF cursor < WordCount THEN cursor + 1 ELSE cursor

(* From the index as it was read.                                          *)
NextCursor(r) == vocabTx[r].cursor + 1

CommitAdvance(r) ==
  /\ vocabTx[r].pc = "advancing"
  /\ cursor' = NextCursor(r)
  /\ practice' = IF NextCursor(r) >= WordCount THEN "completed" ELSE practice
  /\ advanced' = advanced \cup {vocabTx[r].cursor}
  /\ vocabTx' = [vocabTx EXCEPT ![r] = VocabIdle]
  /\ UNCHANGED <<correct, reviews, attempts>>

(* A refusal, a duplicate key, an exception.                               *)
VocabAbort(r) ==
  /\ vocabTx[r].pc # Idle
  /\ vocabTx' = [vocabTx EXCEPT ![r] = VocabIdle]
  /\ UNCHANGED <<cursor, practice, correct, reviews, attempts, advanced>>

VocabStep(r) ==
  \/ LoadWord(r) \/ InsertAttempt(r) \/ CommitAttempt(r) \/ CommitAdvance(r) \/ VocabAbort(r)
  \/ \E a \in Attempt : OpenAttempt(r, a)
  \/ \E w \in Words : OpenAdvance(r, w)

VocabNext == \E r \in Requests : VocabStep(r)

VocabSpec == VocabInit /\ [][VocabNext]_vocabVars

-----------------------------------------------------------------------------
(* Properties.                                                             *)

(* Concurrent attempts may lose each other's increments, but no retry is   *)
(* counted twice: the counters never exceed the attempts on record.        *)
CountsAreAttempts ==
  /\ \A w \in Words : reviews[w] <= Cardinality({a \in attempts : a.word = w})
  /\ correct <= Cardinality({a \in attempts : a.right})

(* The cursor may go back when a late call advances from an index it read  *)
(* earlier, but two clicks never skip a word, and a session completes only *)
(* after every word has been left.                                         *)
NoWordSkipped ==
  /\ 0..(cursor - 1) \subseteq advanced
  /\ practice = "completed" => advanced = Words

=============================================================================
