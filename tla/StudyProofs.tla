---------------------------- MODULE StudyProofs ----------------------------
(***************************************************************************)
(* Proofs about what a learner studies with: VocabularyPractice,           *)
(* ChatThread and TextbookReview, for any number of requests, words, keys, *)
(* turns and runs of the parser, and any history limit.                    *)
(***************************************************************************)
EXTENDS VocabularyPractice, ChatThread, TextbookReview, FiniteSetTheorems, TLAPS

-----------------------------------------------------------------------------
(***************************************************************************)
(* Proofs about VocabularyPractice, for any number of requests, words and  *)
(* keys.  Updates may be lost, so the invariant bounds what each open      *)
(* request has read by the attempts on record, which only grow.            *)
(***************************************************************************)

AtWord(S, w) == {a \in S : a.word = w}

Right(S) == {a \in S : a.right}

(* What a request has read is covered by the rows that are committed.      *)
VocabCovered(t) ==
  /\ t.pc \in {"opened", "loaded", "inserted"} =>
       t.attempt \in Attempt /\ t.correct <= Cardinality(Right(attempts))
  /\ t.pc \in {"loaded", "inserted"} =>
       t.reviews <= Cardinality(AtWord(attempts, t.attempt.word))
  /\ t.pc = "inserted" => ~Recorded(t.attempt.key)
  /\ t.pc = "advancing" => t.cursor \in Words /\ 0..(t.cursor - 1) \subseteq advanced

(* The unique constraint gives a key to one open insert.                   *)
KeysUnique ==
  \A r, q \in Requests :
    r # q /\ vocabTx[r].pc = "inserted" /\ vocabTx[q].pc = "inserted"
    => vocabTx[r].attempt.key # vocabTx[q].attempt.key

VocabIInv ==
  /\ VocabTypeOK
  /\ IsFiniteSet(attempts)
  /\ \A r \in Requests : VocabCovered(vocabTx[r])
  /\ KeysUnique
  /\ CountsAreAttempts
  /\ NoWordSkipped

LEMMA VocabIdleRecord == VocabIdle \in VocabTx /\ VocabIdle.pc = "idle"
BY DEF VocabIdle, VocabTx, Idle

(* The counts of a finite set of attempts are numbers, and grow with it.   *)
LEMMA Counts ==
  ASSUME NEW S, IsFiniteSet(S)
  PROVE  /\ Cardinality(Right(S)) \in Nat
         /\ \A w : Cardinality(AtWord(S, w)) \in Nat
<1>1. \A T \in SUBSET S : IsFiniteSet(T) BY FS_Subset
<1>2. Right(S) \in SUBSET S /\ \A w : AtWord(S, w) \in SUBSET S BY DEF Right, AtWord
<1> QED BY <1>1, <1>2, FS_CardinalityType

LEMMA CountsGrow ==
  ASSUME NEW S, IsFiniteSet(S), NEW a \in Attempt, a \notin S
  PROVE  LET T == S \cup {a}
         IN  /\ IsFiniteSet(T)
             /\ Cardinality(Right(S)) <= Cardinality(Right(T))
             /\ a.right => Cardinality(Right(T)) = Cardinality(Right(S)) + 1
             /\ \A w : Cardinality(AtWord(S, w)) <= Cardinality(AtWord(T, w))
             /\ Cardinality(AtWord(T, a.word)) = Cardinality(AtWord(S, a.word)) + 1
<1> DEFINE T == S \cup {a}
<1>1. IsFiniteSet(T) BY FS_AddElement
<1>2. \A U \in SUBSET T : IsFiniteSet(U) BY <1>1, FS_Subset
<1>3. Cardinality(Right(S)) <= Cardinality(Right(T))
  <2>1. Right(S) \in SUBSET Right(T) /\ Right(T) \in SUBSET T BY DEF Right
  <2> QED BY <1>2, <2>1, FS_Subset
<1>4. ASSUME NEW w PROVE Cardinality(AtWord(S, w)) <= Cardinality(AtWord(T, w))
  <2>1. AtWord(S, w) \in SUBSET AtWord(T, w) /\ AtWord(T, w) \in SUBSET T BY DEF AtWord
  <2> QED BY <1>2, <2>1, FS_Subset
<1>5. ASSUME a.right PROVE Cardinality(Right(T)) = Cardinality(Right(S)) + 1
  <2>1. Right(T) = Right(S) \cup {a} /\ a \notin Right(S) BY <1>5 DEF Right
  <2>2. IsFiniteSet(Right(S)) BY <1>2 DEF Right
  <2> QED BY <2>1, <2>2, FS_AddElement
<1>6. Cardinality(AtWord(T, a.word)) = Cardinality(AtWord(S, a.word)) + 1
  <2>1. AtWord(T, a.word) = AtWord(S, a.word) \cup {a} /\ a \notin AtWord(S, a.word) BY DEF AtWord
  <2>2. IsFiniteSet(AtWord(S, a.word)) BY <1>2 DEF AtWord
  <2> QED BY <2>1, <2>2, FS_AddElement
<1> QED BY <1>1, <1>3, <1>4, <1>5, <1>6

(* A request that commits nothing.                                         *)
LEMMA VocabLocalStep ==
  ASSUME VocabIInv, NEW r \in Requests, NEW t \in VocabTx, VocabCovered(t),
         t.pc = "inserted" => \A q \in Requests \ {r} :
           vocabTx[q].pc = "inserted" => vocabTx[q].attempt.key # t.attempt.key,
         vocabTx' = [vocabTx EXCEPT ![r] = t],
         UNCHANGED <<cursor, practice, correct, reviews, attempts, advanced>>
  PROVE  VocabIInv'
<1>1. vocabTx \in [Requests -> VocabTx] BY DEF VocabIInv, VocabTypeOK
<1>2. vocabTx' \in [Requests -> VocabTx] BY <1>1
<1>3. /\ vocabTx'[r] = t
      /\ \A q \in Requests : q # r => vocabTx'[q] = vocabTx[q]
  BY <1>1
<1>4. VocabTypeOK' BY <1>2 DEF VocabIInv, VocabTypeOK
<1>5. \A q \in Requests : VocabCovered(vocabTx[q])' BY <1>3 DEF VocabIInv, VocabCovered, Recorded
<1>6. KeysUnique' BY <1>3 DEF VocabIInv, KeysUnique
<1>7. IsFiniteSet(attempts)' /\ CountsAreAttempts' /\ NoWordSkipped'
  BY DEF VocabIInv, CountsAreAttempts, NoWordSkipped
<1> QED BY <1>4, <1>5, <1>6, <1>7 DEF VocabIInv

(* An attempt is on record once, and adds at most one to each counter.     *)
LEMMA Attempting ==
  ASSUME VocabIInv, NEW r \in Requests, CommitAttempt(r)
  PROVE  VocabIInv'
<1> DEFINE a == vocabTx[r].attempt
           w == a.word
<1>1. /\ vocabTx \in [Requests -> VocabTx] /\ reviews \in [Words -> Nat]
      /\ correct \in Nat /\ attempts \in SUBSET Attempt /\ IsFiniteSet(attempts)
  BY DEF VocabIInv, VocabTypeOK
<1>2. VocabCovered(vocabTx[r]) /\ vocabTx[r].pc = "inserted" BY DEF VocabIInv, CommitAttempt
<1>3. /\ a \in Attempt /\ ~Recorded(a.key)
      /\ vocabTx[r].correct <= Cardinality(Right(attempts))
      /\ vocabTx[r].reviews <= Cardinality(AtWord(attempts, w))
  BY <1>2 DEF VocabCovered
<1>4. w \in Words /\ a \notin attempts BY <1>3 DEF Attempt, Recorded
<1>5. vocabTx[r].correct \in Nat /\ vocabTx[r].reviews \in Nat BY <1>1 DEF VocabTx
<1>6. /\ attempts' = attempts \cup {a}
      /\ reviews' = [reviews EXCEPT ![w] = vocabTx[r].reviews + 1]
      /\ correct' = IF a.right THEN vocabTx[r].correct + 1 ELSE correct
      /\ vocabTx' = [vocabTx EXCEPT ![r] = VocabIdle]
      /\ UNCHANGED <<cursor, practice, advanced>>
  BY DEF CommitAttempt
<1>7. \A q \in Requests \ {r} : vocabTx[q].pc = "inserted" => vocabTx[q].attempt.key # a.key
  BY <1>2 DEF VocabIInv, KeysUnique
<1> HIDE DEF a
<1>8. /\ IsFiniteSet(attempts')
      /\ Cardinality(Right(attempts)) <= Cardinality(Right(attempts'))
      /\ a.right => Cardinality(Right(attempts')) = Cardinality(Right(attempts)) + 1
      /\ \A v : Cardinality(AtWord(attempts, v)) <= Cardinality(AtWord(attempts', v))
      /\ Cardinality(AtWord(attempts', w)) = Cardinality(AtWord(attempts, w)) + 1
  BY <1>1, <1>3, <1>4, <1>6, CountsGrow
<1>9. /\ Cardinality(Right(attempts)) \in Nat /\ Cardinality(Right(attempts')) \in Nat
      /\ \A v : /\ Cardinality(AtWord(attempts, v)) \in Nat
                /\ Cardinality(AtWord(attempts', v)) \in Nat
  BY <1>1, <1>8, Counts
<1>10. /\ vocabTx'[r] = VocabIdle
       /\ \A q \in Requests : q # r => vocabTx'[q] = vocabTx[q]
  BY <1>1, <1>6
<1>11. correct' \in Nat /\ reviews' \in [Words -> Nat] BY <1>1, <1>4, <1>5, <1>6
<1>12. VocabTypeOK'
  <2>1. vocabTx' \in [Requests -> VocabTx] BY <1>1, <1>6, VocabIdleRecord
  <2>2. attempts' \in SUBSET Attempt BY <1>1, <1>3, <1>6
  <2> QED BY <1>6, <1>11, <2>1, <2>2 DEF VocabIInv, VocabTypeOK
<1>13. \A q \in Requests : VocabCovered(vocabTx[q])'
  <2> TAKE q \in Requests
  <2>1. CASE q = r BY <1>10, <2>1, VocabIdleRecord DEF VocabCovered
  <2>2. CASE q # r
    <3> DEFINE t == vocabTx[q]
    <3>1. VocabCovered(t) /\ vocabTx'[q] = t /\ t \in VocabTx BY <1>1, <1>10, <2>2 DEF VocabIInv
    <3>2. t.correct \in Nat /\ t.reviews \in Nat BY <3>1 DEF VocabTx
    <3> HIDE DEF t
    <3>3. t.pc \in {"opened", "loaded", "inserted"} =>
            t.attempt \in Attempt /\ t.correct <= Cardinality(Right(attempts'))
      BY <1>8, <1>9, <3>1, <3>2 DEF VocabCovered
    <3>4. t.pc \in {"loaded", "inserted"} =>
            t.reviews <= Cardinality(AtWord(attempts', t.attempt.word))
      <4>1. SUFFICES ASSUME t.pc \in {"loaded", "inserted"}
                     PROVE  t.reviews <= Cardinality(AtWord(attempts', t.attempt.word))
        OBVIOUS
      <4> DEFINE v == t.attempt.word
      <4>2. t.reviews <= Cardinality(AtWord(attempts, v)) BY <3>1, <4>1 DEF VocabCovered
      <4> HIDE DEF v
      <4>3. t.reviews <= Cardinality(AtWord(attempts', v)) BY <1>8, <1>9, <3>2, <4>2
      <4> QED BY <4>3 DEF v
    <3>5. t.pc = "inserted" => ~\E b \in attempts' : b.key = t.attempt.key
      BY <1>6, <1>7, <2>2, <3>1 DEF VocabCovered, Recorded, t
    <3>6. t.pc = "advancing" => t.cursor \in Words /\ 0..(t.cursor - 1) \subseteq advanced'
      BY <1>6, <3>1 DEF VocabCovered
    <3>7. vocabTx'[q] = t BY <3>1
    <3> QED BY <3>3, <3>4, <3>5, <3>6, <3>7 DEF VocabCovered, Recorded
  <2> QED BY <2>1, <2>2
<1>14. KeysUnique' BY <1>10, VocabIdleRecord DEF VocabIInv, KeysUnique
<1>15. CountsAreAttempts'
  <2>1. /\ correct <= Cardinality(Right(attempts))
        /\ \A v \in Words : reviews[v] <= Cardinality(AtWord(attempts, v))
    BY DEF VocabIInv, CountsAreAttempts, Right, AtWord
  <2>2. correct' <= Cardinality(Right(attempts')) BY <1>1, <1>3, <1>5, <1>6, <1>8, <1>9, <2>1
  <2>3. ASSUME NEW v \in Words PROVE reviews'[v] <= Cardinality(AtWord(attempts', v))
    <3>1. CASE v = w BY <1>1, <1>3, <1>4, <1>5, <1>6, <1>8, <1>9, <3>1
    <3>2. CASE v # w
      <4>1. reviews'[v] = reviews[v] /\ reviews[v] \in Nat BY <1>1, <1>6, <3>2
      <4> QED BY <1>8, <1>9, <2>1, <4>1
    <3> QED BY <3>1, <3>2
  <2> QED BY <2>2, <2>3 DEF CountsAreAttempts, Right, AtWord
<1>16. NoWordSkipped' BY <1>6 DEF VocabIInv, NoWordSkipped
<1> QED BY <1>8, <1>12, <1>13, <1>14, <1>15, <1>16 DEF VocabIInv

(* The words before the index that was read stay left behind.              *)
LEMMA Advancing ==
  ASSUME VocabIInv, NEW r \in Requests, CommitAdvance(r)
  PROVE  VocabIInv'
<1> DEFINE c == vocabTx[r].cursor
<1>1. /\ vocabTx \in [Requests -> VocabTx] /\ advanced \in SUBSET Words
      /\ practice \in {"in_progress", "completed"} /\ cursor \in 0..WordCount
  BY DEF VocabIInv, VocabTypeOK
<1>2. c \in Words /\ 0..(c - 1) \subseteq advanced BY DEF VocabIInv, VocabCovered, CommitAdvance
<1>3. /\ cursor' = c + 1
      /\ practice' = IF c + 1 >= WordCount THEN "completed" ELSE practice
      /\ advanced' = advanced \cup {c}
      /\ vocabTx' = [vocabTx EXCEPT ![r] = VocabIdle]
      /\ UNCHANGED <<correct, reviews, attempts>>
  BY DEF CommitAdvance, NextCursor
<1> HIDE DEF c
<1>4. /\ vocabTx'[r] = VocabIdle
      /\ \A q \in Requests : q # r => vocabTx'[q] = vocabTx[q]
  BY <1>1, <1>3
<1>5. VocabTypeOK'
  <2>1. cursor' \in 0..WordCount BY <1>2, <1>3, WordCountAssumption DEF Words
  <2>2. practice' \in {"in_progress", "completed"} /\ advanced' \in SUBSET Words
    BY <1>1, <1>2, <1>3
  <2>3. vocabTx' \in [Requests -> VocabTx] BY <1>1, <1>3, VocabIdleRecord
  <2> QED BY <1>3, <2>1, <2>2, <2>3 DEF VocabIInv, VocabTypeOK
<1>6. \A q \in Requests : VocabCovered(vocabTx[q])'
  <2> TAKE q \in Requests
  <2>1. CASE q = r BY <1>4, <2>1, VocabIdleRecord DEF VocabCovered
  <2>2. CASE q # r
    <3>1. VocabCovered(vocabTx[q]) /\ vocabTx'[q] = vocabTx[q] BY <1>4, <2>2 DEF VocabIInv
    <3> QED BY <1>3, <3>1 DEF VocabCovered, Recorded
  <2> QED BY <2>1, <2>2
<1>7. KeysUnique' BY <1>4, VocabIdleRecord DEF VocabIInv, KeysUnique
<1>8. IsFiniteSet(attempts)' /\ CountsAreAttempts' BY <1>3 DEF VocabIInv, CountsAreAttempts
<1>9. NoWordSkipped'
  <2>1. 0..c \subseteq advanced' BY <1>2, <1>3, WordCountAssumption DEF Words
  <2>2. 0..(cursor' - 1) \subseteq advanced' BY <1>2, <1>3, <2>1, WordCountAssumption DEF Words
  <2>3. practice' = "completed" => advanced' = Words
    <3>1. CASE c + 1 >= WordCount
      <4>1. Words \subseteq 0..c BY <1>2, <3>1, WordCountAssumption DEF Words
      <4> QED BY <1>1, <1>2, <1>3, <2>1, <4>1
    <3>2. CASE ~(c + 1 >= WordCount)
      <4>1. practice' = practice BY <1>3, <3>2
      <4> QED BY <1>1, <1>2, <1>3, <4>1 DEF VocabIInv, NoWordSkipped
    <3> QED BY <3>1, <3>2
  <2> QED BY <2>2, <2>3 DEF NoWordSkipped
<1> QED BY <1>5, <1>6, <1>7, <1>8, <1>9 DEF VocabIInv

LEMMA VocabStepPreserves ==
  ASSUME VocabIInv, NEW r \in Requests, VocabStep(r)
  PROVE  VocabIInv'
<1>1. /\ vocabTx[r] \in VocabTx /\ VocabCovered(vocabTx[r])
      /\ correct \in Nat /\ cursor \in 0..WordCount /\ reviews \in [Words -> Nat]
      /\ correct <= Cardinality(Right(attempts))
      /\ \A v \in Words : reviews[v] <= Cardinality(AtWord(attempts, v))
  BY DEF VocabIInv, VocabTypeOK, CountsAreAttempts, Right, AtWord
<1>2. CASE \E a \in Attempt : OpenAttempt(r, a)
  <2>1. PICK a \in Attempt : OpenAttempt(r, a) BY <1>2
  <2> DEFINE t == [VocabIdle EXCEPT !.pc = "opened", !.attempt = a, !.correct = correct]
  <2>2. t \in VocabTx /\ t.pc = "opened" /\ t.attempt = a /\ t.correct = correct
    BY <1>1 DEF VocabTx, VocabIdle
  <2>3. /\ vocabTx' = [vocabTx EXCEPT ![r] = t]
        /\ UNCHANGED <<cursor, practice, correct, reviews, attempts, advanced>>
    BY <2>1 DEF OpenAttempt
  <2> HIDE DEF t
  <2>4. VocabCovered(t) BY <1>1, <2>2 DEF VocabCovered
  <2> QED BY <2>2, <2>3, <2>4, VocabLocalStep
<1>3. CASE LoadWord(r)
  <2> DEFINE v == vocabTx[r].attempt.word
             t == [vocabTx[r] EXCEPT !.pc = "loaded", !.reviews = reviews[v]]
  <2>1. vocabTx[r].pc = "opened" /\ v \in Words
    BY <1>1, <1>3 DEF LoadWord, VocabCovered, Attempt
  <2>2. /\ t \in VocabTx /\ t.pc = "loaded" /\ t.attempt = vocabTx[r].attempt
        /\ t.correct = vocabTx[r].correct /\ t.reviews = reviews[v]
    BY <1>1, <2>1 DEF VocabTx
  <2>3. /\ vocabTx' = [vocabTx EXCEPT ![r] = t]
        /\ UNCHANGED <<cursor, practice, correct, reviews, attempts, advanced>>
    BY <1>3 DEF LoadWord
  <2> HIDE DEF t
  <2>4. VocabCovered(t) BY <1>1, <2>1, <2>2 DEF VocabCovered
  <2> QED BY <2>2, <2>3, <2>4, VocabLocalStep
<1>4. CASE InsertAttempt(r)
  <2> DEFINE t == [vocabTx[r] EXCEPT !.pc = "inserted"]
  <2>1. /\ t \in VocabTx /\ t.pc = "inserted" /\ t.attempt = vocabTx[r].attempt
        /\ t.correct = vocabTx[r].correct /\ t.reviews = vocabTx[r].reviews
    BY <1>1 DEF VocabTx
  <2>2. /\ vocabTx' = [vocabTx EXCEPT ![r] = t]
        /\ UNCHANGED <<cursor, practice, correct, reviews, attempts, advanced>>
        /\ vocabTx[r].pc = "loaded" /\ KeyFree(r)
    BY <1>4 DEF InsertAttempt
  <2> HIDE DEF t
  <2>3. VocabCovered(t) BY <1>1, <2>1, <2>2 DEF VocabCovered, KeyFree
  <2> QED BY <2>1, <2>2, <2>3, VocabLocalStep DEF KeyFree
<1>5. CASE CommitAttempt(r) BY <1>5, Attempting
<1>6. CASE \E w \in Words : OpenAdvance(r, w)
  <2>1. PICK w \in Words : OpenAdvance(r, w) BY <1>6
  <2> DEFINE t == [VocabIdle EXCEPT !.pc = "advancing", !.cursor = cursor]
  <2>2. t \in VocabTx /\ t.pc = "advancing" /\ t.cursor = cursor
    <3>1. cursor \in Nat BY <1>1, WordCountAssumption
    <3> QED BY <3>1 DEF VocabTx, VocabIdle
  <2>3. /\ vocabTx' = [vocabTx EXCEPT ![r] = t] /\ w = cursor
        /\ UNCHANGED <<cursor, practice, correct, reviews, attempts, advanced>>
    BY <2>1 DEF OpenAdvance
  <2> HIDE DEF t
  <2>4. VocabCovered(t) BY <2>2, <2>3 DEF VocabCovered, VocabIInv, NoWordSkipped
  <2> QED BY <2>2, <2>3, <2>4, VocabLocalStep
<1>7. CASE CommitAdvance(r) BY <1>7, Advancing
<1>8. CASE VocabAbort(r)
  <2>1. VocabCovered(VocabIdle) BY VocabIdleRecord DEF VocabCovered
  <2> QED BY <1>8, <2>1, VocabIdleRecord, VocabLocalStep DEF VocabAbort
<1> QED BY <1>2, <1>3, <1>4, <1>5, <1>6, <1>7, <1>8 DEF VocabStep

LEMMA VocabInitial == VocabInit => VocabIInv
<1> SUFFICES ASSUME VocabInit PROVE VocabIInv OBVIOUS
<1>1. VocabTypeOK BY VocabIdleRecord, WordCountAssumption DEF VocabInit, VocabTypeOK
<1>2. \A r \in Requests : vocabTx[r].pc = "idle" BY VocabIdleRecord DEF VocabInit
<1>3. IsFiniteSet(attempts) BY FS_EmptySet DEF VocabInit
<1>4. CountsAreAttempts
  <2>1. correct = 0 /\ \A w \in Words : reviews[w] = 0 BY DEF VocabInit
  <2>2. /\ Cardinality(Right(attempts)) \in Nat
        /\ \A w : Cardinality(AtWord(attempts, w)) \in Nat
    BY <1>3, Counts
  <2>3. /\ correct <= Cardinality(Right(attempts))
        /\ \A w \in Words : reviews[w] <= Cardinality(AtWord(attempts, w))
    BY <2>1, <2>2
  <2> QED BY <2>3 DEF CountsAreAttempts, Right, AtWord
<1>5. NoWordSkipped BY DEF VocabInit, NoWordSkipped
<1> QED BY <1>1, <1>2, <1>3, <1>4, <1>5 DEF VocabIInv, VocabCovered, KeysUnique

(* Attempts, counters and cursor agree in every reachable state.           *)
THEOREM VocabInvariant == VocabSpec => []VocabIInv
<1>1. VocabIInv /\ [VocabNext]_vocabVars => VocabIInv'
  <2> SUFFICES ASSUME VocabIInv, [VocabNext]_vocabVars PROVE VocabIInv' OBVIOUS
  <2>1. CASE UNCHANGED vocabVars
    BY <2>1 DEF vocabVars, VocabIInv, VocabTypeOK, VocabCovered, Recorded, KeysUnique,
       CountsAreAttempts, NoWordSkipped
  <2> QED BY <2>1, VocabStepPreserves DEF VocabNext
<1> QED BY <1>1, VocabInitial, PTL DEF VocabSpec

(* No retry is counted twice, whichever attempts overlap.                  *)
THEOREM CountersNeverRunAhead == VocabSpec => []CountsAreAttempts
BY VocabInvariant, PTL DEF VocabIInv

(* No interleaving of advances and marks leaves a word out.                *)
THEOREM EveryWordIsLeft == VocabSpec => []NoWordSkipped
BY VocabInvariant, PTL DEF VocabIInv

(* What overlap alone breaks: lost increments, and a cursor that goes      *)
(* back, need two calls at once.                                           *)

VocabAlone ==
  \A r, q \in Requests : vocabTx[r].pc # Idle /\ vocabTx[q].pc # Idle => r = q

(* The counters are the attempts on record, and the words left are those   *)
(* before the cursor.                                                      *)
SessionExact ==
  /\ \A w \in Words : reviews[w] = Cardinality(AtWord(attempts, w))
  /\ correct = Cardinality(Right(attempts))
  /\ advanced = 0..(cursor - 1)

(* What a request has read is what is there.                               *)
VocabCurrent(t) ==
  /\ t.pc \in {"opened", "loaded", "inserted"} => t.correct = correct
  /\ t.pc \in {"loaded", "inserted"} => t.reviews = reviews[t.attempt.word]
  /\ t.pc = "advancing" => t.cursor = cursor

VocabApart == SessionExact /\ \A r \in Requests : VocabCurrent(vocabTx[r])

(* A commit leaves no call open when calls do not overlap.                 *)
LEMMA VocabSettled ==
  ASSUME VocabIInv, VocabAlone, NEW r \in Requests, vocabTx[r].pc # Idle,
         vocabTx' = [vocabTx EXCEPT ![r] = VocabIdle]
  PROVE  \A q \in Requests : VocabCurrent(vocabTx[q])'
<1>1. vocabTx \in [Requests -> VocabTx] BY DEF VocabIInv, VocabTypeOK
<1>2. \A q \in Requests : vocabTx'[q].pc = "idle"
  BY <1>1, VocabIdleRecord DEF VocabAlone, Idle
<1> QED BY <1>2 DEF VocabCurrent

LEMMA VocabLocalApart ==
  ASSUME VocabIInv, VocabApart, NEW r \in Requests, NEW t, VocabCurrent(t),
         vocabTx' = [vocabTx EXCEPT ![r] = t],
         UNCHANGED <<cursor, practice, correct, reviews, attempts, advanced>>
  PROVE  VocabApart'
<1>1. vocabTx \in [Requests -> VocabTx] BY DEF VocabIInv, VocabTypeOK
<1>2. /\ vocabTx'[r] = t
      /\ \A q \in Requests : q # r => vocabTx'[q] = vocabTx[q]
  BY <1>1
<1>3. SessionExact' BY DEF VocabApart, SessionExact
<1>4. \A q \in Requests : VocabCurrent(vocabTx[q])' BY <1>2 DEF VocabApart, VocabCurrent
<1> QED BY <1>3, <1>4 DEF VocabApart

LEMMA AttemptingApart ==
  ASSUME VocabIInv, VocabAlone, VocabApart, NEW r \in Requests, CommitAttempt(r)
  PROVE  VocabApart'
<1> DEFINE a == vocabTx[r].attempt
           w == a.word
<1>1. /\ reviews \in [Words -> Nat] /\ correct \in Nat
      /\ attempts \in SUBSET Attempt /\ IsFiniteSet(attempts)
  BY DEF VocabIInv, VocabTypeOK
<1>2. VocabCovered(vocabTx[r]) /\ VocabCurrent(vocabTx[r]) /\ vocabTx[r].pc = "inserted"
  BY DEF VocabIInv, VocabApart, CommitAttempt
<1>3. a \in Attempt /\ ~Recorded(a.key) BY <1>2 DEF VocabCovered
<1>4. vocabTx[r].correct = correct /\ vocabTx[r].reviews = reviews[w]
  BY <1>2 DEF VocabCurrent
<1>5. w \in Words /\ a \notin attempts BY <1>3 DEF Attempt, Recorded
<1>6. /\ attempts' = attempts \cup {a}
      /\ reviews' = [reviews EXCEPT ![w] = reviews[w] + 1]
      /\ correct' = IF a.right THEN correct + 1 ELSE correct
      /\ UNCHANGED <<cursor, advanced>>
  BY <1>4 DEF CommitAttempt
<1>7. \A q \in Requests : VocabCurrent(vocabTx[q])'
  BY <1>2, VocabSettled DEF CommitAttempt, Idle
<1> HIDE DEF a
<1>8. /\ a.right => Cardinality(Right(attempts')) = Cardinality(Right(attempts)) + 1
      /\ Cardinality(AtWord(attempts', w)) = Cardinality(AtWord(attempts, w)) + 1
  BY <1>1, <1>3, <1>5, <1>6, CountsGrow
<1>9. ~a.right => Right(attempts') = Right(attempts) BY <1>6 DEF Right
<1>10. \A v : v # w => AtWord(attempts', v) = AtWord(attempts, v) BY <1>6 DEF AtWord
<1>11. correct' = Cardinality(Right(attempts'))
  <2>1. correct = Cardinality(Right(attempts)) BY DEF VocabApart, SessionExact
  <2> QED BY <1>6, <1>8, <1>9, <2>1
<1>12. ASSUME NEW v \in Words PROVE reviews'[v] = Cardinality(AtWord(attempts', v))
  <2>1. reviews[v] = Cardinality(AtWord(attempts, v)) /\ reviews[w] = Cardinality(AtWord(attempts, w))
    BY <1>5 DEF VocabApart, SessionExact
  <2>2. CASE v = w BY <1>1, <1>5, <1>6, <1>8, <2>1, <2>2
  <2>3. CASE v # w
    <3>1. reviews'[v] = reviews[v] BY <1>1, <1>6, <2>3
    <3> QED BY <1>10, <2>1, <2>3, <3>1
  <2> QED BY <2>2, <2>3
<1>13. advanced' = 0..(cursor' - 1) BY <1>6 DEF VocabApart, SessionExact
<1> QED BY <1>7, <1>11, <1>12, <1>13 DEF VocabApart, SessionExact

LEMMA AdvancingApart ==
  ASSUME VocabIInv, VocabAlone, VocabApart, NEW r \in Requests, CommitAdvance(r)
  PROVE  VocabApart'
<1>1. /\ vocabTx[r].pc = "advancing" /\ vocabTx[r].cursor = cursor /\ cursor \in Words
  BY DEF VocabIInv, VocabCovered, VocabApart, VocabCurrent, CommitAdvance
<1>2. /\ cursor' = cursor + 1 /\ advanced' = advanced \cup {cursor}
      /\ UNCHANGED <<correct, reviews, attempts>>
  BY <1>1 DEF CommitAdvance, NextCursor
<1>3. advanced = 0..(cursor - 1) BY DEF VocabApart, SessionExact
<1>4. advanced' = 0..(cursor' - 1)
  <2>1. cursor \in Nat BY <1>1 DEF Words
  <2>2. 0..cursor = (0..(cursor - 1)) \cup {cursor} BY <2>1
  <2>3. cursor' - 1 = cursor BY <1>2, <2>1
  <2> QED BY <1>2, <1>3, <2>2, <2>3
<1>5. \A q \in Requests : VocabCurrent(vocabTx[q])'
  BY <1>1, VocabSettled DEF CommitAdvance, Idle
<1> QED BY <1>2, <1>4, <1>5 DEF VocabApart, SessionExact

LEMMA VocabApartStep ==
  ASSUME VocabIInv, VocabAlone, VocabApart, NEW r \in Requests, VocabStep(r)
  PROVE  VocabApart'
<1>1. /\ vocabTx[r] \in VocabTx /\ VocabCovered(vocabTx[r]) /\ VocabCurrent(vocabTx[r])
      /\ correct \in Nat /\ cursor \in 0..WordCount /\ reviews \in [Words -> Nat]
  BY DEF VocabIInv, VocabTypeOK, VocabApart
<1>2. CASE \E a \in Attempt : OpenAttempt(r, a)
  <2>1. PICK a \in Attempt : OpenAttempt(r, a) BY <1>2
  <2> DEFINE t == [VocabIdle EXCEPT !.pc = "opened", !.attempt = a, !.correct = correct]
  <2>2. VocabCurrent(t) BY DEF VocabIdle, VocabCurrent
  <2>3. /\ vocabTx' = [vocabTx EXCEPT ![r] = t]
        /\ UNCHANGED <<cursor, practice, correct, reviews, attempts, advanced>>
    BY <2>1 DEF OpenAttempt
  <2> HIDE DEF t
  <2> QED BY <2>2, <2>3, VocabLocalApart
<1>3. CASE LoadWord(r)
  <2> DEFINE v == vocabTx[r].attempt.word
             t == [vocabTx[r] EXCEPT !.pc = "loaded", !.reviews = reviews[v]]
  <2>1. VocabCurrent(t) BY <1>1, <1>3 DEF LoadWord, VocabCurrent, VocabTx
  <2>2. /\ vocabTx' = [vocabTx EXCEPT ![r] = t]
        /\ UNCHANGED <<cursor, practice, correct, reviews, attempts, advanced>>
    BY <1>3 DEF LoadWord
  <2> HIDE DEF t
  <2> QED BY <2>1, <2>2, VocabLocalApart
<1>4. CASE InsertAttempt(r)
  <2> DEFINE t == [vocabTx[r] EXCEPT !.pc = "inserted"]
  <2>1. VocabCurrent(t) BY <1>1, <1>4 DEF InsertAttempt, VocabCurrent, VocabTx
  <2>2. /\ vocabTx' = [vocabTx EXCEPT ![r] = t]
        /\ UNCHANGED <<cursor, practice, correct, reviews, attempts, advanced>>
    BY <1>4 DEF InsertAttempt
  <2> HIDE DEF t
  <2> QED BY <2>1, <2>2, VocabLocalApart
<1>5. CASE \E w \in Words : OpenAdvance(r, w)
  <2> DEFINE t == [VocabIdle EXCEPT !.pc = "advancing", !.cursor = cursor]
  <2>1. VocabCurrent(t) BY DEF VocabIdle, VocabCurrent
  <2>2. /\ vocabTx' = [vocabTx EXCEPT ![r] = t]
        /\ UNCHANGED <<cursor, practice, correct, reviews, attempts, advanced>>
    BY <1>5 DEF OpenAdvance
  <2> HIDE DEF t
  <2> QED BY <2>1, <2>2, VocabLocalApart
<1>6. CASE VocabAbort(r)
  <2>1. VocabCurrent(VocabIdle) BY VocabIdleRecord DEF VocabCurrent
  <2> QED BY <1>6, <2>1, VocabLocalApart DEF VocabAbort
<1> QED BY <1>2, <1>3, <1>4, <1>5, <1>6, AttemptingApart, AdvancingApart DEF VocabStep

(* As long as no two calls are open at once, the counters are the attempts *)
(* on record and the session never goes back: what CountsAreAttempts and   *)
(* NoWordSkipped leave open is the work of unlocked reads and nothing else. *)
THEOREM CountersExactApart == VocabSpec /\ []VocabAlone => []SessionExact
<1>1. VocabInit => VocabApart
  <2> SUFFICES ASSUME VocabInit PROVE VocabApart OBVIOUS
  <2>1. \A r \in Requests : VocabCurrent(vocabTx[r])
    BY VocabIdleRecord DEF VocabInit, VocabCurrent
  <2>2. Right(attempts) = {} /\ \A w : AtWord(attempts, w) = {}
    BY DEF VocabInit, Right, AtWord
  <2>3. SessionExact BY <2>2, FS_EmptySet DEF VocabInit, SessionExact
  <2> QED BY <2>1, <2>3 DEF VocabApart
<1>2. VocabIInv /\ VocabAlone /\ VocabApart /\ [VocabNext]_vocabVars => VocabApart'
  <2> SUFFICES ASSUME VocabIInv, VocabAlone, VocabApart, [VocabNext]_vocabVars
               PROVE  VocabApart'
    OBVIOUS
  <2>1. CASE UNCHANGED vocabVars
    BY <2>1 DEF vocabVars, VocabApart, SessionExact, VocabCurrent
  <2> QED BY <2>1, VocabApartStep DEF VocabNext
<1>3. VocabApart => SessionExact BY DEF VocabApart
<1> QED BY <1>1, <1>2, <1>3, VocabInvariant, PTL DEF VocabSpec

-----------------------------------------------------------------------------
(***************************************************************************)
(* Proofs about ChatThread, for any number of requests and turns and any   *)
(* history limit: the turn that holds the thread's lock has the next two   *)
(* numbers, and there are never more numbers than committed turns.         *)
(***************************************************************************)

(* The turns begun and not yet committed or given up.                      *)
Uncommitted == {r \in Requests : chatTx[r].pc \in {"replying", "writing"}}

Numbered(n) ==
  /\ Sequences = 1..(2 * n)
  /\ n + Cardinality(Uncommitted) <= turnsBegun

NumbersAreUnique == \A m, k \in messages : m.sequence = k.sequence => m = k

QuestionsAreAnswered ==
  \A m \in messages : m.role = "user" =>
    [sequence |-> m.sequence + 1, turn |-> m.turn, role |-> "assistant"] \in messages

(* What a request knows of the thread, which only grows.                   *)
ChatSound(t) ==
  /\ t.history \subseteq messages
  /\ t.summary \subseteq TurnsOf(messages)
  /\ t.pc = "writing" => /\ t.next > 0 /\ t.next - 1 \in Sequences
                         /\ \A k \in Sequences : k < t.next
  /\ t.pc = "finishing" => t.turn \in TurnsOf(messages)

OneWriter ==
  \A r, q \in Requests : chatTx[r].pc = "writing" /\ chatTx[q].pc = "writing" => r = q

ChatIInv ==
  /\ ChatTypeOK
  /\ \E n \in Nat \ {0} : Numbered(n)
  /\ NumbersAreUnique
  /\ QuestionsAreAnswered
  /\ \A r \in Requests : ChatSound(chatTx[r])
  /\ OneWriter
  /\ SideEffectsFollowCommit

LEMMA ChatIdleRecord ==
  /\ ChatIdle \in ChatTx /\ ChatIdle.pc = "idle"
  /\ ChatIdle.history = {} /\ ChatIdle.summary = {}
<1>1. 1 \in Turns BY ChatAssumption DEF Turns
<1> QED BY <1>1 DEF ChatIdle, ChatTx, Idle

LEMMA UncommittedFinite ==
  /\ IsFiniteSet(Uncommitted) /\ Cardinality(Uncommitted) \in Nat
<1>1. Uncommitted \subseteq Requests BY DEF Uncommitted
<1> QED BY <1>1, RequestsAssumption, FS_Subset, FS_CardinalityType

LEMMA LastOfInterval ==
  ASSUME NEW n \in Nat \ {0}, Sequences = 1..(2 * n)
  PROVE  LastSequence = 2 * n
<1>1. 2 * n \in Sequences /\ \A k \in Sequences : k <= 2 * n OBVIOUS
<1>2. LastSequence \in Sequences /\ \A k \in Sequences : k <= LastSequence
  BY <1>1 DEF LastSequence
<1> QED BY <1>1, <1>2

(* A step that adds no message: the request moves to a sound record, whose *)
(* turn is pending only if it was or has just been begun.                  *)
LEMMA NoMessage ==
  ASSUME ChatIInv, NEW r \in Requests, NEW t \in ChatTx, ChatSound(t),
         t.pc = "writing" => ThreadFree(r),
         chatTx' = [chatTx EXCEPT ![r] = t], messages' = messages,
         turnsBegun' \in Turns, turnsBegun' >= turnsBegun,
         t.pc \in {"replying", "writing"} =>
           r \in Uncommitted \/ turnsBegun' = turnsBegun + 1,
         summary' \cup memories' \subseteq TurnsOf(messages)
  PROVE  ChatIInv'
<1>1. /\ chatTx \in [Requests -> ChatTx] /\ turnsBegun \in Turns
      /\ messages \in SUBSET Message
  BY DEF ChatIInv, ChatTypeOK
<1>2. /\ chatTx' \in [Requests -> ChatTx] /\ chatTx'[r] = t
      /\ \A q \in Requests : q # r => chatTx'[q] = chatTx[q]
  BY <1>1
<1>3. TurnsOf(messages) \subseteq Turns BY <1>1 DEF TurnsOf, Message
<1>4. ChatTypeOK' BY <1>1, <1>2, <1>3 DEF ChatTypeOK
<1>5. ASSUME NEW n \in Nat \ {0}, Numbered(n) PROVE Numbered(n)'
  <2>1. Sequences' = Sequences BY DEF Sequences
  <2>2. /\ turnsBegun \in Nat /\ turnsBegun' \in Nat BY <1>1 DEF Turns
  <2>3. n + Cardinality(Uncommitted') <= turnsBegun'
    <3>1. CASE r \notin Uncommitted /\ t.pc \in {"replying", "writing"}
      <4>1. Uncommitted' = Uncommitted \cup {r} BY <1>2, <3>1 DEF Uncommitted
      <4>2. Cardinality(Uncommitted') = Cardinality(Uncommitted) + 1
        BY <4>1, <3>1, UncommittedFinite, FS_AddElement
      <4> QED BY <4>2, <3>1, <2>2, <1>5, UncommittedFinite DEF Numbered
    <3>2. CASE r \in Uncommitted \/ t.pc \notin {"replying", "writing"}
      <4>1. Uncommitted' \subseteq Uncommitted BY <1>2, <3>2 DEF Uncommitted
      <4>2. /\ Cardinality(Uncommitted') <= Cardinality(Uncommitted)
            /\ Cardinality(Uncommitted') \in Nat
        BY <4>1, UncommittedFinite, FS_Subset, FS_CardinalityType
      <4> QED BY <4>2, <2>2, <1>5, UncommittedFinite DEF Numbered
    <3> QED BY <3>1, <3>2
  <2> QED BY <2>1, <2>3, <1>5 DEF Numbered
<1>6. \A q \in Requests : ChatSound(chatTx[q])'
  <2>1. ASSUME NEW u, ChatSound(u) PROVE ChatSound(u)'
    BY <2>1 DEF ChatSound, Sequences, TurnsOf
  <2> QED BY <1>2, <2>1 DEF ChatIInv, ChatSound, Sequences, TurnsOf
<1>7. OneWriter' BY <1>2 DEF ChatIInv, OneWriter, ThreadFree
<1>8. /\ NumbersAreUnique' /\ QuestionsAreAnswered' /\ SideEffectsFollowCommit'
  BY DEF ChatIInv, NumbersAreUnique, QuestionsAreAnswered, SideEffectsFollowCommit, TurnsOf
<1> QED BY <1>4, <1>5, <1>6, <1>7, <1>8 DEF ChatIInv

(* The two messages of a turn, under the lock.                             *)
LEMMA Committing ==
  ASSUME ChatIInv, NEW r \in Requests, CommitTurn(r)
  PROVE  ChatIInv'
<1> DEFINE x == chatTx[r].turn
           k == chatTx[r].next
           u == [sequence |-> k, turn |-> x, role |-> "user"]
           a == [sequence |-> k + 1, turn |-> x, role |-> "assistant"]
<1>1. /\ chatTx \in [Requests -> ChatTx] /\ chatTx[r] \in ChatTx /\ turnsBegun \in Turns
      /\ messages \in SUBSET Message /\ memories \in SUBSET Turns
  BY DEF ChatIInv, ChatTypeOK
<1>2. x \in Turns /\ k \in Nat /\ chatTx[r].summary \in SUBSET Turns BY <1>1 DEF ChatTx
<1>3. chatTx[r].pc = "writing" /\ ChatSound(chatTx[r]) BY DEF CommitTurn, ChatIInv
<1>4. messages' = messages \cup {u, a} BY DEF CommitTurn, MessagesOf
<1>5. /\ turnsBegun' = turnsBegun /\ memories' = memories
      /\ summary' = chatTx[r].summary
      /\ chatTx' = [chatTx EXCEPT ![r].pc = "finishing"]
  BY DEF CommitTurn
<1>6. PICK n \in Nat \ {0} : Numbered(n) BY DEF ChatIInv
<1>7. k = 2 * n + 1 BY <1>2, <1>3, <1>6 DEF ChatSound, Numbered
<1>8. Uncommitted' = Uncommitted \ {r} /\ r \in Uncommitted
  BY <1>1, <1>3, <1>5 DEF Uncommitted
<1>9. Cardinality(Uncommitted') = Cardinality(Uncommitted) - 1 /\ Cardinality(Uncommitted) >= 1
  <2>1. Cardinality(Uncommitted') = Cardinality(Uncommitted) - 1
    BY <1>8, UncommittedFinite, FS_RemoveElement
  <2>2. Cardinality(Uncommitted') \in Nat
    BY <1>8, UncommittedFinite, FS_RemoveElement, FS_CardinalityType
  <2> QED BY <2>1, <2>2, UncommittedFinite
<1>10. n + 1 <= MaxTurns /\ n + 1 + Cardinality(Uncommitted') <= turnsBegun'
  <2>1. turnsBegun \in Nat /\ turnsBegun <= MaxTurns BY <1>1, ChatAssumption DEF Turns
  <2> QED BY <2>1, <1>5, <1>6, <1>9, UncommittedFinite, ChatAssumption DEF Numbered
<1>11. u \in Message /\ a \in Message
  BY <1>2, <1>7, <1>10, ChatAssumption DEF Message
<1>12. Sequences' = Sequences \cup {k, k + 1}
  <2>1. Sequences' = {m.sequence : m \in messages'} BY DEF Sequences
  <2>2. u.sequence = k /\ a.sequence = k + 1 OBVIOUS
  <2> HIDE DEF u, a
  <2> QED BY <2>1, <2>2, <1>4 DEF Sequences
<1>13. TurnsOf(messages') = TurnsOf(messages) \cup {x}
  <2>1. u.turn = x /\ a.turn = x OBVIOUS
  <2> HIDE DEF u, a
  <2> QED BY <2>1, <1>4 DEF TurnsOf
<1>14. Numbered(n + 1)'
  <2>1. Sequences' = 1..(2 * (n + 1)) BY <1>6, <1>7, <1>12 DEF Numbered
  <2> QED BY <2>1, <1>10 DEF Numbered
<1>15. /\ chatTx' \in [Requests -> ChatTx]
       /\ chatTx'[r] = [chatTx[r] EXCEPT !.pc = "finishing"]
       /\ \A q \in Requests : q # r => chatTx'[q] = chatTx[q] /\ chatTx[q].pc # "writing"
  <2>1. [chatTx[r] EXCEPT !.pc = "finishing"] \in ChatTx BY <1>1 DEF ChatTx
  <2> QED BY <2>1, <1>1, <1>3, <1>5 DEF ChatIInv, OneWriter
<1>16. ChatTypeOK'
  BY <1>1, <1>2, <1>4, <1>5, <1>11, <1>15 DEF ChatTypeOK
<1>17. NumbersAreUnique'
  <2>1. \A m \in messages : m.sequence \in Sequences BY DEF Sequences
  <2>2. \A m \in messages : m.sequence # k /\ m.sequence # k + 1
    BY <2>1, <1>6, <1>7 DEF Numbered
  <2>3. u.sequence = k /\ a.sequence = k + 1 /\ k # k + 1 BY <1>2
  <2>4. \A m, l \in messages : m.sequence = l.sequence => m = l
    BY DEF ChatIInv, NumbersAreUnique
  <2> HIDE DEF u, a, k
  <2> QED BY <2>2, <2>3, <2>4, <1>4 DEF NumbersAreUnique
<1>18. QuestionsAreAnswered'
  <2>1. [sequence |-> u.sequence + 1, turn |-> u.turn, role |-> "assistant"] = a OBVIOUS
  <2>2. a.role # "user" OBVIOUS
  <2> HIDE DEF u, a
  <2> QED BY <2>1, <2>2, <1>4 DEF ChatIInv, QuestionsAreAnswered
<1>19. \A q \in Requests : ChatSound(chatTx[q])'
  <2> TAKE q \in Requests
  <2>1. ChatSound(chatTx[q]) BY DEF ChatIInv
  <2>2. CASE q = r
    <3>1. /\ chatTx'[q].pc = "finishing" /\ chatTx'[q].turn = x
          /\ chatTx'[q].history = chatTx[q].history /\ chatTx'[q].summary = chatTx[q].summary
      BY <1>1, <1>15, <2>2 DEF ChatTx
    <3> HIDE DEF x
    <3> QED BY <3>1, <2>1, <1>4, <1>13 DEF ChatSound
  <2>3. CASE q # r
    <3> HIDE DEF x
    <3> QED BY <2>1, <2>3, <1>4, <1>13, <1>15 DEF ChatSound
  <2> QED BY <2>2, <2>3
<1>20. OneWriter' BY <1>1, <1>15 DEF OneWriter, ChatTx
<1>21. SideEffectsFollowCommit'
  BY <1>3, <1>5, <1>13 DEF ChatIInv, SideEffectsFollowCommit, ChatSound
<1>22. n + 1 \in Nat \ {0} OBVIOUS
<1> QED BY <1>14, <1>16, <1>17, <1>18, <1>19, <1>20, <1>21, <1>22 DEF ChatIInv

LEMMA ChatInitial == ChatInit => ChatIInv
<1> SUFFICES ASSUME ChatInit PROVE ChatIInv OBVIOUS
<1> DEFINE u == [sequence |-> 1, turn |-> 1, role |-> "user"]
           a == [sequence |-> 2, turn |-> 1, role |-> "assistant"]
<1>1. messages = {u, a} BY DEF ChatInit, MessagesOf
<1>2. 1 \in Turns /\ 1 \in 1..(2 * MaxTurns) /\ 2 \in 1..(2 * MaxTurns)
  BY ChatAssumption DEF Turns
<1>3. ChatTypeOK BY <1>1, <1>2, ChatIdleRecord DEF ChatInit, ChatTypeOK, Message
<1>4. Numbered(1)
  <2>1. u.sequence = 1 /\ a.sequence = 2 OBVIOUS
  <2> HIDE DEF u, a
  <2>2. Sequences = {1, 2} BY <1>1, <2>1 DEF Sequences
  <2>3. Uncommitted = {} BY ChatIdleRecord DEF ChatInit, Uncommitted
  <2> QED BY <2>2, <2>3, FS_EmptySet DEF Numbered, ChatInit
<1>5. NumbersAreUnique /\ QuestionsAreAnswered
  BY <1>1 DEF NumbersAreUnique, QuestionsAreAnswered
<1>6. \A r \in Requests : ChatSound(chatTx[r]) BY ChatIdleRecord DEF ChatInit, ChatSound
<1>7. OneWriter BY ChatIdleRecord DEF ChatInit, OneWriter
<1>8. SideEffectsFollowCommit BY DEF ChatInit, SideEffectsFollowCommit
<1> QED BY <1>3, <1>4, <1>5, <1>6, <1>7, <1>8 DEF ChatIInv

LEMMA ChatStepPreserves == ChatIInv /\ [ChatNext]_chatVars => ChatIInv'
<1> SUFFICES ASSUME ChatIInv, [ChatNext]_chatVars PROVE ChatIInv' OBVIOUS
<1> USE DEF chatVars
<1>1. ASSUME NEW r \in Requests, ChatStep(r) PROVE ChatIInv'
  <2>1. /\ chatTx \in [Requests -> ChatTx] /\ chatTx[r] \in ChatTx /\ turnsBegun \in Turns
        /\ messages \in SUBSET Message /\ summary \in SUBSET Turns
    BY DEF ChatIInv, ChatTypeOK
  <2>2. ChatSound(chatTx[r]) /\ summary \cup memories \subseteq TurnsOf(messages)
    BY DEF ChatIInv, SideEffectsFollowCommit
  <2>3. ChatSound(ChatIdle) BY ChatIdleRecord DEF ChatSound
  <2>4. turnsBegun >= turnsBegun /\ turnsBegun \in Nat BY <2>1 DEF Turns
  <2>5. ASSUME NEW streamed \in BOOLEAN, ReadThread(r, streamed) PROVE ChatIInv'
    <3> DEFINE t == [ChatIdle EXCEPT !.pc = "replying", !.turn = turnsBegun + 1,
                       !.streamed = streamed, !.history = History, !.summary = summary]
    <3>1. History \subseteq messages BY DEF History
    <3>2. turnsBegun' = turnsBegun + 1 /\ turnsBegun + 1 \in Turns
      BY <2>5, <2>1, ChatAssumption DEF ReadThread, Turns
    <3>3. /\ t \in ChatTx /\ t.pc = "replying"
          /\ t.history = History /\ t.summary = summary
      BY <3>1, <3>2, <2>1 DEF ChatTx, ChatIdle
    <3>4. /\ chatTx' = [chatTx EXCEPT ![r] = t]
          /\ messages' = messages /\ summary' = summary /\ memories' = memories
      BY <2>5 DEF ReadThread
    <3> HIDE DEF t
    <3>5. ChatSound(t) BY <3>1, <3>3, <2>2 DEF ChatSound
    <3>6. summary' \cup memories' \subseteq TurnsOf(messages) BY <2>2, <3>4
    <3>7. turnsBegun' \in Turns /\ turnsBegun' >= turnsBegun BY <2>4, <3>2
    <3> QED BY <3>2, <3>3, <3>4, <3>5, <3>6, <3>7, NoMessage
  <2>6. CASE LockThread(r)
    <3> DEFINE s == IF chatTx[r].streamed THEN summary ELSE chatTx[r].summary
               k == LastSequence + 1
               t == [chatTx[r] EXCEPT !.pc = "writing", !.next = k, !.summary = s]
    <3>1. PICK n \in Nat \ {0} : Numbered(n) BY DEF ChatIInv
    <3>2. LastSequence = 2 * n /\ Sequences = 1..(2 * n)
      BY <3>1, LastOfInterval DEF Numbered
    <3>3. s \in SUBSET Turns /\ s \subseteq TurnsOf(messages)
      BY <2>1, <2>2 DEF ChatSound, ChatTx
    <3>4. /\ chatTx' = [chatTx EXCEPT ![r] = t] /\ ThreadFree(r) /\ r \in Uncommitted
          /\ UNCHANGED <<turnsBegun, messages, summary, memories>>
      BY <2>1, <2>6 DEF LockThread, Uncommitted
    <3> HIDE DEF s
    <3>5. /\ t \in ChatTx /\ t.pc = "writing" /\ t.next = 2 * n + 1
          /\ t.history = chatTx[r].history /\ t.summary = s
      <4>1. k = 2 * n + 1 /\ k \in Nat BY <3>2
      <4> HIDE DEF k
      <4> QED BY <2>1, <3>3, <4>1 DEF ChatTx
    <3> HIDE DEF t
    <3>6. ChatSound(t) BY <2>2, <3>2, <3>3, <3>5 DEF ChatSound
    <3> QED BY <2>1, <2>2, <2>4, <3>4, <3>5, <3>6, NoMessage
  <2>7. CASE CommitTurn(r) BY <2>7, Committing
  <2>8. CASE FinishTurn(r)
    <3>1. chatTx[r].turn \in TurnsOf(messages) BY <2>2, <2>8 DEF FinishTurn, MayFinish, ChatSound
    <3>2. TurnsOf(chatTx[r].history) \subseteq TurnsOf(messages)
      BY <2>2 DEF ChatSound, TurnsOf
    <3>3. memories' \subseteq TurnsOf(messages)
      BY <2>2, <2>8, <3>1 DEF FinishTurn, Memorized
    <3>4. summary' \subseteq TurnsOf(messages)
      <4>1. summary' \in {summary,
              chatTx[r].summary \cup TurnsOf(chatTx[r].history) \cup {chatTx[r].turn}}
        BY <2>8 DEF FinishTurn, Summarized
      <4> QED BY <4>1, <2>2, <3>1, <3>2 DEF ChatSound
    <3>5. chatTx' = [chatTx EXCEPT ![r] = ChatIdle] /\ UNCHANGED <<turnsBegun, messages>>
      BY <2>8 DEF FinishTurn
    <3> QED BY <2>1, <2>3, <2>4, <3>3, <3>4, <3>5, ChatIdleRecord, NoMessage
  <2>9. CASE ChatAbort(r)
    <3>1. /\ chatTx' = [chatTx EXCEPT ![r] = ChatIdle]
          /\ UNCHANGED <<turnsBegun, messages, summary, memories>>
      BY <2>9 DEF ChatAbort
    <3> QED BY <2>1, <2>2, <2>3, <2>4, <3>1, ChatIdleRecord, NoMessage
  <2> QED BY <1>1, <2>5, <2>6, <2>7, <2>8, <2>9 DEF ChatStep
<1>2. CASE UNCHANGED chatVars
  BY <1>2 DEF ChatIInv, ChatTypeOK, Numbered, Sequences, Uncommitted, NumbersAreUnique,
              QuestionsAreAnswered, ChatSound, TurnsOf, OneWriter, SideEffectsFollowCommit
<1> QED BY <1>1, <1>2 DEF ChatNext

(* The inductive invariant: the numbers are those of the committed turns,  *)
(* and what a request has read of the thread is still in it.               *)
THEOREM ChatInvariant == ChatSpec => []ChatIInv
BY ChatInitial, ChatStepPreserves, PTL DEF ChatSpec

(* Messages are numbered without a gap, a question directly before its own *)
(* answer, for any number of overlapping turns (_persist_chat_messages).   *)
THEOREM TurnsStayWhole == ChatSpec => []TurnsAreWhole
<1>1. ChatIInv => TurnsAreWhole
  <2> SUFFICES ASSUME ChatIInv PROVE TurnsAreWhole OBVIOUS
  <2>1. PICK n \in Nat \ {0} : Numbered(n) BY DEF ChatIInv
  <2>2. n \in 0..MaxTurns /\ Sequences = 1..(2 * n)
    <3>1. turnsBegun \in Nat /\ turnsBegun <= MaxTurns
      BY ChatAssumption DEF ChatIInv, ChatTypeOK, Turns
    <3> QED BY <2>1, <3>1, UncommittedFinite, ChatAssumption DEF Numbered
  <2>3. ASSUME NEW r \in Requests, chatTx[r].pc = "writing"
        PROVE  {chatTx[r].next, chatTx[r].next + 1} \cap Sequences = {}
    <3>1. chatTx[r].next \in Nat BY DEF ChatIInv, ChatTypeOK, ChatTx
    <3>2. \A k \in Sequences : k < chatTx[r].next BY <2>3 DEF ChatIInv, ChatSound
    <3> QED BY <2>2, <3>1, <3>2
  <2> QED BY <2>2, <2>3 DEF ChatIInv, TurnsAreWhole, NumbersAreUnique, QuestionsAreAnswered
<1> QED BY <1>1, ChatInvariant, PTL

(* Nothing is remembered or summarised of a turn that was rolled back      *)
(* (_persist_chat_side_effects).                                           *)
THEOREM SideEffectsAreOfCommittedTurns == ChatSpec => []SideEffectsFollowCommit
<1>1. ChatIInv => SideEffectsFollowCommit BY DEF ChatIInv
<1> QED BY <1>1, ChatInvariant, PTL

-----------------------------------------------------------------------------
(***************************************************************************)
(* Proofs about TextbookReview, for any number of requests, runs and kinds *)
(* of review item.  The lock on the source orders parses, failure sessions *)
(* and the deletion; the invariant says what that order buys.              *)
(***************************************************************************)

Running == {"parsing", "storing"}

Unsettled == {"pending", "parsing", "storing", "failing"}

(* The lock is with one task, and the source is there as long as it is.    *)
LockOfSource ==
  /\ \A x, y \in Runs : task[x] \in Running /\ task[y] \in Running => x = y
  /\ \A x \in Runs : task[x] \in Running => uploaded

(* What was deleted under the lock is still all there is.                  *)
DeletedAll == \A x \in Runs : task[x] = "storing" => replaced[x] = points

(* A task finds its run as it was queued, or deleted with the source; runs *)
(* that are still to come have left nothing.                               *)
RunOfTask ==
  /\ \A x \in Runs : task[x] \in Unsettled => parse[x] \in {"queued", "none"}
  /\ \A x \in Runs : x > runs => parse[x] = "none" /\ task[x] = "none"

OnePoint == points = {} \/ \E x \in Runs : points = {x}

OfCompleted ==
  /\ \A x \in points : parse[x] = "completed"
  /\ \A i \in pending : parse[i[1]] = "completed"

Rows ==
  /\ LockOfSource /\ DeletedAll /\ RunOfTask /\ OnePoint /\ OfCompleted
  /\ IngestIsAttended /\ DeletionIsFinal

ReviewIInv == ReviewTypeOK /\ Rows

LEMMA ReviewIdleRecord == ReviewIdle \in ReviewTx
BY DEF ReviewIdle, ReviewTx, Idle

(* The queue is finite, so a gate that counts some of it is a number.      *)
LEMMA QueueIsFinite ==
  /\ \A F \in SUBSET Flaws : Cardinality(F) \in Nat
  /\ \A Q \in SUBSET Items : Cardinality(Q) \in Nat
<1>1. IsFiniteSet(Runs) BY TextbookAssumption, FS_Interval DEF Runs
<1>2. IsFiniteSet(Items) BY <1>1, TextbookAssumption, FS_Product DEF Items
<1> QED BY <1>2, TextbookAssumption, FS_Subset, FS_CardinalityType

(* What requests read, and the gate, matter to no row.                     *)
LEMMA OnlyRequests ==
  ASSUME ReviewIInv, UNCHANGED <<uploaded, runs, parse, task, replaced, points, pending>>,
         gate' \in Nat, reviewTx' \in [Requests -> ReviewTx]
  PROVE  ReviewIInv'
<1>1. ReviewTypeOK' BY DEF ReviewIInv, ReviewTypeOK
<1>2. Rows'
  BY DEF ReviewIInv, Rows, LockOfSource, DeletedAll, RunOfTask, OnePoint, OfCompleted,
     IngestIsAttended, DeletionIsFinal
<1> QED BY <1>1, <1>2 DEF ReviewIInv

-----------------------------------------------------------------------------
(* Requests.                                                               *)

LEMMA Queueing ==
  ASSUME ReviewIInv, NEW r \in Requests, CommitIngest(r)
  PROVE  ReviewIInv'
<1>1. /\ runs \in 0..MaxRuns /\ parse \in [Runs -> ParseStatus] /\ task \in [Runs -> TaskStatus]
      /\ reviewTx \in [Requests -> ReviewTx] /\ points \in SUBSET Runs /\ pending \in SUBSET Items
  BY DEF ReviewIInv, ReviewTypeOK
<1> DEFINE n == runs + 1
<1>2. n \in Runs BY <1>1, TextbookAssumption DEF Runs, CommitIngest
<1>3. /\ uploaded /\ SourceFree
      /\ runs' = n /\ n \in 0..MaxRuns
      /\ parse' = [parse EXCEPT ![n] = "queued"]
      /\ task' = [task EXCEPT ![n] = "pending"]
      /\ gate' = reviewTx[r].count
      /\ reviewTx' = [reviewTx EXCEPT ![r] = ReviewIdle]
      /\ UNCHANGED <<uploaded, replaced, points, pending>>
  BY <1>1, TextbookAssumption DEF CommitIngest
<1>4. parse[n] = "none" /\ task[n] = "none" BY <1>1, <1>2 DEF ReviewIInv, Rows, RunOfTask, Runs
<1>5. \A x \in Runs : x > n => x > runs BY <1>1 DEF Runs
<1> HIDE DEF n
<1>6. ReviewTypeOK'
  <2>1. gate' \in Nat BY <1>1, <1>3 DEF ReviewTx
  <2>2. reviewTx' \in [Requests -> ReviewTx] BY <1>1, <1>3, ReviewIdleRecord
  <2>3. parse' \in [Runs -> ParseStatus] BY <1>1, <1>3 DEF ParseStatus
  <2>4. task' \in [Runs -> TaskStatus] BY <1>1, <1>3 DEF TaskStatus
  <2> QED BY <1>3, <2>1, <2>2, <2>3, <2>4 DEF ReviewIInv, ReviewTypeOK
<1>7. \A x \in Runs : x # n => parse'[x] = parse[x] /\ task'[x] = task[x] BY <1>1, <1>3
<1>8. parse'[n] = "queued" /\ task'[n] = "pending" BY <1>1, <1>2, <1>3
<1>9. LockOfSource' BY <1>3, <1>7, <1>8 DEF ReviewIInv, Rows, LockOfSource, Running
<1>10. DeletedAll' BY <1>3, <1>7, <1>8 DEF ReviewIInv, Rows, DeletedAll
<1>11. RunOfTask'
  <2>1. \A x \in Runs : x > n => x # n BY DEF Runs
  <2> QED BY <1>3, <1>5, <1>7, <1>8, <2>1 DEF ReviewIInv, Rows, RunOfTask, Unsettled
<1>12. OnePoint' BY <1>3 DEF ReviewIInv, Rows, OnePoint
<1>13. OfCompleted'
  <2>1. \A i \in pending : i[1] \in Runs BY <1>1 DEF Items
  <2> QED BY <1>1, <1>3, <1>4, <1>7, <2>1 DEF ReviewIInv, Rows, OfCompleted
<1>14. IngestIsAttended' BY <1>7, <1>8 DEF ReviewIInv, Rows, IngestIsAttended
<1>15. DeletionIsFinal' BY <1>3 DEF DeletionIsFinal
<1> QED BY <1>6, <1>9, <1>10, <1>11, <1>12, <1>13, <1>14, <1>15 DEF ReviewIInv, Rows

LEMMA Deciding ==
  ASSUME ReviewIInv, NEW r \in Requests, CommitDecision(r)
  PROVE  ReviewIInv'
<1>1. /\ reviewTx \in [Requests -> ReviewTx] /\ pending \in SUBSET Items
  BY DEF ReviewIInv, ReviewTypeOK
<1>2. ReviewTypeOK'
  <2>1. gate' \in Nat BY <1>1 DEF ReviewTx, CommitDecision
  <2>2. reviewTx' \in [Requests -> ReviewTx] BY <1>1, ReviewIdleRecord DEF CommitDecision
  <2>3. pending' \in SUBSET Items BY <1>1 DEF CommitDecision
  <2> QED BY <2>1, <2>2, <2>3 DEF CommitDecision, ReviewIInv, ReviewTypeOK
<1>3. /\ UNCHANGED <<uploaded, runs, parse, task, replaced, points>>
      /\ pending' \subseteq pending
  BY DEF CommitDecision
<1>4. Rows'
  BY <1>3 DEF ReviewIInv, Rows, LockOfSource, DeletedAll, RunOfTask, OnePoint, OfCompleted,
     IngestIsAttended, DeletionIsFinal
<1> QED BY <1>2, <1>4 DEF ReviewIInv

LEMMA Deleting ==
  ASSUME ReviewIInv, NEW r \in Requests, CommitDelete(r)
  PROVE  ReviewIInv'
<1>1. reviewTx \in [Requests -> ReviewTx] BY DEF ReviewIInv, ReviewTypeOK
<1>2. /\ SourceFree /\ uploaded' = FALSE
      /\ parse' = [x \in Runs |-> "none"]
      /\ points' = {} /\ pending' = {} /\ gate' = 0
      /\ UNCHANGED <<runs, task, replaced>>
  BY DEF CommitDelete
<1>3. ReviewTypeOK'
  <2>1. reviewTx' \in [Requests -> ReviewTx] BY <1>1, ReviewIdleRecord DEF CommitDelete
  <2>2. parse' \in [Runs -> ParseStatus] BY <1>2 DEF ParseStatus
  <2> QED BY <1>2, <2>1, <2>2 DEF ReviewIInv, ReviewTypeOK
<1>4. LockOfSource' /\ DeletedAll' BY <1>2 DEF SourceFree, LockOfSource, DeletedAll, Running
<1>5. RunOfTask' BY <1>2 DEF ReviewIInv, Rows, RunOfTask
<1>6. OnePoint' /\ OfCompleted' /\ IngestIsAttended' /\ DeletionIsFinal'
  BY <1>2 DEF OnePoint, OfCompleted, IngestIsAttended, DeletionIsFinal
<1> QED BY <1>3, <1>4, <1>5, <1>6 DEF ReviewIInv, Rows

LEMMA ReviewStepPreserves ==
  ASSUME ReviewIInv, NEW r \in Requests, ReviewStep(r)
  PROVE  ReviewIInv'
<1>1. /\ reviewTx \in [Requests -> ReviewTx] /\ reviewTx[r] \in ReviewTx
      /\ gate \in Nat /\ pending \in SUBSET Items
  BY DEF ReviewIInv, ReviewTypeOK
<1>2. CASE OpenIngest(r)
  <2> DEFINE t == [ReviewIdle EXCEPT !.pc = "ingesting", !.count = gate]
  <2>1. t \in ReviewTx BY <1>1 DEF ReviewTx, ReviewIdle
  <2> QED BY <1>1, <1>2, <2>1, OnlyRequests DEF OpenIngest
<1>3. CASE CommitIngest(r) BY <1>3, Queueing
<1>4. CASE \E i \in Items : OpenDecision(r, i)
  <2>1. PICK i \in Items : OpenDecision(r, i) BY <1>4
  <2> DEFINE t == [ReviewIdle EXCEPT !.pc = "deciding", !.item = i]
  <2>2. t \in ReviewTx BY DEF ReviewTx, ReviewIdle
  <2> QED BY <1>1, <2>1, <2>2, OnlyRequests DEF OpenDecision
<1>5. CASE CountPending(r)
  <2> DEFINE n == Cardinality(pending \ {reviewTx[r].item})
             t == [reviewTx[r] EXCEPT !.pc = "counted", !.count = n]
  <2>1. n \in Nat BY <1>1, QueueIsFinite
  <2>2. /\ reviewTx' = [reviewTx EXCEPT ![r] = t]
        /\ UNCHANGED <<uploaded, runs, parse, task, replaced, points, pending, gate>>
    BY <1>5 DEF CountPending
  <2> HIDE DEF n
  <2>3. t \in ReviewTx BY <1>1, <2>1 DEF ReviewTx
  <2> QED BY <1>1, <2>2, <2>3, OnlyRequests
<1>6. CASE CommitDecision(r) BY <1>6, Deciding
<1>7. CASE OpenDelete(r)
  <2> DEFINE t == [ReviewIdle EXCEPT !.pc = "deleting"]
  <2>1. t \in ReviewTx BY DEF ReviewTx, ReviewIdle
  <2> QED BY <1>1, <1>7, <2>1, OnlyRequests DEF OpenDelete
<1>8. CASE CommitDelete(r) BY <1>8, Deleting
<1>9. CASE ReviewAbort(r) BY <1>1, <1>9, ReviewIdleRecord, OnlyRequests DEF ReviewAbort
<1> QED BY <1>2, <1>3, <1>4, <1>5, <1>6, <1>7, <1>8, <1>9 DEF ReviewStep

-----------------------------------------------------------------------------
(* Tasks.                                                                  *)

(* A task moves on without writing a row: taking the lock, giving it up.   *)
LEMMA TaskMoves ==
  ASSUME ReviewIInv, NEW x \in Runs, NEW s \in TaskStatus,
         task' = [task EXCEPT ![x] = s],
         UNCHANGED <<uploaded, runs, parse, points, pending, gate, reviewTx>>,
         replaced' \in [Runs -> SUBSET Runs],
         \A y \in Runs : y # x => replaced'[y] = replaced[y],
         task[x] # "none",
         s \in Running => uploaded /\ \A y \in Runs : y # x => task[y] \notin Running,
         s = "storing" => replaced'[x] = points,
         s \in Unsettled => task[x] \in Unsettled,
         s \notin Unsettled \cup {"lost"} => parse[x] # "queued"
  PROVE  ReviewIInv'
<1>1. task \in [Runs -> TaskStatus] BY DEF ReviewIInv, ReviewTypeOK
<1>2. /\ task'[x] = s
      /\ \A y \in Runs : y # x => task'[y] = task[y]
  BY <1>1
<1>3. ReviewTypeOK' BY <1>1 DEF ReviewIInv, ReviewTypeOK
<1>4. LockOfSource' BY <1>2 DEF ReviewIInv, Rows, LockOfSource
<1>5. DeletedAll' BY <1>2 DEF ReviewIInv, Rows, DeletedAll
<1>6. RunOfTask' BY <1>2 DEF ReviewIInv, Rows, RunOfTask
<1>7. OnePoint' /\ OfCompleted' /\ DeletionIsFinal'
  BY DEF ReviewIInv, Rows, OnePoint, OfCompleted, DeletionIsFinal
<1>8. IngestIsAttended' BY <1>2 DEF ReviewIInv, Rows, IngestIsAttended, Unsettled
<1> QED BY <1>3, <1>4, <1>5, <1>6, <1>7, <1>8 DEF ReviewIInv, Rows

(* The points of the run replace all others; its items join the queue.     *)
LEMMA Parsing ==
  ASSUME ReviewIInv, NEW x \in Runs, NEW flaws \in SUBSET Flaws, CommitParse(x, flaws)
  PROVE  ReviewIInv'
<1>1. /\ parse \in [Runs -> ParseStatus] /\ task \in [Runs -> TaskStatus]
      /\ points \in SUBSET Runs /\ pending \in SUBSET Items /\ runs \in 0..MaxRuns
  BY DEF ReviewIInv, ReviewTypeOK
<1>2. /\ task[x] = "storing"
      /\ task' = [task EXCEPT ![x] = "done"]
      /\ parse' = [parse EXCEPT ![x] = "completed"]
      /\ points' = (points \ replaced[x]) \cup {x}
      /\ pending' = pending \cup {<<x, f>> : f \in flaws}
      /\ gate' = Cardinality(flaws)
      /\ UNCHANGED <<uploaded, runs, replaced, reviewTx>>
  BY DEF CommitParse
<1>3. points' = {x} BY <1>2 DEF ReviewIInv, Rows, DeletedAll
<1>4. /\ uploaded
      /\ \A y \in Runs : y # x => task[y] \notin Running
      /\ ~(x > runs)
  BY <1>2 DEF ReviewIInv, Rows, LockOfSource, RunOfTask, Running
<1>5. /\ task'[x] = "done" /\ parse'[x] = "completed"
      /\ \A y \in Runs : y # x => task'[y] = task[y] /\ parse'[y] = parse[y]
  BY <1>1, <1>2
<1>6. ReviewTypeOK'
  <2>1. gate' \in Nat BY <1>2, QueueIsFinite
  <2>2. pending' \in SUBSET Items BY <1>1, <1>2 DEF Items
  <2>3. parse' \in [Runs -> ParseStatus] BY <1>1, <1>2 DEF ParseStatus
  <2>4. task' \in [Runs -> TaskStatus] BY <1>1, <1>2 DEF TaskStatus
  <2> QED BY <1>2, <1>3, <2>1, <2>2, <2>3, <2>4 DEF ReviewIInv, ReviewTypeOK
<1>7. LockOfSource' /\ DeletedAll' BY <1>4, <1>5 DEF LockOfSource, DeletedAll, Running
<1>8. RunOfTask' BY <1>2, <1>4, <1>5 DEF ReviewIInv, Rows, RunOfTask, Unsettled
<1>9. OnePoint' BY <1>3 DEF OnePoint
<1>10. OfCompleted'
  <2>1. \A i \in pending' : i[1] = x \/ i \in pending BY <1>2
  <2>2. \A i \in pending : i[1] \in Runs BY <1>1 DEF Items
  <2> QED BY <1>3, <1>5, <2>1, <2>2 DEF ReviewIInv, Rows, OfCompleted
<1>11. IngestIsAttended' BY <1>5 DEF ReviewIInv, Rows, IngestIsAttended
<1>12. DeletionIsFinal' BY <1>2, <1>4 DEF DeletionIsFinal
<1> QED BY <1>6, <1>7, <1>8, <1>9, <1>10, <1>11, <1>12 DEF ReviewIInv, Rows

(* The failure session: its run was never completed.                       *)
LEMMA Failing ==
  ASSUME ReviewIInv, NEW x \in Runs, MarkFailed(x)
  PROVE  ReviewIInv'
<1>1. /\ parse \in [Runs -> ParseStatus] /\ task \in [Runs -> TaskStatus]
      /\ points \in SUBSET Runs /\ pending \in SUBSET Items
  BY DEF ReviewIInv, ReviewTypeOK
<1>2. /\ task[x] = "failing" /\ uploaded
      /\ task' = [task EXCEPT ![x] = "done"]
      /\ parse' = [parse EXCEPT ![x] = "failed"]
      /\ gate' = 0
      /\ UNCHANGED <<uploaded, runs, replaced, points, pending, reviewTx>>
  BY DEF MarkFailed, AfterFailure
<1>3. parse[x] # "completed" /\ ~(x > runs) BY <1>2 DEF ReviewIInv, Rows, RunOfTask, Unsettled
<1>4. /\ task'[x] = "done" /\ parse'[x] = "failed"
      /\ \A y \in Runs : y # x => task'[y] = task[y] /\ parse'[y] = parse[y]
  BY <1>1, <1>2
<1>5. ReviewTypeOK'
  <2>1. parse' \in [Runs -> ParseStatus] BY <1>1, <1>2 DEF ParseStatus
  <2>2. task' \in [Runs -> TaskStatus] BY <1>1, <1>2 DEF TaskStatus
  <2> QED BY <1>2, <2>1, <2>2 DEF ReviewIInv, ReviewTypeOK
<1>6. LockOfSource' BY <1>2, <1>4 DEF ReviewIInv, Rows, LockOfSource, Running
<1>7. DeletedAll' BY <1>2, <1>4 DEF ReviewIInv, Rows, DeletedAll
<1>8. RunOfTask' BY <1>2, <1>3, <1>4 DEF ReviewIInv, Rows, RunOfTask, Unsettled
<1>9. OnePoint' BY <1>2 DEF ReviewIInv, Rows, OnePoint
<1>10. OfCompleted'
  <2>1. \A i \in pending : i[1] \in Runs BY <1>1 DEF Items
  <2> QED BY <1>1, <1>2, <1>3, <1>4, <2>1 DEF ReviewIInv, Rows, OfCompleted
<1>11. IngestIsAttended' BY <1>4 DEF ReviewIInv, Rows, IngestIsAttended
<1>12. DeletionIsFinal' BY <1>2 DEF DeletionIsFinal
<1> QED BY <1>5, <1>6, <1>7, <1>8, <1>9, <1>10, <1>11, <1>12 DEF ReviewIInv, Rows

LEMMA ParserStepPreserves ==
  ASSUME ReviewIInv, NEW x \in Runs, ParserStep(x)
  PROVE  ReviewIInv'
<1>1. /\ replaced \in [Runs -> SUBSET Runs] /\ points \in SUBSET Runs
      /\ {"parsing", "storing", "failing", "done"} \subseteq TaskStatus
  BY DEF ReviewIInv, ReviewTypeOK, TaskStatus
<1>2. CASE StartParse(x)
  BY <1>1, <1>2, TaskMoves DEF StartParse, SourceFree, Running, Unsettled
<1>3. CASE SourceGone(x)
  <2>1. parse[x] = "none" BY <1>3 DEF SourceGone, ReviewIInv, Rows, DeletionIsFinal
  <2> QED BY <1>1, <1>3, <2>1, TaskMoves DEF SourceGone, Running, Unsettled
<1>4. CASE DeleteOldPoints(x)
  <2>1. uploaded /\ \A y \in Runs : y # x => task[y] \notin Running
    BY <1>4 DEF DeleteOldPoints, ReviewIInv, Rows, LockOfSource, Running
  <2>2. /\ replaced' \in [Runs -> SUBSET Runs] /\ replaced'[x] = points
        /\ \A y \in Runs : y # x => replaced'[y] = replaced[y]
    BY <1>1, <1>4 DEF DeleteOldPoints
  <2> QED BY <1>1, <1>4, <2>1, <2>2, TaskMoves DEF DeleteOldPoints, Unsettled
<1>5. CASE ParseFails(x) BY <1>1, <1>5, TaskMoves DEF ParseFails, Running, Unsettled
<1>6. CASE MarkFailed(x) BY <1>6, Failing
<1>7. CASE \E flaws \in SUBSET Flaws : CommitParse(x, flaws) BY <1>7, Parsing
<1> QED BY <1>2, <1>3, <1>4, <1>5, <1>6, <1>7 DEF ParserStep

(* A restart loses the tasks and what they held, and writes no row.        *)
LEMMA Crashing ==
  ASSUME ReviewIInv, ReviewCrash
  PROVE  ReviewIInv'
<1>1. /\ task' = [x \in Runs |-> IF task[x] \in Unsettled THEN "lost" ELSE task[x]]
      /\ UNCHANGED <<uploaded, runs, parse, replaced, points, pending, gate>>
      /\ reviewTx' = [r \in Requests |-> ReviewIdle]
  BY DEF ReviewCrash, Unsettled
<1>2. \A x \in Runs : /\ task'[x] \notin Unsettled
                      /\ task'[x] = "lost" \/ task'[x] = task[x]
                      /\ task[x] = "none" => task'[x] = "none"
  BY <1>1 DEF Unsettled
<1>3. ReviewTypeOK'
  <2>1. reviewTx' \in [Requests -> ReviewTx] BY <1>1, ReviewIdleRecord
  <2>2. task' \in [Runs -> TaskStatus] BY <1>1 DEF ReviewIInv, ReviewTypeOK, TaskStatus
  <2> QED BY <1>1, <2>1, <2>2 DEF ReviewIInv, ReviewTypeOK
<1>4. LockOfSource' /\ DeletedAll'
  BY <1>2 DEF LockOfSource, DeletedAll, Running, Unsettled
<1>5. RunOfTask' BY <1>1, <1>2 DEF ReviewIInv, Rows, RunOfTask
<1>6. OnePoint' /\ OfCompleted' /\ DeletionIsFinal'
  BY <1>1 DEF ReviewIInv, Rows, OnePoint, OfCompleted, DeletionIsFinal
<1>7. IngestIsAttended' BY <1>1, <1>2 DEF ReviewIInv, Rows, IngestIsAttended
<1> QED BY <1>3, <1>4, <1>5, <1>6, <1>7 DEF ReviewIInv, Rows

-----------------------------------------------------------------------------
(* Theorems.                                                               *)

LEMMA ReviewInitial == ReviewInit => ReviewIInv
<1> SUFFICES ASSUME ReviewInit PROVE ReviewIInv OBVIOUS
<1>1. ReviewTypeOK
  BY ReviewIdleRecord, TextbookAssumption DEF ReviewInit, ReviewTypeOK, ParseStatus, TaskStatus
<1>2. Rows
  BY DEF ReviewInit, Rows, LockOfSource, DeletedAll, RunOfTask, OnePoint, OfCompleted,
     IngestIsAttended, DeletionIsFinal, Running, Unsettled
<1> QED BY <1>1, <1>2 DEF ReviewIInv

(* Locks, tasks and rows agree in every reachable state.                   *)
THEOREM ReviewInvariant == ReviewSpec => []ReviewIInv
<1>1. ReviewIInv /\ [ReviewNext]_reviewVars => ReviewIInv'
  <2> SUFFICES ASSUME ReviewIInv, [ReviewNext]_reviewVars PROVE ReviewIInv' OBVIOUS
  <2>1. CASE UNCHANGED reviewVars
    BY <2>1, OnlyRequests DEF reviewVars, ReviewIInv, ReviewTypeOK
  <2> QED BY <2>1, ReviewStepPreserves, ParserStepPreserves, Crashing DEF ReviewNext
<1> QED BY <1>1, ReviewInitial, PTL DEF ReviewSpec

(* A queued run has a task that will settle it, unless a restart lost it.  *)
THEOREM RunsAreAttended == ReviewSpec => []IngestIsAttended
BY ReviewInvariant, PTL DEF ReviewIInv, Rows

(* However many runs overlap, the textbook is what one of them parsed.     *)
THEOREM RunsNeverMix == ReviewSpec => []TextbookIsOneParse
<1>1. ReviewIInv => TextbookIsOneParse
  <2> SUFFICES ASSUME ReviewIInv PROVE TextbookIsOneParse OBVIOUS
  <2>1. Cardinality(points) <= 1
    <3>1. CASE points = {} BY <3>1, FS_EmptySet
    <3>2. CASE \E x \in Runs : points = {x} BY <3>2, FS_Singleton
    <3> QED BY <3>1, <3>2 DEF ReviewIInv, Rows, OnePoint
  <2> QED BY <2>1 DEF ReviewIInv, Rows, OfCompleted, TextbookIsOneParse
<1> QED BY <1>1, ReviewInvariant, PTL

(* After the deletion nothing that was in progress brings a row back.      *)
THEOREM DeletedForGood == ReviewSpec => []DeletionIsFinal
BY ReviewInvariant, PTL DEF ReviewIInv, Rows

=============================================================================
