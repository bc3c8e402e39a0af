------------------------- MODULE GroupLessonProofs -------------------------
(***************************************************************************)
(* Proofs about DailyLesson, GroupLearning and FeishuSync, for any number  *)
(* of requests and any bounds.                                             *)
(***************************************************************************)
EXTENDS DailyLesson, GroupLearning, FeishuSync, FiniteSetTheorems, TLAPS

-----------------------------------------------------------------------------
(* DailyLesson: answers in progress are counted with those recorded, a     *)
(* lesson that was started by an open request is nobody else's yet.        *)

Answering(e) ==
  {r \in Requests : lessonTx[r].on = e /\ lessonTx[r].pc \in {"answering", "grading"}}

Starting(t) == t.pc \in {"starting", "superseding"}

(* What a request knows of its lesson and of those it found waiting.       *)
Teaching(t) ==
  /\ t.pc # "idle" => t.on \in Lessons
  /\ Starting(t) => /\ t.on <= begun
                    /\ checkpoint[t.on] = "none" /\ episode[t.on] = "none" /\ graded[t.on] = 0
  /\ t.pc \in {"answering", "grading", "looking"} => checkpoint[t.on] # "none"
  /\ \A e \in t.seen : checkpoint[e] # "none"

OneStarter ==
  \A r, q \in Requests :
    r # q /\ Starting(lessonTx[r]) /\ Starting(lessonTx[q]) => lessonTx[r].on # lessonTx[q].on

LessonIInv ==
  /\ LessonTypeOK
  /\ \A r \in Requests : Teaching(lessonTx[r])
  /\ OneStarter
  /\ \A e \in Lessons :
       /\ graded[e] + Cardinality(Answering(e)) <= Cardinality(Requests)
       /\ checkpoint[e] # "none" \/ episode[e] # "none" => e <= begun
  /\ GradedOnce

LEMMA AnsweringFinite ==
  /\ Cardinality(Requests) \in Nat
  /\ \A e : /\ IsFiniteSet(Answering(e)) /\ Cardinality(Answering(e)) \in Nat
             /\ Cardinality(Answering(e)) <= Cardinality(Requests)
<1>1. \A e : Answering(e) \subseteq Requests BY DEF Answering
<1> QED BY <1>1, RequestsAssumption, FS_Subset, FS_CardinalityType

LEMMA NewLessonAt ==
  ASSUME NEW pc \in {"idle", "starting", "superseding", "answering", "grading", "looking"},
         NEW e \in Lessons \cup {None}
  PROVE  /\ LessonAt(pc, e) \in LessonTx
         /\ LessonAt(pc, e).pc = pc /\ LessonAt(pc, e).on = e /\ LessonAt(pc, e).seen = {}
BY DEF LessonAt, LessonTx, Idle

(* A request that moves to t without beginning an answer or a lesson.      *)
LEMMA LessonMoves ==
  ASSUME LessonIInv, NEW r \in Requests, NEW t \in LessonTx,
         lessonTx' = [lessonTx EXCEPT ![r] = t], UNCHANGED begun,
         checkpoint' \in [Lessons -> CheckpointStatus], episode' \in [Lessons -> EpisodeStatus],
         graded' \in [Lessons -> Nat],
         t.pc \in {"answering", "grading"} => r \in Answering(t.on),
         Starting(t) => Starting(lessonTx[r]) /\ t.on = lessonTx[r].on,
         \A e \in Lessons :
           /\ checkpoint[e] # "none" => checkpoint'[e] # "none"
           /\ \/ e = lessonTx[r].on /\ lessonTx[r].pc # "idle"
              \/ /\ checkpoint[e] = "none" => checkpoint'[e] = "none"
                 /\ episode'[e] = episode[e]
           /\ \/ graded'[e] = graded[e]
              \/ graded'[e] = graded[e] + 1 /\ r \in Answering(e) /\ t.pc = "idle",
         t.pc # "idle" => t.on \in Lessons,
         Starting(t) => /\ checkpoint'[t.on] = "none" /\ episode'[t.on] = "none"
                        /\ graded'[t.on] = 0,
         t.pc = "looking" => checkpoint[t.on] # "none",
         \A e \in t.seen : checkpoint[e] # "none",
         GradedOnce'
  PROVE  LessonIInv'
<1>1. /\ lessonTx \in [Requests -> LessonTx] /\ lessonTx[r] \in LessonTx
      /\ checkpoint \in [Lessons -> CheckpointStatus] /\ episode \in [Lessons -> EpisodeStatus]
      /\ graded \in [Lessons -> Nat] /\ begun \in Nat
  BY MaxLessonsAssumption DEF LessonIInv, LessonTypeOK
<1>2. /\ lessonTx' \in [Requests -> LessonTx] /\ lessonTx'[r] = t
      /\ \A q \in Requests : q # r => lessonTx'[q] = lessonTx[q]
  BY <1>1
<1>3. LessonTypeOK' BY <1>2 DEF LessonIInv, LessonTypeOK
<1>4. ASSUME NEW q \in Requests PROVE Teaching(lessonTx[q])'
  <2>1. Teaching(lessonTx[q]) /\ Teaching(lessonTx[r]) BY DEF LessonIInv
  <2>2. CASE q = r
    <3>1. t.pc \in {"answering", "grading", "looking"} => checkpoint'[t.on] # "none"
      BY <2>1 DEF Answering, Teaching
    <3>2. Starting(t) => t.on <= begun BY <2>1 DEF Teaching
    <3>3. \A e \in t.seen : e \in Lessons BY DEF LessonTx
    <3> QED BY <1>2, <2>2, <3>1, <3>2, <3>3 DEF Teaching, Starting
  <2>3. CASE q # r
    <3>1. lessonTx'[q] = lessonTx[q] /\ lessonTx[q] \in LessonTx BY <1>1, <1>2, <2>3
    <3>2. \A e \in lessonTx[q].seen : e \in Lessons BY <3>1 DEF LessonTx
    <3>3. ASSUME Starting(lessonTx[q])
          PROVE  LET e == lessonTx[q].on
                 IN checkpoint'[e] = "none" /\ episode'[e] = "none" /\ graded'[e] = 0
      <4> DEFINE e == lessonTx[q].on
      <4>1. /\ e \in Lessons /\ checkpoint[e] = "none" /\ episode[e] = "none" /\ graded[e] = 0
        BY <2>1, <3>3 DEF Teaching, Starting
      <4>2. ~(e = lessonTx[r].on /\ lessonTx[r].pc # "idle")
        <5>1. lessonTx[r].pc # "idle" /\ e = lessonTx[r].on => Starting(lessonTx[r])
          BY <1>1, <2>1, <4>1 DEF Teaching, Starting, LessonTx, Idle
        <5> QED BY <2>3, <3>3, <5>1 DEF LessonIInv, OneStarter
      <4>3. r \notin Answering(e) BY <4>2 DEF Answering
      <4> QED BY <4>1, <4>2, <4>3
    <3> QED BY <2>1, <3>1, <3>2, <3>3 DEF Teaching, Starting
  <2> QED BY <2>2, <2>3
<1>5. OneStarter' BY <1>2 DEF LessonIInv, OneStarter, Starting
<1>6. ASSUME NEW e \in Lessons
      PROVE  /\ graded'[e] + Cardinality(Answering(e)') <= Cardinality(Requests)
             /\ checkpoint'[e] # "none" \/ episode'[e] # "none" => e <= begun
  <2>1. Answering(e)' \subseteq Answering(e) BY <1>2 DEF Answering
  <2>2. Cardinality(Answering(e)') \in Nat /\ Cardinality(Answering(e)') <= Cardinality(Answering(e))
    BY <2>1, AnsweringFinite, FS_Subset, FS_CardinalityType
  <2>3. graded[e] + Cardinality(Answering(e)) <= Cardinality(Requests) BY DEF LessonIInv
  <2>4. graded'[e] + Cardinality(Answering(e)') <= Cardinality(Requests)
    <3>1. CASE graded'[e] = graded[e] BY <1>1, <2>2, <2>3, <3>1, AnsweringFinite
    <3>2. CASE graded'[e] = graded[e] + 1 /\ r \in Answering(e) /\ t.pc = "idle"
      <4>1. Answering(e)' \subseteq Answering(e) \ {r} BY <1>2, <2>1, <3>2 DEF Answering
      <4>2. /\ IsFiniteSet(Answering(e) \ {r})
            /\ Cardinality(Answering(e) \ {r}) = Cardinality(Answering(e)) - 1
        BY <3>2, AnsweringFinite, FS_RemoveElement
      <4>3. Cardinality(Answering(e)') <= Cardinality(Answering(e)) - 1
        BY <4>1, <4>2, FS_Subset
      <4> QED BY <1>1, <2>2, <2>3, <3>2, <4>3, AnsweringFinite
    <3> QED BY <3>1, <3>2
  <2>5. checkpoint'[e] # "none" \/ episode'[e] # "none" => e <= begun
    <3>1. CASE e = lessonTx[r].on /\ lessonTx[r].pc # "idle"
      BY <1>1, <3>1 DEF LessonIInv, Teaching, Starting, LessonTx, Idle
    <3>2. CASE ~(e = lessonTx[r].on /\ lessonTx[r].pc # "idle") BY <3>2 DEF LessonIInv
    <3> QED BY <3>1, <3>2
  <2> QED BY <2>4, <2>5
<1> QED BY <1>3, <1>4, <1>5, <1>6 DEF LessonIInv

(* A lesson gets a number that no row and no open request has.             *)
LEMMA LessonStarts ==
  ASSUME LessonIInv, NEW r \in Requests, StartLesson(r)
  PROVE  LessonIInv'
<1> DEFINE n == begun + 1
           t == LessonAt("starting", n)
<1>1. /\ lessonTx \in [Requests -> LessonTx] /\ begun \in Nat /\ n \in Lessons
      /\ graded \in [Lessons -> Nat]
      /\ lessonTx' = [lessonTx EXCEPT ![r] = t] /\ begun' = n
      /\ UNCHANGED <<checkpoint, episode, graded>>
  BY MaxLessonsAssumption DEF LessonIInv, LessonTypeOK, StartLesson, Lessons
<1>2. t \in LessonTx /\ t.pc = "starting" /\ t.on = n /\ t.seen = {} BY <1>1, NewLessonAt
<1> HIDE DEF t
<1>3. /\ lessonTx' \in [Requests -> LessonTx] /\ lessonTx'[r] = t
      /\ \A q \in Requests : q # r => lessonTx'[q] = lessonTx[q]
  BY <1>1, <1>2
<1>4. LessonTypeOK' BY <1>1, <1>3 DEF LessonIInv, LessonTypeOK, Lessons
<1>5. checkpoint[n] = "none" /\ episode[n] = "none" BY <1>1 DEF LessonIInv
<1>6. graded[n] = 0 BY <1>1, <1>5 DEF LessonIInv, GradedOnce
<1>7. \A q \in Requests : Teaching(lessonTx[q])'
  BY <1>1, <1>2, <1>3, <1>5, <1>6 DEF LessonIInv, Teaching, Starting, Lessons
<1>8. OneStarter'
  BY <1>1, <1>2, <1>3 DEF LessonIInv, OneStarter, Teaching, Starting, Lessons
<1>9. ASSUME NEW e \in Lessons
      PROVE  /\ graded'[e] + Cardinality(Answering(e)') <= Cardinality(Requests)
             /\ checkpoint'[e] # "none" \/ episode'[e] # "none" => e <= begun'
  <2>1. Answering(e)' \subseteq Answering(e) BY <1>2, <1>3 DEF Answering
  <2>2. Cardinality(Answering(e)') \in Nat /\ Cardinality(Answering(e)') <= Cardinality(Answering(e))
    BY <2>1, AnsweringFinite, FS_Subset, FS_CardinalityType
  <2>3. graded[e] + Cardinality(Answering(e)) <= Cardinality(Requests) BY DEF LessonIInv
  <2>4. graded[e] \in Nat BY <1>1
  <2>5. graded'[e] + Cardinality(Answering(e)') <= Cardinality(Requests)
    BY <1>1, <2>2, <2>3, <2>4, AnsweringFinite
  <2> QED BY <1>1, <2>5 DEF LessonIInv, Lessons
<1>10. GradedOnce' BY <1>1 DEF LessonIInv, GradedOnce
<1> QED BY <1>4, <1>7, <1>8, <1>9, <1>10 DEF LessonIInv

(* A lesson that waits has not been graded.                                *)
LEMMA AnswerBegins ==
  ASSUME LessonIInv, NEW r \in Requests, NEW e \in Lessons, SubmitAnswer(r, e)
  PROVE  LessonIInv'
<1> DEFINE t == LessonAt("answering", e)
<1>1. /\ lessonTx \in [Requests -> LessonTx] /\ graded \in [Lessons -> Nat]
      /\ lessonTx' = [lessonTx EXCEPT ![r] = t] /\ checkpoint[e] = "waiting"
      /\ UNCHANGED <<begun, checkpoint, episode, graded>>
  BY DEF LessonIInv, LessonTypeOK, SubmitAnswer, AwaitsAnswer
<1>2. t \in LessonTx /\ t.pc = "answering" /\ t.on = e /\ t.seen = {} BY NewLessonAt
<1> HIDE DEF t
<1>3. /\ lessonTx' \in [Requests -> LessonTx] /\ lessonTx'[r] = t
      /\ \A q \in Requests : q # r => lessonTx'[q] = lessonTx[q]
  BY <1>1, <1>2
<1>4. LessonTypeOK' BY <1>1, <1>3 DEF LessonIInv, LessonTypeOK
<1>5. \A q \in Requests : Teaching(lessonTx[q])'
  BY <1>1, <1>2, <1>3 DEF LessonIInv, Teaching, Starting
<1>6. OneStarter' BY <1>2, <1>3 DEF LessonIInv, OneStarter, Starting
<1>7. ASSUME NEW f \in Lessons
      PROVE  graded'[f] + Cardinality(Answering(f)') <= Cardinality(Requests)
  <2>1. CASE f = e
    <3>1. graded'[f] = 0 BY <1>1, <2>1 DEF LessonIInv, GradedOnce
    <3>2. Answering(f)' \subseteq Requests BY DEF Answering
    <3>3. /\ Cardinality(Answering(f)') \in Nat /\ Cardinality(Requests) \in Nat
          /\ Cardinality(Answering(f)') <= Cardinality(Requests)
      BY <3>2, RequestsAssumption, FS_Subset, FS_CardinalityType
    <3> QED BY <3>1, <3>3
  <2>2. CASE f # e
    <3>1. Answering(f)' \subseteq Answering(f) BY <1>2, <1>3, <2>2 DEF Answering
    <3>2. Cardinality(Answering(f)') \in Nat /\ Cardinality(Answering(f)') <= Cardinality(Answering(f))
      BY <3>1, AnsweringFinite, FS_Subset, FS_CardinalityType
    <3>3. graded[f] + Cardinality(Answering(f)) <= Cardinality(Requests) BY DEF LessonIInv
    <3>4. graded[f] \in Nat BY <1>1
    <3> QED BY <1>1, <3>2, <3>3, <3>4, AnsweringFinite
  <2> QED BY <2>1, <2>2
<1>8. GradedOnce' BY <1>1 DEF LessonIInv, GradedOnce
<1> QED BY <1>1, <1>4, <1>5, <1>6, <1>7, <1>8 DEF LessonIInv

LEMMA LessonStepPreserves ==
  ASSUME LessonIInv, NEW r \in Requests, LessonStep(r)
  PROVE  LessonIInv'
<1> DEFINE t == lessonTx[r]
           e == t.on
           idle == LessonAt("idle", None)
<1>1. /\ lessonTx \in [Requests -> LessonTx] /\ t \in LessonTx
      /\ checkpoint \in [Lessons -> CheckpointStatus] /\ episode \in [Lessons -> EpisodeStatus]
      /\ graded \in [Lessons -> Nat] /\ begun \in Nat
  BY MaxLessonsAssumption DEF LessonIInv, LessonTypeOK
<1>2. Teaching(t) /\ GradedOnce BY DEF LessonIInv
<1>3. idle \in LessonTx /\ idle.pc = "idle" /\ idle.seen = {} BY NewLessonAt
<1>4. \A x \in Lessons : graded[x] <= Cardinality(Requests) BY <1>2 DEF GradedOnce
<1> HIDE DEF idle
<1>5. CASE StartEmpty(r)
  <2>1. /\ t.pc = "starting" /\ e \in Lessons
        /\ episode' = [episode EXCEPT ![e] = "waiting"]
        /\ lessonTx' = [lessonTx EXCEPT ![r] = idle]
        /\ UNCHANGED <<begun, checkpoint, graded>>
    BY <1>2, <1>5 DEF StartEmpty, Teaching, Idle, idle
  <2>2. episode' \in [Lessons -> EpisodeStatus] BY <1>1, <2>1 DEF EpisodeStatus
  <2>3. GradedOnce' BY <1>1, <1>2, <2>1 DEF GradedOnce, Teaching, Starting
  <2> QED BY <1>1, <1>3, <2>1, <2>2, <2>3, LessonMoves DEF Starting
<1>6. CASE FindWaiting(r)
  <2> DEFINE w == {x \in Lessons : checkpoint[x] = "waiting"}
             u == [t EXCEPT !.pc = "superseding", !.seen = w]
  <2>1. /\ t.pc = "starting" /\ lessonTx' = [lessonTx EXCEPT ![r] = u]
        /\ UNCHANGED <<begun, checkpoint, episode, graded>>
    BY <1>1, <1>6 DEF FindWaiting
  <2>2. u \in LessonTx /\ u.pc = "superseding" /\ u.on = t.on /\ u.seen = w
    BY <1>1 DEF LessonTx
  <2> HIDE DEF u
  <2>3. GradedOnce' BY <1>2, <2>1 DEF GradedOnce
  <2> QED BY <1>1, <1>2, <2>1, <2>2, <2>3, LessonMoves DEF Teaching, Starting
<1>7. CASE CommitStart(r)
  <2>1. /\ t.pc = "superseding" /\ e \in Lessons
        /\ checkpoint' = [x \in Lessons |->
             IF x = e THEN "waiting" ELSE IF x \in t.seen THEN "abandoned" ELSE checkpoint[x]]
        /\ episode' = [episode EXCEPT ![e] = "waiting"]
        /\ lessonTx' = [lessonTx EXCEPT ![r] = idle]
        /\ UNCHANGED <<begun, graded>>
    BY <1>2, <1>7 DEF CommitStart, Teaching, Idle, idle
  <2>2. episode' \in [Lessons -> EpisodeStatus] BY <1>1, <2>1 DEF EpisodeStatus
  <2>3. checkpoint' \in [Lessons -> CheckpointStatus] BY <1>1, <2>1 DEF CheckpointStatus
  <2>4. \A x \in t.seen : checkpoint[x] # "none" BY <1>2 DEF Teaching
  <2>5. GradedOnce' BY <1>1, <1>2, <2>1 DEF GradedOnce, Teaching, Starting
  <2>6. \A x \in Lessons :
          /\ checkpoint[x] # "none" => checkpoint'[x] # "none"
          /\ x # e => /\ checkpoint[x] = "none" => checkpoint'[x] = "none"
                      /\ episode'[x] = episode[x]
    BY <1>1, <2>1, <2>4
  <2> QED BY <1>1, <1>3, <2>1, <2>2, <2>3, <2>5, <2>6, LessonMoves DEF Starting
<1>8. CASE MarkResumed(r)
  <2> DEFINE u == [t EXCEPT !.pc = "grading"]
  <2>1. /\ t.pc = "answering" /\ lessonTx' = [lessonTx EXCEPT ![r] = u]
        /\ UNCHANGED <<begun, checkpoint, episode, graded>>
    BY <1>1, <1>8 DEF MarkResumed
  <2>2. u \in LessonTx /\ u.pc = "grading" /\ u.on = t.on /\ u.seen = t.seen
    BY <1>1 DEF LessonTx
  <2> HIDE DEF u
  <2>3. GradedOnce' BY <1>2, <2>1 DEF GradedOnce
  <2>4. r \in Answering(u.on) BY <2>1, <2>2 DEF Answering
  <2> QED BY <1>1, <1>2, <2>1, <2>2, <2>3, <2>4, LessonMoves DEF Teaching, Starting
<1>9. CASE CommitAnswered(r)
  <2>1. /\ t.pc = "grading" /\ e \in Lessons /\ r \in Answering(e)
        /\ graded' = [graded EXCEPT ![e] = graded[e] + 1]
        /\ checkpoint' = [checkpoint EXCEPT ![e] = "completed"]
        /\ episode' = [episode EXCEPT ![e] = "completed"]
        /\ lessonTx' = [lessonTx EXCEPT ![r] = idle]
        /\ UNCHANGED begun
    BY <1>1, <1>2, <1>9 DEF CommitAnswered, Teaching, AfterAnswer, Answering, Idle, idle
  <2>2. /\ episode' \in [Lessons -> EpisodeStatus] /\ checkpoint' \in [Lessons -> CheckpointStatus]
        /\ graded' \in [Lessons -> Nat]
    BY <1>1, <2>1 DEF EpisodeStatus, CheckpointStatus
  <2>3. graded[e] + 1 <= Cardinality(Requests)
    <3>1. Cardinality(Answering(e)) >= 1
      BY <2>1, AnsweringFinite, FS_EmptySet
    <3>2. graded[e] \in Nat /\ graded[e] + Cardinality(Answering(e)) <= Cardinality(Requests)
      BY <1>1, <2>1 DEF LessonIInv
    <3> QED BY <3>1, <3>2, AnsweringFinite
  <2>4. GradedOnce' BY <1>1, <1>2, <2>1, <2>3 DEF GradedOnce
  <2>5. \A x \in Lessons :
          /\ checkpoint[x] # "none" => checkpoint'[x] # "none"
          /\ x # e => /\ checkpoint[x] = "none" => checkpoint'[x] = "none"
                      /\ episode'[x] = episode[x]
                      /\ graded'[x] = graded[x]
    BY <1>1, <2>1
  <2>6. graded'[e] = graded[e] + 1 BY <1>1, <2>1
  <2> QED BY <1>1, <1>3, <2>1, <2>2, <2>4, <2>5, <2>6, LessonMoves DEF Starting
<1>10. CASE AbandonSuperseded(r)
  <2>1. /\ t.pc = "looking" /\ e \in Lessons /\ checkpoint[e] # "none"
        /\ checkpoint' = [checkpoint EXCEPT ![e] = "abandoned"]
        /\ episode' = [episode EXCEPT ![e] = "abandoned"]
        /\ lessonTx' = [lessonTx EXCEPT ![r] = idle]
        /\ UNCHANGED <<begun, graded>>
    BY <1>2, <1>10 DEF AbandonSuperseded, Teaching, Idle, idle
  <2>2. /\ episode' \in [Lessons -> EpisodeStatus] /\ checkpoint' \in [Lessons -> CheckpointStatus]
    BY <1>1, <2>1 DEF EpisodeStatus, CheckpointStatus
  <2>3. GradedOnce' BY <1>1, <1>2, <2>1 DEF GradedOnce
  <2>4. \A x \in Lessons :
          /\ checkpoint[x] # "none" => checkpoint'[x] # "none"
          /\ x # e => /\ checkpoint[x] = "none" => checkpoint'[x] = "none"
                      /\ episode'[x] = episode[x]
    BY <1>1, <2>1
  <2> QED BY <1>1, <1>3, <2>1, <2>2, <2>3, <2>4, LessonMoves DEF Starting
<1>11. CASE LessonAbort(r)
  <2>1. /\ lessonTx' = [lessonTx EXCEPT ![r] = idle]
        /\ UNCHANGED <<begun, checkpoint, episode, graded>>
    BY <1>11 DEF LessonAbort, Idle, idle
  <2>2. GradedOnce' BY <1>2, <2>1 DEF GradedOnce
  <2> QED BY <1>1, <1>3, <2>1, <2>2, LessonMoves DEF Starting
<1>12. CASE \E x \in Lessons : LookAtLesson(r, x)
  <2> SUFFICES ASSUME NEW x \in Lessons, LookAtLesson(r, x) PROVE LessonIInv' BY <1>12
  <2> DEFINE u == LessonAt("looking", x)
  <2>1. /\ checkpoint[x] = "waiting" /\ lessonTx' = [lessonTx EXCEPT ![r] = u]
        /\ UNCHANGED <<begun, checkpoint, episode, graded>>
    BY DEF LookAtLesson
  <2>2. u \in LessonTx /\ u.pc = "looking" /\ u.on = x /\ u.seen = {} BY NewLessonAt
  <2> HIDE DEF u
  <2>3. GradedOnce' BY <1>2, <2>1 DEF GradedOnce
  <2> QED BY <1>1, <2>1, <2>2, <2>3, LessonMoves DEF Starting
<1> QED
  BY <1>5, <1>6, <1>7, <1>8, <1>9, <1>10, <1>11, <1>12, LessonStarts, AnswerBegins DEF LessonStep

(* Gradings, open answers and statuses agree in every reachable state.     *)
THEOREM LessonInvariant == LessonSpec => []LessonIInv
<1>1. LessonInit => LessonIInv
  <2> SUFFICES ASSUME LessonInit PROVE LessonIInv OBVIOUS
  <2>1. \A r \in Requests : lessonTx[r] = LessonAt("idle", None) BY DEF LessonInit, Idle
  <2>2. LessonAt("idle", None) \in LessonTx /\ LessonAt("idle", None).pc = "idle"
        /\ LessonAt("idle", None).seen = {}
    BY NewLessonAt
  <2>3. LessonTypeOK
    BY <2>2, MaxLessonsAssumption DEF LessonInit, LessonTypeOK, CheckpointStatus, EpisodeStatus, Idle
  <2>4. (\A r \in Requests : Teaching(lessonTx[r])) /\ OneStarter
    BY <2>1, <2>2 DEF Teaching, OneStarter, Starting
  <2>5. \A e \in Lessons : /\ graded[e] = 0 /\ checkpoint[e] = "none" /\ episode[e] = "none"
                           /\ Cardinality(Answering(e)) \in Nat
                           /\ Cardinality(Answering(e)) <= Cardinality(Requests)
    BY AnsweringFinite DEF LessonInit
  <2>6. GradedOnce BY <2>5, AnsweringFinite DEF GradedOnce
  <2> QED BY <2>3, <2>4, <2>5, <2>6 DEF LessonIInv
<1>2. LessonIInv /\ [LessonNext]_lessonVars => LessonIInv'
  <2> SUFFICES ASSUME LessonIInv, [LessonNext]_lessonVars PROVE LessonIInv' OBVIOUS
  <2>1. CASE UNCHANGED lessonVars
    <3>1. \A e : Answering(e)' = Answering(e) BY <2>1 DEF lessonVars, Answering
    <3> QED BY <2>1, <3>1 DEF lessonVars, LessonIInv, LessonTypeOK, Teaching, Starting, OneStarter, GradedOnce
  <2> QED BY <2>1, LessonStepPreserves DEF LessonNext
<1> QED BY <1>1, <1>2, PTL DEF LessonSpec

(* However many answers, starts and status requests overlap, a lesson is   *)
(* graded at most once per request in progress, a graded lesson waits for  *)
(* nothing and what is completed was graded.                               *)
THEOREM LessonsGradedByOverlap == LessonSpec => []GradedOnce
BY LessonInvariant, PTL DEF LessonIInv

(* What overlap alone breaks: a second grading needs two answers to one    *)
(* lesson at once; starts and status requests may overlap as they like.    *)

AnswersApart == \A e \in Lessons : \A r, q \in Answering(e) : r = q

LessonApart == \A e \in Lessons : graded[e] <= 1 /\ (graded[e] > 0 => Answering(e) = {})

(* Steps that grade nothing and open no answer.                            *)
LEMMA LessonApartKept ==
  ASSUME LessonApart, UNCHANGED graded, \A e \in Lessons : Answering(e)' \subseteq Answering(e)
  PROVE  LessonApart'
BY DEF LessonApart

LEMMA LessonApartStep ==
  ASSUME LessonIInv, AnswersApart, LessonApart, NEW r \in Requests, LessonStep(r)
  PROVE  LessonApart'
<1>1. /\ lessonTx \in [Requests -> LessonTx] /\ lessonTx[r] \in LessonTx
      /\ graded \in [Lessons -> Nat]
  BY DEF LessonIInv, LessonTypeOK
<1>2. ASSUME NEW pc \in {"idle", "starting", "looking"}, NEW e \in Lessons \cup {None},
             lessonTx' = [lessonTx EXCEPT ![r] = LessonAt(pc, e)]
      PROVE  \A x \in Lessons : Answering(x)' \subseteq Answering(x) \ {r}
  BY <1>1, <1>2, NewLessonAt DEF Answering
<1>3. CASE StartLesson(r)
  <2>1. begun + 1 \in Lessons
    BY <1>3, MaxLessonsAssumption DEF StartLesson, Lessons, LessonIInv, LessonTypeOK
  <2> QED BY <1>2, <1>3, <2>1, LessonApartKept DEF StartLesson
<1>4. CASE StartEmpty(r) \/ CommitStart(r) \/ AbandonSuperseded(r) \/ LessonAbort(r)
  BY <1>2, <1>4, LessonApartKept
  DEF StartEmpty, CommitStart, AbandonSuperseded, LessonAbort, Idle
<1>5. CASE FindWaiting(r)
  <2>1. \A x \in Lessons : Answering(x)' \subseteq Answering(x)
    BY <1>1, <1>5 DEF FindWaiting, Answering, LessonTx
  <2> QED BY <1>5, <2>1, LessonApartKept DEF FindWaiting
<1>6. CASE MarkResumed(r)
  <2>1. \A x \in Lessons : Answering(x)' \subseteq Answering(x)
    BY <1>1, <1>6 DEF MarkResumed, Answering, LessonTx
  <2> QED BY <1>6, <2>1, LessonApartKept DEF MarkResumed
<1>7. ASSUME NEW e \in Lessons, LookAtLesson(r, e) PROVE LessonApart'
  BY <1>2, <1>7, LessonApartKept DEF LookAtLesson
<1>8. ASSUME NEW e \in Lessons, SubmitAnswer(r, e) PROVE LessonApart'
  <2>1. graded[e] = 0 /\ UNCHANGED graded
    <3>1. ~(graded[e] > 0)
      BY <1>8 DEF SubmitAnswer, AwaitsAnswer, LessonIInv, GradedOnce
    <3> QED BY <1>1, <1>8, <3>1 DEF SubmitAnswer
  <2>2. \A x \in Lessons : x # e => Answering(x)' \subseteq Answering(x)
    BY <1>1, <1>8, NewLessonAt DEF SubmitAnswer, Answering
  <2> QED BY <2>1, <2>2 DEF LessonApart
<1>9. CASE CommitAnswered(r)
  <2>0. lessonTx[r].on \in Lessons
    BY <1>9 DEF CommitAnswered, LessonIInv, Teaching
  <2> PICK e \in Lessons : e = lessonTx[r].on BY <2>0
  <2>1. e \in Lessons /\ r \in Answering(e)
    BY <1>9 DEF CommitAnswered, Answering
  <2>2. \A x \in Lessons : Answering(x)' \subseteq Answering(x) \ {r}
    BY <1>2, <1>9 DEF CommitAnswered, Idle
  <2>3. graded[e] = 0 /\ Answering(e)' = {}
    <3>1. ~(graded[e] > 0) BY <2>1 DEF LessonApart
    <3>2. Answering(e) = {r} BY <2>1 DEF AnswersApart
    <3>3. Answering(e)' = {} BY <2>1, <2>2, <3>2
    <3> QED BY <1>1, <2>1, <3>1, <3>3
  <2>4. graded' = [graded EXCEPT ![e] = graded[e] + 1] BY <1>1, <1>9, <2>1 DEF CommitAnswered
  <2>5. ASSUME NEW x \in Lessons PROVE graded'[x] <= 1 /\ (graded'[x] > 0 => Answering(x)' = {})
    <3>1. CASE x = e BY <1>1, <2>1, <2>3, <2>4, <3>1
    <3>2. CASE x # e
      <4>1. graded'[x] = graded[x] BY <1>1, <2>4, <3>2
      <4> QED BY <2>2, <4>1 DEF LessonApart
    <3> QED BY <3>1, <3>2
  <2> QED BY <2>5 DEF LessonApart
<1> QED BY <1>3, <1>4, <1>5, <1>6, <1>7, <1>8, <1>9 DEF LessonStep

(* As long as no two answers to one lesson are in progress at once, a      *)
(* lesson is graded once: what GradedOnce leaves open is the work of       *)
(* overlapping answers and nothing else.                                   *)
THEOREM GradedOnceApart ==
  LessonSpec /\ []AnswersApart => [](\A e \in Lessons : graded[e] <= 1)
<1>1. LessonInit => LessonApart BY DEF LessonInit, LessonApart
<1>2. LessonIInv /\ AnswersApart /\ LessonApart /\ [LessonNext]_lessonVars => LessonApart'
  <2> SUFFICES ASSUME LessonIInv, AnswersApart, LessonApart, [LessonNext]_lessonVars
               PROVE  LessonApart'
    OBVIOUS
  <2>1. CASE UNCHANGED lessonVars
    BY <2>1 DEF lessonVars, LessonApart, Answering
  <2> QED BY <2>1, LessonApartStep DEF LessonNext
<1>3. LessonApart => \A e \in Lessons : graded[e] <= 1 BY DEF LessonApart
<1> QED BY <1>1, <1>2, <1>3, LessonInvariant, PTL DEF LessonSpec

-----------------------------------------------------------------------------
(* FeishuSync: what a sync has listed, answered and loaded stays listed,   *)
(* answered and stored, so its commit may move the cursor past its page.   *)

Placed(t) ==
  /\ 1..t.from \subseteq imported
  /\ t.page \subseteq HelpMessages
  /\ t.new \subseteq t.page
  /\ t.more => /\ t.from + PageSize <= MaxPosted
               /\ (t.from + 1)..(t.from + PageSize) \subseteq t.page
  /\ t.pc = "importing" => /\ t.page \subseteq t.known \cup t.answered
                           /\ t.page \subseteq t.new \cup imported
  /\ t.pc # "importing" => t.new = {}

Syncing(t) ==
  /\ Placed(t)
  /\ \A m \in t.known \cup t.answered : answers[m] > 0

SyncIInv ==
  /\ SyncTypeOK
  /\ \A r \in Requests : Syncing(syncTx[r])
  /\ SyncLosesNothing

LEMMA IdleSync ==
  ASSUME SyncTypeOK
  PROVE  SyncIdle \in SyncTx /\ SyncIdle.pc = "idle" /\ Syncing(SyncIdle) /\ Syncing(SyncIdle)'
BY SyncAssumption DEF SyncIdle, SyncTx, Syncing, Placed, Idle

(* A request that only moves on, to a record of which the same holds.      *)
LEMMA SyncMoves ==
  ASSUME SyncIInv, NEW r \in Requests, NEW t \in SyncTx, Placed(t),
         \A m \in t.known \cup t.answered : answers'[m] > 0,
         syncTx' = [syncTx EXCEPT ![r] = t],
         answers' \in [HelpMessages -> 0..MaxAnswers],
         \A m \in HelpMessages : answers[m] > 0 => answers'[m] > 0,
         UNCHANGED <<posted, lastCursor, imported, recorded>>,
         remembered' \in SUBSET remembered
  PROVE  SyncIInv'
<1>1. syncTx \in [Requests -> SyncTx] /\ answers \in [HelpMessages -> Nat]
  <2>1. 0..MaxAnswers \subseteq Nat BY SyncAssumption
  <2> QED BY <2>1 DEF SyncIInv, SyncTypeOK
<1>2. /\ syncTx' \in [Requests -> SyncTx] /\ syncTx'[r] = t
      /\ \A q \in Requests : q # r => syncTx'[q] = syncTx[q]
  BY <1>1
<1>3. SyncTypeOK' BY <1>2 DEF SyncIInv, SyncTypeOK
<1>4. ASSUME NEW q \in Requests PROVE Syncing(syncTx[q])'
  <2>1. CASE q = r BY <1>2, <2>1 DEF Syncing, Placed
  <2>2. CASE q # r
    <3>1. syncTx[q] \in SyncTx /\ Syncing(syncTx[q]) BY <1>1 DEF SyncIInv
    <3>2. syncTx'[q] = syncTx[q] BY <1>2, <2>2
    <3> QED BY <1>1, <3>1, <3>2 DEF Syncing, Placed, SyncTx
  <2> QED BY <2>1, <2>2
<1>5. SyncLosesNothing'
  BY DEF SyncIInv, SyncTypeOK, SyncLosesNothing
<1> QED BY <1>3, <1>4, <1>5 DEF SyncIInv


LEMMA SyncCommits ==
  ASSUME SyncIInv, NEW r \in Requests, CommitSync(r)
  PROVE  SyncIInv'
<1> DEFINE t == syncTx[r]
<1>1. /\ syncTx \in [Requests -> SyncTx] /\ t \in SyncTx
      /\ answers \in [HelpMessages -> 0..MaxAnswers] /\ Syncing(t) /\ t.pc = "importing"
  BY DEF SyncIInv, SyncTypeOK, CommitSync
<1>2. /\ imported' = imported \cup t.new
      /\ lastCursor' = IF t.more THEN t.from + PageSize ELSE lastCursor
      /\ remembered' = t.answered
      /\ recorded' = recorded \cup t.answered
      /\ syncTx' = [syncTx EXCEPT ![r] = SyncIdle]
      /\ UNCHANGED <<posted, answers>>
  BY DEF CommitSync, RememberedIds
<1>3. /\ t.from \in 0..MaxPosted /\ t.new \in SUBSET HelpMessages
      /\ t.answered \in SUBSET HelpMessages /\ t.page \in SUBSET HelpMessages
  BY <1>1 DEF SyncTx
<1>4. SyncIdle \in SyncTx /\ Syncing(SyncIdle)' BY IdleSync DEF SyncIInv
<1>5. /\ syncTx' \in [Requests -> SyncTx] /\ syncTx'[r] = SyncIdle
      /\ \A q \in Requests : q # r => syncTx'[q] = syncTx[q]
  BY <1>1, <1>2, <1>4
<1>6. SyncTypeOK'
  <2>1. lastCursor' \in 0..MaxPosted
    BY <1>1, <1>2, <1>3, SyncAssumption DEF SyncIInv, SyncTypeOK, Syncing, Placed
  <2> QED BY <1>2, <1>3, <1>5, <2>1 DEF SyncIInv, SyncTypeOK
<1>7. ASSUME NEW q \in Requests PROVE Syncing(syncTx[q])'
  <2>1. CASE q = r BY <1>4, <1>5, <2>1 DEF Syncing, Placed
  <2>2. CASE q # r
    <3>1. syncTx[q] \in SyncTx /\ Syncing(syncTx[q]) BY <1>1 DEF SyncIInv
    <3>2. syncTx'[q] = syncTx[q] BY <1>5, <2>2
    <3> QED BY <1>2, <3>1, <3>2 DEF Syncing, Placed
  <2> QED BY <2>1, <2>2
<1>8. 1..lastCursor' \subseteq imported'
  <2>1. CASE ~t.more BY <1>2, <2>1 DEF SyncIInv, SyncLosesNothing
  <2>2. CASE t.more
    <3>1. \A m \in 1..(t.from + PageSize) :
            m \in 1..t.from \/ m \in (t.from + 1)..(t.from + PageSize)
      BY <1>3, SyncAssumption
    <3>2. 1..t.from \subseteq imported /\ (t.from + 1)..(t.from + PageSize) \subseteq t.new \cup imported
      BY <1>1, <2>2 DEF Syncing, Placed
    <3> QED BY <1>2, <2>2, <3>1, <3>2
  <2> QED BY <2>1, <2>2
<1>9. \A m \in imported' \cup remembered' : answers'[m] > 0
  BY <1>1, <1>2 DEF SyncIInv, SyncLosesNothing, Syncing, Placed
<1> QED BY <1>6, <1>7, <1>8, <1>9 DEF SyncIInv, SyncLosesNothing

LEMMA SyncStepPreserves ==
  ASSUME SyncIInv, NEW r \in Requests, SyncStep(r)
  PROVE  SyncIInv'
<1> DEFINE t == syncTx[r]
<1>1. /\ syncTx \in [Requests -> SyncTx] /\ t \in SyncTx /\ Syncing(t)
      /\ answers \in [HelpMessages -> 0..MaxAnswers]
      /\ posted \in 0..MaxPosted /\ lastCursor \in 0..MaxPosted
      /\ remembered \in SUBSET HelpMessages /\ recorded \in SUBSET HelpMessages
      /\ imported \in SUBSET HelpMessages
  BY DEF SyncIInv, SyncTypeOK
<1>2. SyncIdle \in SyncTx /\ Syncing(SyncIdle)' BY IdleSync DEF SyncIInv
<1>3. CASE OpenSync(r)
  <2> DEFINE u == [SyncIdle EXCEPT !.pc = "listing", !.from = lastCursor, !.known = remembered,
                                   !.settled = recorded]
  <2>1. /\ u \in SyncTx /\ u.from = lastCursor /\ u.known = remembered /\ u.pc = "listing"
        /\ u.page = {} /\ u.new = {} /\ u.answered = {} /\ u.more = FALSE
    BY <1>1, SyncAssumption DEF SyncTx, SyncIdle
  <2>2. /\ syncTx' = [syncTx EXCEPT ![r] = u]
        /\ UNCHANGED <<posted, answers, lastCursor, remembered, imported, recorded>>
    BY <1>3 DEF OpenSync, sourceVars
  <2> HIDE DEF u
  <2>3. Placed(u) /\ \A n \in u.known \cup u.answered : answers'[n] > 0 BY <2>1, <2>2 DEF Syncing, Placed, SyncIInv, SyncLosesNothing
  <2> QED BY <1>1, <2>1, <2>2, <2>3, SyncMoves
<1>4. CASE ListPage(r)
  <2> DEFINE page == {m \in 1..posted : t.from < m /\ m <= t.from + PageSize}
             u == [t EXCEPT !.pc = "answering", !.page = page, !.more = HasMore(r)]
  <2>1. page \in SUBSET HelpMessages BY <1>1, SyncAssumption DEF HelpMessages
  <2>2. HasMore(r) \in BOOLEAN BY DEF HasMore
  <2>3. /\ syncTx' = [syncTx EXCEPT ![r] = u]
        /\ UNCHANGED <<posted, answers, lastCursor, remembered, imported, recorded>>
    BY <1>1, <1>4 DEF ListPage, sourceVars
  <2>4. t.from \in 0..MaxPosted BY <1>1 DEF SyncTx
  <2>5. HasMore(r) => /\ t.from + PageSize <= MaxPosted
                      /\ (t.from + 1)..(t.from + PageSize) \subseteq page
    BY <1>1, <2>4, SyncAssumption DEF HasMore
  <2> HIDE DEF page
  <2>6. /\ u \in SyncTx /\ u.from = t.from /\ u.known = t.known /\ u.pc = "answering"
        /\ u.page = page /\ u.answered = t.answered /\ u.more = HasMore(r) /\ u.new = t.new
    BY <1>1, <2>1, <2>2 DEF SyncTx
  <2> HIDE DEF u
  <2>7. t.new = {} BY <1>4 DEF ListPage, SyncIInv, Syncing, Placed
  <2>8. Placed(u) /\ \A n \in u.known \cup u.answered : answers'[n] > 0
    BY <1>1, <2>1, <2>3, <2>5, <2>6, <2>7 DEF Syncing, Placed
  <2> QED BY <1>1, <2>3, <2>6, <2>8, SyncMoves
<1>5. CASE \E copies \in 1..2 : AnswerHelp(r, copies)
  <2> SUFFICES ASSUME NEW copies \in 1..2, AnswerHelp(r, copies) PROVE SyncIInv'
    BY <1>5
  <2>1. PICK m \in Unanswered(r) :
          /\ answers[m] + copies <= MaxAnswers
          /\ answers' = [answers EXCEPT ![m] = @ + copies]
          /\ syncTx' = [syncTx EXCEPT ![r].answered = @ \cup {m}]
    BY DEF AnswerHelp
  <2>2. t.pc = "answering" /\ UNCHANGED <<posted, lastCursor, remembered, imported, recorded>>
    BY DEF AnswerHelp, sourceVars
  <2>3. m \in HelpMessages BY <1>1, <2>1 DEF Unanswered, SyncTx
  <2> DEFINE u == [t EXCEPT !.answered = t.answered \cup {m}]
  <2>4. /\ u \in SyncTx /\ u.from = t.from /\ u.known = t.known /\ u.pc = t.pc
        /\ u.page = t.page /\ u.answered = t.answered \cup {m} /\ u.more = t.more /\ u.new = t.new
    BY <1>1, <2>3 DEF SyncTx
  <2>5. syncTx' = [syncTx EXCEPT ![r] = u] BY <1>1, <2>1
  <2> HIDE DEF u
  <2>6. /\ answers' \in [HelpMessages -> 0..MaxAnswers] /\ answers'[m] > 0
        /\ \A n \in HelpMessages : answers[n] > 0 => answers'[n] > 0
    BY <1>1, <2>1, <2>3, SyncAssumption
  <2>7. t.known \cup t.answered \subseteq HelpMessages BY <1>1 DEF SyncTx
  <2>8. Placed(u) /\ \A n \in u.known \cup u.answered : answers'[n] > 0
    BY <1>1, <2>2, <2>4, <2>6, <2>7 DEF Syncing, Placed
  <2> QED BY <1>1, <2>2, <2>4, <2>5, <2>6, <2>8, SyncMoves
<1>6. CASE ImportPage(r)
  <2> DEFINE u == [t EXCEPT !.pc = "importing", !.new = t.page \ imported]
  <2>1. /\ u \in SyncTx /\ u.from = t.from /\ u.known = t.known /\ u.pc = "importing"
        /\ u.page = t.page /\ u.answered = t.answered /\ u.more = t.more /\ u.new = t.page \ imported
    BY <1>1 DEF SyncTx
  <2>2. /\ syncTx' = [syncTx EXCEPT ![r] = u]
        /\ UNCHANGED <<posted, answers, lastCursor, remembered, imported, recorded>>
    BY <1>1, <1>6 DEF ImportPage, sourceVars
  <2> HIDE DEF u
  <2>3. t.page \subseteq t.known \cup t.answered BY <1>6 DEF ImportPage, Unanswered
  <2>4. Placed(u) /\ \A n \in u.known \cup u.answered : answers'[n] > 0
    BY <1>1, <2>1, <2>2, <2>3 DEF Syncing, Placed
  <2> QED BY <1>1, <2>1, <2>2, <2>4, SyncMoves
<1>7. CASE CommitSync(r) BY <1>7, SyncCommits
<1>8. CASE ReplaceSummary(r)
  <2>1. syncTx' = [syncTx EXCEPT ![r] = t] BY <1>1, <1>8 DEF ReplaceSummary
  <2>2. remembered' \in SUBSET remembered /\ UNCHANGED <<posted, answers, lastCursor, imported, recorded>>
    BY <1>8 DEF ReplaceSummary
  <2>3. Placed(t) /\ \A n \in t.known \cup t.answered : answers'[n] > 0
    BY <1>1, <1>8, <2>2 DEF Syncing, Placed, ReplaceSummary
  <2> QED BY <1>1, <2>1, <2>2, <2>3, SyncMoves
<1>9. CASE SyncAbort(r)
  <2>1. /\ syncTx' = [syncTx EXCEPT ![r] = SyncIdle]
        /\ UNCHANGED <<posted, answers, lastCursor, remembered, imported, recorded>>
    BY <1>9 DEF SyncAbort, sourceVars
  <2>2. Placed(SyncIdle) /\ \A n \in SyncIdle.known \cup SyncIdle.answered : answers'[n] > 0
    BY <2>1 DEF SyncIdle, Placed
  <2> QED BY <1>1, <1>2, <2>1, <2>2, SyncMoves
<1> QED BY <1>3, <1>4, <1>5, <1>6, <1>7, <1>8, <1>9 DEF SyncStep

(* What the cursor has passed is stored and answered in every state.       *)
THEOREM SyncInvariant == SyncSpec => []SyncIInv
<1>1. SyncInit => SyncIInv
  <2> SUFFICES ASSUME SyncInit PROVE SyncIInv OBVIOUS
  <2>1. SyncIdle \in SyncTx BY SyncAssumption DEF SyncIdle, SyncTx, Idle
  <2>2. SyncTypeOK BY <2>1, SyncAssumption DEF SyncInit, SyncTypeOK
  <2>3. \A r \in Requests : Syncing(syncTx[r]) BY <2>2, IdleSync DEF SyncInit
  <2> QED BY <2>2, <2>3 DEF SyncIInv, SyncInit, SyncLosesNothing
<1>2. SyncIInv /\ [SyncNext]_syncVars => SyncIInv'
  <2> SUFFICES ASSUME SyncIInv, [SyncNext]_syncVars PROVE SyncIInv' OBVIOUS
  <2>1. CASE PostHelp
    <3>1. posted' \in 0..MaxPosted /\ UNCHANGED <<answers, lastCursor, remembered, imported, recorded, syncTx>>
      BY <2>1, SyncAssumption DEF PostHelp, sourceVars, SyncIInv, SyncTypeOK
    <3> QED BY <3>1 DEF SyncIInv, SyncTypeOK, Syncing, Placed, SyncLosesNothing
  <2>2. CASE UNCHANGED syncVars
    BY <2>2 DEF syncVars, SyncIInv, SyncTypeOK, Syncing, Placed, SyncLosesNothing
  <2> QED BY <2>1, <2>2, SyncStepPreserves DEF SyncNext
<1> QED BY <1>1, <1>2, PTL DEF SyncSpec

(* However syncs overlap, fail after answering or move the cursor back, no *)
(* message before the cursor is unstored and no stored one unanswered.     *)
THEOREM NothingIsLost == SyncSpec => []SyncLosesNothing
BY SyncInvariant, PTL DEF SyncIInv


-----------------------------------------------------------------------------
(* GroupLearning: what an import is about to insert is unlike all that is  *)
(* stored or in doubt, and a status other than accepted leaves room for    *)
(* one overlapping accept of each request.                                 *)

Accepting == {r \in Requests : groupTx[r].pc = "accepting"}

GroupSound(t) ==
  /\ t.reused = t.new /\ IsFiniteSet(t.new)
  /\ \A m, n \in t.new : Alike(m, n) => m = n
  /\ \A m \in t.new, n \in stored : ~Alike(m, n)
  /\ \A m \in t.batch : \E n \in stored \cup t.new : Alike(m, n)
  /\ t.pc = "importing" => t.count <= Cardinality(stored)
  /\ t.pc = "accepting" => t.count <= accepts
  /\ t.pc = "marking" => t.to # "accepted"

InDoubtUnlike ==
  \A r, q \in Requests :
    r # q => \A m \in groupTx[r].new, n \in groupTx[q].new : ~Alike(m, n)

AcceptsAreCounted ==
  /\ accepts + Cardinality(Accepting) <= Cardinality(Requests) * (marks + 1)
  /\ signal # "accepted" => accepts <= Cardinality(Requests) * marks

GroupIInv ==
  /\ GroupTypeOK
  /\ \A r \in Requests : GroupSound(groupTx[r])
  /\ InDoubtUnlike
  /\ IsFiniteSet(stored)
  /\ ImportedOnce
  /\ AcceptsAreCounted
  /\ signal = "accepted" => opened > 0
  /\ opened <= accepts

LEMMA AcceptingFinite ==
  /\ Cardinality(Requests) \in Nat
  /\ IsFiniteSet(Accepting) /\ Cardinality(Accepting) \in Nat
  /\ Cardinality(Accepting) <= Cardinality(Requests)
<1>1. Accepting \subseteq Requests BY DEF Accepting
<1> QED BY <1>1, RequestsAssumption, FS_Subset, FS_CardinalityType

LEMMA AlikeItself ==
  /\ \A m \in GroupMessage : Alike(m, m)
  /\ \A m, n \in GroupMessage : Alike(m, n) <=> Alike(n, m)
BY DEF Alike

LEMMA RoomForOne ==
  ASSUME NEW c \in Nat, NEW k \in Nat
  PROVE  c * k \in Nat /\ c * (k + 1) \in Nat /\ c * (k + 1) = c * k + c
OBVIOUS

LEMMA IdleGroup ==
  GroupIdle \in GroupTx /\ GroupIdle.pc = "idle" /\ GroupIdle.new = {} /\ GroupSound(GroupIdle)
                        /\ GroupSound(GroupIdle)'
BY FS_EmptySet DEF GroupIdle, GroupTx, SignalStatus, GroupSound, Idle

(* A request that has written nothing yet.                                 *)
LEMMA GroupMoves ==
  ASSUME GroupIInv, NEW r \in Requests, NEW t \in GroupTx,
         groupTx' = [groupTx EXCEPT ![r] = t], UNCHANGED <<importVars, signalVars>>,
         GroupSound(t), t.pc = "accepting" => signal # "accepted",
         \A q \in Requests \ {r} : \A m \in t.new, n \in groupTx[q].new : ~Alike(m, n)
  PROVE  GroupIInv'
<1>1. /\ groupTx \in [Requests -> GroupTx] /\ accepts \in Nat /\ marks \in Nat
  BY MaxMarksAssumption DEF GroupIInv, GroupTypeOK
<1>2. /\ groupTx' \in [Requests -> GroupTx] /\ groupTx'[r] = t
      /\ \A q \in Requests : q # r => groupTx'[q] = groupTx[q]
  BY <1>1
<1>3. UNCHANGED <<stored, reuses, reuseCount, acknowledged, signal, opened, accepts, marks>>
  BY DEF importVars, signalVars
<1>4. GroupTypeOK' BY <1>2, <1>3 DEF GroupIInv, GroupTypeOK
<1>5. ASSUME NEW q \in Requests PROVE GroupSound(groupTx[q])'
  <2>1. GroupSound(groupTx'[q]) BY <1>2 DEF GroupIInv
  <2> QED BY <1>3, <2>1 DEF GroupSound, Alike
<1>6. InDoubtUnlike'
  <2> SUFFICES ASSUME NEW p \in Requests, NEW q \in Requests, p # q,
                      NEW m \in groupTx'[p].new, NEW n \in groupTx'[q].new
               PROVE  ~Alike(m, n)
    BY DEF InDoubtUnlike, Alike
  <2>1. CASE p = r BY <1>2, <2>1
  <2>2. CASE q = r
    <3>1. ~Alike(n, m) BY <1>2, <2>2
    <3> QED BY <3>1 DEF Alike
  <2>3. CASE p # r /\ q # r BY <1>2, <2>3 DEF GroupIInv, InDoubtUnlike
  <2> QED BY <2>1, <2>2, <2>3
<1>7. AcceptsAreCounted'
  <2>1. /\ Cardinality(Accepting') \in Nat /\ Cardinality(Accepting') <= Cardinality(Requests)
    <3>1. Accepting' \subseteq Requests BY DEF Accepting
    <3> QED BY <3>1, RequestsAssumption, FS_Subset, FS_CardinalityType
  <2>2. CASE signal # "accepted"
    <3>1. accepts <= Cardinality(Requests) * marks BY <2>2 DEF GroupIInv, AcceptsAreCounted
    <3>2. accepts + Cardinality(Accepting') <= Cardinality(Requests) * (marks + 1)
      BY <1>1, <2>1, <3>1, RoomForOne, AcceptingFinite
    <3> QED BY <1>3, <3>1, <3>2 DEF AcceptsAreCounted
  <2>3. CASE signal = "accepted"
    <3>1. Accepting' \subseteq Accepting BY <1>2, <2>3 DEF Accepting
    <3>2. Cardinality(Accepting') <= Cardinality(Accepting)
      BY <3>1, AcceptingFinite, FS_Subset
    <3>3. accepts + Cardinality(Accepting) <= Cardinality(Requests) * (marks + 1)
      BY DEF GroupIInv, AcceptsAreCounted
    <3>4. accepts + Cardinality(Accepting') <= Cardinality(Requests) * (marks + 1)
      BY <1>1, <2>1, <3>2, <3>3, RoomForOne, AcceptingFinite
    <3> QED BY <1>3, <2>3, <3>4 DEF AcceptsAreCounted
  <2> QED BY <2>2, <2>3
<1> QED BY <1>3, <1>4, <1>5, <1>6, <1>7 DEF GroupIInv, ImportedOnce, Alike

(* The commit of an import: all it inserts is new, and it counts that on   *)
(* top of a counter that was behind the messages then stored.              *)
LEMMA ImportCommits ==
  ASSUME GroupIInv, NEW r \in Requests, CommitImport(r)
  PROVE  GroupIInv'
<1> DEFINE t == groupTx[r]
<1>1. /\ groupTx \in [Requests -> GroupTx] /\ t \in GroupTx /\ stored \subseteq GroupMessage
      /\ reuses \in [GroupMessage -> Nat] /\ reuseCount \in Nat
      /\ acknowledged \subseteq GroupMessage
  BY DEF GroupIInv, GroupTypeOK
<1>2. /\ t.new \subseteq GroupMessage /\ t.batch \subseteq GroupMessage /\ t.count \in Nat
  BY <1>1 DEF GroupTx
<1>3. GroupSound(t) /\ ImportedOnce /\ IsFiniteSet(stored) BY DEF GroupIInv
<1>4. /\ t.pc = "importing" /\ t.reused = t.new
      /\ stored' = stored \cup t.new
      /\ reuses' = [m \in GroupMessage |-> reuses[m] + IF m \in t.new THEN 1 ELSE 0]
      /\ reuseCount' = IF t.new = {} THEN reuseCount ELSE t.count + Cardinality(t.new)
      /\ acknowledged' = acknowledged \cup t.batch
      /\ groupTx' = [groupTx EXCEPT ![r] = GroupIdle]
      /\ UNCHANGED <<signal, opened, accepts, marks>>
  BY <1>3 DEF CommitImport, GroupSound, signalVars
<1>5. /\ groupTx' \in [Requests -> GroupTx] /\ groupTx'[r] = GroupIdle
      /\ \A q \in Requests : q # r => groupTx'[q] = groupTx[q]
  BY <1>1, <1>4, IdleGroup
<1>6. stored \cap t.new = {} BY <1>1, <1>2, <1>3, AlikeItself DEF GroupSound
<1>7. /\ IsFiniteSet(stored') /\ Cardinality(stored') = Cardinality(stored) + Cardinality(t.new)
      /\ Cardinality(stored) \in Nat /\ Cardinality(t.new) \in Nat
  <2>1. IsFiniteSet(stored) /\ IsFiniteSet(t.new) BY <1>3 DEF GroupSound
  <2>2. /\ IsFiniteSet(stored \cup t.new)
        /\ Cardinality(stored \cup t.new)
             = Cardinality(stored) + Cardinality(t.new) - Cardinality(stored \cap t.new)
    BY <2>1, FS_Union
  <2>3. Cardinality(stored \cap t.new) = 0 BY <1>6, FS_EmptySet
  <2>4. Cardinality(stored) \in Nat /\ Cardinality(t.new) \in Nat
    BY <2>1, FS_CardinalityType
  <2> QED BY <1>4, <2>2, <2>3, <2>4
<1>8. GroupTypeOK'
  <2>1. reuses' \in [GroupMessage -> Nat] BY <1>1, <1>4
  <2>2. reuseCount' \in Nat BY <1>1, <1>2, <1>4, <1>7
  <2> QED BY <1>1, <1>2, <1>4, <1>5, <2>1, <2>2 DEF GroupIInv, GroupTypeOK
<1>9. ASSUME NEW q \in Requests PROVE GroupSound(groupTx[q])'
  <2>1. CASE q = r BY <1>5, <2>1, IdleGroup
  <2>2. CASE q # r
    <3>1. groupTx'[q] = groupTx[q] /\ groupTx[q] \in GroupTx BY <1>1, <1>5, <2>2
    <3>2. GroupSound(groupTx[q]) BY DEF GroupIInv
    <3>3. \A m \in groupTx[q].new, n \in stored' : ~Alike(m, n)
      BY <1>4, <2>2, <3>2 DEF GroupSound, GroupIInv, InDoubtUnlike
    <3>4. \A m \in groupTx[q].batch : \E n \in stored' \cup groupTx[q].new : Alike(m, n)
      BY <1>4, <3>2 DEF GroupSound
    <3>5. groupTx[q].pc = "importing" => groupTx[q].count <= Cardinality(stored')
      <4>1. groupTx[q].count \in Nat BY <3>1 DEF GroupTx
      <4> QED BY <1>7, <3>2, <4>1 DEF GroupSound
    <3> QED BY <1>4, <3>1, <3>2, <3>3, <3>4, <3>5 DEF GroupSound, Alike
  <2> QED BY <2>1, <2>2
<1>10. InDoubtUnlike'
  BY <1>5, IdleGroup DEF GroupIInv, InDoubtUnlike, Alike
<1>11. ImportedOnce'
  <2>1. \A m, n \in stored' : Alike(m, n) => m = n
    BY <1>1, <1>2, <1>3, <1>4, AlikeItself DEF ImportedOnce, GroupSound
  <2>2. \A m \in GroupMessage : reuses'[m] = IF m \in stored' THEN 1 ELSE 0
    BY <1>1, <1>3, <1>4, <1>6 DEF ImportedOnce
  <2>3. \A m \in acknowledged' : \E n \in stored' : Alike(m, n)
    BY <1>3, <1>4 DEF ImportedOnce, GroupSound
  <2>4. reuseCount' <= Cardinality(stored')
    <3>1. t.count <= Cardinality(stored) /\ reuseCount <= Cardinality(stored)
      BY <1>3, <1>4 DEF ImportedOnce, GroupSound
    <3> QED BY <1>1, <1>2, <1>4, <1>7, <3>1
  <2> QED BY <2>1, <2>2, <2>3, <2>4 DEF ImportedOnce, Alike
<1>12. AcceptsAreCounted'
  <2>1. Accepting' = Accepting BY <1>4, <1>5, IdleGroup DEF Accepting
  <2> QED BY <1>4, <2>1 DEF GroupIInv, AcceptsAreCounted
<1> QED BY <1>4, <1>7, <1>8, <1>9, <1>10, <1>11, <1>12 DEF GroupIInv

(* The commits that write the signal: nothing else is touched, and the     *)
(* request is no longer counted.                                           *)
LEMMA SignalWritten ==
  ASSUME GroupIInv, NEW r \in Requests, groupTx' = [groupTx EXCEPT ![r] = GroupIdle],
         UNCHANGED importVars, signal' \in SignalStatus, opened' \in Nat, accepts' \in Nat,
         marks' \in 0..MaxMarks, accepts <= accepts', AcceptsAreCounted',
         signal' = "accepted" => opened' > 0, opened' <= accepts'
  PROVE  GroupIInv'
<1>1. /\ groupTx \in [Requests -> GroupTx] /\ accepts \in Nat
      /\ UNCHANGED <<stored, reuses, reuseCount, acknowledged>>
  BY DEF GroupIInv, GroupTypeOK, importVars
<1>2. /\ groupTx' \in [Requests -> GroupTx] /\ groupTx'[r] = GroupIdle
      /\ \A q \in Requests : q # r => groupTx'[q] = groupTx[q]
  BY <1>1, IdleGroup
<1>3. GroupTypeOK' BY <1>1, <1>2 DEF GroupIInv, GroupTypeOK
<1>4. ASSUME NEW q \in Requests PROVE GroupSound(groupTx[q])'
  <2>1. CASE q = r BY <1>2, <2>1, IdleGroup
  <2>2. CASE q # r
    <3>1. groupTx'[q] = groupTx[q] /\ groupTx[q].count \in Nat
      BY <1>1, <1>2, <2>2 DEF GroupTx
    <3>2. GroupSound(groupTx[q]) BY DEF GroupIInv
    <3>3. groupTx[q].pc = "accepting" => groupTx[q].count <= accepts'
      BY <1>1, <3>1, <3>2 DEF GroupSound
    <3> QED BY <1>1, <3>1, <3>2, <3>3 DEF GroupSound, Alike
  <2> QED BY <2>1, <2>2
<1>5. InDoubtUnlike' BY <1>2, IdleGroup DEF GroupIInv, InDoubtUnlike, Alike
<1> QED BY <1>1, <1>3, <1>4, <1>5 DEF GroupIInv, ImportedOnce, Alike

LEMMA AcceptCommits ==
  ASSUME GroupIInv, NEW r \in Requests, CommitAccept(r)
  PROVE  GroupIInv'
<1> DEFINE t == groupTx[r]
<1>1. /\ groupTx \in [Requests -> GroupTx] /\ t \in GroupTx /\ t.count \in Nat
      /\ accepts \in Nat /\ marks \in 0..MaxMarks /\ marks \in Nat
  BY MaxMarksAssumption DEF GroupIInv, GroupTypeOK, GroupTx
<1>2. GroupSound(t) BY DEF GroupIInv
<1>3. /\ t.pc = "accepting" /\ t.count <= accepts
      /\ opened' = t.count + 1 /\ accepts' = accepts + 1 /\ signal' = "accepted"
      /\ groupTx' = [groupTx EXCEPT ![r] = GroupIdle] /\ UNCHANGED <<importVars, marks>>
  BY <1>2 DEF CommitAccept, GroupSound
<1>4. AcceptsAreCounted'
  <2>1. Accepting' \subseteq Accepting \ {r}
    BY <1>1, <1>3, IdleGroup DEF Accepting
  <2>2. r \in Accepting BY <1>3 DEF Accepting
  <2>3. /\ IsFiniteSet(Accepting \ {r})
        /\ Cardinality(Accepting \ {r}) = Cardinality(Accepting) - 1
    BY <2>2, AcceptingFinite, FS_RemoveElement
  <2>4. /\ Cardinality(Accepting') \in Nat
        /\ Cardinality(Accepting') <= Cardinality(Accepting) - 1
    BY <2>1, <2>3, FS_Subset, FS_CardinalityType
  <2>5. accepts + Cardinality(Accepting) <= Cardinality(Requests) * (marks + 1)
    BY DEF GroupIInv, AcceptsAreCounted
  <2>6. accepts' + Cardinality(Accepting') <= Cardinality(Requests) * (marks + 1)
    BY <1>1, <1>3, <2>4, <2>5, RoomForOne, AcceptingFinite
  <2> QED BY <1>3, <2>6 DEF AcceptsAreCounted
<1>5. /\ signal' \in SignalStatus /\ opened' \in Nat /\ accepts' \in Nat
      /\ accepts <= accepts' /\ opened' > 0 /\ opened' <= accepts'
  BY <1>1, <1>3 DEF SignalStatus
<1> QED BY <1>1, <1>3, <1>4, <1>5, SignalWritten

(* A status that takes the acceptance back makes room for another round.   *)
LEMMA MarkCommits ==
  ASSUME GroupIInv, NEW r \in Requests, CommitMark(r)
  PROVE  GroupIInv'
<1> DEFINE t == groupTx[r]
<1>1. /\ groupTx \in [Requests -> GroupTx] /\ t \in GroupTx /\ t.to \in SignalStatus
      /\ accepts \in Nat /\ opened \in Nat /\ marks \in 0..MaxMarks /\ marks \in Nat
  BY MaxMarksAssumption DEF GroupIInv, GroupTypeOK, GroupTx
<1>2. GroupSound(t) /\ opened <= accepts BY DEF GroupIInv
<1>3. /\ t.to # "accepted" /\ marks < MaxMarks
      /\ signal' = t.to /\ marks' = marks + 1
      /\ groupTx' = [groupTx EXCEPT ![r] = GroupIdle]
      /\ UNCHANGED <<importVars, opened, accepts>>
  BY <1>2 DEF CommitMark, GroupSound
<1>4. AcceptsAreCounted'
  <2>1. Accepting' \subseteq Accepting BY <1>1, <1>3, IdleGroup DEF Accepting
  <2>2. /\ Cardinality(Accepting') \in Nat /\ Cardinality(Accepting') <= Cardinality(Accepting)
    BY <2>1, AcceptingFinite, FS_Subset, FS_CardinalityType
  <2>3. accepts + Cardinality(Accepting) <= Cardinality(Requests) * (marks + 1)
    BY DEF GroupIInv, AcceptsAreCounted
  <2> DEFINE room == Cardinality(Requests) * (marks + 1)
             more == Cardinality(Requests) * (marks + 1 + 1)
  <2>4. room \in Nat /\ more \in Nat /\ more = room + Cardinality(Requests)
    BY <1>1, RoomForOne, AcceptingFinite
  <2>5. accepts + Cardinality(Accepting') <= more /\ accepts <= room
    <3>1. accepts + Cardinality(Accepting) <= room BY <2>3
    <3> HIDE DEF room, more
    <3> QED BY <1>1, <2>2, <2>4, <3>1, AcceptingFinite
  <2> QED BY <1>3, <2>5 DEF AcceptsAreCounted
<1>5. /\ marks' \in 0..MaxMarks /\ signal' \in SignalStatus /\ signal' # "accepted"
      /\ opened' \in Nat /\ accepts' \in Nat /\ accepts <= accepts' /\ opened' <= accepts'
  BY <1>1, <1>2, <1>3, MaxMarksAssumption
<1> QED BY <1>3, <1>4, <1>5, SignalWritten

(* A message that is inserted is unlike all that is stored or in doubt; a  *)
(* duplicate is like one that is stored or inserted, whose reuse is there. *)
LEMMA MessageImported ==
  ASSUME GroupIInv, NEW r \in Requests, NEW m \in GroupMessage,
         ImportNew(r, m) \/ ImportDuplicate(r, m)
  PROVE  GroupIInv'
<1> DEFINE t == groupTx[r]
<1>1. /\ groupTx \in [Requests -> GroupTx] /\ t \in GroupTx /\ stored \subseteq GroupMessage
      /\ t.new \subseteq GroupMessage /\ t.batch \subseteq GroupMessage
  BY DEF GroupIInv, GroupTypeOK, GroupTx
<1>2. GroupSound(t) /\ t.reused = t.new /\ ImportedOnce BY DEF GroupIInv, GroupSound
<1>3. \A q \in Requests \ {r} : \A n \in t.new, k \in groupTx[q].new : ~Alike(n, k)
  BY DEF GroupIInv, InDoubtUnlike
<1>4. CASE ImportNew(r, m)
  <2> DEFINE u == [t EXCEPT !.new = @ \cup {m}, !.batch = @ \cup {m}, !.reused = @ \cup {m}]
  <2>1. /\ t.pc = "importing" /\ Matches(r, m) = {} /\ MessageFree(r, m)
        /\ UNCHANGED <<importVars, signalVars>>
    BY <1>4 DEF ImportNew
  <2>2. \A n \in stored \cup t.new : ~Alike(m, n) /\ ~Alike(n, m)
    BY <1>1, <2>1, AlikeItself DEF Matches
  <2>3. m \notin stored /\ m \notin t.new BY <2>2, AlikeItself
  <2>4. WithReuse(r, m) = t.reused \cup {m}
    BY <1>2, <2>3 DEF WithReuse, ImportedOnce
  <2>5. groupTx' = [groupTx EXCEPT ![r] = u] BY <1>1, <1>4, <2>4 DEF ImportNew
  <2>6. u \in GroupTx BY <1>1 DEF GroupTx
  <2>7. /\ u.pc = "importing" /\ u.new = t.new \cup {m} /\ u.batch = t.batch \cup {m}
        /\ u.reused = t.reused \cup {m} /\ u.count = t.count
    BY <1>1, <2>1 DEF GroupTx
  <2> HIDE DEF u
  <2>8. GroupSound(u)
    <3>1. IsFiniteSet(u.new) BY <1>2, <2>7, FS_AddElement DEF GroupSound
    <3>2. \A n, k \in u.new : Alike(n, k) => n = k BY <1>2, <2>2, <2>7 DEF GroupSound
    <3>3. \A n \in u.new, k \in stored : ~Alike(n, k) BY <1>2, <2>2, <2>7 DEF GroupSound
    <3>4. \A n \in u.batch : \E k \in stored \cup u.new : Alike(n, k)
      BY <1>2, <2>7, AlikeItself DEF GroupSound
    <3> QED BY <1>2, <2>1, <2>7, <3>1, <3>2, <3>3, <3>4 DEF GroupSound
  <2>9. \A q \in Requests \ {r} : \A n \in u.new, k \in groupTx[q].new : ~Alike(n, k)
    <3>1. \A q \in Requests \ {r} : \A k \in groupTx[q].new : ~Alike(m, k)
      <4>1. \A q \in Requests : groupTx[q].new \subseteq GroupMessage BY <1>1 DEF GroupTx
      <4> QED BY <2>1, <4>1, AlikeItself DEF MessageFree
    <3> QED BY <1>3, <2>7, <3>1
  <2> QED BY <2>1, <2>5, <2>6, <2>7, <2>8, <2>9, GroupMoves
<1>5. CASE ImportDuplicate(r, m)
  <2>1. PICK n \in Matches(r, m) :
               groupTx' = [groupTx EXCEPT ![r].batch = @ \cup {m}, ![r].reused = WithReuse(r, n)]
    BY <1>5 DEF ImportDuplicate
  <2> DEFINE u == [t EXCEPT !.batch = @ \cup {m}]
  <2>2. t.pc = "importing" /\ UNCHANGED <<importVars, signalVars>> BY <1>5 DEF ImportDuplicate
  <2>3. n \in stored \cup t.new /\ Alike(m, n) BY DEF Matches
  <2>4. WithReuse(r, n) = t.reused
    BY <1>1, <1>2, <2>3 DEF WithReuse, ImportedOnce
  <2>5. groupTx' = [groupTx EXCEPT ![r] = u] BY <1>1, <2>1, <2>4 DEF GroupTx
  <2>6. u \in GroupTx BY <1>1 DEF GroupTx
  <2>7. /\ u.pc = "importing" /\ u.new = t.new /\ u.batch = t.batch \cup {m}
        /\ u.reused = t.reused /\ u.count = t.count
    BY <1>1, <2>2 DEF GroupTx
  <2> HIDE DEF u
  <2>8. GroupSound(u)
    <3>1. \A k \in u.batch : \E l \in stored \cup u.new : Alike(k, l)
      BY <1>2, <2>3, <2>7 DEF GroupSound
    <3> QED BY <1>2, <2>2, <2>7, <3>1 DEF GroupSound
  <2> QED BY <1>3, <2>2, <2>5, <2>6, <2>7, <2>8, GroupMoves
<1> QED BY <1>4, <1>5

LEMMA GroupStepPreserves ==
  ASSUME GroupIInv, NEW r \in Requests, GroupStep(r)
  PROVE  GroupIInv'
<1>1. /\ groupTx \in [Requests -> GroupTx] /\ reuseCount \in Nat /\ opened \in Nat
      /\ ImportedOnce /\ opened <= accepts
  BY DEF GroupIInv, GroupTypeOK
<1>2. CASE OpenImport(r)
  <2> DEFINE u == [GroupIdle EXCEPT !.pc = "importing", !.count = reuseCount]
  <2>1. /\ groupTx' = [groupTx EXCEPT ![r] = u] /\ UNCHANGED <<importVars, signalVars>>
    BY <1>2 DEF OpenImport
  <2>2. /\ u \in GroupTx /\ u.pc = "importing" /\ u.new = {} /\ u.reused = {} /\ u.batch = {}
        /\ u.count = reuseCount
    BY <1>1, IdleGroup DEF GroupTx, GroupIdle
  <2> HIDE DEF u
  <2>3. GroupSound(u) BY <1>1, <2>2, FS_EmptySet DEF GroupSound, ImportedOnce
  <2> QED BY <2>1, <2>2, <2>3, GroupMoves
<1>3. CASE OpenAccept(r)
  <2> DEFINE u == [GroupIdle EXCEPT !.pc = "accepting", !.count = opened]
  <2>1. /\ signal # "accepted"
        /\ groupTx' = [groupTx EXCEPT ![r] = u] /\ UNCHANGED <<importVars, signalVars>>
    BY <1>3 DEF OpenAccept, Acceptable
  <2>2. /\ u \in GroupTx /\ u.pc = "accepting" /\ u.new = {} /\ u.reused = {} /\ u.batch = {}
        /\ u.count = opened
    BY <1>1, IdleGroup DEF GroupTx, GroupIdle
  <2> HIDE DEF u
  <2>3. GroupSound(u) BY <1>1, <2>2, FS_EmptySet DEF GroupSound
  <2> QED BY <2>1, <2>2, <2>3, GroupMoves
<1>4. CASE \E to \in SignalStatus : OpenMark(r, to)
  <2> SUFFICES ASSUME NEW to \in SignalStatus, OpenMark(r, to) PROVE GroupIInv' BY <1>4
  <2> DEFINE u == [GroupIdle EXCEPT !.pc = "marking", !.to = to]
  <2>1. /\ to # "accepted"
        /\ groupTx' = [groupTx EXCEPT ![r] = u] /\ UNCHANGED <<importVars, signalVars>>
    BY DEF OpenMark
  <2>2. /\ u \in GroupTx /\ u.pc = "marking" /\ u.new = {} /\ u.reused = {} /\ u.batch = {}
        /\ u.to = to
    BY IdleGroup DEF GroupTx, GroupIdle
  <2> HIDE DEF u
  <2>3. GroupSound(u) BY <2>1, <2>2, FS_EmptySet DEF GroupSound
  <2> QED BY <2>1, <2>2, <2>3, GroupMoves
<1>5. CASE GroupAbort(r)
  <2>1. groupTx' = [groupTx EXCEPT ![r] = GroupIdle] /\ UNCHANGED <<importVars, signalVars>>
    BY <1>5 DEF GroupAbort
  <2>2. \A q \in Requests \ {r} : \A m \in GroupIdle.new, n \in groupTx[q].new : ~Alike(m, n)
    BY IdleGroup
  <2>3. GroupIdle \in GroupTx /\ GroupSound(GroupIdle) /\ GroupIdle.pc # "accepting"
    BY IdleGroup
  <2> QED BY <2>1, <2>2, <2>3, GroupMoves
<1> QED
  BY <1>2, <1>3, <1>4, <1>5, ImportCommits, AcceptCommits, MarkCommits, MessageImported
  DEF GroupStep

(* Stored messages, recorded reuses and applied accepts agree with what    *)
(* the open imports and accepts are about to write.                        *)
THEOREM GroupInvariant == GroupSpec => []GroupIInv
<1>1. GroupInit => GroupIInv
  <2> SUFFICES ASSUME GroupInit PROVE GroupIInv OBVIOUS
  <2>1. \A r \in Requests : groupTx[r] = GroupIdle BY DEF GroupInit
  <2>2. GroupTypeOK
    BY IdleGroup, MaxMarksAssumption DEF GroupInit, GroupTypeOK, SignalStatus
  <2>3. (\A r \in Requests : GroupSound(groupTx[r])) /\ InDoubtUnlike
    BY <2>1, IdleGroup DEF InDoubtUnlike
  <2>4. IsFiniteSet(stored) /\ Cardinality(stored) = 0 BY FS_EmptySet DEF GroupInit
  <2>5. ImportedOnce BY <2>4 DEF GroupInit, ImportedOnce
  <2>6. AcceptsAreCounted
    <3>1. accepts = 0 /\ marks = 0 BY DEF GroupInit
    <3>2. Cardinality(Requests) * 0 = 0 /\ Cardinality(Requests) * (0 + 1) = Cardinality(Requests)
      BY AcceptingFinite
    <3> QED BY <3>1, <3>2, AcceptingFinite DEF AcceptsAreCounted
  <2> QED BY <2>2, <2>3, <2>4, <2>5, <2>6 DEF GroupInit, GroupIInv
<1>2. GroupIInv /\ [GroupNext]_groupVars => GroupIInv'
  <2> SUFFICES ASSUME GroupIInv, [GroupNext]_groupVars PROVE GroupIInv' OBVIOUS
  <2>1. CASE UNCHANGED groupVars
    BY <2>1 DEF groupVars, GroupIInv, GroupTypeOK, GroupSound, InDoubtUnlike, ImportedOnce,
                AcceptsAreCounted, Accepting, Alike
  <2> QED BY <2>1, GroupStepPreserves DEF GroupNext
<1> QED BY <1>1, <1>2, PTL DEF GroupSpec

(* However imports overlap, a message is stored once with one reuse, what  *)
(* was acknowledged is stored, and the counter never runs ahead.           *)
THEOREM MessagesImportedOnce == GroupSpec => []ImportedOnce
BY GroupInvariant, PTL DEF GroupIInv

(* A signal is applied again only by accepts that overlap or after it was  *)
(* taken back, for any number of requests.                                 *)
THEOREM SignalsAppliedByOverlap == GroupSpec => []AppliedByOverlap
<1>1. GroupIInv => AppliedByOverlap
  <2> SUFFICES ASSUME GroupIInv PROVE AppliedByOverlap OBVIOUS
  <2>1. accepts \in Nat /\ marks \in Nat
    BY MaxMarksAssumption DEF GroupIInv, GroupTypeOK
  <2>2. accepts + Cardinality(Accepting) <= Cardinality(Requests) * (marks + 1)
    BY DEF GroupIInv, AcceptsAreCounted
  <2>3. accepts <= Cardinality(Requests) * (marks + 1)
    BY <2>1, <2>2, RoomForOne, AcceptingFinite
  <2> QED BY <2>3 DEF GroupIInv, AppliedByOverlap
<1> QED BY GroupInvariant, <1>1, PTL

(* What overlap alone breaks: a lost reuse and a second application need   *)
(* two calls at once.                                                      *)

GroupAlone ==
  \A r, q \in Requests : groupTx[r].pc # Idle /\ groupTx[q].pc # Idle => r = q

(* The phrase's counter is the messages stored, the progress item's the    *)
(* acceptances, and a signal is accepted once each time it is not.         *)
GroupExact ==
  /\ reuseCount = Cardinality(stored)
  /\ opened = accepts
  /\ accepts <= marks + 1
  /\ signal # "accepted" => accepts <= marks

(* What a request has read is what is there.                               *)
GroupCurrent(t) ==
  /\ t.pc = "importing" => t.count = reuseCount
  /\ t.pc = "accepting" => t.count = opened /\ signal # "accepted"

GroupApart == GroupExact /\ \A r \in Requests : GroupCurrent(groupTx[r])

(* A commit leaves no call open when calls do not overlap.                 *)
LEMMA GroupSettled ==
  ASSUME GroupIInv, GroupAlone, NEW r \in Requests, groupTx[r].pc # Idle,
         groupTx' = [groupTx EXCEPT ![r] = GroupIdle]
  PROVE  \A q \in Requests : GroupCurrent(groupTx[q])'
<1>1. groupTx \in [Requests -> GroupTx] BY DEF GroupIInv, GroupTypeOK
<1>2. \A q \in Requests : groupTx'[q].pc = "idle"
  BY <1>1, IdleGroup DEF GroupAlone, Idle
<1> QED BY <1>2 DEF GroupCurrent

LEMMA GroupLocalApart ==
  ASSUME GroupIInv, GroupApart, NEW r \in Requests, NEW t, GroupCurrent(t),
         groupTx' = [groupTx EXCEPT ![r] = t], UNCHANGED <<importVars, signalVars>>
  PROVE  GroupApart'
<1>1. groupTx \in [Requests -> GroupTx] BY DEF GroupIInv, GroupTypeOK
<1>2. /\ groupTx'[r] = t
      /\ \A q \in Requests : q # r => groupTx'[q] = groupTx[q]
  BY <1>1
<1>3. UNCHANGED <<stored, reuseCount, signal, opened, accepts, marks>>
  BY DEF importVars, signalVars
<1>4. \A q \in Requests : GroupCurrent(groupTx[q])'
  BY <1>2, <1>3 DEF GroupApart, GroupCurrent
<1> QED BY <1>3, <1>4 DEF GroupApart, GroupExact

LEMMA ImportCommitsApart ==
  ASSUME GroupIInv, GroupAlone, GroupApart, NEW r \in Requests, CommitImport(r)
  PROVE  GroupApart'
<1> DEFINE t == groupTx[r]
<1>1. /\ t.new \subseteq GroupMessage /\ stored \subseteq GroupMessage /\ reuseCount \in Nat
  BY DEF GroupIInv, GroupTypeOK, GroupTx
<1>2. GroupSound(t) /\ IsFiniteSet(stored) /\ GroupCurrent(t) BY DEF GroupIInv, GroupApart
<1>3. /\ t.pc = "importing" /\ stored' = stored \cup t.new
      /\ reuseCount' = IF t.new = {} THEN reuseCount ELSE reuseCount + Cardinality(t.new)
      /\ UNCHANGED <<signal, opened, accepts, marks>>
  BY <1>2 DEF CommitImport, GroupSound, GroupCurrent, signalVars
<1>4. stored \cap t.new = {} BY <1>1, <1>2, AlikeItself DEF GroupSound
<1>5. reuseCount' = Cardinality(stored')
  <2>1. IsFiniteSet(stored) /\ IsFiniteSet(t.new) BY <1>2 DEF GroupSound
  <2>2. Cardinality(stored \cup t.new)
          = Cardinality(stored) + Cardinality(t.new) - Cardinality(stored \cap t.new)
    BY <2>1, FS_Union
  <2>3. Cardinality(stored) \in Nat /\ Cardinality(t.new) \in Nat
    BY <2>1, FS_CardinalityType
  <2>4. Cardinality(stored') = Cardinality(stored) + Cardinality(t.new)
    <3>1. Cardinality(stored \cap t.new) = 0 BY <1>4, FS_EmptySet
    <3> QED BY <1>3, <2>2, <2>3, <3>1
  <2>5. t.new = {} => Cardinality(t.new) = 0 BY FS_EmptySet
  <2>6. reuseCount = Cardinality(stored) BY DEF GroupApart, GroupExact
  <2> HIDE DEF t
  <2> QED BY <1>3, <2>3, <2>4, <2>5, <2>6
<1>6. \A q \in Requests : GroupCurrent(groupTx[q])'
  BY <1>3, GroupSettled DEF CommitImport, Idle
<1> QED BY <1>3, <1>5, <1>6 DEF GroupApart, GroupExact

LEMMA SignalCommitsApart ==
  ASSUME GroupIInv, GroupAlone, GroupApart, NEW r \in Requests,
         CommitAccept(r) \/ CommitMark(r)
  PROVE  GroupApart'
<1>1. /\ accepts \in Nat /\ marks \in Nat /\ GroupCurrent(groupTx[r]) /\ GroupExact
  BY MaxMarksAssumption DEF GroupIInv, GroupTypeOK, GroupApart
<1>2. UNCHANGED <<stored, reuseCount>>
  BY DEF CommitAccept, CommitMark, importVars
<1>3. CASE CommitAccept(r)
  <2>1. /\ opened' = opened + 1 /\ accepts' = accepts + 1 /\ signal' = "accepted"
        /\ marks' = marks /\ signal # "accepted"
    BY <1>1, <1>3 DEF CommitAccept, GroupCurrent
  <2>2. \A q \in Requests : GroupCurrent(groupTx[q])'
    BY <1>3, GroupSettled DEF CommitAccept, Idle
  <2> QED BY <1>1, <1>2, <2>1, <2>2 DEF GroupApart, GroupExact
<1>4. CASE CommitMark(r)
  <2>1. marks' = marks + 1 /\ UNCHANGED <<opened, accepts>> BY <1>4 DEF CommitMark
  <2>2. \A q \in Requests : GroupCurrent(groupTx[q])'
    BY <1>4, GroupSettled DEF CommitMark, Idle
  <2> QED BY <1>1, <1>2, <2>1, <2>2 DEF GroupApart, GroupExact
<1> QED BY <1>3, <1>4

LEMMA GroupApartStep ==
  ASSUME GroupIInv, GroupAlone, GroupApart, NEW r \in Requests, GroupStep(r)
  PROVE  GroupApart'
<1> DEFINE t == groupTx[r]
<1>1. groupTx \in [Requests -> GroupTx] /\ t \in GroupTx /\ GroupCurrent(t)
  BY DEF GroupIInv, GroupTypeOK, GroupApart
<1>2. CASE OpenImport(r)
  <2> DEFINE u == [GroupIdle EXCEPT !.pc = "importing", !.count = reuseCount]
  <2>1. /\ groupTx' = [groupTx EXCEPT ![r] = u] /\ UNCHANGED <<importVars, signalVars>>
    BY <1>2 DEF OpenImport
  <2>2. GroupCurrent(u) BY DEF GroupIdle, GroupCurrent
  <2> HIDE DEF u
  <2> QED BY <2>1, <2>2, GroupLocalApart
<1>3. CASE OpenAccept(r)
  <2> DEFINE u == [GroupIdle EXCEPT !.pc = "accepting", !.count = opened]
  <2>1. /\ signal # "accepted"
        /\ groupTx' = [groupTx EXCEPT ![r] = u] /\ UNCHANGED <<importVars, signalVars>>
    BY <1>3 DEF OpenAccept, Acceptable
  <2>2. GroupCurrent(u) BY <2>1 DEF GroupIdle, GroupCurrent
  <2> HIDE DEF u
  <2> QED BY <2>1, <2>2, GroupLocalApart
<1>4. ASSUME NEW to \in SignalStatus, OpenMark(r, to) PROVE GroupApart'
  <2> DEFINE u == [GroupIdle EXCEPT !.pc = "marking", !.to = to]
  <2>1. groupTx' = [groupTx EXCEPT ![r] = u] /\ UNCHANGED <<importVars, signalVars>>
    BY <1>4 DEF OpenMark
  <2>2. GroupCurrent(u) BY DEF GroupIdle, GroupCurrent
  <2> HIDE DEF u
  <2> QED BY <2>1, <2>2, GroupLocalApart
<1>5. CASE GroupAbort(r)
  <2>1. GroupCurrent(GroupIdle) BY IdleGroup DEF GroupCurrent
  <2> QED BY <1>5, <2>1, GroupLocalApart DEF GroupAbort
<1>6. ASSUME NEW m \in GroupMessage, ImportNew(r, m) PROVE GroupApart'
  <2> DEFINE u == [t EXCEPT !.new = @ \cup {m}, !.batch = @ \cup {m}, !.reused = WithReuse(r, m)]
  <2>1. groupTx' = [groupTx EXCEPT ![r] = u] /\ UNCHANGED <<importVars, signalVars>>
    BY <1>1, <1>6 DEF ImportNew
  <2>2. u.pc = t.pc /\ u.count = t.count BY <1>1 DEF GroupTx
  <2> HIDE DEF u
  <2>3. GroupCurrent(u) BY <1>1, <2>2 DEF GroupCurrent
  <2> QED BY <2>1, <2>3, GroupLocalApart
<1>7. ASSUME NEW m \in GroupMessage, ImportDuplicate(r, m) PROVE GroupApart'
  <2>1. PICK n \in Matches(r, m) :
               groupTx' = [groupTx EXCEPT ![r].batch = @ \cup {m}, ![r].reused = WithReuse(r, n)]
    BY <1>7 DEF ImportDuplicate
  <2> DEFINE u == [t EXCEPT !.batch = @ \cup {m}, !.reused = WithReuse(r, n)]
  <2>2. groupTx' = [groupTx EXCEPT ![r] = u] BY <1>1, <2>1
  <2>3. u.pc = t.pc /\ u.count = t.count BY <1>1 DEF GroupTx
  <2> HIDE DEF u
  <2>4. GroupCurrent(u) BY <1>1, <2>3 DEF GroupCurrent
  <2> QED BY <1>7, <2>2, <2>4, GroupLocalApart DEF ImportDuplicate
<1> QED
  BY <1>2, <1>3, <1>4, <1>5, <1>6, <1>7, ImportCommitsApart, SignalCommitsApart DEF GroupStep

(* As long as no two calls are open at once, the counters are exact and a  *)
(* signal is applied again only after it was taken back: what ImportedOnce *)
(* and AppliedByOverlap leave open is the work of overlap and nothing else.*)
THEOREM GroupExactApart == GroupSpec /\ []GroupAlone => []GroupExact
<1>1. GroupInit => GroupApart
  <2> SUFFICES ASSUME GroupInit PROVE GroupApart OBVIOUS
  <2>1. \A r \in Requests : GroupCurrent(groupTx[r])
    BY IdleGroup DEF GroupInit, GroupCurrent
  <2>2. GroupExact BY FS_EmptySet DEF GroupInit, GroupExact
  <2> QED BY <2>1, <2>2 DEF GroupApart
<1>2. GroupIInv /\ GroupAlone /\ GroupApart /\ [GroupNext]_groupVars => GroupApart'
  <2> SUFFICES ASSUME GroupIInv, GroupAlone, GroupApart, [GroupNext]_groupVars
               PROVE  GroupApart'
    OBVIOUS
  <2>1. CASE UNCHANGED groupVars
    BY <2>1 DEF groupVars, GroupApart, GroupExact, GroupCurrent
  <2> QED BY <2>1, GroupApartStep DEF GroupNext
<1>3. GroupApart => GroupExact BY DEF GroupApart
<1> QED BY <1>1, <1>2, <1>3, GroupInvariant, PTL DEF GroupSpec

=============================================================================
