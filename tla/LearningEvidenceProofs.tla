----------------------- MODULE LearningEvidenceProofs -----------------------
(***************************************************************************)
(* Proofs about LearningEvidence, for every set of events, evidence,       *)
(* points and sessions.  The inductive invariant says what each open       *)
(* transaction holds and what its uncommitted writes are worth; the        *)
(* disjointness of the row locks makes one transaction's facts survive     *)
(* the commit of another.                                                  *)
(***************************************************************************)
EXTENDS LearningEvidence, TLAPS

-----------------------------------------------------------------------------
(* The inductive invariant.                                                *)

Blank == [p \in Points |-> None]

(* Where a transaction is and how far it has come with its event.          *)
Progress(q) ==
  /\ tx[q].pc \in {"idle", "looked"} =>
       /\ tx[q].todo = {} /\ tx[q].done = {} /\ tx[q].added = {}
       /\ tx[q].locked = {} /\ tx[q].frozen = {}
       /\ tx[q].known = Blank /\ tx[q].plan = Blank
  /\ tx[q].pc # "idle" => tx[q].event \in Events
  /\ Recording(q) \/ Revoking(q) =>
       /\ tx[q].todo \cup tx[q].done = Observed(tx[q].event)
       /\ tx[q].todo \cap tx[q].done = {}
  /\ tx[q].pc \in {"adding", "loaded", "scheduling", "locking", "replaying"} =>
       tx[q].cur \in tx[q].todo

(* An event is recorded before it exists and revoked once it does.         *)
OnEvent(q) ==
  /\ Recording(q) => event[tx[q].event] = "absent"
  /\ Revoking(q) => event[tx[q].event] # "absent"

OwnRows(q, p) == {x \in tx[q].done : PointOf[x] = p /\ x \notin LowConfidence}

(* What a recorder has written is the committed evidence plus its own.     *)
RecorderPlan(q) ==
  Recording(q) =>
    /\ \A p \in Points : tx[q].plan[p] # None =>
         /\ p \in tx[q].locked
         /\ tx[q].plan[p] = ReplayOf(ValidRows(p) \cup OwnRows(q, p))
    /\ \A x \in tx[q].done : x \notin LowConfidence => tx[q].plan[PointOf[x]] # None
    /\ \A p \in tx[q].added \cup tx[q].locked : tx[q].known[p] # None
    /\ tx[q].pc \in {"adding", "loaded", "scheduling"} => tx[q].known[PointOf[tx[q].cur]] # None
    /\ tx[q].pc = "scheduling" =>
         PointOf[tx[q].cur] \in tx[q].locked /\ tx[q].cur \notin LowConfidence

(* What a correction has written is the committed evidence less its own.   *)
CorrectorPlan(q) ==
  Revoking(q) =>
    /\ tx[q].frozen = IF tx[q].pc = "revoking" THEN tx[q].done
                                               ELSE tx[q].done \cup {tx[q].cur}
    /\ tx[q].added = {}
    /\ tx[q].known = tx[q].plan
    /\ \A p \in Points : tx[q].plan[p] # None =>
         /\ p \in tx[q].locked
         /\ tx[q].plan[p] = ReplayOf(ValidRows(p) \ tx[q].done)
    /\ \A x \in tx[q].done : tx[q].plan[PointOf[x]] # None
    /\ \A p \in tx[q].locked :
         tx[q].plan[p] # None \/ (tx[q].pc = "replaying" /\ p = PointOf[tx[q].cur])
    /\ tx[q].pc = "replaying" => PointOf[tx[q].cur] \in tx[q].locked

(* The recorder's own evidence, the piece in hand once it is folded in.    *)
Pending(q) ==
  IF tx[q].pc = "scheduling" THEN tx[q].done \cup {tx[q].cur}
  ELSE IF Recording(q) THEN tx[q].done ELSE {}

(* A state in a session is made of recorded evidence and its own.          *)
KnownGrounded(q) ==
  \A p \in Points, x \in Evidence :
    tx[q].known[p] # None /\ tx[q].known[p][x] # 0 =>
      /\ tx[q].known[p][x] = 1
      /\ PointOf[x] = p
      /\ x \notin LowConfidence
      /\ evidence[x] \in {"applied", "void"} \/ x \in Pending(q)

Session(q) ==
  /\ Progress(q)
  /\ OnEvent(q)
  /\ RecorderPlan(q)
  /\ CorrectorPlan(q)
  /\ KnownGrounded(q)

Apart(q, o) ==
  /\ tx[q].locked \cap tx[o].locked = {}
  /\ Recording(q) /\ Recording(o) => tx[q].event # tx[o].event

LowStaysOut == \A x \in LowConfidence : evidence[x] # "applied"

Tables ==
  /\ EventsAreWhole
  /\ LowStaysOut
  /\ ScheduleIsValidEvidence
  /\ MasteryFromEvidence

IInv ==
  /\ TypeOK
  /\ Tables
  /\ \A q \in Sessions : Session(q)
  /\ \A q, o \in Sessions : q # o => Apart(q, o)

-----------------------------------------------------------------------------
(* Facts about the data.                                                   *)

LEMMA NoneApart == None \notin Events /\ None \notin Evidence /\ None \notin Uses
BY EvidenceAssumption DEF Uses

LEMMA ReplayOfFacts ==
  ASSUME NEW S
  PROVE  /\ ReplayOf(S) \in Uses
         /\ ReplayOf(S) # None
         /\ \A x \in Evidence : ReplayOf(S)[x] = IF x \in S THEN 1 ELSE 0
BY NoneApart DEF ReplayOf, Uses

LEMMA FoldFacts ==
  ASSUME NEW uses \in Uses, NEW x \in Evidence
  PROVE  /\ Fold(uses, x) \in Uses
         /\ Fold(uses, x) # None
         /\ \A y \in Evidence : Fold(uses, x)[y] = IF y = x THEN uses[y] + 1 ELSE uses[y]
BY NoneApart DEF Fold, Uses

(* Folding in a new row extends a replay, as replaying from scratch would. *)
LEMMA FoldExtendsReplay ==
  ASSUME NEW S, NEW x \in Evidence, x \notin S
  PROVE  Fold(ReplayOf(S), x) = ReplayOf(S \cup {x})
<1> DEFINE f == Fold(ReplayOf(S), x)
           g == ReplayOf(S \cup {x})
<1>1. f \in Uses /\ g \in Uses
  BY ReplayOfFacts, FoldFacts
<1>2. \A y \in Evidence : f[y] = IF y \in S \cup {x} THEN 1 ELSE 0
  BY ReplayOfFacts, FoldFacts
<1>3. \A y \in Evidence : g[y] = IF y \in S \cup {x} THEN 1 ELSE 0
  BY ReplayOfFacts
<1> HIDE DEF f, g
<1>4. \A y \in Evidence : f[y] = g[y]
  BY <1>2, <1>3
<1> QED
  BY <1>1, <1>4 DEF Uses, f, g

(* A replay that folds nothing had nothing to fold.                        *)
LEMMA EmptyReplay ==
  ASSUME NEW S, NEW R, ReplayOf(S) = NoUses, R \subseteq S
  PROVE  ReplayOf(R) = NoUses
<1>1. \A x \in Evidence : x \notin S
  BY DEF ReplayOf, NoUses
<1> QED
  BY <1>1 DEF ReplayOf, NoUses

LEMMA ReplayOfEqual ==
  ASSUME NEW S, NEW R, \A x \in Evidence : x \in S <=> x \in R
  PROVE  ReplayOf(S) = ReplayOf(R)
BY DEF ReplayOf

LEMMA NoUsesFacts == NoUses \in Uses
BY DEF NoUses, Uses

LEMMA IdleFacts ==
  /\ Idle \in Tx
  /\ Idle.todo = {} /\ Idle.done = {} /\ Idle.added = {} /\ Idle.locked = {}
  /\ Idle.frozen = {} /\ Idle.known = Blank /\ Idle.plan = Blank /\ Idle.pc = "idle"
BY DEF Idle, Tx, Pc, Replies, Blank

LEMMA AnswerFacts ==
  ASSUME NEW r \in Replies
  PROVE  LET t == Answer(r)
         IN  /\ t \in Tx
             /\ t.todo = {} /\ t.done = {} /\ t.added = {} /\ t.locked = {}
             /\ t.frozen = {} /\ t.known = Blank /\ t.plan = Blank /\ t.pc = "idle"
BY IdleFacts DEF Answer, Tx

LEMMA SessionFields ==
  ASSUME TypeOK, NEW q \in Sessions
  PROVE  /\ tx[q] \in Tx
         /\ tx[q].pc \in Pc
         /\ tx[q].event \in Events \cup {None}
         /\ tx[q].todo \subseteq Evidence
         /\ tx[q].cur \in Evidence \cup {None}
         /\ tx[q].done \subseteq Evidence
         /\ tx[q].known \in [Points -> Uses \cup {None}]
         /\ tx[q].plan \in [Points -> Uses \cup {None}]
         /\ tx[q].added \subseteq Points
         /\ tx[q].locked \subseteq Points
         /\ tx[q].frozen \subseteq Evidence
         /\ tx[q].reply \in Replies
BY DEF TypeOK, Tx

LEMMA TableFields ==
  ASSUME TypeOK
  PROVE  /\ \A p \in Points : mastery[p] \in State /\ mastery[p].uses \in Uses /\ fsrs[p] \in Uses
         /\ \A e \in Events : event[e] \in EventStatus
         /\ \A x \in Evidence : evidence[x] \in EvidenceStatus
BY DEF TypeOK, State

-----------------------------------------------------------------------------
(* How one transaction's step leaves the others.                           *)

(* A step of q that changes no table.                                      *)
LocalStep(q) ==
  /\ UNCHANGED <<event, evidence, mastery, fsrs>>
  /\ tx' = [tx EXCEPT ![q] = tx'[q]]

LEMMA OthersStay ==
  ASSUME IInv, NEW q \in Sessions, LocalStep(q)
  PROVE  \A o \in Sessions \ {q} : tx'[o] = tx[o] /\ Session(o)'
<1> TAKE o \in Sessions \ {q}
<1>1. tx'[o] = tx[o]
  BY DEF LocalStep, IInv, TypeOK
<1>2. event' = event /\ evidence' = evidence /\ Session(o)
  BY DEF LocalStep, IInv
<1>3. (Recording(o) <=> Recording(o)') /\ (Revoking(o) <=> Revoking(o)')
  BY <1>1 DEF Recording, Revoking
<1>4. \A p \in Points : ValidRows(p)' = ValidRows(p) /\ OwnRows(o, p)' = OwnRows(o, p)
  BY <1>1, <1>2 DEF ValidRows, OwnRows
<1>5. Progress(o)' /\ OnEvent(o)'
  BY <1>1, <1>2, <1>3 DEF Session, Progress, OnEvent
<1>6. RecorderPlan(o)'
  BY <1>1, <1>2, <1>3, <1>4 DEF Session, RecorderPlan
<1>7. CorrectorPlan(o)'
  BY <1>1, <1>2, <1>3, <1>4 DEF Session, CorrectorPlan
<1>8. Pending(o)' = Pending(o)
  BY <1>1, <1>3 DEF Pending
<1>9. KnownGrounded(o)'
  BY <1>1, <1>2, <1>8 DEF Session, KnownGrounded
<1> QED
  BY <1>1, <1>5, <1>6, <1>7, <1>9 DEF Session

(* What a step that changes no table has to show.                          *)
LEMMA LocalStepKeeps ==
  ASSUME IInv, NEW q \in Sessions, LocalStep(q), tx'[q] \in Tx, Session(q)',
         \A o \in Sessions \ {q} : Apart(q, o)'
  PROVE  IInv'
<1>1. TypeOK'
  BY DEF IInv, TypeOK, LocalStep
<1>2. Tables'
  <2>1. Tables /\ UNCHANGED <<event, evidence, mastery, fsrs>>
    BY DEF IInv, LocalStep
  <2>2. EventsAreWhole' /\ LowStaysOut'
    BY <2>1 DEF Tables, EventsAreWhole, LowStaysOut
  <2>3. ScheduleIsValidEvidence'
    BY <2>1 DEF Tables, ScheduleIsValidEvidence, ValidRows
  <2>4. MasteryFromEvidence'
    BY <2>1 DEF Tables, MasteryFromEvidence
  <2> QED
    BY <2>2, <2>3, <2>4 DEF Tables
<1>3. \A o \in Sessions : Session(o)'
  BY OthersStay
<1>4. ASSUME NEW o \in Sessions, NEW u \in Sessions, o # u PROVE Apart(o, u)'
  <2>1. CASE o = q
    BY <1>4, <2>1
  <2>2. CASE u = q
    BY <1>4, <2>2 DEF Apart
  <2>3. CASE o # q /\ u # q
    <3>1. tx'[o] = tx[o] /\ tx'[u] = tx[u] /\ Apart(o, u)
      BY <1>4, <2>3, OthersStay DEF IInv
    <3> QED
      BY <3>1 DEF Apart, Recording
  <2> QED
    BY <2>1, <2>2, <2>3
<1> QED
  BY <1>1, <1>2, <1>3, <1>4 DEF IInv

(* An answered session holds nothing, so nothing has to be shown of it.    *)
LEMMA AnsweredSession ==
  ASSUME NEW q \in Sessions, NEW r \in Replies, tx'[q] = Answer(r)
  PROVE  /\ tx'[q] \in Tx
         /\ Session(q)'
         /\ \A o \in Sessions : Apart(q, o)'
<1> DEFINE t == Answer(r)
<1>1. /\ tx'[q] = t /\ t \in Tx /\ t.pc = "idle"
      /\ t.todo = {} /\ t.done = {} /\ t.added = {} /\ t.locked = {}
      /\ t.frozen = {} /\ t.known = Blank /\ t.plan = Blank
  BY AnswerFacts
<1> HIDE DEF t
<1>2. ~Recording(q)' /\ ~Revoking(q)'
  BY <1>1 DEF Recording, Revoking
<1>3. Progress(q)'
  BY <1>1, <1>2 DEF Progress
<1>4. OnEvent(q)' /\ RecorderPlan(q)' /\ CorrectorPlan(q)'
  BY <1>2 DEF OnEvent, RecorderPlan, CorrectorPlan
<1>5. KnownGrounded(q)'
  BY <1>1 DEF KnownGrounded, Blank
<1>6. \A o \in Sessions : Apart(q, o)'
  BY <1>1, <1>2 DEF Apart
<1> QED
  BY <1>1, <1>3, <1>4, <1>5, <1>6 DEF Session

LEMMA AnswerKeeps ==
  ASSUME IInv, NEW q \in Sessions, NEW r \in Replies,
         UNCHANGED <<event, evidence, mastery, fsrs>>, tx' = [tx EXCEPT ![q] = Answer(r)]
  PROVE  IInv'
<1>1. tx'[q] = Answer(r) /\ LocalStep(q)
  BY DEF IInv, TypeOK, LocalStep
<1> QED
  BY <1>1, AnsweredSession, LocalStepKeeps

-----------------------------------------------------------------------------
(* The steps of a recorder.                                                *)

LEMMA LookKeeps ==
  ASSUME IInv, NEW q \in Sessions, NEW e \in Events, Look(q, e)
  PROVE  IInv'
<1>1. CASE event[e] # "absent"
  BY <1>1, AnswerKeeps DEF Look, Replies
<1>2. CASE event[e] = "absent"
  <2> DEFINE t == [Idle EXCEPT !.pc = "looked", !.event = e]
  <2>1. /\ t \in Tx /\ t.pc = "looked" /\ t.event = e
        /\ t.todo = {} /\ t.done = {} /\ t.added = {} /\ t.locked = {}
        /\ t.frozen = {} /\ t.known = Blank /\ t.plan = Blank
    BY IdleFacts DEF Tx, Pc
  <2>2. tx'[q] = t /\ LocalStep(q)
    BY <1>2 DEF Look, IInv, TypeOK, LocalStep
  <2> HIDE DEF t
  <2>3. ~Recording(q)' /\ ~Revoking(q)'
    BY <2>1, <2>2 DEF Recording, Revoking
  <2>4. Session(q)'
    BY <2>1, <2>2, <2>3 DEF Session, Progress, OnEvent, RecorderPlan, CorrectorPlan,
                            KnownGrounded, Blank
  <2>5. \A o \in Sessions : Apart(q, o)'
    BY <2>1, <2>2, <2>3 DEF Apart
  <2> QED
    BY <2>1, <2>2, <2>4, <2>5, LocalStepKeeps
<1> QED
  BY <1>1, <1>2

LEMMA EnvelopeKeeps ==
  ASSUME IInv, NEW q \in Sessions, Envelope(q)
  PROVE  IInv'
<1>1. CASE EventTaken(q)
  BY <1>1, AnswerKeeps DEF Envelope, Replies
<1>2. CASE ~EventTaken(q)
  <2>1. /\ tx[q] \in Tx /\ tx[q].pc = "looked" /\ tx[q].event \in Events
        /\ tx[q].todo = {} /\ tx[q].done = {} /\ tx[q].added = {} /\ tx[q].locked = {}
        /\ tx[q].frozen = {} /\ tx[q].known = Blank /\ tx[q].plan = Blank
    BY SessionFields DEF IInv, Session, Progress, Envelope
  <2> DEFINE t == [tx[q] EXCEPT !.pc = "open", !.todo = Observed(tx[q].event)]
  <2>2. /\ t \in Tx /\ t.pc = "open" /\ t.event = tx[q].event /\ t.todo = Observed(t.event)
        /\ t.done = {} /\ t.added = {} /\ t.locked = {} /\ t.frozen = {}
        /\ t.known = Blank /\ t.plan = Blank
    BY <2>1 DEF Tx, Pc, Observed
  <2>3. tx'[q] = t /\ LocalStep(q)
    BY <1>2 DEF Envelope, IInv, TypeOK, LocalStep
  <2> HIDE DEF t
  <2>4. Recording(q)' /\ ~Revoking(q)'
    BY <2>2, <2>3 DEF Recording, Revoking
  <2>5. Progress(q)' /\ OnEvent(q)'
    BY <1>2, <2>1, <2>2, <2>3, <2>4 DEF Progress, OnEvent, EventTaken, Envelope, Observed
  <2>6. RecorderPlan(q)' /\ CorrectorPlan(q)' /\ KnownGrounded(q)'
    BY <2>2, <2>3, <2>4 DEF RecorderPlan, CorrectorPlan, KnownGrounded, Blank
  <2>7. ASSUME NEW o \in Sessions \ {q} PROVE Apart(q, o)'
    <3>1. tx'[o] = tx[o] /\ ~(Recording(o) /\ tx[o].event = tx[q].event)
      BY <2>3, OthersStay DEF Envelope, EventInDoubt
    <3> QED
      BY <2>2, <2>3, <3>1 DEF Apart, Recording
  <2> QED
    BY <2>2, <2>3, <2>5, <2>6, <2>7, LocalStepKeeps DEF Session
<1> QED
  BY <1>1, <1>2

(* While its event is recorded, a recorder's evidence is not there yet.    *)
LEMMA OwnEvidenceAbsent ==
  ASSUME IInv, NEW q \in Sessions, Recording(q)
  PROVE  /\ tx[q].event \in Events
         /\ \A x \in tx[q].todo \cup tx[q].done :
              x \in Evidence /\ EventOf[x] = tx[q].event /\ evidence[x] = "absent"
<1>1. tx[q].event \in Events /\ event[tx[q].event] = "absent"
  BY DEF IInv, Session, Progress, OnEvent, Recording
<1>2. tx[q].todo \cup tx[q].done = Observed(tx[q].event)
  BY DEF IInv, Session, Progress
<1> QED
  BY <1>1, <1>2 DEF IInv, Tables, EventsAreWhole, Observed

LEMMA LoadStateKeeps ==
  ASSUME IInv, NEW q \in Sessions, NEW x \in Evidence, LoadState(q, x)
  PROVE  IInv'
<1> DEFINE p == PointOf[x]
           s == tx[q]
           known == IF s.known[p] # None THEN s.known[p] ELSE mastery[p].uses
           t == tx'[q]
<1>1. p \in Points
  BY EvidenceAssumption
<1>2. s \in Tx /\ s.pc = "open" /\ x \in s.todo /\ Session(q)
  BY SessionFields DEF IInv, LoadState
<1>3. known \in Uses /\ known # None
  BY <1>1, NoneApart, SessionFields, TableFields DEF IInv
<1>4. LocalStep(q)
  BY ZenonT(60) DEF LoadState, IInv, TypeOK, LocalStep
<1>5. /\ t \in Tx /\ t.pc \in {"loaded", "adding"} /\ t.cur = x
      /\ t.known = [s.known EXCEPT ![p] = known]
      /\ t.event = s.event /\ t.todo = s.todo /\ t.done = s.done /\ t.added = s.added
      /\ t.locked = s.locked /\ t.plan = s.plan /\ t.frozen = s.frozen
  BY <1>2, <1>3 DEF LoadState, IInv, TypeOK, Tx, Pc
<1>6. s.known \in [Points -> Uses \cup {None}]
  BY <1>2 DEF Tx
<1> HIDE DEF known, t
<1>7. Recording(q) /\ Recording(q)' /\ ~Revoking(q)'
  BY <1>2, <1>5 DEF Recording, Revoking, t
<1>8. Progress(q)' /\ OnEvent(q)' /\ CorrectorPlan(q)'
  BY <1>2, <1>4, <1>5, <1>7 DEF Session, Progress, OnEvent, CorrectorPlan, LocalStep, t
<1>9. RecorderPlan(q)'
  <2>1. \A r \in Points : ValidRows(r)' = ValidRows(r) /\ OwnRows(q, r)' = OwnRows(q, r)
    BY <1>4, <1>5 DEF ValidRows, OwnRows, LocalStep, t
  <2>2. \A r \in Points : s.known[r] # None => t.known[r] # None
    BY <1>3, <1>5, <1>6
  <2>3. t.known[p] # None
    BY <1>1, <1>3, <1>5, <1>6
  <2>4. s.added \cup s.locked \subseteq Points
    BY <1>2 DEF Tx
  <2> QED
    BY <1>2, <1>5, <1>7, <2>1, <2>2, <2>3, <2>4 DEF Session, RecorderPlan, t
<1>10. KnownGrounded(q)'
  <2>1. Pending(q)' = s.done /\ Pending(q) = s.done
    BY <1>2, <1>5, <1>7 DEF Pending, t
  <2>2. evidence' = evidence
    BY <1>4 DEF LocalStep
  <2>3. ASSUME NEW r \in Points, NEW y \in Evidence, t.known[r] # None, t.known[r][y] # 0
        PROVE  /\ t.known[r][y] = 1 /\ PointOf[y] = r /\ y \notin LowConfidence
               /\ evidence[y] \in {"applied", "void"} \/ y \in s.done
    <3>1. CASE s.known[r] # None
      <4>1. t.known[r] = s.known[r]
        BY <1>5, <1>6, <3>1 DEF known
      <4> QED
        BY <1>2, <2>1, <2>3, <3>1, <4>1 DEF Session, KnownGrounded
    <3>2. CASE s.known[r] = None
      <4>1. r = p /\ t.known[r] = mastery[r].uses
        BY <1>5, <1>6, <2>3, <3>2 DEF known
      <4> QED
        BY <2>3, <4>1 DEF IInv, Tables, MasteryFromEvidence
    <3> QED
      BY <3>1, <3>2
  <2> QED
    BY <2>1, <2>2, <2>3 DEF KnownGrounded, t
<1>11. \A o \in Sessions \ {q} : Apart(q, o)'
  BY <1>4, <1>5, <1>7, OthersStay DEF Apart, Recording, IInv, t
<1> QED
  BY <1>4, <1>5, <1>8, <1>9, <1>10, <1>11, LocalStepKeeps DEF Session, t

LEMMA AddStateKeeps ==
  ASSUME IInv, NEW q \in Sessions, AddState(q)
  PROVE  IInv'
<1> DEFINE s == tx[q]
           p == PointOf[s.cur]
           t == tx'[q]
<1>1. CASE mastery[p].row
  BY <1>1, AnswerKeeps DEF AddState, Replies
<1>2. CASE ~mastery[p].row
  <2>1. s \in Tx /\ s.pc = "adding" /\ s.cur \in s.todo /\ Session(q)
    BY SessionFields DEF IInv, AddState, Session, Progress
  <2>2. p \in Points /\ s.cur \in Evidence
    BY <2>1, EvidenceAssumption DEF Tx
  <2>3. LocalStep(q)
    BY <1>2 DEF AddState, IInv, TypeOK, LocalStep
  <2>4. /\ t \in Tx /\ t.pc = "loaded" /\ t.cur = s.cur /\ t.added = s.added \cup {p}
        /\ t.known = s.known /\ t.event = s.event /\ t.todo = s.todo /\ t.done = s.done
        /\ t.locked = s.locked /\ t.plan = s.plan /\ t.frozen = s.frozen
    <3>1. tx \in [Sessions -> Tx]
      BY DEF IInv, TypeOK
    <3>2. t = [s EXCEPT !.pc = "loaded", !.added = s.added \cup {p}]
      BY <1>2, <3>1 DEF AddState
    <3>3. s.added \cup {p} \in SUBSET Points
      BY <2>1, <2>2 DEF Tx
    <3> HIDE DEF p, t
    <3> QED
      BY <2>1, <3>2, <3>3 DEF Tx, Pc
  <2> HIDE DEF t
  <2>5. Recording(q) /\ Recording(q)' /\ ~Revoking(q)'
    BY <2>1, <2>4 DEF Recording, Revoking, t
  <2>6. Progress(q)' /\ OnEvent(q)' /\ CorrectorPlan(q)'
    BY <2>1, <2>3, <2>4, <2>5 DEF Session, Progress, OnEvent, CorrectorPlan, LocalStep, t
  <2>7. RecorderPlan(q)'
    <3>1. \A r \in Points : ValidRows(r)' = ValidRows(r) /\ OwnRows(q, r)' = OwnRows(q, r)
      BY <2>3, <2>4 DEF ValidRows, OwnRows, LocalStep, t
    <3> QED
      BY <2>1, <2>4, <2>5, <3>1 DEF Session, RecorderPlan, t
  <2>8. KnownGrounded(q)'
    <3>1. Pending(q)' = Pending(q) /\ evidence' = evidence
      BY <2>1, <2>3, <2>4, <2>5 DEF Pending, LocalStep, t
    <3> QED
      BY <2>1, <2>4, <3>1 DEF Session, KnownGrounded, t
  <2>9. \A o \in Sessions \ {q} : Apart(q, o)'
    BY <2>3, <2>4, <2>5, OthersStay DEF Apart, Recording, IInv, t
  <2> QED
    BY <2>3, <2>4, <2>6, <2>7, <2>8, <2>9, LocalStepKeeps DEF Session, t
<1> QED
  BY <1>1, <1>2

LEMMA BlockKeeps ==
  ASSUME IInv, NEW q \in Sessions, Block(q)
  PROVE  IInv'
<1> DEFINE s == tx[q]
           t == tx'[q]
<1>1. /\ s \in Tx /\ s.pc = "loaded" /\ s.cur \in s.todo /\ s.cur \in LowConfidence
      /\ Session(q)
  BY SessionFields DEF IInv, Block, Session, Progress
<1>2. s.cur \in Evidence
  BY <1>1 DEF Tx
<1>3. LocalStep(q)
  BY DEF Block, IInv, TypeOK, LocalStep
<1>4. /\ t \in Tx /\ t.pc = "open" /\ t.todo = s.todo \ {s.cur} /\ t.done = s.done \cup {s.cur}
      /\ t.known = s.known /\ t.event = s.event /\ t.added = s.added
      /\ t.locked = s.locked /\ t.plan = s.plan /\ t.frozen = s.frozen
  BY <1>1, <1>2 DEF Block, Finish, IInv, TypeOK, Tx, Pc
<1> HIDE DEF t
<1>5. Recording(q) /\ Recording(q)' /\ ~Revoking(q)'
  BY <1>1, <1>4 DEF Recording, Revoking, t
<1>6. Progress(q)' /\ OnEvent(q)' /\ CorrectorPlan(q)'
  BY <1>1, <1>3, <1>4, <1>5 DEF Session, Progress, OnEvent, CorrectorPlan, LocalStep, t
<1>7. RecorderPlan(q)'
  <2>1. \A r \in Points : ValidRows(r)' = ValidRows(r) /\ OwnRows(q, r)' = OwnRows(q, r)
    BY <1>1, <1>3, <1>4 DEF ValidRows, OwnRows, LocalStep, t
  <2> QED
    BY <1>1, <1>4, <1>5, <2>1 DEF Session, RecorderPlan, t
<1>8. KnownGrounded(q)'
  <2>1. Pending(q) \subseteq Pending(q)' /\ evidence' = evidence
    BY <1>1, <1>3, <1>4, <1>5 DEF Pending, LocalStep, t
  <2> QED
    BY <1>1, <1>4, <2>1 DEF Session, KnownGrounded, t
<1>9. \A o \in Sessions \ {q} : Apart(q, o)'
  BY <1>3, <1>4, <1>5, OthersStay DEF Apart, Recording, IInv, t
<1> QED
  BY <1>3, <1>4, <1>6, <1>7, <1>8, <1>9, LocalStepKeeps DEF Session, t

LEMMA ApplyKeeps ==
  ASSUME IInv, NEW q \in Sessions, Apply(q)
  PROVE  IInv'
<1> DEFINE s == tx[q]
           x == s.cur
           p == PointOf[x]
           t == tx'[q]
<1>1. /\ s \in Tx /\ s.pc = "loaded" /\ x \in s.todo /\ x \notin s.done
      /\ x \notin LowConfidence /\ Session(q) /\ Recording(q)
  BY SessionFields DEF IInv, Apply, Session, Progress, Recording
<1>2. /\ p \in Points /\ x \in Evidence /\ evidence[x] = "absent"
      /\ s.known \in [Points -> Uses \cup {None}] /\ s.known[p] # None
  BY <1>1, OwnEvidenceAbsent, EvidenceAssumption DEF Tx, Session, RecorderPlan
<1>3. s.known[p] \in Uses /\ s.known[p][x] = 0
  <2>1. Pending(q) = s.done
    BY <1>1 DEF Pending
  <2>2. s.known[p] \in Uses
    BY <1>2
  <2> QED
    BY <1>1, <1>2, <2>1, <2>2 DEF Session, KnownGrounded
<1>4. LocalStep(q)
  BY ZenonT(60) DEF Apply, IInv, TypeOK, LocalStep
<1>5. /\ t \in Tx /\ t.pc = "scheduling" /\ t.cur = x /\ t.todo = s.todo /\ t.done = s.done
      /\ t.known = [s.known EXCEPT ![p] = Fold(s.known[p], x)] /\ t.event = s.event
      /\ t.added = s.added /\ t.locked = s.locked \cup {p} /\ t.plan = s.plan
      /\ t.frozen = s.frozen
  <2>1. Fold(s.known[p], x) \in Uses
    BY <1>2, <1>3, FoldFacts
  <2> QED
    BY <1>1, <1>2, <2>1 DEF Apply, IInv, TypeOK, Tx, Pc
<1>6. /\ t.known[p] # None /\ t.known[p][x] = 1
      /\ \A y \in Evidence \ {x} : t.known[p][y] = s.known[p][y]
      /\ \A r \in Points \ {p} : t.known[r] = s.known[r]
  <2> DEFINE u == Fold(s.known[p], x)
  <2>1. /\ u \in Uses /\ u # None /\ u[x] = 1
        /\ \A y \in Evidence \ {x} : u[y] = s.known[p][y]
    BY <1>2, <1>3, FoldFacts
  <2>2. t.known = [s.known EXCEPT ![p] = u]
    BY <1>5
  <2> HIDE DEF u
  <2>3. t.known[p] = u /\ \A r \in Points \ {p} : t.known[r] = s.known[r]
    BY <1>2, <2>2
  <2> QED
    BY <2>1, <2>3
<1> HIDE DEF t
<1>7. Recording(q)' /\ ~Revoking(q)'
  BY <1>5 DEF Recording, Revoking, t
<1>8. Progress(q)' /\ OnEvent(q)' /\ CorrectorPlan(q)'
  BY <1>1, <1>4, <1>5, <1>7 DEF Session, Progress, OnEvent, CorrectorPlan, LocalStep, t
<1>9. RecorderPlan(q)'
  <2>1. \A r \in Points : ValidRows(r)' = ValidRows(r) /\ OwnRows(q, r)' = OwnRows(q, r)
    BY <1>4, <1>5 DEF ValidRows, OwnRows, LocalStep, t
  <2>2. s.added \cup s.locked \subseteq Points
    BY <1>1 DEF Tx
  <2>3. /\ \A r \in Points : s.plan[r] # None =>
             r \in s.locked /\ s.plan[r] = ReplayOf(ValidRows(r) \cup OwnRows(q, r))
        /\ \A y \in s.done : y \notin LowConfidence => s.plan[PointOf[y]] # None
        /\ \A r \in s.added \cup s.locked : s.known[r] # None
    BY <1>1 DEF Session, RecorderPlan
  <2>4. \A r \in Points : t.plan[r] # None =>
          r \in t.locked /\ t.plan[r] = ReplayOf(ValidRows(r)' \cup OwnRows(q, r)')
    BY <1>5, <2>1, <2>3
  <2>5. \A r \in t.added \cup t.locked : t.known[r] # None
    <3>1. \A r \in t.added \cup t.locked : r = p \/ (r \in Points \ {p} /\ r \in s.added \cup s.locked)
      BY <1>5, <2>2
    <3> QED BY <1>6, <2>3, <3>1
  <2>6. t.cur = x /\ p \in t.locked
    BY <1>5
  <2>7. \A y \in t.done : y \notin LowConfidence => t.plan[PointOf[y]] # None
    BY <1>5, <2>3
  <2> QED
    BY <1>1, <1>6, <2>4, <2>5, <2>6, <2>7 DEF RecorderPlan, ReplayOf, t
<1>10. KnownGrounded(q)'
  <2>1. /\ Pending(q) = s.done /\ Pending(q)' = s.done \cup {x} /\ evidence' = evidence
    BY <1>1, <1>4, <1>5, <1>7 DEF Pending, LocalStep, t
  <2>2. ASSUME NEW r \in Points, NEW y \in Evidence, t.known[r] # None, t.known[r][y] # 0
        PROVE  /\ t.known[r][y] = 1 /\ PointOf[y] = r /\ y \notin LowConfidence
               /\ evidence[y] \in {"applied", "void"} \/ y \in s.done \cup {x}
    <3>1. CASE r = p /\ y = x
      BY <1>1, <1>6, <3>1
    <3>2. CASE ~(r = p /\ y = x)
      <4>1. s.known[r] # None /\ t.known[r][y] = s.known[r][y]
        BY <1>2, <1>6, <2>2, <3>2
      <4> QED
        BY <1>1, <2>1, <2>2, <4>1 DEF Session, KnownGrounded
    <3> QED
      BY <3>1, <3>2
  <2> QED
    BY <2>1, <2>2 DEF KnownGrounded, t
<1>11. ASSUME NEW o \in Sessions \ {q} PROVE Apart(q, o)'
  <2>1. tx'[o] = tx[o] /\ Apart(q, o) /\ p \notin tx[o].locked
    BY <1>4, OthersStay DEF IInv, Apply, StateFree
  <2> QED
    BY <1>1, <1>5, <2>1 DEF Apart, Recording, t
<1> QED
  BY <1>4, <1>5, <1>8, <1>9, <1>10, <1>11, LocalStepKeeps DEF Session, t

LEMMA ScheduleKeeps ==
  ASSUME IInv, NEW q \in Sessions, Schedule(q)
  PROVE  IInv'
<1> DEFINE s == tx[q]
<1>0. PICK x \in Evidence, p \in Points : x = s.cur /\ p = PointOf[x]
  <2>1. s.cur \in Evidence
    BY SessionFields DEF IInv, Schedule, Session, Progress
  <2> QED
    BY <2>1, EvidenceAssumption
<1> DEFINE base == ScheduleSeen(q, p)
           t == tx'[q]
<1>1. /\ s \in Tx /\ s.pc = "scheduling" /\ x \in s.todo /\ x \notin s.done
      /\ Session(q) /\ Recording(q)
  BY <1>0, SessionFields DEF IInv, Schedule, Session, Progress, Recording
<1>2. /\ evidence[x] = "absent"
      /\ s.plan \in [Points -> Uses \cup {None}] /\ p \in s.locked /\ x \notin LowConfidence
  BY <1>0, <1>1, OwnEvidenceAbsent DEF Tx, Session, RecorderPlan
<1>3. base = ReplayOf(ValidRows(p) \cup OwnRows(q, p))
  <2>1. CASE s.plan[p] # None
    BY <1>1, <1>2, <2>1 DEF Session, RecorderPlan, ScheduleSeen
  <2>2. CASE s.plan[p] = None
    <3>1. OwnRows(q, p) = {}
      BY <1>1, <2>2 DEF Session, RecorderPlan, OwnRows
    <3>2. fsrs[p] = ReplayOf(ValidRows(p))
      BY <1>2 DEF IInv, Tables, ScheduleIsValidEvidence
    <3> QED
      BY <2>2, <3>1, <3>2 DEF ScheduleSeen
  <2> QED
    BY <2>1, <2>2
<1>4. Fold(base, x) = ReplayOf(ValidRows(p) \cup OwnRows(q, p) \cup {x})
  <2>1. x \notin ValidRows(p) \cup OwnRows(q, p)
    BY <1>1, <1>2 DEF ValidRows, OwnRows
  <2> QED
    BY <1>2, <1>3, <2>1, FoldExtendsReplay
<1>5. LocalStep(q)
  BY DEF Schedule, IInv, TypeOK, LocalStep
<1>6. /\ t \in Tx /\ t.pc = "open" /\ t.todo = s.todo \ {x} /\ t.done = s.done \cup {x}
      /\ t.plan = [s.plan EXCEPT ![p] = Fold(base, x)] /\ t.event = s.event
      /\ t.known = s.known /\ t.added = s.added /\ t.locked = s.locked /\ t.frozen = s.frozen
  <2>1. Fold(base, x) \in Uses
    BY <1>4, ReplayOfFacts
  <2>2. t = [Finish(s) EXCEPT !.pc = "open", !.plan = [s.plan EXCEPT ![p] = Fold(base, x)]]
    <3>1. tx \in [Sessions -> Tx]
      BY DEF IInv, TypeOK
    <3>2. Finish(s).plan = s.plan
      BY <1>1 DEF Finish, Tx
    <3> QED
      BY <1>0, <3>1, <3>2 DEF Schedule
  <2>3. [s.plan EXCEPT ![p] = Fold(base, x)] \in [Points -> Uses \cup {None}]
    BY <1>2, <2>1
  <2> HIDE DEF base, t
  <2> QED
    BY <1>0, <1>1, <2>2, <2>3 DEF Finish, Tx, Pc
<1>7. /\ t.plan[p] = Fold(base, x) /\ t.plan[p] # None
      /\ \A r \in Points \ {p} : t.plan[r] = s.plan[r]
  BY <1>2, <1>4, <1>6, ReplayOfFacts
<1> HIDE DEF base, t
<1>8. Recording(q)' /\ ~Revoking(q)'
  BY <1>6 DEF Recording, Revoking, t
<1>9. Progress(q)' /\ OnEvent(q)' /\ CorrectorPlan(q)'
  BY <1>1, <1>5, <1>6, <1>8 DEF Session, Progress, OnEvent, CorrectorPlan, LocalStep, t
<1>10. RecorderPlan(q)'
  <2>1. \A r \in Points : ValidRows(r)' = ValidRows(r)
    BY <1>5 DEF ValidRows, LocalStep
  <2>2. OwnRows(q, p)' = OwnRows(q, p) \cup {x}
    BY <1>0, <1>2, <1>6 DEF OwnRows, t
  <2>3. \A r \in Points \ {p} : OwnRows(q, r)' = OwnRows(q, r)
    BY <1>0, <1>2, <1>6 DEF OwnRows, t
  <2>4. ASSUME NEW r \in Points, t.plan[r] # None
        PROVE  r \in s.locked /\ t.plan[r] = ReplayOf((ValidRows(r) \cup OwnRows(q, r))')
    <3>1. CASE r = p
      <4>1. (ValidRows(p) \cup OwnRows(q, p))' = ValidRows(p) \cup OwnRows(q, p) \cup {x}
        BY <2>1, <2>2
      <4> QED
        BY <1>2, <1>4, <1>7, <3>1, <4>1
    <3>2. CASE r # p
      <4>1. t.plan[r] = s.plan[r] /\ r \in s.locked
            /\ s.plan[r] = ReplayOf(ValidRows(r) \cup OwnRows(q, r))
        BY <1>1, <1>7, <2>4, <3>2 DEF Session, RecorderPlan
      <4>2. (ValidRows(r) \cup OwnRows(q, r))' = ValidRows(r) \cup OwnRows(q, r)
        BY <2>1, <2>3, <3>2
      <4> QED
        BY <4>1, <4>2
    <3> QED
      BY <3>1, <3>2
  <2>5. ASSUME NEW y \in s.done \cup {x}, y \notin LowConfidence PROVE t.plan[PointOf[y]] # None
    <3>1. PointOf[y] \in Points
      BY <1>1, <1>2, EvidenceAssumption DEF Tx
    <3> QED
      BY <1>0, <1>1, <1>7, <2>5, <3>1 DEF Session, RecorderPlan
  <2> QED
    BY <1>1, <1>6, <1>8, <2>4, <2>5 DEF Session, RecorderPlan, ReplayOf, t
<1>11. KnownGrounded(q)'
  <2>1. Pending(q)' = Pending(q) /\ evidence' = evidence
    BY <1>0, <1>1, <1>5, <1>6, <1>8 DEF Pending, LocalStep, t
  <2> QED
    BY <1>1, <1>6, <2>1 DEF Session, KnownGrounded, t
<1>12. \A o \in Sessions \ {q} : Apart(q, o)'
  BY <1>1, <1>5, <1>6, <1>8, OthersStay DEF Apart, Recording, IInv, t
<1> QED
  BY <1>5, <1>6, <1>9, <1>10, <1>11, <1>12, LocalStepKeeps DEF Session, t

(* The commit of a record: its plans are what the new rows say.            *)
LEMMA RecordedRows ==
  ASSUME IInv, NEW q \in Sessions, CommitRecord(q)
  PROVE  /\ Recording(q) /\ tx[q].done = Observed(tx[q].event)
         /\ event[tx[q].event] = "absent"
         /\ \A x \in Evidence :
              evidence'[x] = IF x \notin tx[q].done THEN evidence[x]
                             ELSE IF x \in LowConfidence THEN "blocked" ELSE "applied"
         /\ \A p \in Points : ValidRows(p)' = ValidRows(p) \cup OwnRows(q, p)
<1>1. Recording(q) /\ Session(q)
  BY DEF IInv, CommitRecord, Recording
<1>2. tx[q].done = Observed(tx[q].event) /\ event[tx[q].event] = "absent"
  BY <1>1 DEF CommitRecord, Session, Progress, OnEvent
<1>3. \A x \in Evidence :
        evidence'[x] = IF x \notin tx[q].done THEN evidence[x]
                       ELSE IF x \in LowConfidence THEN "blocked" ELSE "applied"
  BY DEF CommitRecord, StatusOf
<1>4. \A x \in tx[q].done : x \in Evidence /\ evidence[x] = "absent"
  BY <1>1, OwnEvidenceAbsent
<1>5. ASSUME NEW p \in Points PROVE ValidRows(p)' = ValidRows(p) \cup OwnRows(q, p)
  BY <1>3, <1>4 DEF ValidRows, OwnRows
<1> QED
  BY <1>1, <1>2, <1>3, <1>5

LEMMA RevokedRows ==
  ASSUME IInv, NEW q \in Sessions, CommitRevoke(q)
  PROVE  /\ Revoking(q) /\ tx[q].done = Observed(tx[q].event)
         /\ tx[q].event \in Events /\ event[tx[q].event] # "absent"
         /\ \A x \in Evidence :
              evidence'[x] = IF x \in tx[q].done THEN "void" ELSE evidence[x]
         /\ \A x \in tx[q].done : x \in Evidence /\ evidence[x] # "absent"
         /\ \A p \in Points : ValidRows(p)' = ValidRows(p) \ tx[q].done
         /\ \A p \in tx[q].locked : tx[q].plan[p] # None /\ tx[q].known[p] = tx[q].plan[p]
<1>1. Revoking(q) /\ Session(q)
  BY DEF IInv, CommitRevoke, Revoking
<1>2. /\ tx[q].done = Observed(tx[q].event) /\ event[tx[q].event] # "absent"
      /\ tx[q].event \in Events
  BY <1>1 DEF CommitRevoke, Session, Progress, OnEvent, Revoking
<1>3. \A x \in Evidence : evidence'[x] = IF x \in tx[q].done THEN "void" ELSE evidence[x]
  BY DEF CommitRevoke
<1>4. \A x \in tx[q].done : x \in Evidence /\ evidence[x] # "absent"
  BY <1>2 DEF Observed, IInv, Tables, EventsAreWhole
<1>5. ASSUME NEW p \in Points PROVE ValidRows(p)' = ValidRows(p) \ tx[q].done
  BY <1>3 DEF ValidRows
<1>6. \A p \in tx[q].locked : tx[q].plan[p] # None /\ tx[q].known[p] = tx[q].plan[p]
  BY <1>1 DEF CommitRevoke, Session, CorrectorPlan
<1> QED
  BY <1>1, <1>2, <1>3, <1>4, <1>5, <1>6

(* Commits touch the valid rows only of points whose schedule they write.  *)
LEMMA CommitTouches ==
  ASSUME IInv, NEW q \in Sessions, CommitRecord(q) \/ CommitRevoke(q),
         NEW p \in Points, tx[q].plan[p] = None
  PROVE  ValidRows(p)' = ValidRows(p)
<1>1. CASE CommitRecord(q)
  <2>1. OwnRows(q, p) = {}
    BY <1>1, RecordedRows DEF IInv, Session, RecorderPlan, OwnRows
  <2> QED
    BY <1>1, <2>1, RecordedRows
<1>2. CASE CommitRevoke(q)
  <2>1. \A x \in tx[q].done : PointOf[x] # p
    BY ZenonT(60), <1>2, RevokedRows DEF IInv, Session, CorrectorPlan
  <2> QED
    BY <1>2, <2>1, RevokedRows DEF ValidRows
<1> QED
  BY <1>1, <1>2

(* What it writes to a schedule is the replay of the rows it leaves valid. *)
LEMMA CommitSchedules ==
  ASSUME IInv, NEW q \in Sessions, CommitRecord(q) \/ CommitRevoke(q)
  PROVE  ScheduleIsValidEvidence'
<1> SUFFICES ASSUME NEW p \in Points PROVE fsrs'[p] = ReplayOf(ValidRows(p)')
  BY DEF ScheduleIsValidEvidence, ReplayOf
<1>1. fsrs'[p] = IF tx[q].plan[p] # None THEN tx[q].plan[p] ELSE fsrs[p]
  BY DEF CommitRecord, CommitRevoke, WithSchedules
<1>2. CASE tx[q].plan[p] = None
  BY <1>1, <1>2, CommitTouches DEF IInv, Tables, ScheduleIsValidEvidence
<1>3. CASE tx[q].plan[p] # None
  <2>1. CASE CommitRecord(q)
    <3>1. tx[q].plan[p] = ReplayOf(ValidRows(p) \cup OwnRows(q, p))
      BY <1>3, <2>1, RecordedRows DEF IInv, Session, RecorderPlan
    <3> QED
      BY <1>1, <1>3, <2>1, <3>1, RecordedRows
  <2>2. CASE CommitRevoke(q)
    <3>1. tx[q].plan[p] = ReplayOf(ValidRows(p) \ tx[q].done)
      BY <1>3, <2>2, RevokedRows DEF IInv, Session, CorrectorPlan
    <3> QED
      BY <1>1, <1>3, <2>2, <3>1, RevokedRows
  <2> QED
    BY <2>1, <2>2
<1> QED
  BY <1>2, <1>3

(* The rest of the tables after a commit.                                  *)
LEMMA CommitTables ==
  ASSUME IInv, NEW q \in Sessions, CommitRecord(q) \/ CommitRevoke(q)
  PROVE  TypeOK' /\ Tables'
<1> DEFINE s == tx[q]
<1>1. /\ s \in Tx /\ s.event \in Events /\ s.done = Observed(s.event) /\ Session(q)
      /\ event' = [event EXCEPT ![s.event] = IF Recording(q) THEN "recorded" ELSE "revoked"]
  <2>1. CASE CommitRecord(q)
    BY <2>1, RecordedRows, OwnEvidenceAbsent, SessionFields DEF CommitRecord, IInv
  <2>2. CASE CommitRevoke(q)
    BY <2>2, RevokedRows, SessionFields DEF CommitRevoke, IInv, Recording
  <2> QED
    BY <2>1, <2>2
<1>2. /\ evidence' \in [Evidence -> EvidenceStatus]
      /\ LowStaysOut'
      /\ \A x \in Evidence : evidence'[x] # evidence[x] => x \in s.done
      /\ \A x \in s.done : evidence'[x] # "absent"
      /\ \A x \in s.done : evidence'[x] = "void" <=> ~Recording(q)
      /\ \A x \in Evidence : evidence[x] \in {"applied", "void"} => evidence'[x] \in {"applied", "void"}
  <2>1. CASE CommitRecord(q)
    <3>1. evidence' \in [Evidence -> EvidenceStatus]
      BY <2>1 DEF CommitRecord, StatusOf, EvidenceStatus, IInv, TypeOK
    <3>2. \A x \in s.done : x \in Evidence /\ evidence[x] = "absent"
      BY <2>1, RecordedRows, OwnEvidenceAbsent
    <3> QED
      BY <2>1, <3>1, <3>2, RecordedRows, EvidenceAssumption DEF IInv, Tables, LowStaysOut
  <2>2. CASE CommitRevoke(q)
    <3>1. evidence' \in [Evidence -> EvidenceStatus]
      BY <2>2 DEF CommitRevoke, EvidenceStatus, IInv, TypeOK
    <3>2. ~Recording(q)
      BY <2>2 DEF CommitRevoke, Recording
    <3> QED
      BY <2>2, <3>1, <3>2, RevokedRows, EvidenceAssumption DEF IInv, Tables, LowStaysOut
  <2> QED
    BY <2>1, <2>2
<1>3. \A p \in Points :
        /\ mastery'[p] = IF p \in s.added \cup s.locked
                           THEN [row |-> TRUE, uses |-> s.known[p]] ELSE mastery[p]
        /\ p \in s.added \cup s.locked => s.known[p] \in Uses
        /\ fsrs'[p] = IF s.plan[p] # None THEN s.plan[p] ELSE fsrs[p]
  <2>1. \A p \in s.added \cup s.locked : s.known[p] # None
    <3>1. CASE CommitRecord(q)
      BY <3>1, RecordedRows, <1>1 DEF Session, RecorderPlan
    <3>2. CASE CommitRevoke(q)
      BY <3>2, RevokedRows, <1>1 DEF Session, CorrectorPlan
    <3> QED
      BY <3>1, <3>2
  <2>2. s.known \in [Points -> Uses \cup {None}]
    BY <1>1 DEF Tx
  <2> QED
    BY <2>1, <2>2 DEF CommitRecord, CommitRevoke, WithStates, WithSchedules
<1>4. TypeOK'
  <2>1. event' \in [Events -> EventStatus]
    BY <1>1 DEF IInv, TypeOK, EventStatus
  <2>2. mastery' \in [Points -> State]
    <3>1. ASSUME NEW p \in Points PROVE mastery'[p] \in State
      <4>1. CASE p \in s.added \cup s.locked
        <5>1. mastery'[p] = [row |-> TRUE, uses |-> s.known[p]] /\ s.known[p] \in Uses
          BY <1>3, <4>1
        <5>2. \A u \in Uses : [row |-> TRUE, uses |-> u] \in State
          BY DEF State
        <5> QED
          BY <5>1, <5>2
      <4>2. CASE p \notin s.added \cup s.locked
        BY <1>3, <4>2, TableFields DEF IInv
      <4> QED
        BY <4>1, <4>2
    <3> QED
      BY <3>1 DEF CommitRecord, CommitRevoke, WithStates
  <2>3. fsrs' \in [Points -> Uses]
    <3>1. \A p \in Points : fsrs'[p] \in Uses
      BY <1>1, <1>3, TableFields DEF IInv, Tx
    <3> QED
      BY <3>1 DEF CommitRecord, CommitRevoke, WithSchedules
  <2>4. tx' \in [Sessions -> Tx]
    BY AnswerFacts DEF CommitRecord, CommitRevoke, IInv, TypeOK, Replies
  <2> QED
    BY <1>2, <2>1, <2>2, <2>3, <2>4 DEF TypeOK
<1>5. EventsAreWhole'
  <2> SUFFICES ASSUME NEW x \in Evidence
               PROVE  /\ evidence'[x] = "absent" <=> event'[EventOf[x]] = "absent"
                      /\ evidence'[x] = "void" <=> event'[EventOf[x]] = "revoked"
    BY DEF EventsAreWhole
  <2>1. event \in [Events -> EventStatus] /\ EventOf[x] \in Events
    BY EvidenceAssumption DEF IInv, TypeOK
  <2>2. CASE x \in s.done
    BY <1>1, <1>2, <2>1, <2>2 DEF Observed
  <2>3. CASE x \notin s.done
    BY <1>1, <1>2, <2>1, <2>3 DEF Observed, IInv, Tables, EventsAreWhole
  <2> QED
    BY <2>2, <2>3
<1>6. MasteryFromEvidence'
  <2> SUFFICES ASSUME NEW p \in Points, NEW x \in Evidence, mastery'[p].uses[x] # 0
               PROVE  /\ mastery'[p].uses[x] = 1 /\ PointOf[x] = p
                      /\ evidence'[x] \in {"applied", "void"} /\ x \notin LowConfidence
    BY DEF MasteryFromEvidence
  <2>1. CASE p \in s.added \cup s.locked
    <3>1. mastery'[p].uses = s.known[p] /\ s.known[p] # None
      <4>1. mastery'[p] = [row |-> TRUE, uses |-> s.known[p]]
        BY <1>3, <2>1
      <4> QED
        BY <1>3, <2>1, <4>1, NoneApart
    <3>2. /\ s.known[p][x] = 1 /\ PointOf[x] = p /\ x \notin LowConfidence
          /\ evidence[x] \in {"applied", "void"} \/ x \in Pending(q)
      BY <1>1, <3>1 DEF Session, KnownGrounded
    <3>3. x \in Pending(q) => evidence'[x] = "applied"
      <4>1. CASE CommitRecord(q)
        BY <4>1, <3>2, RecordedRows DEF Pending, CommitRecord
      <4>2. CASE CommitRevoke(q)
        BY <4>2 DEF Pending, CommitRevoke, Recording
      <4> QED
        BY <4>1, <4>2
    <3> QED
      BY <1>2, <3>1, <3>2, <3>3
  <2>2. CASE p \notin s.added \cup s.locked
    <3>1. mastery'[p] = mastery[p]
      BY <1>3, <2>2
    <3> QED
      BY <1>2, <3>1 DEF IInv, Tables, MasteryFromEvidence
  <2> QED
    BY <2>1, <2>2
<1> QED
  BY <1>2, <1>4, <1>5, <1>6, CommitSchedules DEF Tables

(* The locks keep every other transaction's plans good across a commit.    *)
LEMMA CommitOthers ==
  ASSUME IInv, NEW q \in Sessions, CommitRecord(q) \/ CommitRevoke(q),
         NEW o \in Sessions \ {q}
  PROVE  tx'[o] = tx[o] /\ Session(o)'
<1>1. tx'[o] = tx[o] /\ Session(o) /\ Apart(q, o) /\ Session(q)
  BY DEF CommitRecord, CommitRevoke, IInv, TypeOK
<1>2. (Recording(o) <=> Recording(o)') /\ (Revoking(o) <=> Revoking(o)')
  BY <1>1 DEF Recording, Revoking
<1>3. \A p \in Points : OwnRows(o, p)' = OwnRows(o, p)
  BY <1>1 DEF OwnRows
<1>4. \A p \in tx[o].locked : p \in Points /\ ValidRows(p)' = ValidRows(p)
  <2> TAKE p \in tx[o].locked
  <2>1. p \in Points /\ p \notin tx[q].locked
    BY <1>1, SessionFields DEF Apart, IInv
  <2>2. tx[q].plan[p] = None
    <3>1. CASE CommitRecord(q)
      BY <1>1, <2>1, <3>1, RecordedRows DEF Session, RecorderPlan
    <3>2. CASE CommitRevoke(q)
      BY <1>1, <2>1, <3>2, RevokedRows DEF Session, CorrectorPlan
    <3> QED
      BY <3>1, <3>2
  <2> QED
    BY <2>1, <2>2, CommitTouches
<1>5. OnEvent(o)'
  <2>1. event \in [Events -> EventStatus]
    BY DEF IInv, TypeOK
  <2>2. CASE CommitRecord(q)
    <3>1. Recording(q) /\ event' = [event EXCEPT ![tx[q].event] = "recorded"]
      BY <2>2, RecordedRows DEF CommitRecord
    <3>2. Recording(o) => tx[o].event # tx[q].event
      BY <1>1, <3>1 DEF Apart
    <3>3. Recording(o) \/ Revoking(o) => tx[o].event \in Events
      BY <1>1 DEF Session, Progress, Recording, Revoking
    <3> QED
      BY <1>1, <1>2, <2>1, <3>1, <3>2, <3>3 DEF Session, OnEvent
  <2>3. CASE CommitRevoke(q)
    <3>1. event' = [event EXCEPT ![tx[q].event] = "revoked"] /\ event[tx[q].event] # "absent"
      BY <2>3, RevokedRows DEF CommitRevoke
    <3>2. Recording(o) \/ Revoking(o) => tx[o].event \in Events
      BY <1>1 DEF Session, Progress, Recording, Revoking
    <3> QED
      BY <1>1, <1>2, <2>1, <3>1, <3>2 DEF Session, OnEvent
  <2> QED
    BY <2>2, <2>3
<1>6. Progress(o)'
  BY <1>1, <1>2 DEF Session, Progress
<1>7. RecorderPlan(o)'
  BY <1>1, <1>2, <1>3, <1>4 DEF Session, RecorderPlan
<1>8. CorrectorPlan(o)'
  BY <1>1, <1>2, <1>4 DEF Session, CorrectorPlan
<1>9. KnownGrounded(o)'
  <2>1. Pending(o)' = Pending(o)
    BY <1>1, <1>2 DEF Pending
  <2>2. ASSUME NEW x \in Evidence, evidence[x] \in {"applied", "void"}
        PROVE  evidence'[x] \in {"applied", "void"}
    <3>1. CASE CommitRecord(q)
      BY <2>2, <3>1, RecordedRows, OwnEvidenceAbsent
    <3>2. CASE CommitRevoke(q)
      BY <2>2, <3>2, RevokedRows
    <3> QED
      BY <3>1, <3>2
  <2> QED
    BY <1>1, <2>1, <2>2 DEF Session, KnownGrounded
<1> QED
  BY <1>1, <1>5, <1>6, <1>7, <1>8, <1>9 DEF Session

LEMMA CommitKeeps ==
  ASSUME IInv, NEW q \in Sessions, CommitRecord(q) \/ CommitRevoke(q)
  PROVE  IInv'
<1>1. PICK r \in Replies : tx'[q] = Answer(r)
  BY DEF CommitRecord, CommitRevoke, Replies, IInv, TypeOK
<1>2. \A o \in Sessions : Session(o)'
  BY <1>1, AnsweredSession, CommitOthers
<1>3. ASSUME NEW o \in Sessions, NEW u \in Sessions, o # u PROVE Apart(o, u)'
  <2>1. CASE o = q
    BY <1>1, <2>1, AnsweredSession
  <2>2. CASE u = q
    BY <1>1, <2>2, AnsweredSession DEF Apart
  <2>3. CASE o # q /\ u # q
    <3>1. tx'[o] = tx[o] /\ tx'[u] = tx[u] /\ Apart(o, u)
      BY <1>3, <2>3, CommitOthers DEF IInv
    <3> QED
      BY <3>1 DEF Apart, Recording
  <2> QED
    BY <2>1, <2>2, <2>3
<1> QED
  BY <1>2, <1>3, CommitTables DEF IInv

-----------------------------------------------------------------------------
(* The steps of a correction.                                              *)

LEMMA LookRevokeKeeps ==
  ASSUME IInv, NEW q \in Sessions, NEW e \in Events, LookRevoke(q, e)
  PROVE  IInv'
<1>1. CASE event[e] = "absent"
  BY <1>1, AnswerKeeps DEF LookRevoke, Replies
<1>2. CASE event[e] = "revoked"
  BY <1>2, AnswerKeeps DEF LookRevoke, Replies
<1>3. CASE event[e] \notin {"absent", "revoked"}
  <2> DEFINE t == [Idle EXCEPT !.pc = "revoking", !.event = e, !.todo = Revocable(e)]
  <2>1. Revocable(e) = Observed(e)
    BY <1>3 DEF Revocable, Observed, IInv, Tables, EventsAreWhole
  <2>2. /\ t \in Tx /\ t.pc = "revoking" /\ t.event = e /\ t.todo = Observed(e)
        /\ t.done = {} /\ t.added = {} /\ t.locked = {} /\ t.frozen = {}
        /\ t.known = Blank /\ t.plan = Blank
    BY <2>1, IdleFacts DEF Tx, Pc, Observed
  <2>3. tx'[q] = t /\ LocalStep(q)
    BY <1>3 DEF LookRevoke, IInv, TypeOK, LocalStep
  <2> HIDE DEF t
  <2>4. ~Recording(q)' /\ Revoking(q)'
    BY <2>2, <2>3 DEF Recording, Revoking
  <2>5. Progress(q)' /\ OnEvent(q)'
    BY <1>3, <2>2, <2>3, <2>4 DEF Progress, OnEvent, Observed, LocalStep
  <2>6. RecorderPlan(q)' /\ CorrectorPlan(q)' /\ KnownGrounded(q)'
    BY <2>2, <2>3, <2>4 DEF RecorderPlan, CorrectorPlan, KnownGrounded, Blank
  <2>7. \A o \in Sessions : Apart(q, o)'
    BY <2>2, <2>3, <2>4 DEF Apart
  <2> QED
    BY <2>2, <2>3, <2>5, <2>6, <2>7, LocalStepKeeps DEF Session
<1> QED
  BY <1>1, <1>2, <1>3

LEMMA FreezeKeeps ==
  ASSUME IInv, NEW q \in Sessions, NEW x \in Evidence, Freeze(q, x)
  PROVE  IInv'
<1> DEFINE s == tx[q]
           t == tx'[q]
<1>1. s \in Tx /\ s.pc = "revoking" /\ x \in s.todo /\ Session(q) /\ Revoking(q)
  BY SessionFields DEF IInv, Freeze, Revoking
<1>2. LocalStep(q)
  BY DEF Freeze, IInv, TypeOK, LocalStep
<1>3. /\ t \in Tx /\ t.pc = "locking" /\ t.cur = x /\ t.frozen = s.frozen \cup {x}
      /\ t.todo = s.todo /\ t.done = s.done /\ t.known = s.known /\ t.event = s.event
      /\ t.added = s.added /\ t.locked = s.locked /\ t.plan = s.plan
  BY <1>1 DEF Freeze, IInv, TypeOK, Tx, Pc
<1> HIDE DEF t
<1>4. ~Recording(q)' /\ Revoking(q)' /\ ~Recording(q)
  BY <1>1, <1>3 DEF Recording, Revoking, t
<1>5. Progress(q)' /\ OnEvent(q)' /\ RecorderPlan(q)'
  BY <1>1, <1>2, <1>3, <1>4 DEF Session, Progress, OnEvent, RecorderPlan, LocalStep, t
<1>6. CorrectorPlan(q)'
  <2>1. \A r \in Points : ValidRows(r)' = ValidRows(r)
    BY <1>2 DEF ValidRows, LocalStep
  <2> QED
    BY <1>1, <1>3, <1>4, <2>1 DEF Session, CorrectorPlan, t
<1>7. KnownGrounded(q)'
  BY <1>1, <1>2, <1>3, <1>4 DEF Session, KnownGrounded, Pending, Recording, LocalStep, t
<1>8. \A o \in Sessions \ {q} : Apart(q, o)'
  BY <1>2, <1>3, <1>4, OthersStay DEF Apart, IInv, t
<1> QED
  BY <1>2, <1>3, <1>5, <1>6, <1>7, <1>8, LocalStepKeeps DEF Session, t

LEMMA LockStateKeeps ==
  ASSUME IInv, NEW q \in Sessions, LockState(q)
  PROVE  IInv'
<1> DEFINE s == tx[q]
           t == tx'[q]
<1>1. /\ s \in Tx /\ s.pc = "locking" /\ s.cur \in s.todo /\ Session(q) /\ Revoking(q)
      /\ PointOf[s.cur] \in Points
  <2>1. /\ s \in Tx /\ s.pc = "locking" /\ s.cur \in s.todo /\ Session(q) /\ Revoking(q)
    BY SessionFields DEF IInv, LockState, Session, Progress, Revoking
  <2> QED
    BY <2>1, EvidenceAssumption DEF Tx
<1>2. LocalStep(q)
  BY DEF LockState, IInv, TypeOK, LocalStep
<1>3. /\ t \in Tx /\ t.pc = "replaying" /\ t.cur = s.cur /\ t.frozen = s.frozen
      /\ t.locked = s.locked \cup {PointOf[s.cur]}
      /\ t.todo = s.todo /\ t.done = s.done /\ t.known = s.known /\ t.event = s.event
      /\ t.added = s.added /\ t.plan = s.plan
  BY <1>1 DEF LockState, IInv, TypeOK, Tx, Pc
<1> HIDE DEF t
<1>4. ~Recording(q)' /\ Revoking(q)' /\ ~Recording(q)
  BY <1>1, <1>3 DEF Recording, Revoking, t
<1>5. Progress(q)' /\ OnEvent(q)' /\ RecorderPlan(q)'
  BY <1>1, <1>2, <1>3, <1>4 DEF Session, Progress, OnEvent, RecorderPlan, LocalStep, t
<1>6. CorrectorPlan(q)'
  <2>1. \A r \in Points : ValidRows(r)' = ValidRows(r)
    BY <1>2 DEF ValidRows, LocalStep
  <2> QED
    BY <1>1, <1>3, <1>4, <2>1 DEF Session, CorrectorPlan, t
<1>7. KnownGrounded(q)'
  BY <1>1, <1>2, <1>3, <1>4 DEF Session, KnownGrounded, Pending, Recording, LocalStep, t
<1>8. ASSUME NEW o \in Sessions \ {q} PROVE Apart(q, o)'
  <2>1. tx'[o] = tx[o] /\ Apart(q, o) /\ PointOf[s.cur] \notin tx[o].locked
    BY <1>2, OthersStay DEF IInv, LockState, StateFree
  <2> QED
    BY <1>3, <1>4, <2>1 DEF Apart, t
<1> QED
  BY <1>2, <1>3, <1>5, <1>6, <1>7, <1>8, LocalStepKeeps DEF Session, t

LEMMA ReplayKeeps ==
  ASSUME IInv, NEW q \in Sessions, Replay(q)
  PROVE  IInv'
<1> DEFINE s == tx[q]
<1>0. PICK x \in Evidence, p \in Points : x = s.cur /\ p = PointOf[x]
  <2>1. s.cur \in Evidence
    BY SessionFields DEF IInv, Replay, Session, Progress
  <2> QED
    BY <2>1, EvidenceAssumption
<1> DEFINE rest == ValidRows(p) \ (s.done \cup {x})
           t == tx'[q]
<1>1. /\ s \in Tx /\ s.pc = "replaying" /\ x \in s.todo /\ Session(q) /\ Revoking(q)
  BY <1>0, SessionFields DEF IInv, Replay, Session, Progress, Revoking
<1>2. /\ s.frozen = s.done \cup {x} /\ s.known = s.plan /\ p \in s.locked
      /\ s.plan \in [Points -> Uses \cup {None}]
  BY <1>0, <1>1 DEF Session, CorrectorPlan, Tx
<1>3. Valid(q, p) = rest
  BY <1>2 DEF Valid, ValidRows
<1>4. ScheduleSeen(q, p) = NoUses => ReplayOf(rest) = NoUses
  <2>1. CASE s.plan[p] # None
    <3>1. s.plan[p] = ReplayOf(ValidRows(p) \ s.done)
      BY <1>1, <2>1 DEF Session, CorrectorPlan
    <3>2. rest \subseteq ValidRows(p) \ s.done
      OBVIOUS
    <3> QED
      BY <2>1, <3>1, <3>2, EmptyReplay DEF ScheduleSeen
  <2>2. CASE s.plan[p] = None
    <3>1. fsrs[p] = ReplayOf(ValidRows(p))
      BY DEF IInv, Tables, ScheduleIsValidEvidence
    <3>2. rest \subseteq ValidRows(p)
      OBVIOUS
    <3> QED
      BY <2>2, <3>1, <3>2, EmptyReplay DEF ScheduleSeen
  <2> QED
    BY <2>1, <2>2
<1>5. LocalStep(q)
  BY DEF Replay, IInv, TypeOK, LocalStep
<1>6. t = [Finish(s) EXCEPT !.pc = "revoking", !.known[p] = ReplayOf(rest),
                            !.plan[p] = ReplayOf(rest)]
  <2>1. tx \in [Sessions -> Tx]
    BY DEF IInv, TypeOK
  <2>2. (IF ScheduleSeen(q, p) = NoUses THEN NoUses ELSE ReplayOf(rest)) = ReplayOf(rest)
    BY <1>4
  <2> HIDE DEF rest
  <2> QED
    BY <1>0, <1>3, <2>1, <2>2 DEF Replay
<1>7. [s.plan EXCEPT ![p] = ReplayOf(rest)] \in [Points -> Uses \cup {None}]
  BY <1>2, ReplayOfFacts
<1> HIDE DEF rest, t
<1>8. /\ t \in Tx /\ t.pc = "revoking" /\ t.todo = s.todo \ {x} /\ t.done = s.done \cup {x}
      /\ t.plan = [s.plan EXCEPT ![p] = ReplayOf(rest)]
      /\ t.known = [s.known EXCEPT ![p] = ReplayOf(rest)] /\ t.frozen = s.frozen
      /\ t.event = s.event /\ t.added = s.added /\ t.locked = s.locked
  BY ZenonT(60), <1>0, <1>1, <1>2, <1>6, <1>7 DEF Finish, Tx, Pc
<1>9. /\ t.plan[p] = ReplayOf(rest) /\ t.plan[p] # None
      /\ \A r \in Points \ {p} : t.plan[r] = s.plan[r]
      /\ t.known = t.plan
  BY <1>2, <1>8, ReplayOfFacts
<1>10. ~Recording(q)' /\ Revoking(q)' /\ ~Recording(q)
  BY <1>1, <1>8 DEF Recording, Revoking, t
<1>11. Progress(q)' /\ OnEvent(q)' /\ RecorderPlan(q)'
  BY <1>1, <1>5, <1>8, <1>10 DEF Session, Progress, OnEvent, RecorderPlan, LocalStep, t
<1>12. CorrectorPlan(q)'
  <2>1. \A r \in Points : ValidRows(r)' = ValidRows(r)
    BY <1>5 DEF ValidRows, LocalStep
  <2>2. ASSUME NEW r \in Points, t.plan[r] # None
        PROVE  r \in s.locked /\ t.plan[r] = ReplayOf(ValidRows(r) \ (s.done \cup {x}))
    <3>1. CASE r = p
      BY <1>2, <1>9, <3>1 DEF rest
    <3>2. CASE r # p
      <4>1. r \in s.locked /\ t.plan[r] = ReplayOf(ValidRows(r) \ s.done)
        BY <1>1, <1>9, <2>2, <3>2 DEF Session, CorrectorPlan
      <4>2. ValidRows(r) \ s.done = ValidRows(r) \ (s.done \cup {x})
        BY <1>0, <3>2 DEF ValidRows
      <4> QED
        BY <4>1, <4>2
    <3> QED
      BY <3>1, <3>2
  <2>3. ASSUME NEW y \in s.done \cup {x} PROVE t.plan[PointOf[y]] # None
    <3>1. PointOf[y] \in Points
      BY <1>1, EvidenceAssumption DEF Tx
    <3> QED
      BY <1>0, <1>1, <1>9, <2>3, <3>1 DEF Session, CorrectorPlan
  <2>4. ASSUME NEW r \in s.locked PROVE t.plan[r] # None
    <3>1. r \in Points
      BY <1>1 DEF Tx
    <3> QED
      BY <1>0, <1>1, <1>9, <2>4, <3>1 DEF Session, CorrectorPlan
  <2>5. ASSUME NEW r \in Points, t.plan[r] # None
        PROVE  r \in t.locked /\ t.plan[r] = ReplayOf(ValidRows(r)' \ t.done)
    BY <1>8, <2>1, <2>2, <2>5
  <2> QED
    BY <1>1, <1>2, <1>8, <1>9, <1>10, <2>3, <2>4, <2>5 DEF Session, CorrectorPlan, ReplayOf, t
<1>13. KnownGrounded(q)'
  <2>1. evidence' = evidence /\ Pending(q) = {}
    BY <1>1, <1>5, <1>10 DEF Pending, LocalStep, Recording
  <2>2. ASSUME NEW r \in Points, NEW y \in Evidence, t.known[r] # None, t.known[r][y] # 0
        PROVE  /\ t.known[r][y] = 1 /\ PointOf[y] = r /\ y \notin LowConfidence
               /\ evidence[y] \in {"applied", "void"}
    <3>1. CASE r = p
      <4>1. t.known[r][y] = IF y \in rest THEN 1 ELSE 0
        BY <1>9, <3>1, ReplayOfFacts
      <4> QED
        BY <2>2, <3>1, <4>1 DEF rest, ValidRows, IInv, Tables, LowStaysOut
    <3>2. CASE r # p
      <4>1. t.known[r] = s.known[r]
        BY <1>2, <1>9, <3>2
      <4> QED
        BY <1>1, <2>1, <2>2, <4>1 DEF Session, KnownGrounded
    <3> QED
      BY <3>1, <3>2
  <2> QED
    BY <2>1, <2>2 DEF KnownGrounded, t
<1>14. \A o \in Sessions \ {q} : Apart(q, o)'
  BY <1>5, <1>8, <1>10, OthersStay DEF Apart, IInv, t
<1> QED
  BY <1>5, <1>8, <1>11, <1>12, <1>13, <1>14, LocalStepKeeps DEF Session, t

LEMMA FailKeeps ==
  ASSUME IInv, NEW q \in Sessions, Fail(q)
  PROVE  IInv'
BY AnswerKeeps DEF Fail, Replies

-----------------------------------------------------------------------------
(* The invariant, and what follows from it.                                *)

LEMMA IInvInit == Init => IInv
<1> SUFFICES ASSUME Init PROVE IInv
  OBVIOUS
<1>1. TypeOK
  BY IdleFacts, NoUsesFacts DEF Init, TypeOK, EventStatus, EvidenceStatus, State
<1>2. Tables
  <2>1. EventsAreWhole /\ LowStaysOut
    BY EvidenceAssumption DEF Init, EventsAreWhole, LowStaysOut
  <2>2. ScheduleIsValidEvidence
    BY DEF Init, ScheduleIsValidEvidence, ValidRows, ReplayOf, NoUses
  <2>3. MasteryFromEvidence
    BY DEF Init, MasteryFromEvidence, NoUses
  <2> QED
    BY <2>1, <2>2, <2>3 DEF Tables
<1>3. ASSUME NEW q \in Sessions PROVE Session(q) /\ ~Recording(q) /\ tx[q].locked = {}
  <2>1. tx[q] = Idle
    BY DEF Init
  <2>2. ~Recording(q) /\ ~Revoking(q)
    BY <2>1, IdleFacts DEF Recording, Revoking
  <2> QED
    BY <2>1, <2>2, IdleFacts DEF Session, Progress, OnEvent, RecorderPlan, CorrectorPlan,
                                 KnownGrounded, Blank
<1> QED
  BY <1>1, <1>2, <1>3 DEF IInv, Apart

LEMMA IInvStep == IInv /\ [Next]_vars => IInv'
<1> SUFFICES ASSUME IInv, [Next]_vars PROVE IInv'
  OBVIOUS
<1>1. CASE UNCHANGED vars
  <2> SUFFICES ASSUME UNCHANGED vars PROVE IInv'
    BY <1>1
  <2>1. TypeOK' /\ \A q \in Sessions : tx'[q] = tx[q]
    BY DEF vars, IInv, TypeOK
  <2>2. ScheduleIsValidEvidence' /\ MasteryFromEvidence' /\ EventsAreWhole' /\ LowStaysOut'
    BY DEF vars, IInv, Tables, EventsAreWhole, LowStaysOut, ScheduleIsValidEvidence,
           ValidRows, MasteryFromEvidence
  <2>3. ASSUME NEW q \in Sessions PROVE Session(q)'
    <3>1. Session(q)
      BY DEF IInv
    <3>2. Progress(q)' /\ OnEvent(q)'
      BY <3>1 DEF vars, Session, Progress, OnEvent, Recording, Revoking
    <3>3. RecorderPlan(q)' /\ CorrectorPlan(q)'
      BY <3>1 DEF vars, Session, RecorderPlan, CorrectorPlan, Recording, Revoking, ValidRows, OwnRows
    <3>4. KnownGrounded(q)'
      BY <3>1 DEF vars, Session, KnownGrounded, Pending, Recording
    <3> QED
      BY <3>2, <3>3, <3>4 DEF Session
  <2>4. ASSUME NEW q \in Sessions, NEW o \in Sessions, q # o PROVE Apart(q, o)'
    BY <2>4 DEF vars, IInv, Apart, Recording
  <2> QED
    BY <2>1, <2>2, <2>3, <2>4 DEF IInv, Tables
<1>2. ASSUME NEW q \in Sessions, NEW e \in Events, Look(q, e) \/ LookRevoke(q, e) PROVE IInv'
  BY <1>2, LookKeeps, LookRevokeKeeps
<1>3. ASSUME NEW q \in Sessions, Record(q) PROVE IInv'
  BY <1>3, EnvelopeKeeps, LoadStateKeeps, AddStateKeeps, BlockKeeps, ApplyKeeps, ScheduleKeeps,
     CommitKeeps DEF Record
<1>4. ASSUME NEW q \in Sessions, Revoke(q) PROVE IInv'
  BY <1>4, FreezeKeeps, LockStateKeeps, ReplayKeeps, CommitKeeps DEF Revoke
<1>5. ASSUME NEW q \in Sessions, Fail(q) PROVE IInv'
  BY <1>5, FailKeeps
<1> QED
  BY <1>1, <1>2, <1>3, <1>4, <1>5 DEF Next

THEOREM InvariantHolds == Spec => []IInv
BY IInvInit, IInvStep, PTL DEF Spec

(* Type correctness of the tables and of every open transaction.           *)
THEOREM TypeCorrectness == Spec => []TypeOK
<1>1. IInv => TypeOK
  BY DEF IInv
<1> QED
  BY <1>1, InvariantHolds, PTL

(* Whatever recorders and corrections are under way, the committed review  *)
(* schedule of every point is the replay of its valid evidence.            *)
THEOREM SchedulesAreValidEvidence == Spec => []ScheduleIsValidEvidence
<1>1. IInv => ScheduleIsValidEvidence
  BY DEF IInv, Tables
<1> QED
  BY <1>1, InvariantHolds, PTL

(* The committed mastery counts recorded evidence of its own point only,   *)
(* above the threshold, and each row at most once.                         *)
THEOREM MasteryIsGrounded == Spec => []MasteryFromEvidence
<1>1. IInv => MasteryFromEvidence
  BY DEF IInv, Tables
<1> QED
  BY <1>1, InvariantHolds, PTL

(* An event and its evidence are recorded together and voided together.    *)
THEOREM EventsTakeEffectWhole == Spec => []EventsAreWhole
<1>1. IInv => EventsAreWhole
  BY DEF IInv, Tables
<1> QED
  BY <1>1, InvariantHolds, PTL

(* Only the commit of a correction voids evidence, and the plan it writes  *)
(* is the replay of what it leaves valid.                                  *)
LEMMA VoidingStep ==
  ASSUME IInv, [Next]_vars, NEW x \in Evidence, evidence[x] # "void", evidence'[x] = "void"
  PROVE  mastery'[PointOf[x]].uses = ReplayOf(ValidRows(PointOf[x])')
<1> DEFINE p == PointOf[x]
<1>1. evidence' # evidence /\ p \in Points
  BY EvidenceAssumption
<1>2. PICK q \in Sessions : CommitRecord(q) \/ CommitRevoke(q)
  BY ZenonT(60), <1>1 DEF Next, vars, Record, Revoke, Look, LookRevoke, Envelope, LoadState, AddState, Block,
              Apply, Schedule, Freeze, LockState, Replay, Fail
<1>3. CASE CommitRecord(q)
  BY <1>3, RecordedRows
<1>4. CASE CommitRevoke(q)
  <2>1. x \in tx[q].done
    BY <1>4, RevokedRows
  <2>2. /\ tx[q].plan[p] # None /\ p \in tx[q].locked /\ tx[q].known[p] = tx[q].plan[p]
        /\ tx[q].plan[p] = ReplayOf(ValidRows(p) \ tx[q].done)
    BY ZenonT(60), <1>1, <1>4, <2>1, RevokedRows DEF IInv, Session, CorrectorPlan
  <2>3. mastery'[p].uses = tx[q].known[p]
    BY <1>1, <1>4, <2>2 DEF CommitRevoke, WithStates
  <2> QED
    BY <1>1, <1>4, <2>2, <2>3, RevokedRows
<1> QED
  BY <1>2, <1>3, <1>4

(* The commit of every correction leaves the mastery of the points it      *)
(* touches equal to the replay of the evidence that is still valid.        *)
THEOREM CorrectionsRebuild == Spec => CorrectionRebuilds
<1>1. IInv /\ [Next]_vars =>
        [\A x \in Evidence :
           evidence[x] # "void" /\ evidence'[x] = "void" =>
             mastery'[PointOf[x]].uses = ReplayOf(ValidRows(PointOf[x])')]_vars
  BY VoidingStep
<1> QED
  BY <1>1, InvariantHolds, PTL DEF Spec, CorrectionRebuilds

-----------------------------------------------------------------------------
(* What overlap alone breaks.  _update_knowledge loads a knowledge state   *)
(* without a lock; while no two calls have loaded the state of one point,  *)
(* the mastery is as exact as the schedule.                                *)

LoadsApart ==
  \A q, o \in Sessions, p \in Points :
    q # o => tx[q].known[p] = None \/ tx[o].known[p] = None

MasteryIsReplay == \A p \in Points : mastery[p].uses = ReplayOf(ValidRows(p))

PendingRows(q, p) == {x \in Pending(q) : PointOf[x] = p /\ x \notin LowConfidence}

(* What a recorder has loaded is the committed evidence plus its own.      *)
LoadedIsReplay(q) ==
  Recording(q) => \A p \in Points :
    tx[q].known[p] # None => tx[q].known[p] = ReplayOf(ValidRows(p) \cup PendingRows(q, p))

Replayed == MasteryIsReplay /\ \A q \in Sessions : LoadedIsReplay(q)

(* A recorder has nothing of its own on a point it has not loaded.         *)
LEMMA UnloadedPoint ==
  ASSUME IInv, NEW q \in Sessions, Recording(q), NEW p \in Points, tx[q].known[p] = None
  PROVE  PendingRows(q, p) = {} /\ tx[q].plan[p] = None
<1>1. p \notin tx[q].locked /\ tx[q].plan[p] = None BY DEF IInv, Session, RecorderPlan
<1>2. \A x \in Pending(q) : x \in tx[q].done \/ (x = tx[q].cur /\ tx[q].pc = "scheduling")
  BY DEF Pending
<1>3. \A x \in tx[q].done : x \notin LowConfidence => PointOf[x] # p
  BY <1>1 DEF IInv, Session, RecorderPlan
<1>4. tx[q].pc = "scheduling" => PointOf[tx[q].cur] # p
  BY <1>1 DEF IInv, Session, RecorderPlan
<1> QED BY <1>1, <1>2, <1>3, <1>4 DEF PendingRows

(* A step that writes no table disturbs only what its own call has loaded. *)
LEMMA LocalReplayed ==
  ASSUME IInv, Replayed, NEW q \in Sessions, LocalStep(q), LoadedIsReplay(q)'
  PROVE  Replayed'
<1>1. \A p \in Points : ValidRows(p)' = ValidRows(p) /\ mastery' = mastery
  BY DEF LocalStep, ValidRows
<1>2. MasteryIsReplay'
  <2>1. \A p \in Points : mastery[p].uses = ReplayOf(ValidRows(p))
    BY DEF Replayed, MasteryIsReplay
  <2> QED BY <1>1, <2>1 DEF MasteryIsReplay, ReplayOf
<1>3. ASSUME NEW o \in Sessions \ {q} PROVE LoadedIsReplay(o)'
  <2>1. tx'[o] = tx[o] /\ LoadedIsReplay(o) BY DEF LocalStep, IInv, TypeOK, Replayed
  <2>2. (Recording(o)' <=> Recording(o)) /\ Pending(o)' = Pending(o)
    BY <2>1 DEF Recording, Pending
  <2>3. \A p \in Points : PendingRows(o, p)' = PendingRows(o, p) BY <2>2 DEF PendingRows
  <2> QED BY <1>1, <2>1, <2>2, <2>3 DEF LoadedIsReplay
<1> QED BY <1>2, <1>3 DEF Replayed

LEMMA LoadStateReplayed ==
  ASSUME IInv, Replayed, NEW q \in Sessions, NEW x \in Evidence, LoadState(q, x)
  PROVE  Replayed'
<1> DEFINE p == PointOf[x]
           s == tx[q]
<1>1. p \in Points /\ Recording(q) /\ s.known \in [Points -> Uses \cup {None}] /\ s \in Tx
  BY EvidenceAssumption, SessionFields DEF IInv, LoadState, Recording
<1>2. LocalStep(q) BY ZenonT(60) DEF LoadState, IInv, TypeOK, LocalStep
<1>3. /\ tx'[q].known = [s.known EXCEPT ![p] = IF s.known[p] # None THEN s.known[p]
                                                                 ELSE mastery[p].uses]
      /\ tx'[q].done = s.done /\ tx'[q].pc \in {"loaded", "adding"}
  <2> DEFINE t == tx'[q]
             known == IF s.known[p] # None THEN s.known[p] ELSE mastery[p].uses
  <2>1. known \in Uses /\ known # None BY <1>1, NoneApart, TableFields DEF IInv
  <2>2. x \in s.todo /\ s.pc = "open" BY DEF LoadState
  <2>3. t.known = [s.known EXCEPT ![p] = known] /\ t.done = s.done
        /\ t.pc \in {"loaded", "adding"} /\ t \in Tx
    BY <1>1, <2>1, <2>2 DEF LoadState, IInv, TypeOK, Tx, Pc
  <2> QED BY <2>3
<1>4. Pending(q)' = Pending(q) BY <1>1, <1>3 DEF Pending, Recording, LoadState
<1>5. ASSUME NEW r \in Points, tx'[q].known[r] # None
      PROVE  tx'[q].known[r] = ReplayOf(ValidRows(r) \cup PendingRows(q, r))
  <2>1. CASE s.known[r] # None
    BY <1>1, <1>3, <2>1 DEF Replayed, LoadedIsReplay
  <2>2. CASE s.known[r] = None
    <3>1. r = p /\ tx'[q].known[r] = mastery[p].uses BY <1>1, <1>3, <1>5, <2>2
    <3>2. PendingRows(q, r) = {} BY <1>1, <2>2, UnloadedPoint
    <3> QED BY <3>1, <3>2 DEF Replayed, MasteryIsReplay
  <2> QED BY <2>1, <2>2
<1>6. \A r \in Points : ValidRows(r)' = ValidRows(r) /\ PendingRows(q, r)' = PendingRows(q, r)
  BY <1>2, <1>4 DEF LocalStep, ValidRows, PendingRows
<1>7. LoadedIsReplay(q)' BY <1>5, <1>6 DEF LoadedIsReplay
<1> QED BY <1>2, <1>7, LocalReplayed

(* The update folds the new row into the replay of the others.             *)
LEMMA ApplyReplayed ==
  ASSUME IInv, Replayed, NEW q \in Sessions, Apply(q)
  PROVE  Replayed'
<1> DEFINE s == tx[q]
<1>0. PICK x \in Evidence, p \in Points : x = s.cur /\ p = PointOf[x]
  <2>1. s.cur \in Evidence BY SessionFields DEF IInv, Apply, Session, Progress
  <2> QED BY <2>1, EvidenceAssumption
<1>1. /\ s \in Tx /\ s.pc = "loaded" /\ x \in s.todo /\ x \notin s.done
      /\ x \notin LowConfidence /\ Recording(q) /\ evidence[x] = "absent"
      /\ s.known \in [Points -> Uses \cup {None}] /\ s.known[p] # None
  BY <1>0, OwnEvidenceAbsent, SessionFields
  DEF IInv, Apply, Session, Progress, Recording, RecorderPlan
<1>2. LocalStep(q) BY ZenonT(60) DEF Apply, IInv, TypeOK, LocalStep
<1>3. /\ tx'[q].known = [s.known EXCEPT ![p] = Fold(s.known[p], x)]
      /\ tx'[q].pc = "scheduling" /\ tx'[q].done = s.done /\ tx'[q].cur = x
  BY <1>0, <1>1 DEF Apply, IInv, TypeOK, Tx
<1>4. Pending(q) = s.done /\ Pending(q)' = s.done \cup {x} BY <1>1, <1>3 DEF Pending
<1>5. \A r \in Points : ValidRows(r)' = ValidRows(r) BY <1>2 DEF LocalStep, ValidRows
<1>6. /\ PendingRows(q, p)' = PendingRows(q, p) \cup {x}
      /\ \A r \in Points \ {p} : PendingRows(q, r)' = PendingRows(q, r)
  BY <1>0, <1>1, <1>4 DEF PendingRows
<1>7. Fold(s.known[p], x) = ReplayOf(ValidRows(p) \cup PendingRows(q, p) \cup {x})
  <2>1. x \notin ValidRows(p) \cup PendingRows(q, p) BY <1>1, <1>4 DEF ValidRows, PendingRows
  <2>2. s.known[p] = ReplayOf(ValidRows(p) \cup PendingRows(q, p))
    BY <1>1 DEF Replayed, LoadedIsReplay
  <2> QED BY <2>1, <2>2, FoldExtendsReplay
<1>8. ASSUME NEW r \in Points, tx'[q].known[r] # None
      PROVE  tx'[q].known[r] = ReplayOf(ValidRows(r)' \cup PendingRows(q, r)')
  <2>1. CASE r = p
    <3>1. ValidRows(p)' \cup PendingRows(q, p)' = ValidRows(p) \cup PendingRows(q, p) \cup {x}
      BY <1>5, <1>6
    <3>2. tx'[q].known[p] = Fold(s.known[p], x) BY <1>1, <1>3
    <3> QED BY <1>7, <2>1, <3>1, <3>2
  <2>2. CASE r # p
    <3>1. tx'[q].known[r] = s.known[r] BY <1>1, <1>3, <2>2
    <3>2. ValidRows(r)' = ValidRows(r) /\ PendingRows(q, r)' = PendingRows(q, r)
      BY <1>5, <1>6, <2>2
    <3> QED BY <1>1, <1>8, <3>1, <3>2 DEF Replayed, LoadedIsReplay
  <2> QED BY <2>1, <2>2
<1>9. LoadedIsReplay(q)' BY <1>8 DEF LoadedIsReplay, ReplayOf
<1> QED BY <1>2, <1>9, LocalReplayed

(* Steps that fold nothing into a state.                                   *)
LEMMA QuietReplayed ==
  ASSUME IInv, Replayed, NEW q \in Sessions, LocalStep(q), Recording(q),
         tx'[q].known = tx[q].known,
         \A x \in Evidence \ LowConfidence : x \in Pending(q)' <=> x \in Pending(q)
  PROVE  Replayed'
<1>1. Pending(q) \subseteq Evidence
  BY SessionFields DEF IInv, Pending, Session, Progress
<1>2. \A p \in Points, x \in Evidence :
        x \in (ValidRows(p) \cup PendingRows(q, p))' <=> x \in ValidRows(p) \cup PendingRows(q, p)
  BY DEF LocalStep, ValidRows, PendingRows
<1>3. \A p \in Points :
        ReplayOf((ValidRows(p) \cup PendingRows(q, p))') = ReplayOf(ValidRows(p) \cup PendingRows(q, p))
  BY <1>2, ReplayOfEqual
<1>4. LoadedIsReplay(q)'
  BY <1>3 DEF Replayed, LoadedIsReplay, ReplayOf
<1> QED BY <1>4, LocalReplayed

(* A session that does not record has loaded nothing to be checked.        *)
LEMMA UnrecordedReplayed ==
  ASSUME IInv, Replayed, NEW q \in Sessions, LocalStep(q), ~Recording(q)'
  PROVE  Replayed'
BY LocalReplayed DEF LoadedIsReplay

LEMMA AnswerReplayed ==
  ASSUME IInv, Replayed, NEW q \in Sessions, NEW r \in Replies,
         UNCHANGED <<event, evidence, mastery, fsrs>>, tx' = [tx EXCEPT ![q] = Answer(r)]
  PROVE  Replayed'
<1>1. tx'[q] = Answer(r) /\ LocalStep(q) BY DEF IInv, TypeOK, LocalStep
<1>2. ~Recording(q)' BY <1>1, AnswerFacts DEF Recording
<1> QED BY <1>1, <1>2, UnrecordedReplayed

LEMMA LookReplayed ==
  ASSUME IInv, Replayed, NEW q \in Sessions, NEW e \in Events, Look(q, e)
  PROVE  Replayed'
<1>1. CASE event[e] # "absent" BY <1>1, AnswerReplayed DEF Look, Replies
<1>2. CASE event[e] = "absent"
  <2> DEFINE t == [Idle EXCEPT !.pc = "looked", !.event = e]
  <2>1. tx'[q] = t /\ LocalStep(q) BY <1>2 DEF Look, IInv, TypeOK, LocalStep
  <2>2. t.pc = "looked" BY IdleFacts DEF Tx
  <2> HIDE DEF t
  <2>3. ~Recording(q)' BY <2>1, <2>2 DEF Recording
  <2> QED BY <2>1, <2>3, UnrecordedReplayed
<1> QED BY <1>1, <1>2

LEMMA LookRevokeReplayed ==
  ASSUME IInv, Replayed, NEW q \in Sessions, NEW e \in Events, LookRevoke(q, e)
  PROVE  Replayed'
<1>1. CASE event[e] = "absent" BY <1>1, AnswerReplayed DEF LookRevoke, Replies
<1>2. CASE event[e] = "revoked" BY <1>2, AnswerReplayed DEF LookRevoke, Replies
<1>3. CASE event[e] \notin {"absent", "revoked"}
  <2> DEFINE t == [Idle EXCEPT !.pc = "revoking", !.event = e, !.todo = Revocable(e)]
  <2>1. tx'[q] = t /\ LocalStep(q) BY <1>3 DEF LookRevoke, IInv, TypeOK, LocalStep
  <2>2. t.pc = "revoking" BY IdleFacts DEF Tx
  <2> HIDE DEF t
  <2>3. ~Recording(q)' BY <2>1, <2>2 DEF Recording
  <2> QED BY <2>1, <2>3, UnrecordedReplayed
<1> QED BY <1>1, <1>2, <1>3

LEMMA EnvelopeReplayed ==
  ASSUME IInv, Replayed, NEW q \in Sessions, Envelope(q)
  PROVE  Replayed'
<1>1. CASE EventTaken(q) BY <1>1, AnswerReplayed DEF Envelope, Replies
<1>2. CASE ~EventTaken(q)
  <2>1. tx[q] \in Tx /\ tx[q].known = Blank
    BY SessionFields DEF IInv, Session, Progress, Envelope
  <2>2. tx'[q].known = Blank /\ LocalStep(q)
    BY <1>2, <2>1 DEF Envelope, IInv, TypeOK, LocalStep, Tx
  <2>3. LoadedIsReplay(q)' BY <2>2 DEF LoadedIsReplay, Blank
  <2> QED BY <2>2, <2>3, LocalReplayed
<1> QED BY <1>1, <1>2

LEMMA AddStateReplayed ==
  ASSUME IInv, Replayed, NEW q \in Sessions, AddState(q)
  PROVE  Replayed'
<1>1. CASE mastery[PointOf[tx[q].cur]].row BY <1>1, AnswerReplayed DEF AddState, Replies
<1>2. CASE ~mastery[PointOf[tx[q].cur]].row
  <2>1. tx[q] \in Tx /\ tx[q].pc = "adding" BY SessionFields DEF IInv, AddState
  <2>2. LocalStep(q) BY <1>2 DEF AddState, IInv, TypeOK, LocalStep
  <2>3. tx'[q] = [tx[q] EXCEPT !.pc = "loaded", !.added = @ \cup {PointOf[tx[q].cur]}]
    BY <1>2 DEF AddState, IInv, TypeOK
  <2>4. tx'[q].known = tx[q].known /\ tx'[q].done = tx[q].done /\ tx'[q].pc = "loaded"
    BY <2>1, <2>3 DEF Tx
  <2>5. Recording(q) /\ Pending(q)' = Pending(q) BY <2>1, <2>4 DEF Recording, Pending
  <2> QED BY <2>2, <2>4, <2>5, QuietReplayed
<1> QED BY <1>1, <1>2

LEMMA BlockReplayed ==
  ASSUME IInv, Replayed, NEW q \in Sessions, Block(q)
  PROVE  Replayed'
<1>1. tx[q] \in Tx /\ tx[q].pc = "loaded" /\ tx[q].cur \in LowConfidence
  BY SessionFields DEF IInv, Block
<1>2. LocalStep(q) BY DEF Block, IInv, TypeOK, LocalStep
<1>3. /\ tx'[q].known = tx[q].known /\ tx'[q].done = tx[q].done \cup {tx[q].cur}
      /\ tx'[q].pc = "open"
  BY <1>1 DEF Block, Finish, IInv, TypeOK, Tx
<1>4. Recording(q) /\ Pending(q) = tx[q].done /\ Pending(q)' = tx[q].done \cup {tx[q].cur}
  BY <1>1, <1>3 DEF Recording, Pending
<1> QED BY <1>1, <1>2, <1>3, <1>4, QuietReplayed

LEMMA ScheduleReplayed ==
  ASSUME IInv, Replayed, NEW q \in Sessions, Schedule(q)
  PROVE  Replayed'
<1>1. tx[q] \in Tx /\ tx[q].pc = "scheduling" BY SessionFields DEF IInv, Schedule
<1>2. LocalStep(q) BY DEF Schedule, IInv, TypeOK, LocalStep
<1>3. /\ tx'[q].known = tx[q].known /\ tx'[q].done = tx[q].done \cup {tx[q].cur}
      /\ tx'[q].pc = "open"
  BY <1>1 DEF Schedule, Finish, IInv, TypeOK, Tx
<1>4. Recording(q) /\ Pending(q)' = Pending(q) BY <1>1, <1>3 DEF Recording, Pending
<1> QED BY <1>2, <1>3, <1>4, QuietReplayed

LEMMA CorrectorReplayed ==
  ASSUME IInv, Replayed, NEW q \in Sessions, NEW x \in Evidence,
         Freeze(q, x) \/ LockState(q) \/ Replay(q)
  PROVE  Replayed'
<1>1. tx[q] \in Tx BY SessionFields DEF IInv
<1>2. CASE Freeze(q, x)
  <2>1. LocalStep(q) /\ tx'[q].pc = "locking"
    BY <1>1, <1>2 DEF Freeze, IInv, TypeOK, LocalStep, Tx
  <2> QED BY <2>1, UnrecordedReplayed DEF Recording
<1>3. CASE LockState(q)
  <2>1. LocalStep(q) /\ tx'[q].pc = "replaying"
    BY <1>1, <1>3 DEF LockState, IInv, TypeOK, LocalStep, Tx
  <2> QED BY <2>1, UnrecordedReplayed DEF Recording
<1>4. CASE Replay(q)
  <2>1. LocalStep(q) BY <1>4 DEF Replay, IInv, TypeOK, LocalStep
  <2>2. tx'[q].pc = "revoking" BY <1>1, <1>4 DEF Replay, Finish, IInv, TypeOK, Tx
  <2> QED BY <2>1, <2>2, UnrecordedReplayed DEF Recording
<1> QED BY <1>2, <1>3, <1>4

(* A commit writes replays, and of points that nobody else has loaded.     *)
LEMMA CommitReplayed ==
  ASSUME IInv, Replayed, LoadsApart, NEW q \in Sessions, CommitRecord(q) \/ CommitRevoke(q)
  PROVE  Replayed'
<1>1. ASSUME NEW p \in Points PROVE mastery'[p].uses = ReplayOf(ValidRows(p)')
  <2>1. mastery'[p] = IF p \in tx[q].added \cup tx[q].locked
                        THEN [row |-> TRUE, uses |-> tx[q].known[p]] ELSE mastery[p]
    BY DEF CommitRecord, CommitRevoke, WithStates
  <2>2. CASE p \notin tx[q].added \cup tx[q].locked
    <3>1. tx[q].plan[p] = None
      <4>1. CASE CommitRecord(q)
        BY <2>2, <4>1, RecordedRows DEF IInv, Session, RecorderPlan
      <4>2. CASE CommitRevoke(q)
        BY <2>2, <4>2, RevokedRows DEF IInv, Session, CorrectorPlan
      <4> QED BY <4>1, <4>2
    <3>2. ValidRows(p)' = ValidRows(p) BY <3>1, CommitTouches
    <3> QED BY <2>1, <2>2, <3>2 DEF Replayed, MasteryIsReplay
  <2>3. CASE p \in tx[q].added \cup tx[q].locked /\ CommitRecord(q)
    <3>1. Recording(q) /\ ValidRows(p)' = ValidRows(p) \cup OwnRows(q, p) /\ tx[q].known[p] # None
      BY <2>3, RecordedRows DEF IInv, Session, RecorderPlan
    <3>2. OwnRows(q, p) = PendingRows(q, p)
      BY <2>3, <3>1 DEF OwnRows, PendingRows, Pending, CommitRecord
    <3>3. tx[q].known[p] = ReplayOf(ValidRows(p)')
      BY <3>1, <3>2 DEF Replayed, LoadedIsReplay
    <3> QED BY <2>1, <2>3, <3>3
  <2>4. CASE p \in tx[q].added \cup tx[q].locked /\ CommitRevoke(q)
    <3>1. /\ Revoking(q) /\ p \in tx[q].locked /\ tx[q].plan[p] # None
          /\ tx[q].known[p] = tx[q].plan[p] /\ ValidRows(p)' = ValidRows(p) \ tx[q].done
      BY <2>4, RevokedRows DEF IInv, Session, CorrectorPlan
    <3>2. tx[q].plan[p] = ReplayOf(ValidRows(p) \ tx[q].done)
      BY <3>1 DEF IInv, Session, CorrectorPlan
    <3> QED BY <2>1, <2>4, <3>1, <3>2
  <2> QED BY <2>2, <2>3, <2>4
<1>2. ASSUME NEW o \in Sessions \ {q} PROVE LoadedIsReplay(o)'
  <2>1. tx'[o] = tx[o] /\ LoadedIsReplay(o) BY CommitOthers DEF Replayed
  <2>2. (Recording(o)' <=> Recording(o)) /\ Pending(o)' = Pending(o)
    BY <2>1 DEF Recording, Pending
  <2>3. ASSUME NEW p \in Points, Recording(o), tx[o].known[p] # None
        PROVE  ValidRows(p)' = ValidRows(p) /\ PendingRows(o, p)' = PendingRows(o, p)
    <3>1. tx[q].known[p] = None BY <2>3 DEF LoadsApart
    <3>2. tx[q].plan[p] = None
      <4>1. CASE CommitRecord(q) BY <3>1, <4>1, RecordedRows, UnloadedPoint
      <4>2. CASE CommitRevoke(q)
        BY <3>1, <4>2, RevokedRows DEF IInv, Session, CorrectorPlan
      <4> QED BY <4>1, <4>2
    <3> QED BY <2>2, <3>2, CommitTouches DEF PendingRows
  <2> QED BY <2>1, <2>2, <2>3 DEF LoadedIsReplay
<1>3. ~Recording(q)'
  BY AnswerFacts DEF CommitRecord, CommitRevoke, Recording, Replies, IInv, TypeOK
<1> QED BY <1>1, <1>2, <1>3 DEF Replayed, MasteryIsReplay, LoadedIsReplay, ReplayOf

LEMMA ReplayedStep == IInv /\ Replayed /\ LoadsApart /\ [Next]_vars => Replayed'
<1> SUFFICES ASSUME IInv, Replayed, LoadsApart, [Next]_vars PROVE Replayed' OBVIOUS
<1>1. CASE UNCHANGED vars
  BY <1>1 DEF vars, Replayed, MasteryIsReplay, LoadedIsReplay, Recording, PendingRows, Pending,
              ValidRows
<1>2. CASE Next
  <2>1. PICK q \in Sessions :
          \/ \E e \in Events : Look(q, e) \/ LookRevoke(q, e)
          \/ Record(q) \/ Revoke(q) \/ Fail(q)
    BY <1>2 DEF Next
  <2>2. CASE \E e \in Events : Look(q, e) \/ LookRevoke(q, e)
    BY <2>2, LookReplayed, LookRevokeReplayed
  <2>3. CASE Record(q)
    BY <2>3, EnvelopeReplayed, LoadStateReplayed, AddStateReplayed, BlockReplayed,
       ApplyReplayed, ScheduleReplayed, CommitReplayed DEF Record
  <2>4. CASE Revoke(q)
    <3>1. LockState(q) \/ Replay(q) => \E x \in Evidence : x = tx[q].cur
      BY SessionFields DEF IInv, Session, Progress, LockState, Replay
    <3> QED BY <2>4, <3>1, CorrectorReplayed, CommitReplayed DEF Revoke
  <2>5. CASE Fail(q) BY <2>5, AnswerReplayed DEF Fail, Replies
  <2> QED BY <2>1, <2>2, <2>3, <2>4, <2>5
<1> QED BY <1>1, <1>2

(* The mastery of a point is the replay of its valid evidence in every     *)
(* behaviour in which no two calls have loaded the state of one point at   *)
(* once: a lock on that load would be enough.                              *)
THEOREM MasteryExactApart == Spec /\ []LoadsApart => []MasteryIsReplay
<1>1. Init => Replayed
  <2> SUFFICES ASSUME Init PROVE Replayed OBVIOUS
  <2>1. MasteryIsReplay BY DEF Init, MasteryIsReplay, ValidRows, ReplayOf, NoUses
  <2>2. \A q \in Sessions : LoadedIsReplay(q) BY IdleFacts DEF Init, LoadedIsReplay, Recording
  <2> QED BY <2>1, <2>2 DEF Replayed
<1>2. Replayed => MasteryIsReplay BY DEF Replayed
<1> QED BY <1>1, <1>2, ReplayedStep, InvariantHolds, PTL DEF Spec

(* Revoked evidence is out of the mastery, as the document promises, when  *)
(* calls do not overlap so: only the unlocked load lets it back in.        *)
THEOREM RevokedStaysOutApart == Spec /\ []LoadsApart => []RevokedStaysOut
<1>1. MasteryIsReplay => RevokedStaysOut
  <2> SUFFICES ASSUME MasteryIsReplay, NEW x \in Evidence, evidence[x] = "void"
               PROVE  (mastery[PointOf[x]].uses)[x] = 0
    BY DEF RevokedStaysOut
  <2>1. PointOf[x] \in Points BY EvidenceAssumption
  <2>2. mastery[PointOf[x]].uses = ReplayOf(ValidRows(PointOf[x]))
    BY <2>1 DEF MasteryIsReplay
  <2>3. x \notin ValidRows(PointOf[x]) BY DEF ValidRows
  <2>4. \A rows : x \notin rows => ReplayOf(rows)[x] = 0 BY DEF ReplayOf
  <2> QED BY <2>2, <2>3, <2>4
<1> QED BY <1>1, MasteryExactApart, PTL

-----------------------------------------------------------------------------
(* Refinement: with its sessions, locks and replays, the evidence          *)
(* implements the ledger.  The schedules are functions of the valid rows,  *)
(* and those change only with the status of one event.                     *)

LEMMA ScheduleAt ==
  ASSUME IInv, NEW p \in Points
  PROVE  \A x \in Evidence : fsrs[p][x] = IF x \in ValidRows(p) THEN 1 ELSE 0
BY DEF IInv, Tables, ScheduleIsValidEvidence, ReplayOf

LEMMA CommitRecordsEvent ==
  ASSUME IInv, NEW q \in Sessions, CommitRecord(q)
  PROVE  Ledger!Record(tx[q].event)
<1> DEFINE e == tx[q].event
<1>1. /\ tx[q].done = Observed(e) /\ event[e] = "absent"
      /\ \A p \in Points : ValidRows(p)' = ValidRows(p) \cup OwnRows(q, p)
  BY RecordedRows
<1>2. ScheduleIsValidEvidence' BY CommitSchedules
<1>3. event' = [event EXCEPT ![e] = "recorded"] BY DEF CommitRecord
<1>4. ASSUME NEW p \in Points, NEW x \in Evidence
      PROVE  fsrs'[p][x] = IF x \in Ledger!Sound(e, p) THEN 1 ELSE fsrs[p][x]
  <2>1. OwnRows(q, p) = Ledger!Sound(e, p) BY <1>1 DEF OwnRows, Observed, Ledger!Sound
  <2>2. fsrs'[p][x] = IF x \in ValidRows(p)' THEN 1 ELSE 0
    BY <1>2 DEF ScheduleIsValidEvidence, ReplayOf
  <2> QED BY <1>1, <2>1, <2>2, ScheduleAt
<1>5. fsrs' = Ledger!Counting(e, 1)
  <2>1. fsrs' = [p \in Points |-> [x \in Evidence |-> fsrs'[p][x]]]
    BY <1>2 DEF CommitRecord, WithSchedules, ScheduleIsValidEvidence, ReplayOf
  <2> QED BY <1>4, <2>1 DEF Ledger!Counting
<1> QED BY <1>1, <1>3, <1>5 DEF Ledger!Record

(* A second correction of the same event changes nothing.                  *)
LEMMA CommitRevokesEvent ==
  ASSUME IInv, NEW q \in Sessions, CommitRevoke(q)
  PROVE  Ledger!Revoke(tx[q].event) \/ UNCHANGED <<event, fsrs>>
<1> DEFINE e == tx[q].event
<1>1. /\ e \in Events /\ event[e] # "absent" /\ tx[q].done = Observed(e)
      /\ \A p \in Points : ValidRows(p)' = ValidRows(p) \ tx[q].done
  BY RevokedRows
<1>2. ScheduleIsValidEvidence' BY CommitSchedules
<1>3. event' = [event EXCEPT ![e] = "revoked"] /\ event \in [Events -> EventStatus]
  BY DEF CommitRevoke, IInv, TypeOK
<1>4. \A p \in Points, x \in Evidence : fsrs'[p][x] = IF x \in ValidRows(p)' THEN 1 ELSE 0
  BY <1>2 DEF ScheduleIsValidEvidence, ReplayOf
<1>5. fsrs' = [p \in Points |-> [x \in Evidence |-> fsrs'[p][x]]]
  BY <1>2 DEF CommitRevoke, WithSchedules, ScheduleIsValidEvidence, ReplayOf
<1>6. CASE event[e] = "recorded"
  <2>1. ASSUME NEW p \in Points, NEW x \in Evidence
        PROVE  fsrs'[p][x] = IF x \in Ledger!Sound(e, p) THEN 0 ELSE fsrs[p][x]
    <3>1. x \in ValidRows(p) => x \notin LowConfidence /\ PointOf[x] = p
      BY DEF ValidRows, IInv, Tables, LowStaysOut
    <3>2. x \in Ledger!Sound(e, p) <=> x \in Observed(e) /\ PointOf[x] = p /\ x \notin LowConfidence
      BY DEF Observed, Ledger!Sound
    <3> QED BY <1>1, <1>4, <3>1, <3>2, ScheduleAt
  <2>2. fsrs' = Ledger!Counting(e, 0) BY <1>5, <2>1 DEF Ledger!Counting
  <2> QED BY <1>3, <1>6, <2>2 DEF Ledger!Revoke
<1>7. CASE event[e] = "revoked"
  <2>1. \A x \in Observed(e) : evidence[x] = "void"
    BY <1>7 DEF Observed, IInv, Tables, EventsAreWhole
  <2>2. \A p \in Points : ValidRows(p)' = ValidRows(p) BY <1>1, <2>1 DEF ValidRows
  <2>3. ASSUME NEW p \in Points PROVE fsrs'[p] = fsrs[p]
    <3>1. fsrs'[p] = ReplayOf(ValidRows(p)') BY <1>2 DEF ScheduleIsValidEvidence, ReplayOf
    <3>2. fsrs[p] = ReplayOf(ValidRows(p)) BY DEF IInv, Tables, ScheduleIsValidEvidence
    <3> QED BY <2>2, <3>1, <3>2
  <2>4. fsrs = [p \in Points |-> fsrs[p]] /\ fsrs' = [p \in Points |-> fsrs'[p]]
    BY DEF CommitRevoke, WithSchedules, IInv, TypeOK
  <2> QED BY <1>1, <1>3, <1>7, <2>3, <2>4
<1> QED BY <1>1, <1>3, <1>6, <1>7 DEF EventStatus

LEMMA LedgerStep ==
  ASSUME IInv, [Next]_vars
  PROVE  [Ledger!Next]_<<event, fsrs>>
<1>1. CASE \E q \in Sessions : CommitRecord(q)
  <2> SUFFICES ASSUME NEW q \in Sessions, CommitRecord(q) PROVE Ledger!Next BY <1>1
  <2>1. tx[q].event \in Events BY DEF CommitRecord, IInv, Session, Progress
  <2> QED BY <2>1, CommitRecordsEvent DEF Ledger!Next
<1>2. CASE \E q \in Sessions : CommitRevoke(q)
  <2> SUFFICES ASSUME NEW q \in Sessions, CommitRevoke(q) PROVE [Ledger!Next]_<<event, fsrs>>
    BY <1>2
  <2>1. tx[q].event \in Events BY RevokedRows
  <2> QED BY <2>1, CommitRevokesEvent DEF Ledger!Next
<1>3. CASE ~(\E q \in Sessions : CommitRecord(q) \/ CommitRevoke(q))
  <2>1. UNCHANGED <<event, fsrs>>
    BY ZenonT(60), <1>3 DEF Next, vars, Record, Revoke, Look, LookRevoke, Envelope, LoadState, AddState, Block,
                Apply, Schedule, Freeze, LockState, Replay, Fail
  <2> QED BY <2>1
<1> QED BY <1>1, <1>2, <1>3

(* However recordings and corrections interleave, repeat and fail, the     *)
(* events and the review schedules behave as the ledger says.              *)
THEOREM ActsAsLedger == Spec => ImplementsEvidenceLedger
<1>1. Init => Ledger!Init BY DEF Init, NoUses, Ledger!Init
<1>2. IInv /\ [Next]_vars => [Ledger!Next]_<<event, fsrs>> BY LedgerStep
<1> QED
  BY <1>1, <1>2, InvariantHolds, PTL DEF Spec, ImplementsEvidenceLedger, Ledger!Spec

=============================================================================
