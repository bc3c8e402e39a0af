---------------------------- MODULE PhraseMemory ----------------------------
(***************************************************************************)
(* The learning memory behind the writing phrasebook: an attempt at a      *)
(* phrase is recorded with its memory event, and the curator reflects the  *)
(* learner's events into error patterns, phrase masteries and claims about *)
(* the learner, which the learner may deny, correct or mark as improved.   *)
(*                                                                         *)
(*   src/src/memory/curator.py, src/src/memory/writer.py,                  *)
(*   src/src/api/writing_phrases.py, src/src/api/memory.py,                *)
(*   src/src/models/memory.py, src/src/models/error_pattern.py.            *)
(*                                                                         *)
(* One learner, whose phrases share a first tag: the wrong attempts make   *)
(* one pattern (writing, needs_practice) and one claim.  What a            *)
(* transaction flushes is applied when it commits; the locks it holds from *)
(* the flush on let nobody else see or change the rows in between.         *)
(***************************************************************************)
EXTENDS HttpRequests

CONSTANTS
  Phrases,      \* writing phrases saved
  MaxTries,     \* bound on attempts
  EpisodeLimit  \* events whose ids fit in a reflection_key, 6 in the code

ASSUME TriesAssumption == MaxTries \in Nat /\ EpisodeLimit \in Nat

VARIABLES
  deleted,      \* phrases that were deleted
  tried,        \* attempts begun, in the order of occurred_at
  noted,        \* attempt -> its committed learning_memory_events row
  masteries,    \* phrases with a writing_phrase_masteries row
  patternRows,  \* how many error_patterns rows the pattern has
  claim,        \* the learner_model_memories row
  denied,       \* history: the learner's last control of the claim denied it
  overtaken,    \* history: that denial found a reflection about to write the status
  lost,         \* attempts that were rolled back because of a reflection
  memoryTx      \* request -> its place, its attempt and its reflection

memoryVars ==
  <<deleted, tried, noted, masteries, patternRows, claim, denied, overtaken, lost, memoryTx>>

learnerVars == <<deleted, denied, overtaken>>

derivedVars == <<noted, masteries, patternRows, claim, lost>>

Tries == 1..MaxTries

Event == [phrase : Phrases, right : BOOLEAN]

Claim == [words : {"derived", "user"}, status : {"active", "improving", "dismissed"}]

DerivedClaim == [words |-> "derived", status |-> "active"]

(* A NULL is no value of the columns that may hold one.                    *)
ASSUME NoneAssumption == None \notin Nat \cup Phrases \cup Event \cup Claim

MemoryTx ==
  [pc : {Idle, "patterns", "phrases", "claims", "closing"},
   attempt : Tries \cup {None},          \* none in a plain curation
   event : Event \cup {None},            \* its event, not committed
   evidence : SUBSET Tries,              \* the events it reflects
   addsPattern : BOOLEAN,                \* an INSERT is pending
   addsMastery : Phrases \cup {None},    \* an INSERT is pending
   updates : SUBSET Phrases,             \* UPDATEs of masteries are pending
   episode : BOOLEAN,                    \* an episode of the evidence is pending
   claims : SUBSET {"insert", "words", "status"}]  \* what it writes of the claim

MemoryIdle ==
  [pc |-> Idle, attempt |-> None, event |-> None, evidence |-> {},
   addsPattern |-> FALSE, addsMastery |-> None, updates |-> {}, episode |-> FALSE, claims |-> {}]

MemoryTypeOK ==
  /\ deleted \in SUBSET Phrases
  /\ tried \in 0..MaxTries
  /\ noted \in [Tries -> Event \cup {None}]
  /\ masteries \in SUBSET Phrases
  /\ patternRows \in Nat
  /\ claim \in Claim \cup {None}
  /\ denied \in BOOLEAN
  /\ overtaken \in BOOLEAN
  /\ lost \in SUBSET Tries
  /\ memoryTx \in [Requests -> MemoryTx]

MemoryInit ==
  /\ deleted = {}
  /\ tried = 0
  /\ noted = [t \in Tries |-> None]
  /\ masteries = {}
  /\ patternRows = 0
  /\ claim = None
  /\ denied = FALSE
  /\ overtaken = FALSE
  /\ lost = {}
  /\ memoryTx = [r \in Requests |-> MemoryIdle]

EventOf(r, t) == IF t = memoryTx[r].attempt THEN memoryTx[r].event ELSE noted[t]

Mistakes(r) == {t \in memoryTx[r].evidence : ~EventOf(r, t).right}

(* The attempt and its event refer to the phrase: until they are committed *)
(* nobody else can delete it.                                              *)
PhraseFree(p) ==
  \A r \in Requests : memoryTx[r].event # None => memoryTx[r].event.phrase # p

-----------------------------------------------------------------------------
(* record_phrase_attempt, and the curation that the learner asks for       *)

OpenPhraseAttempt(r, p, right) ==
  /\ memoryTx[r].pc = Idle
  /\ p \notin deleted
  /\ tried < MaxTries
  /\ tried' = tried + 1
  /\ memoryTx' = [memoryTx EXCEPT ![r] =
       [MemoryIdle EXCEPT !.pc = "patterns", !.attempt = tried + 1,
                          !.event = [phrase |-> p, right |-> right]]]
  /\ UNCHANGED <<learnerVars, derivedVars>>

OpenCuration(r) ==
  /\ memoryTx[r].pc = Idle
  /\ memoryTx' = [memoryTx EXCEPT ![r] = [MemoryIdle EXCEPT !.pc = "patterns"]]
  /\ UNCHANGED <<tried, learnerVars, derivedVars>>

(* Where an exception of the curator takes the request: an attempt goes on *)
(* with what the session holds by then, a curation is rolled back.         *)
Interrupted(r, tx) ==
  IF tx.attempt = None THEN MemoryIdle ELSE [tx EXCEPT !.pc = "closing"]

(* _recent_events and _update_error_patterns.  More than one row makes     *)
(* scalar_one_or_none raise.                                               *)
ReflectPatterns(r) ==
  /\ memoryTx[r].pc = "patterns"
  /\ LET own == {memoryTx[r].attempt} \ {None}
         seen == {t \in Tries : noted[t] # None} \cup own
         tx == [memoryTx[r] EXCEPT !.evidence = seen]
         wrong == \E t \in seen : ~EventOf(r, t).right
     IN memoryTx' = [memoryTx EXCEPT ![r] =
          IF wrong /\ patternRows > 1
          THEN Interrupted(r, tx)
          ELSE [tx EXCEPT !.pc = "phrases", !.addsPattern = wrong /\ patternRows = 0]]
  /\ UNCHANGED <<tried, learnerVars, derivedVars>>

Unlearnt(r) == {t \in memoryTx[r].evidence : EventOf(r, t).phrase \notin masteries}

(* _update_writing_phrase_mastery, newest event first, then                *)
(* _reflect_learning_episodes.  A mastery that is added has no numbers     *)
(* before the flush: adding to them raises, and the row stays in the       *)
(* session.                                                                *)
ReflectPhrases(r) ==
  /\ memoryTx[r].pc = "phrases"
  /\ LET practised == {EventOf(r, t).phrase : t \in memoryTx[r].evidence}
     IN \/ /\ Unlearnt(r) = {}
           /\ memoryTx' = [memoryTx EXCEPT ![r].pc = "claims", ![r].updates = practised,
                                           ![r].episode = practised # {}]
        \/ \E t \in Unlearnt(r) :
             /\ \A u \in Unlearnt(r) : u <= t
             /\ LET newer == {EventOf(r, u).phrase : u \in {v \in memoryTx[r].evidence : v > t}}
                IN memoryTx' = [memoryTx EXCEPT ![r] =
                     Interrupted(r, [memoryTx[r] EXCEPT !.addsMastery = EventOf(r, t).phrase,
                                                        !.updates = newer])]
  /\ UNCHANGED <<tried, learnerVars, derivedVars>>

Rewritable_Always(c) == TRUE

(* A claim that the learner dismissed is left alone.                       *)
Rewritable(c) == c.status # "dismissed"

(* The columns in which a claim differs from the derived one: the ORM      *)
(* writes no others.  The status of an active claim is not among them,     *)
(* that of a claim marked as improved is.                                  *)
ChangedColumns(c) ==
  {col \in {"words", "status"} : c[col] # DerivedClaim[col]}

(* _reflect_learner_models, up to the flush of _active_weak_skills.        *)
ReflectClaims(r) ==
  /\ memoryTx[r].pc = "claims"
  /\ memoryTx' = [memoryTx EXCEPT ![r].pc = "closing",
       ![r].claims = IF Mistakes(r) = {} THEN {}
                     ELSE IF claim = None THEN {"insert"}
                     ELSE IF Rewritable(claim) THEN ChangedColumns(claim)
                     ELSE {}]
  /\ UNCHANGED <<tried, learnerVars, derivedVars>>

RowsAgree_NoForeignKey(r) ==
  LET tx == memoryTx[r]
  IN /\ tx.addsMastery \notin masteries
     /\ tx.updates \subseteq masteries
     /\ tx.episode => Cardinality(tx.evidence) <= EpisodeLimit
     /\ "insert" \in tx.claims => claim = None

(* The constraints of what is pending: a new mastery needs its phrase and  *)
(* must be its only one, an UPDATE must find its row, an episode's key is  *)
(* the ids of its events in a VARCHAR(255), the claim is unique.           *)
RowsAgree(r) ==
  LET tx == memoryTx[r]
  IN /\ tx.addsMastery \notin masteries \cup deleted
     /\ tx.updates \subseteq masteries
     /\ tx.episode => Cardinality(tx.evidence) <= EpisodeLimit
     /\ "insert" \in tx.claims => claim = None

WrittenClaim(c, claims) ==
  IF "insert" \in claims THEN DerivedClaim
  ELSE IF c = None THEN None
  ELSE [words |-> IF "words" \in claims THEN "derived" ELSE c.words,
        status |-> IF "status" \in claims THEN "active" ELSE c.status]

CommitMemory(r) ==
  /\ memoryTx[r].pc = "closing"
  /\ RowsAgree(r)
  /\ LET tx == memoryTx[r]
     IN /\ noted' = [t \in Tries |-> IF t = tx.attempt THEN tx.event ELSE noted[t]]
        /\ masteries' = masteries \cup ({tx.addsMastery} \ {None})
        /\ patternRows' = patternRows + (IF tx.addsPattern THEN 1 ELSE 0)
        /\ claim' = WrittenClaim(claim, tx.claims)
  /\ memoryTx' = [memoryTx EXCEPT ![r] = MemoryIdle]
  /\ UNCHANGED <<tried, learnerVars, lost>>

(* The flush fails, in the reflection or after it.  The handler passes     *)
(* over the exception, but its session can only be rolled back by then.    *)
RefuseMemory(r) ==
  /\ memoryTx[r].pc = "closing"
  /\ ~RowsAgree(r)
  /\ lost' = lost \cup ({memoryTx[r].attempt} \ {None})
  /\ memoryTx' = [memoryTx EXCEPT ![r] = MemoryIdle]
  /\ UNCHANGED <<tried, noted, masteries, patternRows, claim, learnerVars>>

(* The process or the connection dies.                                     *)
MemoryAbort(r) ==
  /\ memoryTx[r].pc # Idle
  /\ memoryTx' = [memoryTx EXCEPT ![r] = MemoryIdle]
  /\ UNCHANGED <<tried, learnerVars, derivedVars>>

-----------------------------------------------------------------------------
(* The learner's own changes, one at a time.                               *)

(* delete_writing_phrase: the mastery goes with the phrase, the events of  *)
(* its attempts stay.                                                      *)
DeletePhrase(p) ==
  /\ p \notin deleted
  /\ PhraseFree(p)
  /\ deleted' = deleted \cup {p}
  /\ masteries' = masteries \ {p}
  /\ UNCHANGED <<tried, noted, patternRows, claim, denied, overtaken, lost, memoryTx>>

(* Reflections under way that will put the claim's status back to active:  *)
(* they loaded it while it was marked as improved.                         *)
Reactivating == {r \in Requests : "status" \in memoryTx[r].claims}

(* delete and disable: the claim is dismissed, not removed.                *)
DenyClaim ==
  /\ claim # None
  /\ claim' = [claim EXCEPT !.status = "dismissed"]
  /\ denied' = TRUE
  /\ overtaken' = (Reactivating # {})
  /\ UNCHANGED <<deleted, tried, noted, masteries, patternRows, lost, memoryTx>>

(* edit and correct.                                                       *)
CorrectClaim ==
  /\ claim # None
  /\ claim' = [words |-> "user", status |-> "active"]
  /\ denied' = FALSE
  /\ overtaken' = FALSE
  /\ UNCHANGED <<deleted, tried, noted, masteries, patternRows, lost, memoryTx>>

(* mark_improved.                                                          *)
MarkImproved ==
  /\ claim # None
  /\ claim' = [claim EXCEPT !.status = "improving"]
  /\ denied' = FALSE
  /\ overtaken' = FALSE
  /\ UNCHANGED <<deleted, tried, noted, masteries, patternRows, lost, memoryTx>>

MemoryStep(r) ==
  \/ OpenCuration(r) \/ ReflectPatterns(r) \/ ReflectPhrases(r) \/ ReflectClaims(r)
  \/ CommitMemory(r) \/ RefuseMemory(r) \/ MemoryAbort(r)
  \/ \E p \in Phrases, right \in BOOLEAN : OpenPhraseAttempt(r, p, right)

MemoryNext ==
  \/ \E r \in Requests : MemoryStep(r)
  \/ \E p \in Phrases : DeletePhrase(p)
  \/ DenyClaim
  \/ CorrectClaim
  \/ MarkImproved

MemorySpec == MemoryInit /\ [][MemoryNext]_memoryVars

-----------------------------------------------------------------------------
(* Properties.                                                             *)

(* A deleted phrase is forgotten: no reflection that still sees the events *)
(* of its attempts, or had loaded its mastery, brings a mastery back, and  *)
(* a mastery stands for an attempt that was recorded.                      *)
DeletedIsForgotten ==
  \A p \in masteries :
    /\ p \notin deleted
    /\ \E t \in Tries : noted[t] # None /\ noted[t].phrase = p

(* A claim that the learner denied stays dismissed whatever is reflected   *)
(* later or was being reflected then, but for one case: a reflection that  *)
(* had loaded the claim as improving when it was denied writes its status  *)
(* over the denial, and the claim is active again.                         *)
DeniedStaysDenied == denied /\ ~overtaken => claim.status = "dismissed"

(* An attempt is recorded whether or not its reflection succeeds: the      *)
(* handler passes over the curator's exceptions ("attempt 后触发 curator").  *)
AttemptsAreKept == lost = {}

=============================================================================
