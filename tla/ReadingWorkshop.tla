-------------------------- MODULE ReadingWorkshop --------------------------
(***************************************************************************)
(* The reading materials of a learner, saved or generated once per text,   *)
(* and the completions of a material that a client may send again.         *)
(*                                                                         *)
(*   src/src/api/reading.py, src/src/exercises/attempt_service.py,         *)
(*   src/src/models/reading.py.                                            *)
(***************************************************************************)
EXTENDS HttpRequests

CONSTANTS
  Texts,      \* hashes of normalised texts
  ClientIds   \* client_attempt_id

VARIABLES
  materials,    \* text -> rows of reading_material_histories
  completions,  \* <<text, client id>> -> completion attempts on record
  completed,    \* completions that were answered
  readingTx     \* request -> its place, its text, its client id

readingVars == <<materials, completions, completed, readingTx>>

Completions == Texts \X ClientIds

ReadingTx ==
  [pc : {Idle, "saving", "inserted", "opening", "completing"},
   text : Texts \cup {None}, client : ClientIds \cup {None}, known : BOOLEAN]

ReadingIdle == [pc |-> Idle, text |-> None, client |-> None, known |-> FALSE]

ReadingTypeOK ==
  /\ materials \in [Texts -> Nat]
  /\ completions \in [Completions -> Nat]
  /\ completed \in SUBSET Completions
  /\ readingTx \in [Requests -> ReadingTx]

ReadingInit ==
  /\ materials = [t \in Texts |-> 0]
  /\ completions = [c \in Completions |-> 0]
  /\ completed = {}
  /\ readingTx = [r \in Requests |-> ReadingIdle]

-----------------------------------------------------------------------------
(* save_reading_material, generate_reading_material                        *)

OpenSave(r, t) ==
  /\ readingTx[r].pc = Idle
  /\ readingTx' = [readingTx EXCEPT ![r] =
       [ReadingIdle EXCEPT !.pc = "saving", !.text = t, !.known = materials[t] > 0]]
  /\ UNCHANGED <<materials, completions, completed>>

(* The unique constraint waits for another insert of the text.             *)
TextFree(r) ==
  \A q \in Requests \ {r} :
    readingTx[q].pc = "inserted" => readingTx[q].text # readingTx[r].text

(* _insert_reading_material_or_get_existing, under a savepoint.            *)
InsertMaterial(r) ==
  /\ readingTx[r].pc = "saving"
  /\ ~readingTx[r].known
  /\ TextFree(r)
  /\ readingTx' = [readingTx EXCEPT
       ![r].pc = IF materials[readingTx[r].text] = 0 THEN "inserted" ELSE "saving",
       ![r].known = materials[readingTx[r].text] > 0]
  /\ UNCHANGED <<materials, completions, completed>>

CommitInsert(r) ==
  /\ readingTx[r].pc = "inserted"
  /\ materials' = [materials EXCEPT ![readingTx[r].text] = @ + 1]
  /\ readingTx' = [readingTx EXCEPT ![r] = ReadingIdle]
  /\ UNCHANGED <<completions, completed>>

-----------------------------------------------------------------------------
(* complete_reading_material                                               *)

MaterialFree_NoLock(r) == TRUE

(* FOR UPDATE on the material, until the completion is committed.          *)
MaterialFree(r) ==
  \A q \in Requests \ {r} :
    readingTx[q].pc = "completing" => readingTx[q].text # readingTx[r].text

OpenComplete(r, t, c) ==
  /\ readingTx[r].pc = Idle
  /\ materials[t] > 0
  /\ readingTx' = [readingTx EXCEPT ![r] =
       [ReadingIdle EXCEPT !.pc = "opening", !.text = t, !.client = c]]
  /\ UNCHANGED <<materials, completions, completed>>

(* An attempt under the same client id is looked up after the lock.        *)
LockMaterial(r) ==
  /\ readingTx[r].pc = "opening"
  /\ MaterialFree(r)
  /\ readingTx' = [readingTx EXCEPT ![r].pc = "completing",
       ![r].known = completions[<<readingTx[r].text, readingTx[r].client>>] > 0]
  /\ UNCHANGED <<materials, completions, completed>>

CommitComplete(r) ==
  /\ readingTx[r].pc = "completing"
  /\ LET c == <<readingTx[r].text, readingTx[r].client>>
     IN  /\ completions' = [completions EXCEPT ![c] = IF readingTx[r].known THEN @ ELSE @ + 1]
         /\ completed' = completed \cup {c}
  /\ readingTx' = [readingTx EXCEPT ![r] = ReadingIdle]
  /\ UNCHANGED materials

(* A material that was known needs no insert; a refusal, an exception.     *)
ReadingAbort(r) ==
  /\ readingTx[r].pc # Idle
  /\ readingTx' = [readingTx EXCEPT ![r] = ReadingIdle]
  /\ UNCHANGED <<materials, completions, completed>>

ReadingStep(r) ==
  \/ \E t \in Texts : OpenSave(r, t)
  \/ InsertMaterial(r) \/ CommitInsert(r)
  \/ \E t \in Texts, c \in ClientIds : OpenComplete(r, t, c)
  \/ LockMaterial(r) \/ CommitComplete(r) \/ ReadingAbort(r)

ReadingNext == \E r \in Requests : ReadingStep(r)

ReadingSpec == ReadingInit /\ [][ReadingNext]_readingVars

-----------------------------------------------------------------------------
(* Properties.                                                             *)

(* A text has one material and an answered completion one attempt, however *)
(* often and however close together the client sends them.                 *)
ReadOnce ==
  /\ \A t \in Texts : materials[t] <= 1
  /\ \A c \in Completions :
       /\ completions[c] = IF c \in completed THEN 1 ELSE 0
       /\ completions[c] > 0 => materials[c[1]] = 1

=============================================================================
