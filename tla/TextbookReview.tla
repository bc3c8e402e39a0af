--------------------------- MODULE TextbookReview ---------------------------
(***************************************************************************)
(* One uploaded textbook: the parser runs that are queued for it and the   *)
(* in-process tasks that carry them out, the knowledge points and review   *)
(* items of a run, the decisions on those items, and the quality gate.     *)
(*                                                                         *)
(*   src/src/api/knowledge.py, src/src/knowledge/processor.py,             *)
(*   src/src/knowledge/review_queue.py, src/src/models/knowledge.py.       *)
(*                                                                         *)
(* A task parses in one transaction.  Its first progress update locks the  *)
(* row of the source until the end; nothing else keeps two runs apart.     *)
(***************************************************************************)
EXTENDS HttpRequests

CONSTANTS
  MaxRuns,  \* bound on parser runs of the textbook
  Flaws     \* what a parse may find that asks for a review

ASSUME TextbookAssumption == MaxRuns \in Nat /\ IsFiniteSet(Flaws)

VARIABLES
  uploaded,  \* whether the row of the source exists
  runs,      \* parser runs queued so far, in committed transactions
  parse,     \* run -> parser_runs.status
  task,      \* run -> the background task of the run
  replaced,  \* run -> the points that its task has deleted
  points,    \* the runs whose knowledge points are on record
  pending,   \* parser_review_items with the decision pending
  gate,      \* pending_review_count in the source's metadata
  reviewTx   \* request -> its place, its item, the pending count it will write

reviewVars == <<uploaded, runs, parse, task, replaced, points, pending, gate, reviewTx>>

Runs == 1..MaxRuns

Items == Runs \X Flaws

ParseStatus == {"none", "queued", "completed", "failed"}

TaskStatus == {"none", "pending", "parsing", "storing", "failing", "done", "lost"}

ReviewTx ==
  [pc : {Idle, "ingesting", "deciding", "counted", "deleting"},
   item : Items \cup {None}, count : Nat]

ReviewIdle == [pc |-> Idle, item |-> None, count |-> 0]

ReviewTypeOK ==
  /\ uploaded \in BOOLEAN
  /\ runs \in 0..MaxRuns
  /\ parse \in [Runs -> ParseStatus]
  /\ task \in [Runs -> TaskStatus]
  /\ replaced \in [Runs -> SUBSET Runs]
  /\ points \in SUBSET Runs
  /\ pending \in SUBSET Items
  /\ gate \in Nat
  /\ reviewTx \in [Requests -> ReviewTx]

ReviewInit ==
  /\ uploaded = TRUE
  /\ runs = 0
  /\ parse = [x \in Runs |-> "none"]
  /\ task = [x \in Runs |-> "none"]
  /\ replaced = [x \in Runs |-> {}]
  /\ points = {}
  /\ pending = {}
  /\ gate = 0
  /\ reviewTx = [r \in Requests |-> ReviewIdle]

SourceFree_NoLock == TRUE

(* The lock that a parse holds on the source, from its first progress.     *)
SourceFree == \A x \in Runs : task[x] \notin {"parsing", "storing"}

-----------------------------------------------------------------------------
(* ingest_knowledge_source                                                 *)

ActiveRun == \E x \in Runs : parse[x] = "queued"

(* With an active run its id is the answer, and nothing changes.           *)
OpenIngest(r) ==
  /\ reviewTx[r].pc = Idle
  /\ uploaded
  /\ ~ActiveRun
  /\ reviewTx' = [reviewTx EXCEPT ![r] =
                    [ReviewIdle EXCEPT !.pc = "ingesting", !.count = gate]]
  /\ UNCHANGED <<uploaded, runs, parse, task, replaced, points, pending, gate>>

(* _create_queued_parser_run is committed, then the task is scheduled; the *)
(* metadata keeps the pending count that it was loaded with.               *)
CommitIngest(r) ==
  /\ reviewTx[r].pc = "ingesting"
  /\ uploaded /\ SourceFree
  /\ runs < MaxRuns
  /\ runs' = runs + 1
  /\ parse' = [parse EXCEPT ![runs + 1] = "queued"]
  /\ task' = [task EXCEPT ![runs + 1] = "pending"]
  /\ gate' = reviewTx[r].count
  /\ reviewTx' = [reviewTx EXCEPT ![r] = ReviewIdle]
  /\ UNCHANGED <<uploaded, replaced, points, pending>>

-----------------------------------------------------------------------------
(* _run_ingest_background, process_uploaded_textbook                       *)

StartParse(x) ==
  /\ task[x] = "pending"
  /\ uploaded /\ SourceFree
  /\ task' = [task EXCEPT ![x] = "parsing"]
  /\ UNCHANGED <<uploaded, runs, parse, replaced, points, pending, gate, reviewTx>>

(* The source was deleted: the task returns.                               *)
SourceGone(x) ==
  /\ task[x] \in {"pending", "failing"}
  /\ ~uploaded
  /\ task' = [task EXCEPT ![x] = "done"]
  /\ UNCHANGED <<uploaded, runs, parse, replaced, points, pending, gate, reviewTx>>

(* The DELETEs reach the points that are committed by now.                 *)
DeleteOldPoints(x) ==
  /\ task[x] = "parsing"
  /\ task' = [task EXCEPT ![x] = "storing"]
  /\ replaced' = [replaced EXCEPT ![x] = points]
  /\ UNCHANGED <<uploaded, runs, parse, points, pending, gate, reviewTx>>

(* replace_parser_review_items deletes only what this run had before, so   *)
(* the items of earlier runs stay; the gate counts those of this run.      *)
CommitParse(x, flaws) ==
  /\ task[x] = "storing"
  /\ task' = [task EXCEPT ![x] = "done"]
  /\ parse' = [parse EXCEPT ![x] = "completed"]
  /\ points' = (points \ replaced[x]) \cup {x}
  /\ pending' = pending \cup {<<x, f>> : f \in flaws}
  /\ gate' = Cardinality(flaws)
  /\ UNCHANGED <<uploaded, runs, replaced, reviewTx>>

(* An exception rolls the parse back.                                      *)
ParseFails(x) ==
  /\ task[x] \in {"pending", "parsing", "storing"}
  /\ task' = [task EXCEPT ![x] = "failing"]
  /\ UNCHANGED <<uploaded, runs, parse, replaced, points, pending, gate, reviewTx>>

AfterFailure_Unmarked == "queued"

AfterFailure == "failed"

(* The failure session, over whatever the rows are by then.                *)
MarkFailed(x) ==
  /\ task[x] = "failing"
  /\ uploaded /\ SourceFree
  /\ task' = [task EXCEPT ![x] = "done"]
  /\ parse' = [parse EXCEPT ![x] = AfterFailure]
  /\ gate' = 0
  /\ UNCHANGED <<uploaded, runs, replaced, points, pending, reviewTx>>

-----------------------------------------------------------------------------
(* _decide_parser_review_item: confirm, update, ignore                     *)

OpenDecision(r, i) ==
  /\ reviewTx[r].pc = Idle
  /\ i \in pending
  /\ reviewTx' = [reviewTx EXCEPT ![r] =
                    [ReviewIdle EXCEPT !.pc = "deciding", !.item = i]]
  /\ UNCHANGED <<uploaded, runs, parse, task, replaced, points, pending, gate>>

(* The decision is flushed, which locks the item, and the queue is read:   *)
(* the items of others as they are committed, its own as decided.          *)
CountPending(r) ==
  /\ reviewTx[r].pc = "deciding"
  /\ uploaded
  /\ \A q \in Requests \ {r} :
       reviewTx[q].pc = "counted" => reviewTx[q].item # reviewTx[r].item
  /\ reviewTx' = [reviewTx EXCEPT ![r].pc = "counted",
       ![r].count = Cardinality(pending \ {reviewTx[r].item})]
  /\ UNCHANGED <<uploaded, runs, parse, task, replaced, points, pending, gate>>

(* apply_quality_gate writes the metadata back.                            *)
CommitDecision(r) ==
  /\ reviewTx[r].pc = "counted"
  /\ uploaded /\ SourceFree
  /\ pending' = pending \ {reviewTx[r].item}
  /\ gate' = reviewTx[r].count
  /\ reviewTx' = [reviewTx EXCEPT ![r] = ReviewIdle]
  /\ UNCHANGED <<uploaded, runs, parse, task, replaced, points>>

-----------------------------------------------------------------------------
(* delete_knowledge_source                                                 *)

OpenDelete(r) ==
  /\ reviewTx[r].pc = Idle
  /\ uploaded
  /\ ~ActiveRun
  /\ reviewTx' = [reviewTx EXCEPT ![r] = [ReviewIdle EXCEPT !.pc = "deleting"]]
  /\ UNCHANGED <<uploaded, runs, parse, task, replaced, points, pending, gate>>

(* The rows of the source go with it; it waits for decided items.          *)
CommitDelete(r) ==
  /\ reviewTx[r].pc = "deleting"
  /\ uploaded /\ SourceFree
  /\ \A q \in Requests : reviewTx[q].pc # "counted"
  /\ uploaded' = FALSE
  /\ parse' = [x \in Runs |-> "none"]
  /\ points' = {}
  /\ pending' = {}
  /\ gate' = 0
  /\ reviewTx' = [reviewTx EXCEPT ![r] = ReviewIdle]
  /\ UNCHANGED <<runs, task, replaced>>

(* A refusal, a row that is gone, a deadlock, an exception.                *)
ReviewAbort(r) ==
  /\ reviewTx[r].pc # Idle
  /\ reviewTx' = [reviewTx EXCEPT ![r] = ReviewIdle]
  /\ UNCHANGED <<uploaded, runs, parse, task, replaced, points, pending, gate>>

(* The process restarts; nothing resumes a queued run.                     *)
ReviewCrash ==
  /\ \E x \in Runs : task[x] \in {"pending", "parsing", "storing", "failing"}
  /\ task' = [x \in Runs |->
       IF task[x] \in {"pending", "parsing", "storing", "failing"} THEN "lost" ELSE task[x]]
  /\ reviewTx' = [r \in Requests |-> ReviewIdle]
  /\ UNCHANGED <<uploaded, runs, parse, replaced, points, pending, gate>>

ReviewStep(r) ==
  \/ OpenIngest(r) \/ CommitIngest(r) \/ CountPending(r) \/ CommitDecision(r)
  \/ OpenDelete(r) \/ CommitDelete(r) \/ ReviewAbort(r)
  \/ \E i \in Items : OpenDecision(r, i)

ParserStep(x) ==
  \/ StartParse(x) \/ SourceGone(x) \/ DeleteOldPoints(x) \/ ParseFails(x) \/ MarkFailed(x)
  \/ \E flaws \in SUBSET Flaws : CommitParse(x, flaws)

ReviewNext ==
  \/ \E r \in Requests : ReviewStep(r)
  \/ \E x \in Runs : ParserStep(x)
  \/ ReviewCrash

ReviewSpec == ReviewInit /\ [][ReviewNext]_reviewVars

-----------------------------------------------------------------------------
(* Properties.                                                             *)

(* A queued run has a task that will settle it, however parses, failures   *)
(* and deletions follow each other, unless the process was restarted.      *)
IngestIsAttended ==
  \A x \in Runs : parse[x] = "queued" =>
    task[x] \in {"pending", "parsing", "storing", "failing", "lost"}

(* Two runs that overlap never mix: the textbook's points are those of one *)
(* completed run, and only completed runs leave items to review.           *)
TextbookIsOneParse ==
  /\ Cardinality(points) <= 1
  /\ \A x \in points : parse[x] = "completed"
  /\ \A i \in pending : parse[i[1]] = "completed"

(* Nothing comes back after the source was deleted: no parse, failure      *)
(* session or decision that was in progress leaves a row behind.           *)
DeletionIsFinal ==
  ~uploaded => /\ points = {} /\ pending = {}
               /\ \A x \in Runs : parse[x] = "none"

=============================================================================
