----------------------------- MODULE RefillQueue -----------------------------
(***************************************************************************)
(* What the refill queue promises, without workers, leases, retries or     *)
(* transactions: a submitted job ends exactly once, either delivering one  *)
(* batch to its unit's stock, possibly submitting the next job in the same *)
(* instant, or giving up; only the removal of the unit voids it.           *)
(***************************************************************************)
EXTENDS Integers

CONSTANTS Units, Jobs, NoUnit, MinBatch, MaxBatch

VARIABLES
  job,    \* job -> its state and the unit it refills
  stock   \* unit -> generated questions delivered so far

vars == <<job, stock>>

Absent == [state |-> "absent", unit |-> NoUnit]

Init ==
  /\ job = [j \in Jobs |-> Absent]
  /\ stock = [u \in Units |-> 0]

OpenFor(u) == [state |-> "open", unit |-> u]

Submit(j, u) ==
  /\ job[j].state = "absent"
  /\ job' = [job EXCEPT ![j] = OpenFor(u)]
  /\ UNCHANGED stock

Deliver(j, k) ==
  /\ job[j].state = "open"
  /\ stock' = [stock EXCEPT ![job[j].unit] = @ + k]
  /\ \/ job' = [job EXCEPT ![j].state = "done"]
     \/ \E next \in Jobs :
          /\ job[next].state = "absent"
          /\ job' = [job EXCEPT ![j].state = "done", ![next] = OpenFor(job[j].unit)]

GiveUp(j) ==
  /\ job[j].state = "open"
  /\ job' = [job EXCEPT ![j].state = "gaveup"]
  /\ UNCHANGED stock

Remove(u) ==
  /\ job' = [j \in Jobs |-> IF job[j].unit = u
                              THEN [Absent EXCEPT !.state = "void"] ELSE job[j]]
  /\ stock' = [stock EXCEPT ![u] = 0]

Close(j) == GiveUp(j) \/ \E k \in MinBatch .. MaxBatch : Deliver(j, k)

Next ==
  \/ \E j \in Jobs : Close(j) \/ \E u \in Units : Submit(j, u)
  \/ \E u \in Units : Remove(u)

Spec == Init /\ [][Next]_vars

(* Every open job is eventually closed. *)
FairSpec == Spec /\ \A j \in Jobs : WF_vars(Close(j))

=============================================================================
