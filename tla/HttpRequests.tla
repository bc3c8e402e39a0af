---------------------------- MODULE HttpRequests ----------------------------
(***************************************************************************)
(* What the request handlers of the service have in common, get_db_session *)
(* in src/src/api/deps.py: each request is one PostgreSQL transaction      *)
(* under READ COMMITTED, committed when the handler returns and rolled     *)
(* back when it raises.  The modules of the handlers extend this one.      *)
(***************************************************************************)
EXTENDS Naturals, FiniteSets

CONSTANTS
  Requests,  \* the places of a request in progress, each one call after another
  None

ASSUME RequestsAssumption == IsFiniteSet(Requests)

(* What a request does while it is between calls.                          *)
Idle == "idle"

=============================================================================
