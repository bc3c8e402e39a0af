------------------------- MODULE EmailVerification -------------------------
(***************************************************************************)
(* The verification codes of one email address: requested at most once per *)
(* cooldown, guessed a limited number of times, each confirmed once.       *)
(*                                                                         *)
(*   src/src/api/email_verifications.py, src/src/models/auth.py.   *)
(***************************************************************************)
EXTENDS HttpRequests

CONSTANTS
  MaxCodes,     \* bound on challenges ever sent
  MaxAttempts,  \* settings.email_verification_max_attempts
  MaxClock,     \* bound on the clock
  Resend,       \* settings.email_verification_resend_seconds
  Ttl           \* settings.email_verification_code_ttl_seconds

ASSUME EmailAssumption ==
  /\ MaxCodes \in Nat /\ MaxAttempts \in Nat /\ MaxClock \in Nat
  /\ Resend \in Nat /\ Ttl \in Nat

VARIABLES
  clock,
  codes,      \* challenges committed so far: 1..codes
  sentAt,     \* code -> sent_at
  tries,      \* code -> attempt_count
  verified,   \* codes with a verified_at
  answered,   \* code -> guesses that were told right or wrong
  confirmed,  \* code -> tokens handed out for it
  emailTx     \* request -> its place, its time, the codes it saw, its code

emailVars == <<clock, codes, sentAt, tries, verified, answered, confirmed, emailTx>>

Codes == 1..MaxCodes

EmailTx ==
  [pc : {Idle, "sending", "choosing", "confirming"}, at : 0..MaxClock,
   seen : SUBSET Codes, on : Codes \cup {None}, tries : Nat]

EmailIdle == [pc |-> Idle, at |-> 0, seen |-> {}, on |-> None, tries |-> 0]

EmailTypeOK ==
  /\ clock \in 0..MaxClock
  /\ codes \in 0..MaxCodes
  /\ sentAt \in [Codes -> 0..MaxClock]
  /\ tries \in [Codes -> Nat]
  /\ verified \in SUBSET Codes
  /\ answered \in [Codes -> Nat]
  /\ confirmed \in [Codes -> Nat]
  /\ emailTx \in [Requests -> EmailTx]

EmailInit ==
  /\ clock = 0
  /\ codes = 0
  /\ sentAt = [c \in Codes |-> 0]
  /\ tries = [c \in Codes |-> 0]
  /\ verified = {}
  /\ answered = [c \in Codes |-> 0]
  /\ confirmed = [c \in Codes |-> 0]
  /\ emailTx = [r \in Requests |-> EmailIdle]

EmailTick ==
  /\ clock < MaxClock
  /\ clock' = clock + 1
  /\ UNCHANGED <<codes, sentAt, tries, verified, answered, confirmed, emailTx>>

-----------------------------------------------------------------------------
(* request_email_verification                                              *)

(* The latest challenge, verified or not, is past the cooldown.            *)
CooledDown == \A c \in 1..codes : clock - sentAt[c] >= Resend

OpenRequest(r) ==
  /\ emailTx[r].pc = Idle
  /\ CooledDown
  /\ emailTx' = [emailTx EXCEPT ![r] = [EmailIdle EXCEPT !.pc = "sending", !.at = clock]]
  /\ UNCHANGED <<clock, codes, sentAt, tries, verified, answered, confirmed>>

(* The message was delivered; otherwise the request is answered with 503   *)
(* and rolled back.                                                        *)
CommitCode(r) ==
  /\ emailTx[r].pc = "sending"
  /\ codes < MaxCodes
  /\ codes' = codes + 1
  /\ sentAt' = [sentAt EXCEPT ![codes + 1] = emailTx[r].at]
  /\ emailTx' = [emailTx EXCEPT ![r] = EmailIdle]
  /\ UNCHANGED <<clock, tries, verified, answered, confirmed>>

-----------------------------------------------------------------------------
(* confirm_email_verification                                              *)

(* The rows that the SELECT ... FOR UPDATE finds, before it locks one.     *)
OpenConfirm(r) ==
  /\ emailTx[r].pc = Idle
  /\ emailTx' = [emailTx EXCEPT ![r] =
       [EmailIdle EXCEPT !.pc = "choosing", !.at = clock, !.seen = (1..codes) \ verified]]
  /\ UNCHANGED <<clock, codes, sentAt, tries, verified, answered, confirmed>>

CodeFree_NoLock(r, c) == TRUE

(* The row lock, held until the guess is committed.                        *)
CodeFree(r, c) ==
  \A q \in Requests \ {r} : ~(emailTx[q].pc = "confirming" /\ emailTx[q].on = c)

(* After a wait the row is looked at again: a verified one is passed over  *)
(* for the next.                                                           *)
Latest(r, c) ==
  /\ c \in emailTx[r].seen \ verified
  /\ \A d \in emailTx[r].seen \ verified : sentAt[d] <= sentAt[c]

Expired(r, c) == sentAt[c] + Ttl < emailTx[r].at

LockCode(r, c) ==
  /\ emailTx[r].pc = "choosing"
  /\ Latest(r, c)
  /\ CodeFree(r, c)
  /\ ~Expired(r, c)
  /\ tries[c] < MaxAttempts
  /\ emailTx' = [emailTx EXCEPT ![r].pc = "confirming", ![r].on = c, ![r].tries = tries[c]]
  /\ UNCHANGED <<clock, codes, sentAt, tries, verified, answered, confirmed>>

AfterWrong_RolledBack(r) == tries[emailTx[r].on]

(* The handler commits before it raises, so the guess stays counted.       *)
AfterWrong(r) == emailTx[r].tries + 1

WrongGuess(r) ==
  /\ emailTx[r].pc = "confirming"
  /\ tries' = [tries EXCEPT ![emailTx[r].on] = AfterWrong(r)]
  /\ answered' = [answered EXCEPT ![emailTx[r].on] = @ + 1]
  /\ emailTx' = [emailTx EXCEPT ![r] = EmailIdle]
  /\ UNCHANGED <<clock, codes, sentAt, verified, confirmed>>

RightGuess(r) ==
  /\ emailTx[r].pc = "confirming"
  /\ tries' = [tries EXCEPT ![emailTx[r].on] = emailTx[r].tries + 1]
  /\ answered' = [answered EXCEPT ![emailTx[r].on] = @ + 1]
  /\ verified' = verified \cup {emailTx[r].on}
  /\ confirmed' = [confirmed EXCEPT ![emailTx[r].on] = @ + 1]
  /\ emailTx' = [emailTx EXCEPT ![r] = EmailIdle]
  /\ UNCHANGED <<clock, codes, sentAt>>

(* No code, an expired one, too many attempts, no delivery, an exception.  *)
EmailAbort(r) ==
  /\ emailTx[r].pc # Idle
  /\ emailTx' = [emailTx EXCEPT ![r] = EmailIdle]
  /\ UNCHANGED <<clock, codes, sentAt, tries, verified, answered, confirmed>>

EmailStep(r) ==
  \/ OpenRequest(r) \/ CommitCode(r) \/ OpenConfirm(r)
  \/ WrongGuess(r) \/ RightGuess(r) \/ EmailAbort(r)
  \/ \E c \in Codes : LockCode(r, c)

EmailNext == EmailTick \/ \E r \in Requests : EmailStep(r)

EmailSpec == EmailInit /\ [][EmailNext]_emailVars

-----------------------------------------------------------------------------
(* Properties.                                                             *)

(* No code is guessed more often than allowed: every answered guess stays  *)
(* on the row, also the wrong ones, and guesses that overlap are counted   *)
(* one after the other.                                                    *)
GuessesAreLimited ==
  \A c \in Codes : answered[c] <= MaxAttempts /\ tries[c] = answered[c]

(* A code is good for one token, whichever guesses wait for its row.       *)
CodesAreSpent ==
  \A c \in Codes : confirmed[c] = IF c \in verified THEN 1 ELSE 0

=============================================================================
