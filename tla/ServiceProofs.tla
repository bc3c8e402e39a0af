---------------------------- MODULE ServiceProofs ----------------------------
(***************************************************************************)
(* Proofs about EmailVerification, ReadingWorkshop and PhraseMemory, for   *)
(* any number of requests and any bounds.                                  *)
(***************************************************************************)
EXTENDS EmailVerification, ReadingWorkshop, PhraseMemory, FiniteSetTheorems, TLAPS

-----------------------------------------------------------------------------
(* EmailVerification: a request that compares a guess holds the row lock   *)
(* of its code, so what it has read of the row is still there when it      *)
(* writes.                                                                 *)

(* A code in hand is not spent, and its attempts are as they were read.    *)
InHand(t) ==
  t.pc = "confirming" =>
    /\ t.on \in Codes
    /\ t.on \notin verified
    /\ t.tries = tries[t.on]
    /\ t.tries < MaxAttempts

OneHolder ==
  \A r, q \in Requests :
    /\ r # q
    /\ emailTx[r].pc = "confirming"
    /\ emailTx[q].pc = "confirming"
    => emailTx[r].on # emailTx[q].on

EmailIInv ==
  /\ EmailTypeOK
  /\ \A r \in Requests : InHand(emailTx[r])
  /\ OneHolder
  /\ GuessesAreLimited
  /\ CodesAreSpent

(* A request that takes no lock and writes none of the rows in hand.       *)
LEMMA Unlocking ==
  ASSUME EmailIInv, NEW r \in Requests, NEW t \in EmailTx, t.pc # "confirming",
         emailTx' = [emailTx EXCEPT ![r] = t],
         UNCHANGED <<clock, tries, verified, answered, confirmed>>,
         codes' \in 0..MaxCodes, sentAt' \in [Codes -> 0..MaxClock]
  PROVE  EmailIInv'
<1>1. emailTx \in [Requests -> EmailTx] BY DEF EmailIInv, EmailTypeOK
<1>2. emailTx' \in [Requests -> EmailTx] BY <1>1
<1>3. /\ emailTx'[r] = t
      /\ \A q \in Requests : q # r => emailTx'[q] = emailTx[q]
  BY <1>1
<1>4. EmailTypeOK' BY <1>2 DEF EmailIInv, EmailTypeOK
<1>5. \A q \in Requests : InHand(emailTx[q])' BY <1>3 DEF EmailIInv, InHand
<1>6. OneHolder' BY <1>3 DEF EmailIInv, OneHolder
<1>7. GuessesAreLimited' /\ CodesAreSpent' BY DEF EmailIInv, GuessesAreLimited, CodesAreSpent
<1> QED BY <1>4, <1>5, <1>6, <1>7 DEF EmailIInv

(* The lock goes to one request, of a row that still admits a guess.       *)
LEMMA Locking ==
  ASSUME EmailIInv, NEW r \in Requests, NEW c \in Codes, LockCode(r, c)
  PROVE  EmailIInv'
<1> DEFINE t == [emailTx[r] EXCEPT !.pc = "confirming", !.on = c, !.tries = tries[c]]
<1>1. /\ emailTx \in [Requests -> EmailTx]
      /\ tries \in [Codes -> Nat]
  BY DEF EmailIInv, EmailTypeOK
<1>2. /\ emailTx' = [emailTx EXCEPT ![r] = t]
      /\ UNCHANGED <<clock, codes, sentAt, tries, verified, answered, confirmed>>
      /\ c \notin verified /\ tries[c] < MaxAttempts /\ CodeFree(r, c)
  BY <1>1 DEF LockCode, Latest
<1>3. emailTx[r] \in EmailTx BY <1>1
<1>4. t \in EmailTx BY <1>1, <1>3 DEF EmailTx
<1>5. t.pc = "confirming" /\ t.on = c /\ t.tries = tries[c] BY <1>3 DEF EmailTx
<1> HIDE DEF t
<1>6. /\ emailTx'[r] = t
      /\ \A q \in Requests : q # r => emailTx'[q] = emailTx[q]
  BY <1>1, <1>2
<1>7. EmailTypeOK' BY <1>1, <1>2, <1>4 DEF EmailIInv, EmailTypeOK
<1>8. \A q \in Requests : InHand(emailTx[q])' BY <1>2, <1>5, <1>6 DEF EmailIInv, InHand
<1>9. OneHolder' BY <1>2, <1>5, <1>6 DEF EmailIInv, OneHolder, CodeFree
<1>10. GuessesAreLimited' /\ CodesAreSpent' BY <1>2 DEF EmailIInv, GuessesAreLimited, CodesAreSpent
<1> QED BY <1>7, <1>8, <1>9, <1>10 DEF EmailIInv

(* Either outcome counts the guess on the one row that the request holds.  *)
LEMMA Guessing ==
  ASSUME EmailIInv, NEW r \in Requests, WrongGuess(r) \/ RightGuess(r)
  PROVE  EmailIInv'
<1> DEFINE c == emailTx[r].on
<1>1. /\ emailTx \in [Requests -> EmailTx]
      /\ tries \in [Codes -> Nat] /\ answered \in [Codes -> Nat] /\ confirmed \in [Codes -> Nat]
      /\ verified \in SUBSET Codes
  BY DEF EmailIInv, EmailTypeOK
<1>2. /\ c \in Codes /\ c \notin verified
      /\ emailTx[r].tries = tries[c] /\ tries[c] < MaxAttempts
      /\ tries[c] = answered[c] /\ confirmed[c] = 0
  BY DEF EmailIInv, InHand, WrongGuess, RightGuess, GuessesAreLimited, CodesAreSpent
<1>3. /\ emailTx' = [emailTx EXCEPT ![r] = EmailIdle]
      /\ tries' = [tries EXCEPT ![c] = tries[c] + 1]
      /\ answered' = [answered EXCEPT ![c] = answered[c] + 1]
      /\ UNCHANGED <<clock, codes, sentAt>>
      /\ \/ UNCHANGED <<verified, confirmed>>
         \/ /\ verified' = verified \cup {c}
            /\ confirmed' = [confirmed EXCEPT ![c] = confirmed[c] + 1]
  BY <1>2 DEF WrongGuess, RightGuess, AfterWrong
<1>4. \A q \in Requests \ {r} : emailTx[q].pc = "confirming" => emailTx[q].on # c
  BY DEF EmailIInv, OneHolder, WrongGuess, RightGuess
<1> HIDE DEF c
<1>5. EmailIdle \in EmailTx /\ EmailIdle.pc = "idle"
  <2>1. 0 \in 0..MaxClock BY EmailAssumption
  <2> QED BY <2>1 DEF EmailIdle, EmailTx, Idle
<1>6. /\ emailTx'[r] = EmailIdle
      /\ \A q \in Requests : q # r => emailTx'[q] = emailTx[q]
  BY <1>1, <1>3
<1>7. EmailTypeOK' BY <1>1, <1>2, <1>3, <1>5 DEF EmailIInv, EmailTypeOK
<1>8. \A q \in Requests : InHand(emailTx[q])'
  BY <1>1, <1>2, <1>3, <1>4, <1>5, <1>6 DEF EmailIInv, InHand
<1>9. OneHolder' BY <1>5, <1>6 DEF EmailIInv, OneHolder
<1>10. GuessesAreLimited'
  BY <1>1, <1>2, <1>3, EmailAssumption DEF EmailIInv, GuessesAreLimited
<1>11. CodesAreSpent' BY <1>1, <1>2, <1>3 DEF EmailIInv, CodesAreSpent
<1> QED BY <1>7, <1>8, <1>9, <1>10, <1>11 DEF EmailIInv

LEMMA EmailInitial == EmailInit => EmailIInv
<1> SUFFICES ASSUME EmailInit PROVE EmailIInv OBVIOUS
<1>1. EmailIdle \in EmailTx /\ EmailIdle.pc = "idle"
  <2>1. 0 \in 0..MaxClock BY EmailAssumption
  <2> QED BY <2>1 DEF EmailIdle, EmailTx, Idle
<1>2. EmailTypeOK BY <1>1, EmailAssumption DEF EmailInit, EmailTypeOK
<1>3. \A r \in Requests : emailTx[r].pc = "idle" BY <1>1 DEF EmailInit
<1>4. GuessesAreLimited /\ CodesAreSpent
  BY EmailAssumption DEF EmailInit, GuessesAreLimited, CodesAreSpent
<1> QED BY <1>2, <1>3, <1>4 DEF EmailIInv, InHand, OneHolder

LEMMA EmailStepPreserves ==
  ASSUME EmailIInv, NEW r \in Requests, EmailStep(r)
  PROVE  EmailIInv'
<1>1. /\ emailTx[r] \in EmailTx /\ clock \in 0..MaxClock
      /\ codes \in 0..MaxCodes /\ sentAt \in [Codes -> 0..MaxClock]
  BY DEF EmailIInv, EmailTypeOK
<1>2. EmailIdle \in EmailTx /\ EmailIdle.pc = "idle"
  <2>1. 0 \in 0..MaxClock BY EmailAssumption
  <2> QED BY <2>1 DEF EmailIdle, EmailTx, Idle
<1>3. CASE OpenRequest(r)
  <2> DEFINE t == [EmailIdle EXCEPT !.pc = "sending", !.at = clock]
  <2>1. t \in EmailTx /\ t.pc = "sending" BY <1>1, <1>2 DEF EmailTx, EmailIdle
  <2> QED BY <1>1, <1>3, <2>1, Unlocking DEF OpenRequest
<1>4. CASE CommitCode(r)
  <2>1. codes + 1 \in Codes /\ emailTx[r].at \in 0..MaxClock
    BY <1>1, <1>4, EmailAssumption DEF CommitCode, Codes, EmailTx
  <2>2. codes' \in 0..MaxCodes /\ sentAt' \in [Codes -> 0..MaxClock]
    BY <1>1, <1>4, <2>1, EmailAssumption DEF CommitCode, Codes
  <2> QED BY <1>2, <1>4, <2>2, Unlocking DEF CommitCode
<1>5. CASE OpenConfirm(r)
  <2> DEFINE t == [EmailIdle EXCEPT !.pc = "choosing", !.at = clock, !.seen = (1..codes) \ verified]
  <2>1. (1..codes) \ verified \in SUBSET Codes BY <1>1, EmailAssumption DEF Codes
  <2>2. t \in EmailTx /\ t.pc = "choosing" BY <1>1, <1>2, <2>1 DEF EmailTx, EmailIdle
  <2> QED BY <1>1, <1>5, <2>2, Unlocking DEF OpenConfirm
<1>6. CASE WrongGuess(r) \/ RightGuess(r) BY <1>6, Guessing
<1>7. CASE EmailAbort(r) BY <1>1, <1>2, <1>7, Unlocking DEF EmailAbort
<1>8. CASE \E c \in Codes : LockCode(r, c) BY <1>8, Locking
<1> QED BY <1>3, <1>4, <1>5, <1>6, <1>7, <1>8 DEF EmailStep

(* The lock and the counters agree in every reachable state.               *)
THEOREM EmailInvariant == EmailSpec => []EmailIInv
<1>1. EmailIInv /\ [EmailNext]_emailVars => EmailIInv'
  <2> SUFFICES ASSUME EmailIInv, [EmailNext]_emailVars PROVE EmailIInv' OBVIOUS
  <2>1. CASE EmailTick
    <3>1. EmailTypeOK' BY <2>1, EmailAssumption DEF EmailIInv, EmailTypeOK, EmailTick
    <3> QED BY <2>1, <3>1 DEF EmailTick, EmailIInv, InHand, OneHolder, GuessesAreLimited, CodesAreSpent
  <2>2. CASE UNCHANGED emailVars
    BY <2>2 DEF emailVars, EmailIInv, EmailTypeOK, InHand, OneHolder, GuessesAreLimited, CodesAreSpent
  <2> QED BY <2>1, <2>2, EmailStepPreserves DEF EmailNext
<1> QED BY <1>1, EmailInitial, PTL DEF EmailSpec

(* However many guesses overlap, a code takes at most MaxAttempts of them, *)
(* and each guess that was answered is on its row.                         *)
THEOREM GuessesLimited == EmailSpec => []GuessesAreLimited
BY EmailInvariant, PTL DEF EmailIInv

(* A code hands out exactly one token once it is verified, none before.    *)
THEOREM CodesSpentOnce == EmailSpec => []CodesAreSpent
BY EmailInvariant, PTL DEF EmailIInv

-----------------------------------------------------------------------------
(* ReadingWorkshop: the unique constraint gives a text to one insert, the  *)
(* lock of the material its completions to one request at a time.          *)

(* What a request may assume of its text until it commits.                 *)
ReadingSound(t) ==
  /\ t.pc \in {"saving", "inserted"} => t.text \in Texts
  /\ t.pc = "inserted" => materials[t.text] = 0
  /\ t.pc \in {"opening", "completing"} =>
       <<t.text, t.client>> \in Completions /\ materials[t.text] > 0
  /\ t.pc = "completing" => (t.known <=> completions[<<t.text, t.client>>] > 0)

Exclusive(pc) ==
  \A r, q \in Requests :
    r # q /\ readingTx[r].pc = pc /\ readingTx[q].pc = pc
    => readingTx[r].text # readingTx[q].text

ReadingIInv ==
  /\ ReadingTypeOK
  /\ \A r \in Requests : ReadingSound(readingTx[r])
  /\ Exclusive("inserted")
  /\ Exclusive("completing")
  /\ ReadOnce

LEMMA ReadingIdleRecord == ReadingIdle \in ReadingTx /\ ReadingIdle.pc = "idle"
BY DEF ReadingIdle, ReadingTx, Idle

(* A request that commits nothing: it moves to a record that is sound, and *)
(* whose text no other request holds at the same place.                    *)
LEMMA ReadingLocalStep ==
  ASSUME ReadingIInv, NEW r \in Requests, NEW t \in ReadingTx, ReadingSound(t),
         \A q \in Requests \ {r} :
           t.pc \in {"inserted", "completing"} /\ readingTx[q].pc = t.pc => readingTx[q].text # t.text,
         readingTx' = [readingTx EXCEPT ![r] = t],
         UNCHANGED <<materials, completions, completed>>
  PROVE  ReadingIInv'
<1>1. readingTx \in [Requests -> ReadingTx] BY DEF ReadingIInv, ReadingTypeOK
<1>2. readingTx' \in [Requests -> ReadingTx] BY <1>1
<1>3. /\ readingTx'[r] = t
      /\ \A q \in Requests : q # r => readingTx'[q] = readingTx[q]
  BY <1>1
<1>4. ReadingTypeOK' BY <1>2 DEF ReadingIInv, ReadingTypeOK
<1>5. \A q \in Requests : ReadingSound(readingTx[q])' BY <1>3 DEF ReadingIInv, ReadingSound
<1>6. Exclusive("inserted")' /\ Exclusive("completing")' BY <1>3 DEF ReadingIInv, Exclusive
<1>7. ReadOnce' BY DEF ReadingIInv, ReadOnce
<1> QED BY <1>4, <1>5, <1>6, <1>7 DEF ReadingIInv

(* The first row of a text, which no other request is about to insert.     *)
LEMMA Inserting ==
  ASSUME ReadingIInv, NEW r \in Requests, CommitInsert(r)
  PROVE  ReadingIInv'
<1> DEFINE x == readingTx[r].text
<1>1. /\ readingTx \in [Requests -> ReadingTx]
      /\ materials \in [Texts -> Nat] /\ completions \in [Completions -> Nat]
  BY DEF ReadingIInv, ReadingTypeOK
<1>2. x \in Texts /\ materials[x] = 0 BY DEF ReadingIInv, ReadingSound, CommitInsert
<1>3. /\ materials' = [materials EXCEPT ![x] = 1]
      /\ readingTx' = [readingTx EXCEPT ![r] = ReadingIdle]
      /\ UNCHANGED <<completions, completed>>
  BY <1>1, <1>2 DEF CommitInsert
<1>4. \A q \in Requests \ {r} : readingTx[q].pc = "inserted" => readingTx[q].text # x
  BY DEF ReadingIInv, Exclusive, CommitInsert
<1> HIDE DEF x
<1>5. /\ readingTx'[r] = ReadingIdle
      /\ \A q \in Requests : q # r => readingTx'[q] = readingTx[q]
  BY <1>1, <1>3
<1>6. ReadingTypeOK' BY <1>1, <1>2, <1>3, ReadingIdleRecord DEF ReadingIInv, ReadingTypeOK
<1>7. \A q \in Requests : ReadingSound(readingTx[q])'
  <2> TAKE q \in Requests
  <2>1. CASE q = r BY <1>5, <2>1, ReadingIdleRecord DEF ReadingSound
  <2>2. CASE q # r
    <3>1. ReadingSound(readingTx[q]) /\ readingTx'[q] = readingTx[q] BY <1>5, <2>2 DEF ReadingIInv
    <3>2. \A y \in Texts : y # x => materials'[y] = materials[y] BY <1>1, <1>3
    <3>3. materials'[x] = 1 BY <1>1, <1>2, <1>3
    <3>4. \A c \in Completions : c[1] \in Texts BY DEF Completions
    <3> QED BY <1>1, <1>2, <1>3, <1>4, <2>2, <3>1, <3>2, <3>3 DEF ReadingSound, Completions
  <2> QED BY <2>1, <2>2
<1>8. Exclusive("inserted")' /\ Exclusive("completing")'
  BY <1>5, ReadingIdleRecord DEF ReadingIInv, Exclusive
<1>9. ReadOnce'
  <2>1. ASSUME NEW t \in Texts PROVE materials'[t] <= 1
    <3>1. materials[t] <= 1 BY DEF ReadingIInv, ReadOnce
    <3> QED BY <1>1, <1>2, <1>3, <3>1
  <2>2. ASSUME NEW c \in Completions PROVE completions[c] > 0 => materials'[c[1]] = 1
    <3>1. c[1] \in Texts BY DEF Completions
    <3>2. completions[c] > 0 => materials[c[1]] = 1 BY DEF ReadingIInv, ReadOnce
    <3> QED BY <1>1, <1>2, <1>3, <3>1, <3>2
  <2> QED BY <1>3, <2>1, <2>2 DEF ReadingIInv, ReadOnce
<1> QED BY <1>6, <1>7, <1>8, <1>9 DEF ReadingIInv

(* A completion that was not known is recorded, a known one is not.        *)
LEMMA Completing ==
  ASSUME ReadingIInv, NEW r \in Requests, CommitComplete(r)
  PROVE  ReadingIInv'
<1> DEFINE c == <<readingTx[r].text, readingTx[r].client>>
<1>1. /\ readingTx \in [Requests -> ReadingTx] /\ completed \in SUBSET Completions
      /\ materials \in [Texts -> Nat] /\ completions \in [Completions -> Nat]
  BY DEF ReadingIInv, ReadingTypeOK
<1>2. /\ c \in Completions /\ c[1] = readingTx[r].text
      /\ materials[c[1]] > 0 /\ (readingTx[r].known <=> completions[c] > 0)
  BY DEF ReadingIInv, ReadingSound, CommitComplete
<1>3. /\ completions' = [completions EXCEPT ![c] =
                           IF readingTx[r].known THEN completions[c] ELSE completions[c] + 1]
      /\ completed' = completed \cup {c}
      /\ readingTx' = [readingTx EXCEPT ![r] = ReadingIdle]
      /\ UNCHANGED materials
  BY <1>1, <1>2 DEF CommitComplete
<1>4. \A q \in Requests \ {r} : readingTx[q].pc = "completing" => readingTx[q].text # c[1]
  BY <1>2 DEF ReadingIInv, Exclusive, CommitComplete
<1> HIDE DEF c
<1>5. /\ readingTx'[r] = ReadingIdle
      /\ \A q \in Requests : q # r => readingTx'[q] = readingTx[q]
  BY <1>1, <1>3
<1>6. completions'[c] = 1 /\ \A d \in Completions : d # c => completions'[d] = completions[d]
  <2>1. completions[c] \in {0, 1} BY <1>2 DEF ReadingIInv, ReadOnce
  <2>2. CASE completions[c] = 0 BY <1>1, <1>2, <1>3, <2>2
  <2>3. CASE completions[c] = 1 BY <1>1, <1>2, <1>3, <2>3
  <2> QED BY <2>1, <2>2, <2>3
<1>7. ReadingTypeOK' BY <1>1, <1>2, <1>3, ReadingIdleRecord DEF ReadingIInv, ReadingTypeOK
<1>8. \A q \in Requests : ReadingSound(readingTx[q])'
  <2> TAKE q \in Requests
  <2>1. CASE q = r BY <1>5, <2>1, ReadingIdleRecord DEF ReadingSound
  <2>2. CASE q # r
    <3>1. ReadingSound(readingTx[q]) /\ readingTx'[q] = readingTx[q] BY <1>5, <2>2 DEF ReadingIInv
    <3>2. readingTx[q].pc = "completing" =>
            completions'[<<readingTx[q].text, readingTx[q].client>>]
              = completions[<<readingTx[q].text, readingTx[q].client>>]
      BY <1>4, <1>6, <2>2, <3>1 DEF ReadingSound
    <3> QED BY <1>3, <3>1, <3>2 DEF ReadingSound
  <2> QED BY <2>1, <2>2
<1>9. Exclusive("inserted")' /\ Exclusive("completing")'
  BY <1>5, ReadingIdleRecord DEF ReadingIInv, Exclusive
<1>10. ReadOnce'
  <2>1. materials[c[1]] = 1
    <3>1. c[1] \in Texts BY <1>2 DEF Completions
    <3> QED BY <1>1, <1>2, <3>1 DEF ReadingIInv, ReadOnce
  <2> QED BY <1>1, <1>2, <1>3, <1>6, <2>1 DEF ReadingIInv, ReadOnce
<1> QED BY <1>7, <1>8, <1>9, <1>10 DEF ReadingIInv

LEMMA ReadingStepPreserves ==
  ASSUME ReadingIInv, NEW r \in Requests, ReadingStep(r)
  PROVE  ReadingIInv'
<1>1. readingTx[r] \in ReadingTx /\ ReadingSound(readingTx[r]) BY DEF ReadingIInv, ReadingTypeOK
<1>2. CASE \E t \in Texts : OpenSave(r, t)
  <2>1. PICK t \in Texts : OpenSave(r, t) BY <1>2
  <2> DEFINE known == materials[t] > 0
             u == [ReadingIdle EXCEPT !.pc = "saving", !.text = t, !.known = known]
  <2>4. known \in BOOLEAN OBVIOUS
  <2>3. /\ readingTx' = [readingTx EXCEPT ![r] = u]
        /\ UNCHANGED <<materials, completions, completed>>
    BY <2>1 DEF OpenSave
  <2> HIDE DEF known
  <2>2. u \in ReadingTx /\ u.pc = "saving" /\ u.text = t BY <2>4 DEF ReadingIdle, ReadingTx
  <2> HIDE DEF u
  <2>5. ReadingSound(u) BY <2>2 DEF ReadingSound
  <2> QED BY <2>2, <2>3, <2>5, ReadingLocalStep
<1>3. CASE InsertMaterial(r)
  <2> DEFINE known == materials[readingTx[r].text] > 0
             place == IF materials[readingTx[r].text] = 0 THEN "inserted" ELSE "saving"
             u == [readingTx[r] EXCEPT !.pc = place, !.known = known]
  <2>1. readingTx[r].text \in Texts BY <1>1, <1>3 DEF ReadingSound, InsertMaterial
  <2>2. /\ readingTx' = [readingTx EXCEPT ![r] = u]
        /\ UNCHANGED <<materials, completions, completed>>
    BY <1>3 DEF InsertMaterial
  <2>3. known \in BOOLEAN OBVIOUS
  <2>4. /\ place \in {"inserted", "saving"}
        /\ place = "inserted" => materials[readingTx[r].text] = 0
    OBVIOUS
  <2> HIDE DEF known, place
  <2>5. u \in ReadingTx /\ u.pc = place /\ u.text = readingTx[r].text
    BY <1>1, <2>3, <2>4 DEF ReadingTx
  <2> HIDE DEF u
  <2>6. ReadingSound(u) BY <2>1, <2>4, <2>5 DEF ReadingSound
  <2>7. \A q \in Requests \ {r} :
          u.pc \in {"inserted", "completing"} /\ readingTx[q].pc = u.pc => readingTx[q].text # u.text
    BY <1>3, <2>4, <2>5 DEF InsertMaterial, TextFree
  <2> QED BY <2>2, <2>5, <2>6, <2>7, ReadingLocalStep
<1>4. CASE CommitInsert(r) BY <1>4, Inserting
<1>5. CASE \E t \in Texts, c \in ClientIds : OpenComplete(r, t, c)
  <2>1. PICK t \in Texts, c \in ClientIds : OpenComplete(r, t, c) BY <1>5
  <2> DEFINE u == [ReadingIdle EXCEPT !.pc = "opening", !.text = t, !.client = c]
  <2>2. u \in ReadingTx /\ u.pc = "opening" /\ u.text = t /\ u.client = c
    BY DEF ReadingIdle, ReadingTx
  <2>3. /\ readingTx' = [readingTx EXCEPT ![r] = u]
        /\ UNCHANGED <<materials, completions, completed>>
        /\ materials[t] > 0
    BY <2>1 DEF OpenComplete
  <2> HIDE DEF u
  <2>4. ReadingSound(u) BY <2>2, <2>3 DEF ReadingSound, Completions
  <2> QED BY <2>2, <2>3, <2>4, ReadingLocalStep
<1>6. CASE LockMaterial(r)
  <2> DEFINE c == <<readingTx[r].text, readingTx[r].client>>
             known == completions[c] > 0
             u == [readingTx[r] EXCEPT !.pc = "completing", !.known = known]
  <2>1. c \in Completions /\ materials[readingTx[r].text] > 0
    BY <1>1, <1>6 DEF ReadingSound, LockMaterial
  <2>2. /\ readingTx' = [readingTx EXCEPT ![r] = u]
        /\ UNCHANGED <<materials, completions, completed>>
    BY <1>6 DEF LockMaterial
  <2>3. known \in BOOLEAN /\ (known <=> completions[c] > 0) OBVIOUS
  <2> HIDE DEF known
  <2>4. /\ u \in ReadingTx /\ u.pc = "completing" /\ u.known = known
        /\ u.text = readingTx[r].text /\ u.client = readingTx[r].client
    BY <1>1, <2>3 DEF ReadingTx
  <2> HIDE DEF u
  <2>5. ReadingSound(u) BY <2>1, <2>3, <2>4 DEF ReadingSound
  <2>6. \A q \in Requests \ {r} :
          u.pc \in {"inserted", "completing"} /\ readingTx[q].pc = u.pc => readingTx[q].text # u.text
    BY <1>6, <2>4 DEF LockMaterial, MaterialFree
  <2> QED BY <2>2, <2>4, <2>5, <2>6, ReadingLocalStep
<1>7. CASE CommitComplete(r) BY <1>7, Completing
<1>8. CASE ReadingAbort(r)
  <2>1. ReadingSound(ReadingIdle) BY ReadingIdleRecord DEF ReadingSound
  <2> QED BY <1>8, <2>1, ReadingIdleRecord, ReadingLocalStep DEF ReadingAbort
<1> QED BY <1>2, <1>3, <1>4, <1>5, <1>6, <1>7, <1>8 DEF ReadingStep

(* Constraint, lock and rows agree in every reachable state.               *)
THEOREM ReadingInvariant == ReadingSpec => []ReadingIInv
<1>1. ReadingInit => ReadingIInv
  <2> SUFFICES ASSUME ReadingInit PROVE ReadingIInv OBVIOUS
  <2>1. ReadingTypeOK BY ReadingIdleRecord DEF ReadingInit, ReadingTypeOK
  <2>2. \A r \in Requests : readingTx[r].pc = "idle" BY ReadingIdleRecord DEF ReadingInit
  <2>3. ReadOnce BY DEF ReadingInit, ReadOnce, Completions
  <2> QED BY <2>1, <2>2, <2>3 DEF ReadingIInv, ReadingSound, Exclusive
<1>2. ReadingIInv /\ [ReadingNext]_readingVars => ReadingIInv'
  <2> SUFFICES ASSUME ReadingIInv, [ReadingNext]_readingVars PROVE ReadingIInv' OBVIOUS
  <2>1. CASE UNCHANGED readingVars
    BY <2>1 DEF readingVars, ReadingIInv, ReadingTypeOK, ReadingSound, Exclusive, ReadOnce
  <2> QED BY <2>1, ReadingStepPreserves DEF ReadingNext
<1> QED BY <1>1, <1>2, PTL DEF ReadingSpec

(* However often a client repeats itself, a text has one material and an   *)
(* answered completion one attempt.                                        *)
THEOREM ReadAndRecordedOnce == ReadingSpec => []ReadOnce
BY ReadingInvariant, PTL DEF ReadingIInv

-----------------------------------------------------------------------------
(* PhraseMemory: what a reflection is about to write was told by events    *)
(* that stay on record, and only one that loaded an improving claim takes  *)
(* back a denial.                                                          *)

(* The event of an attempt as the session t sees it.                       *)
Told(t, u) == IF u = t.attempt THEN t.event ELSE noted[u]

(* What a session has reflected was told by events.                        *)
Grounded(t) ==
  /\ \A u \in t.evidence : Told(t, u) # None
  /\ t.addsMastery # None =>
       \E u \in Tries : Told(t, u) # None /\ Told(t, u).phrase = t.addsMastery

(* What holds of each open reflection.                                     *)
Reflecting(r) ==
  LET tx == memoryTx[r]
  IN /\ tx.attempt # None =>
          tx.attempt <= tried /\ noted[tx.attempt] = None /\ tx.event # None
     /\ Grounded(tx)

OwnAttempts ==
  \A r, q \in Requests :
    r # q /\ memoryTx[r].attempt # None => memoryTx[r].attempt # memoryTx[q].attempt

(* While a denial holds that overtook no reflection, none is about to put  *)
(* the claim back to active: one that starts leaves a dismissed claim      *)
(* alone.                                                                  *)
DenialHolds ==
  denied /\ ~overtaken =>
    /\ claim # None /\ claim.status = "dismissed"
    /\ \A r \in Requests : "status" \notin memoryTx[r].claims

MemoryIInv ==
  /\ MemoryTypeOK
  /\ \A t \in Tries : noted[t] # None => t <= tried
  /\ \A r \in Requests : Reflecting(r)
  /\ OwnAttempts
  /\ DeletedIsForgotten
  /\ DenialHolds

LEMMA NoneApart ==
  /\ \A t \in Tries : t \in Nat /\ t # None
  /\ \A x \in Event \cup Claim : x # None
BY NoneAssumption, TriesAssumption DEF Tries

LEMMA IdleReflection ==
  /\ MemoryIdle \in MemoryTx
  /\ MemoryIdle.pc = "idle" /\ MemoryIdle.attempt = None /\ MemoryIdle.event = None
  /\ MemoryIdle.evidence = {} /\ MemoryIdle.addsMastery = None /\ MemoryIdle.claims = {}
BY DEF MemoryIdle, MemoryTx, Idle

(* A step that changes only what one session holds, with the attempt it    *)
(* had or none, and puts no dismissed claim back to active.                *)
LEMMA SessionStep ==
  ASSUME MemoryIInv, NEW r \in Requests, NEW t \in MemoryTx,
         memoryTx' = [memoryTx EXCEPT ![r] = t],
         \/ t.attempt = memoryTx[r].attempt /\ t.event = memoryTx[r].event
         \/ t.attempt = None,
         Grounded(t),
         "status" \in t.claims =>
           "status" \in memoryTx[r].claims \/ (claim # None /\ claim.status # "dismissed"),
         UNCHANGED <<deleted, tried, noted, masteries, patternRows, claim, denied, overtaken>>,
         lost' \in SUBSET Tries
  PROVE  MemoryIInv'
<1>1. memoryTx \in [Requests -> MemoryTx] BY DEF MemoryIInv, MemoryTypeOK
<1>2. memoryTx' \in [Requests -> MemoryTx] BY <1>1
<1>3. /\ memoryTx'[r] = t
      /\ \A q \in Requests : q # r => memoryTx'[q] = memoryTx[q]
  BY <1>1
<1>4. MemoryTypeOK' BY <1>2 DEF MemoryIInv, MemoryTypeOK
<1>5. ASSUME NEW q \in Requests PROVE Reflecting(q)'
  <2>1. Reflecting(q) /\ Reflecting(r) BY DEF MemoryIInv
  <2>2. CASE q = r
    BY <1>3, <2>1, <2>2 DEF Reflecting, Grounded, Told
  <2>3. CASE q # r
    BY <1>3, <2>1, <2>3 DEF Reflecting, Grounded, Told
  <2> QED BY <2>2, <2>3
<1>6. OwnAttempts' BY <1>1, <1>3 DEF MemoryIInv, OwnAttempts
<1>7. DeletedIsForgotten' BY DEF MemoryIInv, DeletedIsForgotten
<1>8. DenialHolds' BY <1>3 DEF MemoryIInv, DenialHolds
<1> QED BY <1>4, <1>5, <1>6, <1>7, <1>8 DEF MemoryIInv

LEMMA ReflectionSteps ==
  ASSUME MemoryIInv, NEW r \in Requests,
         \/ OpenCuration(r) \/ ReflectPatterns(r) \/ ReflectPhrases(r) \/ ReflectClaims(r)
         \/ RefuseMemory(r) \/ MemoryAbort(r)
  PROVE  MemoryIInv'
<1>1. /\ memoryTx \in [Requests -> MemoryTx] /\ noted \in [Tries -> Event \cup {None}]
      /\ masteries \in SUBSET Phrases /\ claim \in Claim \cup {None}
      /\ lost \in SUBSET Tries
  BY DEF MemoryIInv, MemoryTypeOK
<1>2. memoryTx[r] \in MemoryTx BY <1>1
<1>3. Reflecting(r) BY DEF MemoryIInv
<1> DEFINE tx == memoryTx[r]
<1>4. CASE OpenCuration(r)
  <2> DEFINE t == [MemoryIdle EXCEPT !.pc = "patterns"]
  <2>1. /\ t \in MemoryTx /\ t.attempt = None /\ t.evidence = {}
        /\ t.addsMastery = None /\ t.claims = {}
    BY DEF MemoryIdle, MemoryTx
  <2>2. memoryTx' = [memoryTx EXCEPT ![r] = t] BY <1>4 DEF OpenCuration
  <2>3. UNCHANGED <<deleted, tried, noted, masteries, patternRows, claim, denied, overtaken, lost>>
    BY <1>4 DEF OpenCuration, learnerVars, derivedVars
  <2> HIDE DEF t
  <2> QED BY <1>1, <2>1, <2>2, <2>3, SessionStep DEF Grounded
<1>5. CASE RefuseMemory(r) \/ MemoryAbort(r)
  <2>1. tx.attempt \in Tries \cup {None} BY <1>2 DEF MemoryTx
  <2>2. /\ memoryTx' = [memoryTx EXCEPT ![r] = MemoryIdle]
        /\ UNCHANGED <<deleted, tried, noted, masteries, patternRows, claim, denied, overtaken>>
        /\ lost' \in SUBSET Tries
    BY <1>1, <1>5, <2>1 DEF RefuseMemory, MemoryAbort, learnerVars, derivedVars
  <2> QED BY <2>2, IdleReflection, SessionStep DEF Grounded
<1>6. CASE ReflectClaims(r)
  <2> DEFINE c == IF Mistakes(r) = {} THEN {}
                  ELSE IF claim = None THEN {"insert"}
                  ELSE IF Rewritable(claim) THEN ChangedColumns(claim)
                  ELSE {}
             t == [tx EXCEPT !.pc = "closing", !.claims = c]
  <2>1. c \in SUBSET {"insert", "words", "status"} BY DEF ChangedColumns
  <2>2. "status" \in c => claim # None /\ claim.status # "dismissed"
    BY DEF Rewritable, ChangedColumns
  <2> HIDE DEF c
  <2>3. /\ t \in MemoryTx /\ t.attempt = tx.attempt /\ t.event = tx.event
        /\ t.evidence = tx.evidence /\ t.addsMastery = tx.addsMastery /\ t.claims = c
    BY <1>2, <2>1 DEF MemoryTx
  <2>4. memoryTx' = [memoryTx EXCEPT ![r] = t]
    BY <1>1, <1>6 DEF ReflectClaims, c
  <2>5. UNCHANGED <<deleted, tried, noted, masteries, patternRows, claim, denied, overtaken, lost>>
    BY <1>6 DEF ReflectClaims, learnerVars, derivedVars
  <2> HIDE DEF t
  <2>6. Grounded(t)
    BY <1>3, <2>3 DEF Reflecting, Grounded, Told
  <2> QED BY <1>1, <2>2, <2>3, <2>4, <2>5, <2>6, SessionStep
<1>7. CASE ReflectPatterns(r)
  <2> DEFINE own == {tx.attempt} \ {None}
             seen == {t \in Tries : noted[t] # None} \cup own
             wrong == \E t \in seen : ~EventOf(r, t).right
             held == [tx EXCEPT !.evidence = seen]
             t == IF wrong /\ patternRows > 1
                  THEN Interrupted(r, held)
                  ELSE [held EXCEPT !.pc = "phrases", !.addsPattern = wrong /\ patternRows = 0]
  <2>1. seen \in SUBSET Tries BY <1>2 DEF MemoryTx
  <2>2. \A u \in seen : Told(tx, u) # None BY <1>3, NoneApart DEF Told, Reflecting
  <2>3. wrong \in BOOLEAN OBVIOUS
  <2>4. memoryTx' = [memoryTx EXCEPT ![r] = t] BY <1>7 DEF ReflectPatterns
  <2>5. UNCHANGED <<deleted, tried, noted, masteries, patternRows, claim, denied, overtaken, lost>>
    BY <1>7 DEF ReflectPatterns, learnerVars, derivedVars
  <2> HIDE DEF seen, wrong
  <2>6. /\ held \in MemoryTx /\ held.attempt = tx.attempt /\ held.event = tx.event
        /\ held.evidence = seen /\ held.addsMastery = tx.addsMastery /\ held.claims = tx.claims
    BY <1>2, <2>1 DEF MemoryTx
  <2> HIDE DEF held
  <2>7. \/ t = MemoryIdle
        \/ /\ t \in MemoryTx /\ t.attempt = tx.attempt /\ t.event = tx.event
           /\ t.evidence = seen /\ t.addsMastery = tx.addsMastery /\ t.claims = tx.claims
    BY <2>3, <2>6 DEF Interrupted, MemoryTx
  <2> HIDE DEF t
  <2>8. Grounded(t)
    BY <1>3, <2>2, <2>7, IdleReflection DEF Reflecting, Grounded, Told
  <2>9. /\ t \in MemoryTx
        /\ \/ t.attempt = tx.attempt /\ t.event = tx.event
           \/ t.attempt = None
        /\ "status" \in t.claims => "status" \in tx.claims
    BY <2>7, IdleReflection
  <2> QED BY <1>1, <2>4, <2>5, <2>8, <2>9, SessionStep
<1>8. CASE ReflectPhrases(r)
  <2>1. UNCHANGED <<deleted, tried, noted, masteries, patternRows, claim, denied, overtaken, lost>>
    BY <1>8 DEF ReflectPhrases, learnerVars, derivedVars
  <2>2. tx.evidence \in SUBSET Tries /\ tx.event \in Event \cup {None} BY <1>2 DEF MemoryTx
  <2>3. \A u \in tx.evidence : EventOf(r, u) # None /\ EventOf(r, u).phrase \in Phrases
    BY <1>1, <1>3, <2>2 DEF Reflecting, Grounded, Told, EventOf, Event
  <2> DEFINE practised == {EventOf(r, u).phrase : u \in tx.evidence}
             full == [tx EXCEPT !.pc = "claims", !.updates = practised, !.episode = practised # {}]
  <2>4. CASE memoryTx' = [memoryTx EXCEPT ![r] = full]
    <3>1. practised \in SUBSET Phrases BY <2>3
    <3> HIDE DEF practised
    <3>2. /\ full \in MemoryTx /\ full.attempt = tx.attempt /\ full.event = tx.event
          /\ full.evidence = tx.evidence /\ full.addsMastery = tx.addsMastery /\ full.claims = tx.claims
      BY <1>2, <3>1 DEF MemoryTx
    <3> HIDE DEF full
    <3>3. Grounded(full)
      BY <1>3, <3>2 DEF Reflecting, Grounded, Told
    <3> QED BY <1>1, <2>1, <2>4, <3>2, <3>3, SessionStep
  <2>5. ASSUME NEW v \in Unlearnt(r), NEW newer \in SUBSET Phrases,
               memoryTx' = [memoryTx EXCEPT ![r] =
                 Interrupted(r, [tx EXCEPT !.addsMastery = EventOf(r, v).phrase, !.updates = newer])]
        PROVE  MemoryIInv'
    <3> DEFINE p == EventOf(r, v).phrase
               held == [tx EXCEPT !.addsMastery = p, !.updates = newer]
               t == Interrupted(r, held)
    <3>1. v \in Tries /\ EventOf(r, v) # None /\ p \in Phrases BY <2>2, <2>3 DEF Unlearnt
    <3>2. \E u \in Tries : Told(tx, u) # None /\ Told(tx, u).phrase = p BY <3>1 DEF Told, EventOf
    <3> HIDE DEF p
    <3>3. /\ held \in MemoryTx /\ held.attempt = tx.attempt /\ held.event = tx.event
          /\ held.evidence = tx.evidence /\ held.addsMastery = p /\ held.claims = tx.claims
      BY <1>2, <3>1 DEF MemoryTx
    <3> HIDE DEF held
    <3>4. \/ t = MemoryIdle
          \/ /\ t \in MemoryTx /\ t.attempt = tx.attempt /\ t.event = tx.event
             /\ t.evidence = tx.evidence /\ t.addsMastery = p /\ t.claims = tx.claims
      BY <3>3 DEF Interrupted, MemoryTx
    <3>5. memoryTx' = [memoryTx EXCEPT ![r] = t] BY <2>5 DEF t, held, p
    <3> HIDE DEF t
    <3>6. Grounded(t)
      BY <1>3, <3>2, <3>4, IdleReflection DEF Reflecting, Grounded, Told
    <3>7. /\ t \in MemoryTx
          /\ \/ t.attempt = tx.attempt /\ t.event = tx.event
             \/ t.attempt = None
          /\ "status" \in t.claims => "status" \in tx.claims
      BY <3>4, IdleReflection
    <3> QED BY <1>1, <2>1, <3>5, <3>6, <3>7, SessionStep
  <2>6. CASE \E v \in Unlearnt(r) :
               LET newer == {EventOf(r, u).phrase : u \in {w \in tx.evidence : w > v}}
               IN memoryTx' = [memoryTx EXCEPT ![r] =
                    Interrupted(r, [tx EXCEPT !.addsMastery = EventOf(r, v).phrase, !.updates = newer])]
    <3>1. \A v \in Tries : {EventOf(r, u).phrase : u \in {w \in tx.evidence : w > v}} \in SUBSET Phrases
      BY <2>3
    <3>2. Unlearnt(r) \subseteq Tries BY <2>2 DEF Unlearnt
    <3> QED BY <2>5, <2>6, <3>1, <3>2
  <2> QED BY <1>1, <1>8, <2>4, <2>6 DEF ReflectPhrases
<1> QED BY <1>4, <1>5, <1>6, <1>7, <1>8

(* The attempt gets a number that no other has.                            *)
LEMMA AttemptOpens ==
  ASSUME MemoryIInv, NEW r \in Requests, NEW p \in Phrases, NEW right \in BOOLEAN,
         OpenPhraseAttempt(r, p, right)
  PROVE  MemoryIInv'
<1> DEFINE n == tried + 1
           ev == [phrase |-> p, right |-> right]
           t == [MemoryIdle EXCEPT !.pc = "patterns", !.attempt = n, !.event = ev]
<1>1. /\ memoryTx \in [Requests -> MemoryTx] /\ tried \in Nat /\ n \in Tries
      /\ memoryTx' = [memoryTx EXCEPT ![r] = t] /\ tried' = n
      /\ UNCHANGED <<deleted, noted, masteries, patternRows, claim, denied, overtaken, lost>>
  BY TriesAssumption DEF MemoryIInv, MemoryTypeOK, OpenPhraseAttempt, learnerVars, derivedVars, Tries
<1>2. ev \in Event BY DEF Event
<1>3. ev # None BY <1>2, NoneApart
<1> HIDE DEF ev
<1>4. /\ t \in MemoryTx /\ t.attempt = n /\ t.event = ev
      /\ t.evidence = {} /\ t.addsMastery = None /\ t.claims = {}
  BY <1>1, <1>2 DEF MemoryTx, MemoryIdle
<1>5. noted[n] = None BY <1>1 DEF MemoryIInv
<1> HIDE DEF t
<1>6. /\ memoryTx' \in [Requests -> MemoryTx] /\ memoryTx'[r] = t
      /\ \A q \in Requests : q # r => memoryTx'[q] = memoryTx[q]
  BY <1>1, <1>4
<1>7. \A q \in Requests : memoryTx[q].attempt # None => memoryTx[q].attempt \in Nat /\ memoryTx[q].attempt <= tried
  BY <1>1 DEF MemoryIInv, Reflecting, MemoryTx, Tries
<1>8. MemoryTypeOK' BY <1>1, <1>6 DEF MemoryIInv, MemoryTypeOK, Tries
<1>9. \A u \in Tries : noted'[u] # None => u <= tried' BY <1>1 DEF MemoryIInv, Tries
<1>10. ASSUME NEW q \in Requests PROVE Reflecting(q)'
  <2>1. CASE q = r BY <1>1, <1>3, <1>4, <1>5, <1>6, <2>1 DEF Reflecting, Grounded
  <2>2. CASE q # r
    BY <1>1, <1>6, <1>7, <2>2 DEF MemoryIInv, Reflecting, Grounded, Told
  <2> QED BY <2>1, <2>2
<1>11. OwnAttempts' BY <1>1, <1>4, <1>6, <1>7 DEF MemoryIInv, OwnAttempts
<1>12. DeletedIsForgotten' BY <1>1 DEF MemoryIInv, DeletedIsForgotten
<1>13. DenialHolds' BY <1>1, <1>4, <1>6 DEF MemoryIInv, DenialHolds
<1> QED BY <1>1, <1>8, <1>9, <1>10, <1>11, <1>12, <1>13 DEF MemoryIInv

(* A commit adds the request's own event to the record and takes none      *)
(* away, so every mastery keeps the event that it stands for.              *)
LEMMA ReflectionCommits ==
  ASSUME MemoryIInv, NEW r \in Requests, CommitMemory(r)
  PROVE  MemoryIInv'
<1> DEFINE tx == memoryTx[r]
           added == {tx.addsMastery} \ {None}
<1>1. /\ memoryTx \in [Requests -> MemoryTx] /\ noted \in [Tries -> Event \cup {None}]
      /\ masteries \in SUBSET Phrases /\ claim \in Claim \cup {None} /\ patternRows \in Nat
  BY DEF MemoryIInv, MemoryTypeOK
<1>2. /\ RowsAgree(r)
      /\ noted' = [t \in Tries |-> IF t = tx.attempt THEN tx.event ELSE noted[t]]
      /\ masteries' = masteries \cup added
      /\ patternRows' = patternRows + (IF tx.addsPattern THEN 1 ELSE 0)
      /\ claim' = WrittenClaim(claim, tx.claims)
      /\ memoryTx' = [memoryTx EXCEPT ![r] = MemoryIdle]
      /\ UNCHANGED <<deleted, tried, denied, overtaken, lost>>
  BY DEF CommitMemory, learnerVars
<1>3. tx \in MemoryTx /\ Reflecting(r) BY <1>1 DEF MemoryIInv
<1>4. \A t \in Tries : /\ noted'[t] = Told(tx, t)
                       /\ noted[t] # None => noted'[t] = noted[t]
                       /\ noted'[t] # noted[t] => t = tx.attempt /\ t <= tried
  BY <1>2, <1>3, NoneApart DEF Told, Reflecting
<1>5. /\ memoryTx' \in [Requests -> MemoryTx] /\ memoryTx'[r] = MemoryIdle
      /\ \A q \in Requests : q # r => memoryTx'[q] = memoryTx[q]
  BY <1>1, <1>2, IdleReflection
<1>6. claim' \in Claim \cup {None}
  BY <1>1, <1>2 DEF WrittenClaim, Claim, DerivedClaim
<1>7. MemoryTypeOK'
  <2>1. noted' \in [Tries -> Event \cup {None}] BY <1>1, <1>2, <1>3 DEF MemoryTx
  <2>2. masteries' \in SUBSET Phrases BY <1>1, <1>2, <1>3 DEF MemoryTx
  <2>3. patternRows' \in Nat BY <1>1, <1>2
  <2> QED BY <1>2, <1>5, <1>6, <2>1, <2>2, <2>3 DEF MemoryIInv, MemoryTypeOK
<1>8. \A t \in Tries : noted'[t] # None => t <= tried' BY <1>2, <1>4 DEF MemoryIInv
<1>9. ASSUME NEW q \in Requests PROVE Reflecting(q)'
  <2>1. CASE q = r BY <1>5, <2>1, IdleReflection DEF Reflecting, Grounded
  <2>2. CASE q # r
    <3>1. memoryTx'[q] = memoryTx[q] /\ memoryTx[q] \in MemoryTx /\ Reflecting(q)
      BY <1>1, <1>5, <2>2 DEF MemoryIInv
    <3>2. memoryTx[q].attempt # None => memoryTx[q].attempt \in Tries /\ memoryTx[q].attempt # tx.attempt
      BY <2>2, <3>1 DEF MemoryIInv, OwnAttempts, MemoryTx
    <3>3. memoryTx[q].attempt # None => noted'[memoryTx[q].attempt] = None
      BY <1>4, <3>1, <3>2 DEF Reflecting
    <3>4. \A t \in Tries : Told(memoryTx[q], t) # None => Told(memoryTx[q], t)' = Told(memoryTx[q], t)
      BY <1>4, <3>1 DEF Told
    <3>5. memoryTx[q].evidence \subseteq Tries BY <3>1 DEF MemoryTx
    <3>6. Grounded(memoryTx[q])'
      BY <3>1, <3>4, <3>5 DEF Reflecting, Grounded
    <3> QED BY <1>2, <3>1, <3>3, <3>6 DEF Reflecting
  <2> QED BY <2>1, <2>2
<1>10. OwnAttempts' BY <1>5, IdleReflection DEF MemoryIInv, OwnAttempts
<1>11. DeletedIsForgotten'
  <2> SUFFICES ASSUME NEW p \in masteries'
               PROVE  p \notin deleted /\ \E t \in Tries : noted'[t] # None /\ noted'[t].phrase = p
    BY <1>2 DEF DeletedIsForgotten
  <2>1. CASE p \in masteries
    BY <1>4, <2>1 DEF MemoryIInv, DeletedIsForgotten
  <2>2. CASE p = tx.addsMastery /\ p # None
    <3>1. p \notin deleted BY <1>2, <2>2 DEF RowsAgree
    <3>2. \E t \in Tries : Told(tx, t) # None /\ Told(tx, t).phrase = p
      BY <1>3, <2>2 DEF Reflecting, Grounded
    <3> QED BY <1>4, <3>1, <3>2
  <2> QED BY <1>2, <2>1, <2>2
<1>12. DenialHolds'
  <2> SUFFICES ASSUME denied, ~overtaken
               PROVE  /\ claim' # None /\ claim'.status = "dismissed"
                      /\ \A q \in Requests : "status" \notin memoryTx'[q].claims
    BY <1>2 DEF DenialHolds
  <2>1. /\ claim # None /\ claim.status = "dismissed"
        /\ \A q \in Requests : "status" \notin memoryTx[q].claims
    BY DEF MemoryIInv, DenialHolds
  <2>2. "insert" \notin tx.claims /\ "status" \notin tx.claims
    BY <1>2, <2>1 DEF RowsAgree
  <2>3. claim'.status = "dismissed" /\ claim' \in Claim
    BY <1>1, <1>2, <2>1, <2>2 DEF WrittenClaim, Claim
  <2>4. \A q \in Requests : "status" \notin memoryTx'[q].claims
    BY <1>5, <2>1, IdleReflection
  <2> QED BY <2>3, <2>4, NoneApart
<1> QED BY <1>7, <1>8, <1>9, <1>10, <1>11, <1>12 DEF MemoryIInv

(* What the learner does to phrases and claims.                            *)
LEMMA LearnerChanges ==
  ASSUME MemoryIInv,
         DenyClaim \/ CorrectClaim \/ MarkImproved \/ \E p \in Phrases : DeletePhrase(p)
  PROVE  MemoryIInv'
<1>1. UNCHANGED <<tried, noted, patternRows, lost, memoryTx>>
  BY DEF DenyClaim, CorrectClaim, MarkImproved, DeletePhrase
<1>2. claim' \in Claim \cup {None} /\ deleted' \in SUBSET Phrases /\ masteries' \in SUBSET Phrases
  BY DEF MemoryIInv, MemoryTypeOK, DenyClaim, CorrectClaim, MarkImproved, DeletePhrase, Claim
<1>3. denied' \in BOOLEAN /\ overtaken' \in BOOLEAN
  BY DEF MemoryIInv, MemoryTypeOK, DenyClaim, CorrectClaim, MarkImproved, DeletePhrase
<1>4. MemoryTypeOK' BY <1>1, <1>2, <1>3 DEF MemoryIInv, MemoryTypeOK
<1>5. \A r \in Requests : Reflecting(r)'
  BY <1>1 DEF MemoryIInv, Reflecting, Grounded, Told
<1>6. OwnAttempts' BY <1>1 DEF MemoryIInv, OwnAttempts
<1>7. DeletedIsForgotten'
  BY <1>1
  DEF MemoryIInv, DeletedIsForgotten, DenyClaim, CorrectClaim, MarkImproved, DeletePhrase
<1>8. DenialHolds'
  <2>1. CASE DenyClaim
    <3>1. claim' \in Claim /\ claim'.status = "dismissed"
      BY <2>1 DEF MemoryIInv, MemoryTypeOK, DenyClaim, Claim
    <3>2. ~overtaken' => \A r \in Requests : "status" \notin memoryTx'[r].claims
      BY <1>1, <2>1 DEF DenyClaim, Reactivating
    <3> QED BY <3>1, <3>2, NoneApart DEF DenialHolds
  <2>2. CASE CorrectClaim \/ MarkImproved BY <2>2 DEF CorrectClaim, MarkImproved, DenialHolds
  <2>3. CASE \E p \in Phrases : DeletePhrase(p)
    BY <2>3 DEF MemoryIInv, DenialHolds, DeletePhrase
  <2> QED BY <2>1, <2>2, <2>3
<1> QED BY <1>1, <1>4, <1>5, <1>6, <1>7, <1>8 DEF MemoryIInv

(* What is recorded, reflected and denied agrees in every reachable state. *)
THEOREM MemoryInvariant == MemorySpec => []MemoryIInv
<1>1. MemoryInit => MemoryIInv
  <2> SUFFICES ASSUME MemoryInit PROVE MemoryIInv OBVIOUS
  <2>1. \A r \in Requests : memoryTx[r] = MemoryIdle BY DEF MemoryInit
  <2>2. MemoryTypeOK
    <3>1. denied \in BOOLEAN /\ overtaken \in BOOLEAN BY DEF MemoryInit
    <3>2. /\ tried \in 0..MaxTries /\ patternRows \in Nat
          /\ noted \in [Tries -> Event \cup {None}]
          /\ memoryTx \in [Requests -> MemoryTx]
      BY IdleReflection, TriesAssumption DEF MemoryInit
    <3> QED BY <3>1, <3>2 DEF MemoryInit, MemoryTypeOK
  <2>3. \A r \in Requests : Reflecting(r) BY <2>1, IdleReflection DEF Reflecting, Grounded
  <2>4. OwnAttempts BY <2>1, IdleReflection DEF OwnAttempts
  <2> QED BY <2>2, <2>3, <2>4 DEF MemoryInit, MemoryIInv, DeletedIsForgotten, DenialHolds
<1>2. MemoryIInv /\ [MemoryNext]_memoryVars => MemoryIInv'
  <2> SUFFICES ASSUME MemoryIInv, [MemoryNext]_memoryVars PROVE MemoryIInv' OBVIOUS
  <2>1. ASSUME NEW r \in Requests, MemoryStep(r) PROVE MemoryIInv'
    BY <2>1, ReflectionSteps, ReflectionCommits, AttemptOpens DEF MemoryStep
  <2>2. CASE UNCHANGED memoryVars
    BY <2>2 DEF memoryVars, MemoryIInv, MemoryTypeOK, Reflecting, Grounded, Told, OwnAttempts,
      DeletedIsForgotten, DenialHolds
  <2> QED BY <2>1, <2>2, LearnerChanges DEF MemoryNext
<1> QED BY <1>1, <1>2, PTL DEF MemorySpec

(* No reflection brings back the mastery of a deleted phrase, and every    *)
(* mastery is that of an attempt on record, however many overlap.          *)
THEOREM ForgottenForGood == MemorySpec => []DeletedIsForgotten
BY MemoryInvariant, PTL DEF MemoryIInv

(* A denied claim stays dismissed, unless the denial overtook a reflection *)
(* that had loaded the claim as improving.                                 *)
THEOREM DenialStands == MemorySpec => []DeniedStaysDenied
<1>1. MemoryIInv => DeniedStaysDenied BY DEF MemoryIInv, DenialHolds, DeniedStaysDenied
<1> QED BY <1>1, MemoryInvariant, PTL

(* When an attempt is lost with its reflection: only where a phrase was    *)
(* deleted, the events no longer fit in a key, or reflections overlap.     *)

MemoryAlone ==
  \A r, q \in Requests : memoryTx[r].pc # Idle /\ memoryTx[q].pc # Idle => r = q

Untroubled == MemoryAlone /\ deleted = {} /\ tried <= EpisodeLimit

(* What a reflection is about to write agrees with the rows there are.     *)
Writable(t) ==
  /\ t.addsPattern => patternRows = 0
  /\ t.addsMastery \notin masteries
  /\ t.updates \subseteq masteries
  /\ "insert" \in t.claims => claim = None

(* No attempt is rolled back by a reflection, and the pattern stays one.   *)
MemoryWhole == AttemptsAreKept /\ patternRows <= 1

MemoryApart ==
  /\ MemoryWhole
  /\ \A r \in Requests : memoryTx[r].pc # Idle => Writable(memoryTx[r])

(* The attempts a session reflects are among those that were begun.        *)
LEMMA EvidenceBounded ==
  ASSUME MemoryIInv, NEW r \in Requests
  PROVE  Cardinality(memoryTx[r].evidence) <= tried
<1> DEFINE S == memoryTx[r].evidence
<1>1. memoryTx[r] \in MemoryTx /\ tried \in Nat /\ Reflecting(r)
  BY TriesAssumption DEF MemoryIInv, MemoryTypeOK
<1>2. S \in SUBSET Tries BY <1>1 DEF MemoryTx
<1>3. \A u \in S : u \in 1..tried
  <2> TAKE u \in S
  <2>1. u \in Tries /\ Told(memoryTx[r], u) # None BY <1>1, <1>2 DEF Reflecting, Grounded
  <2>2. u <= tried
    <3>1. CASE u = memoryTx[r].attempt BY <1>1, <2>1, <3>1, NoneApart DEF Reflecting
    <3>2. CASE u # memoryTx[r].attempt BY <2>1, <3>2 DEF Told, MemoryIInv
    <3> QED BY <3>1, <3>2
  <2> QED BY <1>1, <2>1, <2>2 DEF Tries
<1> HIDE DEF S
<1>4. IsFiniteSet(1..tried) /\ Cardinality(1..tried) = tried
  BY <1>1, FS_Interval
<1>5. Cardinality(S) <= Cardinality(1..tried) BY <1>3, <1>4, FS_Subset
<1> QED BY <1>4, <1>5 DEF S

LEMMA ConstraintsHold ==
  ASSUME MemoryIInv, Untroubled, MemoryApart, NEW r \in Requests, memoryTx[r].pc # Idle
  PROVE  RowsAgree(r)
<1> DEFINE n == Cardinality(memoryTx[r].evidence)
<1>1. memoryTx[r] \in MemoryTx BY DEF MemoryIInv, MemoryTypeOK
<1>2. IsFiniteSet(memoryTx[r].evidence)
  <2>1. IsFiniteSet(Tries) BY TriesAssumption, FS_Interval DEF Tries
  <2> QED BY <1>1, <2>1, FS_Subset DEF MemoryTx
<1>3. n <= EpisodeLimit
  <2>1. n \in Nat BY <1>2, FS_CardinalityType
  <2>2. n <= tried BY EvidenceBounded
  <2>3. tried \in Nat /\ EpisodeLimit \in Nat /\ tried <= EpisodeLimit
    BY TriesAssumption DEF MemoryIInv, MemoryTypeOK, Untroubled
  <2> HIDE DEF n
  <2> QED BY <2>1, <2>2, <2>3
<1>4. Writable(memoryTx[r]) /\ deleted = {} BY DEF MemoryApart, Untroubled
<1> QED BY <1>3, <1>4 DEF RowsAgree, Writable

(* A step of one session that writes no row.                               *)
LEMMA SessionApart ==
  ASSUME MemoryIInv, MemoryApart, NEW r \in Requests, NEW t, t.pc # Idle => Writable(t),
         memoryTx' = [memoryTx EXCEPT ![r] = t],
         UNCHANGED <<masteries, patternRows, claim, lost>>
  PROVE  MemoryApart'
<1>1. memoryTx \in [Requests -> MemoryTx] BY DEF MemoryIInv, MemoryTypeOK
<1>2. /\ memoryTx'[r] = t
      /\ \A q \in Requests : q # r => memoryTx'[q] = memoryTx[q]
  BY <1>1
<1>3. ASSUME NEW q \in Requests, memoryTx'[q].pc # Idle PROVE Writable(memoryTx[q])'
  BY <1>2, <1>3 DEF MemoryApart, Writable
<1> QED BY <1>3 DEF MemoryApart, MemoryWhole, AttemptsAreKept

LEMMA CurationApart ==
  ASSUME MemoryIInv, MemoryApart, NEW r \in Requests, OpenCuration(r)
  PROVE  MemoryApart'
<1> DEFINE t == [MemoryIdle EXCEPT !.pc = "patterns"]
<1>1. None \notin masteries BY NoneAssumption DEF MemoryIInv, MemoryTypeOK
<1>2. Writable(t) BY <1>1 DEF MemoryIdle, Writable
<1>3. /\ memoryTx' = [memoryTx EXCEPT ![r] = t]
      /\ UNCHANGED <<masteries, patternRows, claim, lost>>
  BY DEF OpenCuration, learnerVars, derivedVars
<1> HIDE DEF t
<1> QED BY <1>2, <1>3, SessionApart

LEMMA AttemptApart ==
  ASSUME MemoryIInv, MemoryApart, NEW r \in Requests,
         NEW p \in Phrases, NEW right \in BOOLEAN, OpenPhraseAttempt(r, p, right)
  PROVE  MemoryApart'
<1> DEFINE t == [MemoryIdle EXCEPT !.pc = "patterns", !.attempt = tried + 1,
                                   !.event = [phrase |-> p, right |-> right]]
<1>1. None \notin masteries BY NoneAssumption DEF MemoryIInv, MemoryTypeOK
<1>2. Writable(t) BY <1>1 DEF MemoryIdle, Writable
<1>3. /\ memoryTx' = [memoryTx EXCEPT ![r] = t]
      /\ UNCHANGED <<masteries, patternRows, claim, lost>>
  BY DEF OpenPhraseAttempt, learnerVars, derivedVars
<1> HIDE DEF t
<1> QED BY <1>2, <1>3, SessionApart

LEMMA ReflectingApart ==
  ASSUME MemoryIInv, MemoryApart, NEW r \in Requests,
         ReflectPatterns(r) \/ ReflectPhrases(r) \/ ReflectClaims(r)
  PROVE  MemoryApart'
<1> DEFINE tx == memoryTx[r]
<1>1. tx \in MemoryTx BY DEF MemoryIInv, MemoryTypeOK
<1>2. UNCHANGED <<masteries, patternRows, claim, lost>>
  BY DEF ReflectPatterns, ReflectPhrases, ReflectClaims, learnerVars, derivedVars
<1>3. Writable(tx)
  BY DEF MemoryApart, ReflectPatterns, ReflectPhrases, ReflectClaims, Idle
<1>4. CASE ReflectPatterns(r)
  <2> DEFINE own == {tx.attempt} \ {None}
             seen == {t \in Tries : noted[t] # None} \cup own
             wrong == \E t \in seen : ~EventOf(r, t).right
             held == [tx EXCEPT !.evidence = seen]
             t == IF wrong /\ patternRows > 1
                  THEN Interrupted(r, held)
                  ELSE [held EXCEPT !.pc = "phrases", !.addsPattern = wrong /\ patternRows = 0]
  <2>1. memoryTx' = [memoryTx EXCEPT ![r] = t] BY <1>4 DEF ReflectPatterns
  <2> HIDE DEF seen, wrong
  <2>2. \/ t = MemoryIdle
        \/ /\ t.addsPattern = tx.addsPattern \/ t.addsPattern = (wrong /\ patternRows = 0)
           /\ t.addsMastery = tx.addsMastery /\ t.updates = tx.updates /\ t.claims = tx.claims
    BY <1>1 DEF Interrupted, MemoryTx
  <2> HIDE DEF t
  <2>3. t.pc # Idle => Writable(t) BY <1>3, <2>2, IdleReflection DEF Writable, Idle
  <2> QED BY <1>2, <2>1, <2>3, SessionApart
<1>5. CASE ReflectPhrases(r)
  <2> DEFINE practised == {EventOf(r, u).phrase : u \in tx.evidence}
             full == [tx EXCEPT !.pc = "claims", !.updates = practised, !.episode = practised # {}]
  <2>1. CASE Unlearnt(r) = {} /\ memoryTx' = [memoryTx EXCEPT ![r] = full]
    <3>1. practised \subseteq masteries BY <2>1 DEF Unlearnt
    <3> HIDE DEF practised
    <3>2. /\ full.addsPattern = tx.addsPattern /\ full.addsMastery = tx.addsMastery
          /\ full.updates = practised /\ full.claims = tx.claims
      BY <1>1 DEF MemoryTx
    <3> HIDE DEF full
    <3>3. Writable(full) BY <1>3, <3>1, <3>2 DEF Writable
    <3> QED BY <1>2, <2>1, <3>3, SessionApart
  <2>2. ASSUME NEW v \in Unlearnt(r), \A u \in Unlearnt(r) : u <= v,
               LET newer == {EventOf(r, u).phrase : u \in {w \in tx.evidence : w > v}}
               IN memoryTx' = [memoryTx EXCEPT ![r] =
                    Interrupted(r, [tx EXCEPT !.addsMastery = EventOf(r, v).phrase, !.updates = newer])]
        PROVE  MemoryApart'
    <3> DEFINE newer == {EventOf(r, u).phrase : u \in {w \in tx.evidence : w > v}}
               p == EventOf(r, v).phrase
               held == [tx EXCEPT !.addsMastery = p, !.updates = newer]
               t == Interrupted(r, held)
    <3>1. tx.evidence \subseteq Nat /\ v \in Nat
      BY <1>1, TriesAssumption DEF MemoryTx, Tries, Unlearnt
    <3>2. \A u \in tx.evidence : u > v => EventOf(r, u).phrase \in masteries
      <4>1. \A u \in tx.evidence : u > v => u \notin Unlearnt(r) BY <2>2, <3>1
      <4> QED BY <4>1 DEF Unlearnt
    <3>3. newer \subseteq masteries BY <3>2
    <3>4. p \notin masteries BY DEF Unlearnt
    <3>5. memoryTx' = [memoryTx EXCEPT ![r] = t] BY <2>2
    <3> HIDE DEF p, newer
    <3>6. \/ t = MemoryIdle
          \/ /\ t.addsPattern = tx.addsPattern /\ t.addsMastery = p
             /\ t.updates = newer /\ t.claims = tx.claims
      BY <1>1 DEF Interrupted, MemoryTx
    <3> HIDE DEF t
    <3>7. t.pc # Idle => Writable(t)
      BY <1>3, <3>3, <3>4, <3>6, IdleReflection DEF Writable, Idle
    <3> QED BY <1>2, <3>5, <3>7, SessionApart
  <2> QED BY <1>5, <2>1, <2>2 DEF ReflectPhrases
<1>6. CASE ReflectClaims(r)
  <2> DEFINE c == IF Mistakes(r) = {} THEN {}
                  ELSE IF claim = None THEN {"insert"}
                  ELSE IF Rewritable(claim) THEN ChangedColumns(claim)
                  ELSE {}
             t == [tx EXCEPT !.pc = "closing", !.claims = c]
  <2>1. "insert" \in c => claim = None BY DEF ChangedColumns
  <2>2. memoryTx' = [memoryTx EXCEPT ![r] = t]
    BY <1>6 DEF ReflectClaims, MemoryIInv, MemoryTypeOK
  <2> HIDE DEF c
  <2>3. /\ t.addsPattern = tx.addsPattern /\ t.addsMastery = tx.addsMastery
        /\ t.updates = tx.updates /\ t.claims = c
    BY <1>1 DEF MemoryTx
  <2> HIDE DEF t
  <2>4. Writable(t) BY <1>3, <2>1, <2>3 DEF Writable
  <2> QED BY <1>2, <2>2, <2>4, SessionApart
<1> QED BY <1>4, <1>5, <1>6

LEMMA MemoryApartStep ==
  ASSUME MemoryIInv, Untroubled, Untroubled', MemoryApart, [MemoryNext]_memoryVars
  PROVE  MemoryApart'
<1>1. memoryTx \in [Requests -> MemoryTx] BY DEF MemoryIInv, MemoryTypeOK
<1>2. ASSUME NEW r \in Requests, CommitMemory(r) PROVE MemoryApart'
  <2>1. /\ memoryTx[r].pc # Idle
        /\ patternRows' = patternRows + (IF memoryTx[r].addsPattern THEN 1 ELSE 0)
        /\ memoryTx' = [memoryTx EXCEPT ![r] = MemoryIdle] /\ lost' = lost
    BY <1>2 DEF CommitMemory, Idle
  <2>2. patternRows' <= 1
    <3>1. memoryTx[r].addsPattern => patternRows = 0 BY <2>1 DEF MemoryApart, Writable
    <3>2. patternRows \in Nat /\ patternRows <= 1
      BY DEF MemoryIInv, MemoryTypeOK, MemoryApart, MemoryWhole
    <3> QED BY <2>1, <3>1, <3>2
  <2>3. \A q \in Requests : memoryTx'[q].pc = Idle
    BY <1>1, <2>1, IdleReflection DEF Untroubled, MemoryAlone, Idle
  <2> QED BY <2>1, <2>2, <2>3 DEF MemoryApart, MemoryWhole, AttemptsAreKept
<1>3. ASSUME NEW r \in Requests, RefuseMemory(r) PROVE MemoryApart'
  <2>1. RowsAgree(r) BY <1>3, ConstraintsHold DEF RefuseMemory, Idle
  <2> QED BY <1>3, <2>1 DEF RefuseMemory
<1>4. ASSUME NEW r \in Requests, MemoryAbort(r) PROVE MemoryApart'
  <2>1. /\ memoryTx' = [memoryTx EXCEPT ![r] = MemoryIdle]
        /\ UNCHANGED <<masteries, patternRows, claim, lost>>
    BY <1>4 DEF MemoryAbort, learnerVars, derivedVars
  <2> QED BY <2>1, IdleReflection, SessionApart DEF Idle
<1>5. ASSUME NEW p \in Phrases, DeletePhrase(p) PROVE MemoryApart'
  BY <1>5 DEF DeletePhrase, Untroubled
<1>6. CASE DenyClaim \/ CorrectClaim \/ MarkImproved
  <2>1. claim # None /\ UNCHANGED <<masteries, patternRows, lost, memoryTx>>
    BY <1>6 DEF DenyClaim, CorrectClaim, MarkImproved
  <2> QED BY <2>1 DEF MemoryApart, MemoryWhole, AttemptsAreKept, Writable
<1>7. CASE UNCHANGED memoryVars
  BY <1>7 DEF memoryVars, MemoryApart, MemoryWhole, AttemptsAreKept, Writable
<1> QED
  BY <1>2, <1>3, <1>4, <1>5, <1>6, <1>7, CurationApart, AttemptApart,
     ReflectingApart
  DEF MemoryNext, MemoryStep

(* As long as no two calls are open at once, no phrase is deleted and the  *)
(* events fit in a key, every attempt is kept whatever its reflection does *)
(* and the pattern is one row: the violated AttemptsAreKept has these      *)
(* three causes and no other.                                              *)
THEOREM AttemptsKeptApart == MemorySpec /\ []Untroubled => []MemoryWhole
<1>1. MemoryInit => MemoryApart
  <2>1. MemoryIdle.pc = Idle BY IdleReflection DEF Idle
  <2> QED BY <2>1 DEF MemoryInit, MemoryApart, MemoryWhole, AttemptsAreKept
<1>2. MemoryIInv /\ Untroubled /\ Untroubled' /\ MemoryApart /\ [MemoryNext]_memoryVars
        => MemoryApart'
  BY MemoryApartStep
<1>3. MemoryApart => MemoryWhole BY DEF MemoryApart
<1> QED BY <1>1, <1>2, <1>3, MemoryInvariant, PTL DEF MemorySpec

=============================================================================
