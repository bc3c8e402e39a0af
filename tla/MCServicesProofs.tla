-------------------------- MODULE MCServicesProofs --------------------------
(***************************************************************************)
(* The services together.  They share no rows, so every behaviour of the   *)
(* composition is, seen through the variables of one service, a behaviour  *)
(* of that service's own specification, and what is proved of a service    *)
(* alone holds of the composition that TLC runs.                           *)
(***************************************************************************)
EXTENDS MCServices, StudyProofs, ServiceProofs, GroupLessonProofs

(* A turn of one service leaves the variables of the others alone.         *)
LEMMA TurnsDoNotInterfere ==
  ASSUME [Next]_allVars
  PROVE  /\ [LessonNext]_lessonVars
         /\ [VocabNext]_vocabVars
         /\ [ChatNext]_chatVars
         /\ [EmailNext]_emailVars
         /\ [GroupNext]_groupVars
         /\ [SyncNext]_syncVars
         /\ [ReviewNext]_reviewVars
         /\ [ReadingNext]_readingVars
         /\ [MemoryNext]_memoryVars
<1>1. CASE UNCHANGED allVars BY <1>1 DEF allVars
<1>2. CASE LessonTurn BY <1>2 DEF LessonTurn
<1>3. CASE VocabTurn BY <1>3 DEF VocabTurn
<1>4. CASE ChatTurn BY <1>4 DEF ChatTurn
<1>5. CASE EmailTurn BY <1>5 DEF EmailTurn
<1>6. CASE GroupTurn BY <1>6 DEF GroupTurn
<1>7. CASE SyncTurn BY <1>7 DEF SyncTurn
<1>8. CASE ReviewTurn BY <1>8 DEF ReviewTurn
<1>9. CASE ReadingTurn BY <1>9 DEF ReadingTurn
<1>10. CASE MemoryTurn BY <1>10 DEF MemoryTurn
<1> QED
  BY <1>1, <1>2, <1>3, <1>4, <1>5, <1>6, <1>7, <1>8, <1>9, <1>10 DEF Next

(* The composition implements the specification of every service: none of  *)
(* them takes a step, or starts in a state, that it would not take alone.  *)
THEOREM ServicesComposed ==
  Spec => /\ LessonSpec /\ VocabSpec /\ ChatSpec
          /\ EmailSpec /\ GroupSpec /\ SyncSpec
          /\ ReviewSpec /\ ReadingSpec /\ MemorySpec
<1>1. Init => /\ LessonInit /\ VocabInit /\ ChatInit /\ EmailInit /\ GroupInit
              /\ SyncInit /\ ReviewInit /\ ReadingInit /\ MemoryInit
  BY DEF Init
<1>2. [Next]_allVars => /\ [LessonNext]_lessonVars
                        /\ [VocabNext]_vocabVars
                        /\ [ChatNext]_chatVars
                        /\ [EmailNext]_emailVars
                        /\ [GroupNext]_groupVars
                        /\ [SyncNext]_syncVars
                        /\ [ReviewNext]_reviewVars
                        /\ [ReadingNext]_readingVars
                        /\ [MemoryNext]_memoryVars
  BY TurnsDoNotInterfere
<1> QED
  BY <1>1, <1>2, PTL
  DEF Spec, LessonSpec, VocabSpec, ChatSpec, EmailSpec, GroupSpec, SyncSpec, ReviewSpec,
      ReadingSpec, MemorySpec

(* Whatever the services do, every variable of each keeps its type.        *)
THEOREM ServicesTypeCorrect == Spec => []TypeOK
<1>1. LessonIInv => LessonTypeOK BY DEF LessonIInv
<1>2. VocabIInv => VocabTypeOK BY DEF VocabIInv
<1>3. ChatIInv => ChatTypeOK BY DEF ChatIInv
<1>4. EmailIInv => EmailTypeOK BY DEF EmailIInv
<1>5. GroupIInv => GroupTypeOK BY DEF GroupIInv
<1>6. SyncIInv => SyncTypeOK BY DEF SyncIInv
<1>7. ReviewIInv => ReviewTypeOK BY DEF ReviewIInv
<1>8. ReadingIInv => ReadingTypeOK BY DEF ReadingIInv
<1>9. MemoryIInv => MemoryTypeOK BY DEF MemoryIInv
<1> QED
  BY <1>1, <1>2, <1>3, <1>4, <1>5, <1>6, <1>7, <1>8, <1>9, ServicesComposed,
     LessonInvariant, VocabInvariant, ChatInvariant, EmailInvariant, GroupInvariant,
     SyncInvariant, ReviewInvariant, ReadingInvariant, MemoryInvariant, PTL
  DEF TypeOK

(* All the promises of the run Services, for every value of the constants  *)
(* and of the composition that TLC runs: what each service promises alone  *)
(* it keeps beside the others.                                             *)
THEOREM ServicesKeepPromises ==
  Spec => /\ [](GradedOnce /\ CountsAreAttempts /\ NoWordSkipped)
          /\ [](TurnsAreWhole /\ SideEffectsFollowCommit)
          /\ [](GuessesAreLimited /\ CodesAreSpent)
          /\ [](ImportedOnce /\ AppliedByOverlap /\ SyncLosesNothing)
          /\ [](IngestIsAttended /\ TextbookIsOneParse /\ DeletionIsFinal)
          /\ [](ReadOnce /\ DeletedIsForgotten /\ DeniedStaysDenied)
BY ServicesComposed, LessonsGradedByOverlap, CountersNeverRunAhead, EveryWordIsLeft,
   TurnsStayWhole, SideEffectsAreOfCommittedTurns, GuessesLimited, CodesSpentOnce,
   MessagesImportedOnce, SignalsAppliedByOverlap, NothingIsLost, RunsAreAttended,
   RunsNeverMix, DeletedForGood, ReadAndRecordedOnce, ForgottenForGood, DenialStands, PTL

=============================================================================
