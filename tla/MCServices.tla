----------------------------- MODULE MCServices -----------------------------
(***************************************************************************)
(* The services that share no rows, checked in one run: each behaviour is  *)
(* one of one service, the others standing still at their initial state.   *)
(* FeishuSync takes the import that GroupLearning has in detail as a step. *)
(***************************************************************************)
EXTENDS DailyLesson, VocabularyPractice, ChatThread, EmailVerification,
        GroupLearning, FeishuSync, TextbookReview, ReadingWorkshop,
        PhraseMemory, TLC

VARIABLE service  \* the service that this behaviour is about

allVars ==
  <<service, lessonVars, vocabVars, chatVars, emailVars, groupVars, syncVars,
    reviewVars, readingVars, memoryVars>>

Init ==
  /\ service \in {"lesson", "vocabulary", "chat", "email", "group", "feishu", "textbook", "reading",
                 "memory"}
  /\ LessonInit
  /\ VocabInit
  /\ ChatInit
  /\ EmailInit
  /\ GroupInit
  /\ SyncInit
  /\ ReviewInit
  /\ ReadingInit
  /\ MemoryInit

LessonTurn ==
  /\ service = "lesson"
  /\ LessonNext
  /\ UNCHANGED <<service, vocabVars, chatVars, emailVars, groupVars, syncVars, reviewVars, readingVars, memoryVars>>

VocabTurn ==
  /\ service = "vocabulary"
  /\ VocabNext
  /\ UNCHANGED <<service, lessonVars, chatVars, emailVars, groupVars, syncVars, reviewVars, readingVars, memoryVars>>

ChatTurn ==
  /\ service = "chat"
  /\ ChatNext
  /\ UNCHANGED <<service, lessonVars, vocabVars, emailVars, groupVars, syncVars, reviewVars, readingVars, memoryVars>>

EmailTurn ==
  /\ service = "email"
  /\ EmailNext
  /\ UNCHANGED <<service, lessonVars, vocabVars, chatVars, groupVars, syncVars, reviewVars, readingVars, memoryVars>>

GroupTurn ==
  /\ service = "group"
  /\ GroupNext
  /\ UNCHANGED <<service, lessonVars, vocabVars, chatVars, emailVars, syncVars, reviewVars, readingVars, memoryVars>>

SyncTurn ==
  /\ service = "feishu"
  /\ SyncNext
  /\ UNCHANGED <<service, lessonVars, vocabVars, chatVars, emailVars, groupVars, reviewVars, readingVars, memoryVars>>

ReviewTurn ==
  /\ service = "textbook"
  /\ ReviewNext
  /\ UNCHANGED <<service, lessonVars, vocabVars, chatVars, emailVars, groupVars, syncVars, readingVars, memoryVars>>

ReadingTurn ==
  /\ service = "reading"
  /\ ReadingNext
  /\ UNCHANGED <<service, lessonVars, vocabVars, chatVars, emailVars, groupVars, syncVars, reviewVars, memoryVars>>

MemoryTurn ==
  /\ service = "memory"
  /\ MemoryNext
  /\ UNCHANGED <<service, lessonVars, vocabVars, chatVars, emailVars, groupVars, syncVars, reviewVars, readingVars>>

Next ==
  \/ LessonTurn
  \/ VocabTurn
  \/ ChatTurn
  \/ EmailTurn
  \/ GroupTurn
  \/ SyncTurn
  \/ ReviewTurn
  \/ ReadingTurn
  \/ MemoryTurn

Spec == Init /\ [][Next]_allVars

(* The variables of every service have their types.                        *)
TypeOK ==
  /\ LessonTypeOK
  /\ VocabTypeOK
  /\ ChatTypeOK
  /\ EmailTypeOK
  /\ GroupTypeOK
  /\ SyncTypeOK
  /\ ReviewTypeOK
  /\ ReadingTypeOK
  /\ MemoryTypeOK

(* Requests do the same things, and so do phrases.                         *)
Symmetry == Permutations(Requests) \cup Permutations(Phrases)

=============================================================================
