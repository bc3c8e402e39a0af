\* Two generations are queued; the second outlives the completion of the session.
SPECIFICATION Spec
CONSTANTS
  save = save
  dismiss = dismiss
  practice = practice
  complete = complete
  Actions = {save, dismiss, practice, complete}
  Kind <- OneOfEach
  BlockIds = {save, dismiss}
  PracticeIds = {dismiss}
  Requests = {r1}
  Tasks = {t1, t2}
  MaxAttempts = 1
  None = None
PROPERTIES
  CompletedStays
