\* Two requests and two generations of a session with one action of each kind.
SPECIFICATION Spec
CONSTANTS
  save = save
  dismiss = dismiss
  practice = practice
  complete = complete
  Actions = {save, dismiss, practice, complete}
  Kind <- OneOfEach
  BlockIds = {save, dismiss}
  PracticeIds = {dismiss}
  Requests = {r1, r2}
  Tasks = {t1, t2}
  MaxAttempts = 1
  None = None
SYMMETRY LabSymmetry
INVARIANTS
  TypeOK
  EffectsMatchActions
  GeneratingIsAttended
PROPERTIES
  AttemptsWhileOpen
  ImplementsLedger
