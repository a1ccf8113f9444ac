SPECIFICATION Spec
CONSTANTS
  Runs = {r1, r2}
  Requests = {q1}
  NoRun = NoRun
  Values = {v1}
  Targets = {t1}
  MaxIds = 2
  MaxBatches = 2
SYMMETRY Symmetry
INVARIANTS GuessesStayPrivate UsedPairsSurvive PromotedIsVouched
CONSTRAINT MCOneDiscard
CHECK_DEADLOCK FALSE
