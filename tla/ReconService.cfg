SPECIFICATION Spec
CONSTANTS
  None = None
  Threads = {t1, t2}
  Contracts = {c1}
  Rules = {dated, fixed}
  Rolling = {dated}
  Anchored = {dated}
  Scripts = {good, unsafe}
  Unsafe = {unsafe}
  Previews = {p1}
  Runs = {r1}
  Days = {1, 2}
  Explicit = {1}
  ImpliedDay = 0
  Ttl = 1
  MaxVersion = 2
SYMMETRY Alike
INVARIANTS
  ReviewedIsRun
  ReplayReproduces
  CompletionIsTrue
  LiveShadowReadable
  VetoHolds
CHECK_DEADLOCK FALSE
