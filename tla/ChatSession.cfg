SPECIFICATION FairSpec
CONSTANTS
  NoRun = NoRun
  Sessions = {s1, s2}
  Runs = {r1, r2}
INVARIANTS
  AnswerMeetsItsQuestion
PROPERTIES
  NeverDropsALiveRun
  ConfirmationEnds
CONSTRAINT MCOneAtATime
CHECK_DEADLOCK FALSE
