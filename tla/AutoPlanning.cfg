SPECIFICATION Spec
CONSTANTS
  AreaOf <- MCAreaOf
  MinMatches = 2
  Schemas <- MCSchemas
  Claims <- MCClaims
  KeyFields <- MCKeyFields
  RoleOf <- MCRoleOf
  ContentOf <- MCContentOf
  Related <- MCRelated
  MaxAnswers = 2
  MaxChanges = 1
  MaxRestarts = 1
INVARIANTS
  EntitiesAreEvidenced
  ResolvedIsLive
  AnswersFitQuestions
CHECK_DEADLOCK FALSE
