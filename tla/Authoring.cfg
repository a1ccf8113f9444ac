SPECIFICATION AuthoringSpec
CONSTANTS
    Roles <- MCRoles
    Classify <- MCClassify
    Generic <- MCGeneric
    Numerals <- MCNumerals
    Books <- MCBooks
    Columns = {"date", "qty", "plant"}
    Operations = {"aggregate_group", "date_bucket", "trim"}
    Recognised = {"trim", "upper"}
    HeaderAnswers <- MCHeaderAnswers
    RowAnswers <- MCRowAnswers
    FieldAnswers <- MCFieldAnswers
    ChainAnswers <- MCChainAnswers
    OperationAnswers <- MCOperationAnswers
    RuleSheets <- MCRuleSheets
    ModelBodies <- MCModelBodies
    AppearsIn <- MCAppearsIn
    MaxPicks = 2
ACTION_CONSTRAINT MCFromOnePick
INVARIANTS
    PickedIsParsed
    AnswersAreGrounded
    BucketedGroupsAreBonded
    InstructionsKept
