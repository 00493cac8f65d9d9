CONSTANTS
    Requests = {r1, r2}
    Questions <- MCQuestions
    Overview = Overview
    Malformed = Malformed
    ValidGroupBys = {"SERVICE", "RESOURCE_ID"}
    AllowedTags = {"TAG:team"}
    Pages = 2
    OptedIn = FALSE
    Errors <- MCErrors
    Keys <- MCKeys
    TTL = 1
    MaxEntries = 5
    MaxTime = 1
    FnMayPanic = TRUE
    NoKey = NoKey
    NoRequest = NoRequest
SPECIFICATION FairServiceSpec
INVARIANTS
    AnswersMatchQuestion
    OnlyWholeAnswers
    BoughtOncePerTTL
    
    StatusBlamesRightly
PROPERTIES
    EveryQuestionAnswered
CHECK_DEADLOCK FALSE
