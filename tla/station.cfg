SPECIFICATION Spec
CONSTANTS
    MaximumRetry = 2
    NodeIds = {3}
    MaxAge = 3
INVARIANTS
    TypeOK
    NeverStranded
    NothingLeftOver
    FreshWhileServed
    RunsRegistered
PROPERTIES
    Answered
