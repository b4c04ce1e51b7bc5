CONSTANTS
    c1 = c1
    c2 = c2
    MaxDepth = 2
    MaxCalls = 2
    CallIds <- MCCallIds
    Tools <- MCTools
    CompletionTools <- MCCompletionTools
    Providers <- MCProviders
    Direct = FALSE
    Environments <- MCEnvironments
    CallerOverrides <- MCCallerOverrides
SPECIFICATION Spec
PROPERTY Terminates
CHECK_DEADLOCK FALSE
