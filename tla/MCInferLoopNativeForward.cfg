CONSTANTS
    c1 = c1
    c2 = c2
    MaxDepth = 2
    MaxCalls = 2
    CallIds <- MCCallIds
    Tools <- MCTools
    CompletionTools <- MCCompletionTools
    Providers <- MCNativeProviders
    Direct = FALSE
    Environments <- MCEnvironments
    CallerOverrides <- MCCallerOverrides
SPECIFICATION Spec
INVARIANT ContextForwarded
CHECK_DEADLOCK FALSE
