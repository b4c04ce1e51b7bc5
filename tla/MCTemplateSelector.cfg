SPECIFICATION Spec
CONSTANTS
    Templates <- MCTemplates
    Available <- MCAvailable
    TemplateType <- MCTemplateType
    Quality <- MCQuality
    Disabled <- MCDisabled
    MinimalNamed <- MCMinimalNamed
    Analyses <- MCAnalyses
    MaxRetries = 3
    NoTemplate = NoTemplate
    ResultShapes <- MCShapes

    Requests <- MCAllRequests
INVARIANT TypeOK SelectionAllowed
PROPERTY NoCallAfterLimitExplicit
PROPERTY Terminates
CHECK_DEADLOCK FALSE
