SPECIFICATION Spec
CONSTANTS
    Templates <- MCTemplates
    Available <- MCAvailable
    TemplateType <- MCTemplateType
    Quality <- MCQuality
    Disabled <- MCDisabled
    MinimalNamed <- MCMinimalNamed
    Analyses <- MCAnalyses
    MaxRetries = 3
    NoTemplate = NoTemplate
    ResultShapes <- MCShapes

    Requests <- MCAllRequests
CHECK_DEADLOCK FALSE
PROPERTY NoCallAfterLimit
