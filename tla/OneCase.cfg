SPECIFICATION FairSpec
CONSTANTS
    Requests = {"r1"}
    Cases = {"c1"}
    Inquiries <- OneInquiry
    Glossary <- Descriptions
    Documents <- Quotes
    VisionAnswers <- Photos
    Environments <- AnyEnvironment
    RefreshGlossary = TRUE
    ExposeGlossary = TRUE
    MaxTerms = 2
    Threshold = 70
    MaxRewrite = 2
    VisionThreshold = 65
    MaxDepth = 3
CHECK_DEADLOCK FALSE
INVARIANTS
    TypeOK
    OutgoingMasked
    ReplyIsJustified
    LegibleAlarmIsHandedOff
    ReasonIsTruthful
    VisionEvidence
    EventsTellTheVerdict
PROPERTIES
    VerdictIsFinal
    Completes
