SPECIFICATION Spec
CONSTANTS
    Requests = {"r1"}
    Cases = {"c1"}
    Inquiries <- HighRiskOnly
    Glossary <- NoText
    Documents <- NoText
    VisionAnswers <- NoText
    Environments <- Undisturbed
    RefreshGlossary = FALSE
    ExposeGlossary = FALSE
    MaxTerms = 0
    Threshold = 70
    MaxRewrite = 2
    VisionThreshold = 65
    MaxDepth = 3
CHECK_DEADLOCK FALSE
INVARIANTS
    HandoffIsCounted
