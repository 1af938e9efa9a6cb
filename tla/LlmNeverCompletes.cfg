SPECIFICATION FairSpec
CONSTANTS
    Requests = {"r1"}
    Cases = {"c1"}
    Inquiries <- DelayOnly
    Glossary <- NoText
    Documents <- NoText
    VisionAnswers <- NoText
    Environments <- UndisturbedWithLlm
    RefreshGlossary = FALSE
    ExposeGlossary = FALSE
    MaxTerms = 0
    Threshold = 70
    MaxRewrite = 2
    VisionThreshold = 65
    MaxDepth = 3
CHECK_DEADLOCK FALSE
PROPERTIES
    Completes
