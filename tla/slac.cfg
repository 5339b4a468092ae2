SPECIFICATION FairSpec
CONSTANTS
    NumSounds = 1
    EvNmk = "nmkV"
    SeNmk = "nmkS"
    ModemAnswers <- MCMayRefuse
    Others <- MCNoOther
    ReqCap = 1
    Lossy = TRUE
    Replugs = TRUE
    Quits = TRUE
    Prompt = FALSE
    Timeouts = TRUE
    MaxWaiting = 1
INVARIANTS TypeOK KeyAgreed MacKnown SessionUndisturbed
PROPERTIES ReadyAgain
CHECK_DEADLOCK FALSE
