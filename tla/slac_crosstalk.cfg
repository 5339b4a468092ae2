SPECIFICATION Spec
CONSTANTS
    NumSounds = 2
    EvNmk = "nmkV"
    SeNmk = "nmkS"
    ModemAnswers <- MCAccepts
    Others <- MCOther
    ReqCap = 1
    Lossy = FALSE
    Replugs = FALSE
    Quits = TRUE
    Prompt = TRUE
    Timeouts = TRUE
    MaxWaiting = 0
INVARIANTS KeyAgreed OrdersAnswered
CHECK_DEADLOCK FALSE
