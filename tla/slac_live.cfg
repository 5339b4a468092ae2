SPECIFICATION FairSpec
CONSTANTS
    NumSounds = 3
    EvNmk = "nmkS"
    SeNmk = "nmkS"
    ModemAnswers <- MCAccepts
    Others <- MCNoOther
    ReqCap = 2
    Lossy = FALSE
    Replugs = FALSE
    Quits = FALSE
    Prompt = FALSE
    Timeouts = FALSE
    MaxWaiting = 2
INVARIANTS MatchingInStep
PROPERTIES Served
