SPECIFICATION Spec
CONSTANTS
    MayInterruptCopy = FALSE
    MayBackup = TRUE
    MayLoseStaging = FALSE
    MayChangeMind = FALSE
INVARIANT
    Resumable
