SPECIFICATION Spec
CONSTANTS
    MayInterruptCopy = FALSE
    MayBackup = FALSE
    MayLoseStaging = FALSE
    MayChangeMind = TRUE
PROPERTY
    OnlyOldDeleted
