SPECIFICATION FairSpec
CONSTANTS
    MayInterruptCopy = TRUE
    MayBackup = TRUE
    MayLoseStaging = TRUE
    MayChangeMind = FALSE
INVARIANTS
    
    BootPair
    Outcome
    RefusedOnlyWhenDisturbed
    IInv
PROPERTIES
    OldKept
    Completes
