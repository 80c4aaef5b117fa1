SPECIFICATION FairSpec
CONSTANTS
    a1 = a1
    a2 = a2
    a3 = a3
    Attempts = {a1, a2, a3}
    Want <- WantMixed
    None = None
    Shared = {tth}
    Public = FALSE
    MaxConnects = 2
INVARIANT TypeOK
INVARIANT HandedIsOpen
PROPERTY ListsAreServed
 
PROPERTY AttemptsEnd
CHECK_DEADLOCK FALSE
