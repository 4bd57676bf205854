SPECIFICATION UnixSpec
CONSTANTS
    MaxPid = 2
    MaxStart = 4
    Booted = {1}
    Pidfds = {TRUE, FALSE}
    Systems = {"linux", "darwin"}
    Refusals = {"other"}
INVARIANTS UnixTypeOK OnlyPinnedSignalled HandlesOwned ExitIsOwn
PROPERTIES NeverRevived KeepsHold
CHECK_DEADLOCK FALSE
