SPECIFICATION Spec
CONSTANTS
    MaxPid = 2
    MaxStart = 3
    Consoles <- MCConsoles
    Homes = {0, 1}
    Streams <- MCStreams
    Refusals = {"other"}
    Prompt = TRUE
    Options <- MCOptions
INVARIANTS SurvivesOwnBreak ConsoleLetGo HandlesClosed OutcomeShown
PROPERTIES KeepsHold BreakConfined Terminates
