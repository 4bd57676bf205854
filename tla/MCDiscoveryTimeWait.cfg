SPECIFICATION Spec
CONSTANTS
    Visible = {1}
    Hidden = {3}
    Sockets = {1, 2}
    Places <- MCPlaces
    MaxMoves = 0
    Queries <- MCQueries
    Retries = 1
    Room = 0
    Attempts = 2
INVARIANTS NothingToSignal
