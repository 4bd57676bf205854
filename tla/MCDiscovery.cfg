SPECIFICATION Spec
CONSTANTS
    Visible = {1, 2}
    Hidden = {3}
    Sockets = {1, 2}
    Places <- MCPlaces
    MaxMoves = 2
    Queries <- MCQueries
    Retries = 1
    Room = 0
    Attempts = 2
INVARIANTS FreeMeansFree OwnersTrue NoFalseBarrier UnsettledMeansGrowing
PROPERTIES Returns
