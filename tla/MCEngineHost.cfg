CONSTANTS
    Clients = {c1, c2}
    Operators = {p1, p2}
    Loader = Loader
    Nobody = Nobody
    Command = Command
    MaxTurns = 2
    MaxCalls = 3
SPECIFICATION FairSpec
INVARIANTS UnderTheTurn OpenedAlone LastTurnOwn GoneStopsItsOwn
PROPERTIES TurnAnswered CallReturns
