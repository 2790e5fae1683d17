CONSTANTS
    Clients = {c1}
    Operators = {p1, p2}
    Loader = Loader
    Nobody = Nobody
    Command = Command
    MaxTurns = 1
    MaxCalls = 2
SPECIFICATION Spec
PROPERTY NoModelMeansNone
