SPECIFICATION ModesSpec
CONSTANTS
    r1 = r1
    r2 = r2
    w1 = w1
    Payloads <- MCPayloads
    Pushes = {1, 2}
    Clients = {TRUE, FALSE}
    NameOrder <- MCNames
INVARIANT LossIsCounted
INVARIANT UnderItsSignature
INVARIANT ShutdownIsQuiet
PROPERTY RequestsMove
CHECK_DEADLOCK FALSE
