SPECIFICATION Spec
CONSTANTS
    p1 = p1
    a1 = a1
    a2 = a2
    Peer = {p1}
    Address = {a1, a2}
    Kind = {"Ack", "ServerHint"}
    Ignorable = {"ServerHint"}
    MaxSequence = 2
    MaxLives = 2
SYMMETRY Endpoints
INVARIANTS
    NothingTwice
    NothingLost
    AnswersGoToPeer
PROPERTIES
    ImplementsMailbox
