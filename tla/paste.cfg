\* Copies, pastes, other transfers and cancellations at both ends.
CONSTANTS
    Server = Server
    Client = Client
    MaxCopies = 2
    MaxPastes = 2
    MaxPlain = 1
    MaxCancels = 1
SPECIFICATION Spec
SYMMETRY PeerSymmetry
INVARIANTS TypeOK PasteGetsItsOffer ServesWhatItSends PasteIsAnswered
CHECK_DEADLOCK FALSE
