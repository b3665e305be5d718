\* Two clients send, cancel and reconnect; old sessions read on.
CONSTANTS
    Clients = {"left", "right"}
    Manifests <- ThreeManifests
    MaxTransfers = 2
    MaxCuts = 1
    WireLimit = 2
    NoClient = NoClient
SPECIFICATION Spec
INVARIANTS TypeOK SourceIsConnected
PROPERTIES DeliversWhole
CHECK_DEADLOCK FALSE
