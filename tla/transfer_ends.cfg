\* Under the fairness of the event loops every send and every receive ends.
CONSTANTS
    Clients = {"left", "right"}
    Manifests <- OneManifest
    MaxTransfers = 2
    MaxCuts = 1
    WireLimit = 1
    NoClient = NoClient
SPECIFICATION FairSpec
PROPERTIES CompleteArrives SendEnds
CHECK_DEADLOCK FALSE
