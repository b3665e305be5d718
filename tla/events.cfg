\* A fast timer and a slower one-shot against input that never ends.
CONSTANTS
    Main = "main"
    Threads = {"sockets", "early"}
    EarlyThreads = {"early"}
    Timers = {"fast", "once"}
    Period <- Periods
    OneShot = {"once"}
    MaxPosts = 2
    MaxEarly = 1
    MaxQueued = 2
SPECIFICATION FairSpec
INVARIANTS TypeOK LatenessIsBounded
PROPERTIES HandledInOrder NothingStarves
