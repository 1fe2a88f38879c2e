SPECIFICATION FairSpec
CONSTANTS
    main = main
    reader = reader
    n1 = n1
    n2 = n2
    NoRealm = NoRealm
    Realms = {main, reader}
    Notifiers = {n1, n2}
    Owner <- MCOwnerEach
    Callbacks = {n2}
    Writers = {reader}
    Refreshers = {}
    Looping = {main}
    MaxVersion = 2
INVARIANTS
    WorkerInOrder
    FreshIfKeptUp
PROPERTIES
    ReachesEveryCommit
    WaitsEnd
CHECK_DEADLOCK FALSE
