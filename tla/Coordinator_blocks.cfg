SPECIFICATION Spec
CONSTANTS
    main = main
    reader = reader
    n1 = n1
    n2 = n2
    NoRealm = NoRealm
    Realms = {main, reader}
    Notifiers = {n1}
    Owner <- MCOwner
    Callbacks = {n1}
    Writers = {main, reader}
    Refreshers = {main}
    Looping = {main}
    MaxVersion = 3
INVARIANTS
    HandedOverAtItsVersion
    EachChangeOnce
    FreshIfKeptUp
PROPERTIES
    ToldWhereItIs
    KeepsTransactions
CHECK_DEADLOCK FALSE
