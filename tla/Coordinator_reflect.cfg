SPECIFICATION Spec
CONSTANTS
    main = main
    reader = reader
    n1 = n1
    n2 = n2
    NoRealm = NoRealm
    Realms = {main, reader}
    Notifiers = {n1}
    Owner <- MCOwner
    Callbacks = {}
    Writers = {reader}
    Refreshers = {}
    Looping = {main}
    MaxVersion = 5
INVARIANTS
    AlwaysReflect
CHECK_DEADLOCK FALSE
