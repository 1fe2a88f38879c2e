SPECIFICATION Spec
CONSTANTS
    Payload <- MCPayload
    Commands <- AllCommands
    Listing <- MCListing
    MaxServed = 100
    GroupLines <- MCGroupLines
    Ids <- MCIds
    HeadOf <- MCHeadOf
    BodyOf <- MCBodyOf
    Refusals <- AllRefusals
INVARIANTS
    TypeOK
    LoginFirst
    KthHeaderHasKthId
    NothingLostAfterStatus
    Lockstep
PROPERTY
    QuietOnceClosed
CHECK_DEADLOCK FALSE
