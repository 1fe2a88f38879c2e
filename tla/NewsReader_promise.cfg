SPECIFICATION OrderlySpec
CONSTANTS
    Payload <- MCPayload
    Commands <- AllCommands
    Listing <- MCListing
    MaxServed = 100
    GroupLines <- MCGroupLines
    Ids <- MCLookalikeIds
    HeadOf <- MCHeadOf
    BodyOf <- MCBodyOf
    Refusals <- AllRefusals
PROPERTIES
    KeepsPromise
    GetsAnswer
CHECK_DEADLOCK FALSE
