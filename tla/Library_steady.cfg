SPECIFICATION SteadySpec
CONSTANTS
    g1 = g1
    g2 = g2
    t1 = t1
    t2 = t2
    t3 = t3
    None = None
    Groups <- MCGroups
    Numbers = {1, 2, 3}
    GroupList <- MCGroupList
    Listing <- MCListing
    Threads <- MCThreads
PROPERTY
    HeadersArrive
