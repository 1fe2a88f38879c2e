SPECIFICATION Spec
CONSTANTS
    g1 = g1
    g2 = g2
    g3 = g3
    part = part
    quote = quote
    NoText = NoText
    None = None
    GroupList <- MCGroupList
    Texts = {NoText, part, quote}
    Matching <- MCMatching
    Unparsed = {quote}
    MaxSearches = 2
    MaxUpdates = 1
INVARIANTS
    LastSearchWins
    CompleteUnlessEarly
PROPERTIES
    OpensTheShown
CHECK_DEADLOCK FALSE
