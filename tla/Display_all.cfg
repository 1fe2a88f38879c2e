SPECIFICATION MCSpec
CONSTANTS
    prose = prose
    picture = picture
    part = part
    quoted = quoted
    r1 = r1
    r2 = r2
    None = None
    Articles = {prose, picture, part, quoted}
    Begin = {picture, part, quoted}
    Picture = {picture, part, quoted}
    Named = {picture, part}
    End = {picture, part}
    Complete = {picture}
    Readers = {r1, r2}
    MaxSelections = 3
    wide = wide
    plain = plain
    narrow = narrow
    latin = latin
    Mark = Mark
    Wide = {wide}
    Narrow = {plain, narrow}
    Foreign = {latin}
    maxReadLength = 3
    MaxText = 4
INVARIANTS
    GivesWayToRivals
    ExactUnlessDamaged
    NothingInvented
PROPERTIES
    ReadersReturn
    ArrivedIsShown
CHECK_DEADLOCK FALSE
