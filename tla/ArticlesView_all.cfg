SPECIFICATION Spec
CONSTANTS
    p1 = p1
    p2 = p2
    single = single
    bare = bare
    number = number
    name = name
    t1 = t1
    t2 = t2
    None = None
    Articles <- MCArticles
    Key <- MCKey
    FileNumber <- MCFileNumber
    Bare = {bare}
    Threads = {t1, t2}
SYMMETRY Alike
INVARIANTS
    PostsWhole
    
    SubjectsKept
CHECK_DEADLOCK FALSE
