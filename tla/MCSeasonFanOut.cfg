SPECIFICATION FairSpec
CONSTANTS
    show = show
    first = first
    second = second
    s1 = s1
    s2 = s2
    a1 = a1
    a2 = a2
    a3 = a3
    b1 = b1
    other = other
    NoScope = NoScope
    Request = {a1, a2, a3, b1, other}
    Scope = {first, second}
    Media = {show}
    Key = {s1, s2}
    MediaOf <- MCMediaOf
    KeyOf <- MCKeyOf
    ChildrenOf <- MCChildrenOf
INVARIANTS NobodyIsForgotten AnsweredMeansScanned SeasonRefreshedOnce
PROPERTY WaitsEnd
CHECK_DEADLOCK FALSE
