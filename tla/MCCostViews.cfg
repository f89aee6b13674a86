SPECIFICATION VSpec
CONSTANTS
    o1 = o1
    p1 = p1
    p2 = p2
    j1 = j1
    j2 = j2
    j3 = j3
    e1 = e1
    e2 = e2
    e3 = e3
    r1 = r1
    r2 = r2
    r3 = r3
    r4 = r4
    a1 = a1
    a2 = a2
    a3 = a3
    a4 = a4
    Node <- Rows
    Kind <- KindOfRows
    Start <- FirstRows
    Amount <- AmountOfAccount
    Token <- SomeTokens
    MaxWrites = 1
    NoRow = NoRow
    Root = Root
    NoScope = NoScope
    Hidden = Hidden
    Torn = Torn
INVARIANTS
    VTypeOK
    ViewsAgree
    TreeAddsUp
    ViewerConfined
