SPECIFICATION HSpec
CONSTANTS
    o1 = o1
    p1 = p1
    j1 = j1
    e1 = e1
    r1 = r1
    r2 = r2
    a1 = a1
    Node <- Rows
    Kind <- KindOfRows
    Handler = {h1, h2}
    NoRow = NoRow
    Root = Root
SYMMETRY Interchangeable
INVARIANTS
    HTypeOK
    CascadeAccountsForAll
PROPERTIES
    DeleteOrphansNothing
    ImplementsHierarchyAbs
