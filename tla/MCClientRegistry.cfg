SPECIFICATION Spec
CONSTANTS
    Nodes = {n1, n2, n3}
    Fds = {1, 2, 3}
    Clients = {c1, c2, c3}
    Null = Null
INVARIANTS
    PointersSpellOrder
    ListMatchesSockets
    BreaksOnlyAfterReplacement
SYMMETRY Symmetry
