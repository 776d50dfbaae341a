CONSTANTS
    Keys = {k1, k2, k3, k4}
    Values = {1, 2}
    Capacity = 3
    Nodes = {n1, n2, n3, n4}
    head = head
    tail = tail
    None = None
SYMMETRY Interchangeable
SPECIFICATION Spec
INVARIANT
    BookkeepingAgrees
PROPERTY
    RefinesRecencyCache
