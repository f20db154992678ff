SPECIFICATION IdentitySpec
CONSTANTS
    People = {p1, p2, p3}
    Nobody = Nobody
    Identifiers = {v1, v2}
    Clients = {c1, c2}
    MaxOps = 4
SYMMETRY Symmetry
INVARIANT RedirectsEnd
CHECK_DEADLOCK FALSE
