CONSTANTS
    Users = {u1, u2}
    Consumers = {c1, c2}
    Nobody = Nobody
    Empty = Empty
    MaxFailures = 1
SPECIFICATION Spec
SYMMETRY Symmetry
INVARIANTS TypeOK CachedAreBound CacheComplete
