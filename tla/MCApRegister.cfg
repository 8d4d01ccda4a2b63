CONSTANTS
    Users = {u1}
    Consumers = {c1}
    Nobody = Nobody
    Empty = Empty
    MaxFailures = 0
SPECIFICATION Spec
PROPERTIES RegisterKeepsApUser
