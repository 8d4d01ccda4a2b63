SPECIFICATION Spec
CONSTANTS
    n1 = n1
    n2 = n2
    p1 = p1
    p2 = p2
    t1 = t1
    r1 = r1
    r2 = r2
    Names <- MCNames
    Persons <- MCPersons
    Threads <- MCThreads
    Renamers <- MCRenamers
    Nil = Nil
    Limit = 2
    MaxAdds = 2
    MaxFails = 1
    MaxRenames = 2
SYMMETRY MCSymmetry
CONSTRAINT MCFew
INVARIANTS TypeOK ChannelsOwned AddedAsAsked RowsFollow
CHECK_DEADLOCK FALSE
