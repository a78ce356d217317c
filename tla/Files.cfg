SPECIFICATION FairSpec
CONSTANTS
    i1 = i1
    i2 = i2
    av = av
    att = att
    ghost = ghost
    File = {i1, i2, av, att, ghost}
    Call = {c1, c2}
    User <- Users
    Product <- Products
    OwnerOf <- Owners
    Staff <- Admins
    Existing <- OwnersThere
    NoFile = NoFile
    NoCall = NoCall
    NoImage = NoImage
    MaxFaults = 1
INVARIANTS
    GalleryIsOrdered
    BoundWhenReady
    ReadyHasObject
    AnswersAreTrue
PROPERTIES
    GalleryIsStable
    EveryCallEnds
