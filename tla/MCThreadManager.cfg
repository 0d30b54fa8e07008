CONSTANT NumIDs = 3
SPECIFICATION Spec
INVARIANT TypeOK
INVARIANT FreeIDsUnused
INVARIANT NoIDLost
PROPERTY IdentityKept
VIEW LiveState
