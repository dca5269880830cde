\* One team's name contains the other's.
SPECIFICATION Spec
CONSTANT
    Listings <- NestedListings
INVARIANT
    SameBet
CHECK_DEADLOCK FALSE
