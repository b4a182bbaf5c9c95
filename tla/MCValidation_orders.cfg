SPECIFICATION Spec
CONSTANTS
    Open = Open
    Malformed = Malformed
    Names <- AllNames
    Bundles <- OneRowAdded
CHECK_DEADLOCK FALSE
INVARIANTS
    OrdersHaveCommitments
