SPECIFICATION Spec
CONSTANTS
    Open = Open
    Malformed = Malformed
    Names <- AllNames
    Bundles <- DamagedBundles
CHECK_DEADLOCK FALSE
INVARIANTS
    TypeOK
    ReferencesClosed
    OnePayloadPerRevision
    EffectivePeriodsDisjoint
    EventsHaveOneContext
