SPECIFICATION Spec
CONSTANTS
    Types <- AllTypes
    MaxList = 2
INVARIANTS
    SizeExact
    PresenceAgrees
    SameVerdict
    CanonicalBytes
PROPERTIES
    ClientKeepsMeaning
    NodeKeepsDeclared
