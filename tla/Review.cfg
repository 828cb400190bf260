SPECIFICATION Spec
CONSTANT None = None
INVARIANT CleanMeansRead
INVARIANT FixesBounded
 
INVARIANT ActedOnce
INVARIANT DisarmRemembered
INVARIANT QuietMeansPaged
INVARIANT UnreviewedHeld
INVARIANT WorkKept
PROPERTY ClaimKept
PROPERTY RequeuedClean
CHECK_DEADLOCK FALSE
