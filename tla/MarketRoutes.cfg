SPECIFICATION Spec
CONSTANTS
 Routes={1,2}
 WithHistory={1}
 MaxRetries=1 MaxDrops=1 MaxStatus=1
INVARIANTS
 PhysicalOwned
 CallbacksInOrder
 LateRouteKnowsStatus
PROPERTY ReleasedHearsOnlyTheRest
