SPECIFICATION Spec
CONSTANTS
 Routes={1}
 WithHistory={}
 MaxRetries=1 MaxDrops=0 MaxStatus=0
INVARIANT FailedIsHeld
