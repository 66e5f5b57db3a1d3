SPECIFICATION Spec
CONSTANTS
 k1=k1 k2=k2 p1=p1 p2=p2 i1=i1 i2=i2
 Keys={k1,k2}
 Payloads={p1,p2}
 Ids={i1,i2}
 Commands<-MCCommands
 NoKey=NoKey
 NoCommand=NoCommand
 MaxSeq=3 MaxTime=4 MaxFaults=1 Lifetime=1 Retention=2 MaxRecords=1 MaxEntries=3
 MaxScanned=2 MaxReturned=2 MaxLog=2 ClearDuringPoll=FALSE
INVARIANTS
 HandedOnce
 OncePerKey
 AnsweredBeforePassed
 AnswersAreTrue
PROPERTY InDoubtIsKept

