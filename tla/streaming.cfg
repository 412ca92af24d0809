SPECIFICATION FairSpec
CONSTANTS
    Articles = {good, other, dull, broken}
    Irrelevant = {dull}
    Malformed = {broken}
    Workers = {w1, w2}
    Batch = batch
    MaxCrashes = 1
CHECK_DEADLOCK FALSE
INVARIANTS TypeOK AckedIsStored
 
