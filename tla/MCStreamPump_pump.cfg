CONSTANTS
    f1 = f1
    f2 = f2
    f3 = f3
    Frames <- MCFrames
    Big <- MCBig
    By <- MCBy
SPECIFICATION FairSpec
INVARIANTS TypeOK ErrIffStopped
PROPERTIES KeepsPromise LossNoticed
CHECK_DEADLOCK FALSE
