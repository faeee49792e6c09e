CONSTANTS
    hs3 = hs3
    m1 = m1
    m2 = m2
    m3 = m3
    m4 = m4
    Frames <- MCFrames
    By <- MCBy
    Big = {}
    Hs3 = hs3
    Huge = {m4}
    Readers = 2
SPECIFICATION TransportSpec
INVARIANTS TransportTypeOK PayloadAfterHandshake FramesAccounted
PROPERTIES MessagesArrive
CHECK_DEADLOCK FALSE
