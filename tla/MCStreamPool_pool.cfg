CONSTANTS
    c1 = c1
    c2 = c2
    c3 = c3
    p = p
    q = q
    NoStream = NoStream
    Calls = {c1, c2, c3}
    Peers = {p, q}
    Want <- MCWant
    MaxTicks = 2
    MaxDrops = 1
SPECIFICATION Spec
INVARIANTS TypeOK Conserved OneOwner ScanFinds
SYMMETRY MCSymmetry
CHECK_DEADLOCK FALSE
