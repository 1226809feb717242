CONSTANTS
    Pages = {p1, p2}
    ExRam = p2
    Quads = {q1}
    Rows = {0, 1}
    GroupSize = 2
    Tiles = {t0, t1}
    Colors = {c0, c1}
    ZeroTile = t0
    ZeroColor = c0
    MaxWritten = 1
SPECIFICATION Spec
CONSTRAINT FewWritten
INVARIANTS NothingMissed
PROPERTIES ShowsSnapshots
