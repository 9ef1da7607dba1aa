SPECIFICATION ServerSpec
CONSTANTS
    p1 = p1
    a = a
    b = b
    Printer = {p1}
    Media = {a, b}
    NoMedia = NoMedia
    Factory <- MCFactory
    Earlier <- MCEarlier
    Form = {}
    Worker = {w1}
    DiskMayFail = FALSE
    InRange = {a, b}
    default = default
    min = min
    max = max
    DefaultSize = default
    MinSize = min
    MaxSize = max
    CustomRange = FALSE
    Width <- MCWidth
    Dpi = 254
    HeadDots = 300
INVARIANTS
    QuietFileIsCurrent
