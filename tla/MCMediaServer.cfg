SPECIFICATION FairServerSpec
CONSTANTS
    p1 = p1
    a = a
    b = b
    Printer = {p1}
    Media = {a, b}
    NoMedia = NoMedia
    Factory <- MCFactory
    Earlier <- MCEarlier
    Form = {f1}
    Worker = {w1}
    DiskMayFail = TRUE
    InRange = {a, b}
    default = default
    min = min
    max = max
    DefaultSize = default
    MinSize = min
    MaxSize = max
    CustomRange = TRUE
    Width <- MCWidth
    Dpi = 254
    HeadDots = 300
INVARIANTS
    MediaTypeOK
    TidyMedia
    DefaultIsLoaded
    LoneSaveIsCurrent
    UnreadableFileHasCause
    ShownIsSupported
    ReadyIsSelectable
    NamesKeepTheirSize
PROPERTIES
    SwapOutlivesProcess
    LoadedIsShown
