SPECIFICATION MCSpec
CONSTANTS
    None = None
    Nothing = Nothing
    l1 = l1
    l2 = l2
    Content = c
    Layouts <- TwoLayouts
    Partials = {1, 2}
    Minimals = {m1}
    Helpers = {1, 2}
    MaxSections = 2
    MaxFailures = 2
    Renders = {r1, r2}
    Threads = {t1, t2}
    Writers = {1, 2, 3}
    Trackers = {4, 5}
    MaxPieces = 3
    StringRenders = {11, 12, 13}
    ToBuilder = {13}
    StringWriters = {6, 7, 8}
    Builders = {9, 10}
    MaxTexts = 2
    MaxLength = 2
    MaxLong = 9
    Scalars <- FourScalars
    Texts <- TheTexts
    SmallChars = 6
    SmallFormat = 3
    SmallFormatBytes = 6
    MaxBufferSize = 8
    MaxUtf8BytesPerScalar = 4
    Slack = 2
    MaxValues = 3
INVARIANTS
    HelpersWriteToRunningSlice
    SlicesAreDisposedInTime
    OutputIsFaithful
    OutputIsExact
PROPERTIES
    EveryWriteEnds
CHECK_DEADLOCK FALSE
