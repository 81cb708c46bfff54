SPECIFICATION FormatsSpec
CONSTANTS
    Machines = {"http", "url", "utf8", "json", "string", "tree", "reassembly", "extension", "octets",
                "matchers", "answers", "timeout"}
    Lengths = {0, 1, 2, 4, 5, 7, 13, 23, 24}
    MaxSize = 120
    MaxLength = 39
    MaxHeader = 30
    Noise = {"NUL", "LF", "x", "9"}
    MaxPort = 98
    MaxBytes = 4
    MaxBefore = 1
    NestingLimit = 2
    BufferSize = 4
    Prebuffers = {1, 3, 6, 11, 19}
    IntMax = 40
    MaxGroups = 3
    Items = {1, 2, 3, 4}
    Names = {a}
    NULL = NULL
    MaxChildren = 3
    MaxRoots = 3
    Levels = {1, 3}
    Values = {0, 8, 9, 12, 16}
    HashBlock = 8
    WordOctets = 1
    Radix = 16
    Inputs = {1, 3, 8, 11}
    MaxMessage = 40
    InOctets = {0, 1, 27, 128, 228, 255}
    MaxOctets = 4
    FastWords = {4, 8}
    MaxPayload = 26
    Paths <- SamplePaths
    StatePaths <- SampleStatePaths
    Lower <- SampleLower
    MaxMatchers = 2
    BlockSize = 3
    Header = 1
    MaxHeap = 60
    Asked = {0, 1, 3, 10, 25, 999}
    NoTimeout = NoTimeout
    NoNumber = NoNumber
    Default = 17
    NsPerMs = 6
    MsPerSecond = 10
    Limit = 256
    Precision = 64
CHECK_DEADLOCK FALSE
INVARIANT HeardAsWritten
INVARIANT UrlPartsSound
INVARIANT TellsText
INVARIANT JsonRoundTrip
INVARIANT ListsSound
INVARIANT HandshakeSound
INVARIANT FetchSelectsByRules
INVARIANT AnswersComplete
INVARIANT TimeoutsKept
INVARIANT FragmentsComplete
