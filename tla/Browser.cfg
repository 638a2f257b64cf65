SPECIFICATION BrowserSpec
CONSTANTS
    Parts = {"loads", "windows", "cameras", "cache", "prefetch", "profiles",
             "soundings", "layers", "timeline", "cases", "editor", "draft",
             "derived", "legends", "filter", "observed", "keys"}
    w1 = w1
    w2 = w2
    Visible <- MCVisible
    SplitModes = {"none", "step", "time", "level", "model"}
    Handlers = {"time", "level", "model", "data", "nav", "reload", "focus", "allocate"}
    Levels <- MCTwo
    Models <- MCTwo
    PresetLevels = {2}
    TargetPeriods = {3}
    CycleStep = 2
    MaxCalls = 2
    Layouts <- MCLayouts
    Presets = {"p", "q"}
    AllocModes = {"model", "level"}
    MaxWindows = 5
    MaxOps = 4
    Maps = {"m1", "m2", "m3"}
    Positions = {1, 2, 3}
    CmMaxMoves = 2
    CmMaxViews = 2
    Fields = {"f"}
    ListingUrls = {"l"}
    TimeToLive = 1
    MaxEntries = 1
    WarmedFor = 2
    MaxTime = 3
    MaxRequests = 3
    MaxWarms = 2
    PfWindows = {"a", "b"}
    PfMaxSteps = 2
    PfMaxCloses = 1
    PnKinds = {"timeheight", "lineheight", "hovmoller"}
    PnWindows = {"a", "b"}
    Runs = {"m1", "m2"}
    Lines = {"l1", "l2"}
    Spots <- MCSpots
    PnMaxOps = 3
    SnWindows = {"a", "b"}
    Stations = {"s1", "s2"}
    SnMaxOps = 4
    LyPalettes = {"p", "q"}
    LyViews = {"v1", "v2"}
    LyMaxOps = 4
    Cycle = 145440
    Horizon = 24
    NwpSteps = {6, 12}
    ObsSteps = {180, 720}
    Listings <- MCListings
    Moments <- MCMoments
    Accumulations = {0, 12}
    Cadence = 180
    MaxChips = 3
    MaxEdits = 1
    FileTimes <- MCFileTimes
    StepLengths = {15, 60, 180, 360, 720, 1440}
    Offsets = {0, 60}
    Tolerance = 90
    Marks <- MCMarks
    OwnPalettes <- MCOwn
    PresetPalettes <- MCPairs
    PaletteFiles <- MCFiles
    Quantity <- MCQuantity
    Scales <- MCScales
    Products <- MCProducts
    Locales <- MCLocales
    CeMaxEdits = 2
    CeMaxChanges = 1
    CeMaxOps = 3
    CdMaxEdits = 3
    CdValues = {5, 10}
    CdNames <- MCNames
    DcLevels = {1, 2}
    DcMaxTime = 2
    DcMaxOps = 3
    LgMaxOps = 4
    FtMaxOps = 3
    FtUnfilteredCap = 2
    FtFilteredCap = 3
    FtDense = 3
    FcRuns <- MCRuns
    FcDay = 2400
    FcLeads = {0, 6, 12}
    FcScans <- MCScans
    ObArrivals <- MCArrivals
    ObPast <- MCPast
    ObLevels = {1, 2}
    ObMaxOps = 3
    KbGroups <- MCGroups
    KbPinned <- MCPinned
    KbMaxRecents = 2
    KbMatches <- MCMatches
    KbMaxResults = 3
    KbMaxOps = 6
INVARIANTS
    BrowserTypeOK
    LoadsSound
    TabsSound
    FetchesSound
    TimelineSound
    PanelsSound
    DisplaySound
    ChoicesSound
    EditorSound
PROPERTIES
    StepsSound
CHECK_DEADLOCK FALSE
