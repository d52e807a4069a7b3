SPECIFICATION Spec
CONSTANTS
    MaxDoc = 2
    Lag = 2
    Limit = 1
    Retries = 1
    MaxWrites = 2
    MaxTime = 5
    MaxRotations = 1
    MaxFailures = 1
    Ask = 1
    Quiet = 3
    Revive = 4
    Late = 2
    Grace = 2
    Fade = 1
    MaxBreaks = 3
    MAX_FAILURES = 2
    MaxTokens = 3
    MaxCalls = 2
    MaxOutages = 1
    MaxFailing = 2
    Peers = {p1, p2}
    MaxWords = 1
    MaxTrouble = 1
    MaxKeys = 2
    MaxClicks = 3
    MaxHitches = 1
    MaxVersions = 2
    MaxBrands = 2
    MaxRefusals = 2
    MaxPastes = 2
    MaxTyped = 2
    Ladder = {1, 2, 4}
    MaxDimension = 4
    MaxSide = 5
    MaxDpr = 2
    MaxRecords = 3
    MaxItems = 2
    MaxActs = 4
    MaxPanel = 2
    MaxPresses = 2
    MaxMoves = 2
    MaxParagraphs = 4
    MaxLevel = 3
    MaxNumber = 3
    MaxRows = 4
    MaxListActs = 3
    Names = {"a", "b"}
    MaxTyping = 4
    Messages = {"saved", "sent"}
    MaxFlashes = 3
    MaxHovers = 2
    MaxToggles = 4
    Days = {1, 2, 3, 4}
    Today = 2
    LongFrom = 2
    ExampleLimit = 2
    MaxJumpActs = 2
CHECK_DEADLOCK FALSE
INVARIANTS ClientTypeOK MirrorTrue CallersAreTold RoomKeepsTheText WidgetsKeepTheEntry PagesSayWhatIsSo WorkedOutAsMeant
PROPERTIES NothingIsTaken NoRowSlipsAway PartsSettle
