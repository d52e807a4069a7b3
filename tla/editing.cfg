SPECIFICATION FairSpec
CONSTANTS
    Sessions = {ana, ben}
    Nobody = nobody
    MaxEdits = 2
    MaxEvents = 3
CHECK_DEADLOCK FALSE
INVARIANTS TypeOK OnlyRemountsLose
PROPERTIES TakeoverNoteIsTrue EveryEditSettles
