SPECIFICATION Spec
CONSTANTS
    Sessions = {ana, ben}
    Nobody = nobody
    MaxEdits = 2
    MaxEvents = 3
CHECK_DEADLOCK FALSE
PROPERTY NoSilentOverwrite
