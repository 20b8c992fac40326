SPECIFICATION Spec
CONSTANTS
    START = 0
    LAST = 4
    MAX_NUMBER = 4
    WINDOW = 3
    SLOTS = 2
    UNREAD = 2
    FAULTS = 2
    COMMANDS <- MemoryCommands
    WIDTH = 256
    REGIONS <- MemoryRegions
    TABLE = 6
    SIZE = 8
    INCH = 25
    FAN_MAX = 255
    ALNUM = {65, 66}
    UNDERSCORE = 95
    MODES = {1}
    POSITIONS = {0, 25}
    BEDS = {65}
INVARIANTS
    ParametersMeant
    
    ReportsTrue
PROPERTIES
    ImplementsNumberedDelivery
    AllConfirmed
