SPECIFICATION TiltedSpec
CONSTANTS
    D = 5
    LENGTHS = {2, 3, 5, 11}
    BACKLASH = 13
    LIMIT = 40
    AXES <- SavedAxes
    DIRECTED = {"X"}
    VALUES <- SavedValues
    BETWEEN <- OnTheWay
    MOVES = 1
    LOSSES = 1
    EEPROM_SIZE = 4
    EEPROM_PAGE_SIZE = 2
    BITS = {0, 1}
    SAVED = {2}
    ACCESSES = 1
    MOTORS = {"X", "E"}
    MAX_STEPS = 6
    MAX_CYCLES = 15
    DEN = 2
    MOVEMENTS = 1
INVARIANT EndInBoundsOnAnyBed
