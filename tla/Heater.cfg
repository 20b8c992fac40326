\* Two targets far enough apart to tell heating from cooling.
SPECIFICATION FairSpec
CONSTANTS
    Target = {3, 6}
    MAX_HEAT = 9
PROPERTIES
    StopTurnsHeaterOff
    OkMeansHotEnough
    OverheatingEnds
