\* Two targets far enough apart to tell heating from cooling.
SPECIFICATION Spec
CONSTANTS
    Target = {3, 6}
    MAX_HEAT = 9
PROPERTY
    OkMeansCoolEnough
