\* Two ROMs of each kind; two installations may be cut off before one is finished.
\* Two tries are made at a given port, and two answers may be lost.
\* A setting of every type is chosen, small and large numbers are entered.
SPECIFICATION Spec
CONSTANTS
    M3DROMS = {"m3d", "mod"}
    OTHERROMS = {"ime1", "ime2"}
    PAGES = 2
    CUTS = 2
    FIELDS <- FourFields
    ATTEMPTS = 2
    FAULTS = 2
    CHOICES = {"Backlash speed", "X jerk homing sensitivity", "Expand printable region"}
    NUMBERS = {17, 300}
    WORDS = {"false", "FLT_MAX"}
    SAVES = 2
    FAILURES = 2
INVARIANTS
    ValidMeansRecordedVersion
    AcceptedMeansInRange
    GcodePreserved
    SavedSettingsKept
