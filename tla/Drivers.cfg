SPECIFICATION Spec
CONSTANTS
    PERIPHERAL_CLOCK = 24000
    HEATER_READ_ADC_FREQUENCY = 200
    HEATER_READ_ADC_SAMPLE_SIZE = 2
    REGISTERS = 2
    Values = {0, 1}
    Packages <- TwiPackages
    Faults = {"nack", "error", "lost"}
INVARIANTS
    StartReady
    SharedUndisturbed
    ValidIsTrue
PROPERTIES
    BuffersWritten
    Served
