SPECIFICATION Spec
CONSTANTS
    TX_BUFFERS = 2
    ZLP_LIMIT = 2
    FRAMES = 3
    MESSAGE_LENGTHS = {1, 2, 5}
    WAIT_LENGTH = 2
    BYTES = 6
    RECONNECTS = 1
    EP_CTRL_SIZE = 2
    LENGTHS = {0, 1, 2, 3, 4}
    TRANSFERS = 2
    HOSTS <- DeviceHosts
INVARIANTS
    ReceivedWhole
    TransferWhole
    RequestsAnswered
PROPERTIES
    IsPipe
    Agreement
