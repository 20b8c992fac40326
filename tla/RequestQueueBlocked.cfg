\* A stop during a response that does not fit.
SPECIFICATION FairSpec
CONSTANTS
    REQUEST_QUEUE_SIZE = 2
    INACTIVITY_TIMEOUT_SECONDS = 2
    TX_BUFFERS = 2
    MAX_RESPONSE = 3
    Command = {move, heat, restart}
    ResetCommand = {restart}
    NoRequest = NoRequest
\* A stop during a blocked write halts the firmware.
CHECK_DEADLOCK FALSE
PROPERTY
    StopAlwaysObeyed
