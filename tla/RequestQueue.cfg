\* Three slots, two transmit buffers, responses up to three buffers long.
SPECIFICATION FairSpec
CONSTANTS
    REQUEST_QUEUE_SIZE = 3
    INACTIVITY_TIMEOUT_SECONDS = 2
    TX_BUFFERS = 2
    MAX_RESPONSE = 3
    Command = {move, heat, restart}
    ResetCommand = {restart}
    NoRequest = NoRequest
\* A stop during a blocked write halts the firmware.
CHECK_DEADLOCK FALSE
INVARIANTS
    SingleWriter
PROPERTIES
    ImplementsCommandQueue
    ObeyedStopTurnsOff
    StopObeyed
    InactivityTurnsOff
