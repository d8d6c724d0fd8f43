CONSTANTS
    OUTGOING_BUFFER_SIZE = 1
    MaxMsgs = 2
    MaxFrames = 3

SPECIFICATION Spec
INVARIANT FramingNeedsInterruption
PROPERTY IncomingInOrder
PROPERTY OutgoingInOrder
PROPERTY ArrivedFrameHandedOn
CHECK_DEADLOCK FALSE
