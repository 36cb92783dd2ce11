SPECIFICATION Spec
CONSTANTS
    CHANNEL_CAPACITY = 2
    BUFFER_CAP = 6
    MaxChunks = 3
    MaxErrors = 1
    Window = 1
    Transcripts <- MCTranscripts
CHECK_DEADLOCK FALSE
INVARIANTS
    TypeOK
    PassThrough
    ObserverFaithful
PROPERTIES
    ReaderGetsAll
    DrainsAfterDisconnect
