SPECIFICATION Spec
CONSTANTS
    CHANNEL_CAPACITY = 2
    BUFFER_CAP = 6
    MaxChunks = 3
    MaxErrors = 0
    Window = 1
    Transcripts <- MCUsualTranscripts
CHECK_DEADLOCK FALSE
INVARIANT CompletedStreamIsSettled
