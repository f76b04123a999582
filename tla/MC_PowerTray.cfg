CONSTANTS
    Streams <- MCStreams
    ExitCodes = {0, 1}
    HeaderScanLimit = 2
    None = None
    LetterP = LetterP

SPECIFICATION Spec

INVARIANT TypeOK
INVARIANT NoChildBehindThread
PROPERTY UpdaterFollowsChild
PROPERTY DrainsOutput
