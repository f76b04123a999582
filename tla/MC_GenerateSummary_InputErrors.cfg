CONSTANTS
    SocketCounts = {0, 1, 2, 3}
    MaxRows = 2
    ArgLists <- MCArgLists

SPECIFICATION Spec

INVARIANT InputErrorsReported
