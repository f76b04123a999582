CONSTANTS
    Variant = "py3"
    Platforms = {"CYGWIN_NT-6.1", "Windows", "Linux", "Darwin"}
    CpuIds = {"skx", "adl"}
    MapFiles <- MCMapFiles
    Matches <- MCMatches
    Docs <- MCDocsTight
    Argvs <- MCArgvs
    LocalDocs <- MCLocalDocs
    Queries <- MCQueries
    LowerChar <- MCLowerChar
    MaxQueries = 2

SPECIFICATION Spec

PROPERTY QuerySpec
