\* Two shells, and every fault.
SPECIFICATION SetsSpec
CONSTANTS
    Shells = {a, b}
    a = a
    b = b
    Sources = {"acme", "fork", "here"}
    Local = {"here"}
    Malformed = Malformed
    SetNames = {"base", "team"}
    Components <- MCComponents
    Manifest <- MCManifest
    DirName <- MCDirName
    UserFiles <- MCUserFiles
    MaxCommands = 3
    Environment = {"io", "interrupt", "offline"}
INVARIANTS FilesRecorded RecordsTrue
SYMMETRY MCSymmetry
\* Nothing is left to do once MaxCommands are done.
CHECK_DEADLOCK FALSE
