SPECIFICATION Spec
CONSTANTS
    ViteContents <- MCViteContents
    PkgContents <- MCPkgContents
    MaxWrites = 2
    Absent = Absent
INVARIANT TypeOK
INVARIANT QuickPathSound
PROPERTY Terminates
CHECK_DEADLOCK FALSE
