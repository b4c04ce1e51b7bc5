SPECIFICATION Spec
CONSTANTS
    ViteContents <- MCViteContents
    PkgContents <- MCPkgContents
    MaxWrites = 2
    Absent = Absent
PROPERTY NoLateWrites
CHECK_DEADLOCK FALSE
