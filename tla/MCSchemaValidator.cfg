SPECIFICATION Spec
CONSTANTS
    ABSENT = ABSENT
    EMPTY = ""
    INLINE = "inline"
    Variables = {"{id}", "{a}", "{b}"}
    Files <- MCFiles
    Root <- MCRoot
    Modules <- MCModules
    Requests <- MCRequests
    Suffixed <- MCSuffixed
INVARIANTS CleanIsDeclared OneVerdict ReferenceErrorIsReal
CHECK_DEADLOCK FALSE
