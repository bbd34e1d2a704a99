\* trace
CONSTANTS
    Events = {e1, e2}
    Threads = {t1}
    Nobody = Nobody
    Window = Window
    MaxDepth = 4
    MaxLog = 4
    MaxBlocks = 3
SPECIFICATION Spec
INVARIANTS
    InputCurrent
    
    BlocksSeparated
CHECK_DEADLOCK FALSE
