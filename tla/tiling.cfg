SPECIFICATION Spec
CONSTANTS
    NoWindow = NoWindow
    Windows = {w1, w2}
    Apps = {a1, a2}
    title_bar_height = 1
    cascade_step = 1
    confirm_inherited_move <- tiling_confirm_inherited_move
    OutputAreas <- MCOutputAreas
    Creations <- MCCreations
    Requests <- MCRequests
    Movements = {}
    Cursors <- MCCursors
    Configs <- MCConfigs
    MaxUses = 1
    MaxRequests = 7
    FirstConfig <- MCFirstConfig
INVARIANTS DisplaysWhole 
PROPERTIES FillsTile 
SYMMETRY Symmetry
CHECK_DEADLOCK FALSE
