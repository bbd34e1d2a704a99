SPECIFICATION Spec
CONSTANTS
    NoWindow = NoWindow
    confirm_inherited_move <- canonical_confirm_inherited_move
    Windows = {w1, w2}
    title_bar_height = 1
    OutputAreas <- MCAreas
    Creations <- MCCreations
    Requests <- MCRequests
    Movements <- MCMovements
    Cursors <- MCCursors
    Desk <- MCDesk
    MaxSteps = 3
    Policies <- MCPolicies
    FirstOutput = 1
    Corners <- MCCorners
    MinExtent = 2
    Fingers <- MCFingers
PROPERTY MaximizedAnchored
CHECK_DEADLOCK FALSE
