\* workspaces
CONSTANTS
    NoWindow = NoWindow
    NoApp = NoApp
    Unset = Unset
    Windows = {w1, w2, w3}
    Apps = {a1}
    Workspaces = {s1, s2}
    FirstWorkspace = s1
    MaxUses = 2
    FirstStates = {"restored", "minimized"}
    Types = {"dialog"}
    TypeRequests = {}
    States = {"restored", "minimized"}
    Toggles = {"fullscreen"}
    Liberties = {}
SPECIFICATION TitlebarSpec
INVARIANTS
    
    StatesKept
    
PROPERTIES
    SwitchFocuses
    SwitchKeepsOrder
    RememberedFocus
SYMMETRY Symmetry
CHECK_DEADLOCK FALSE
