\* core_states
CONSTANTS
    NoWindow = NoWindow
    NoApp = NoApp
    Unset = Unset
    Windows = {w1, w2}
    Apps = {a1, a2}
    Workspaces = {}
    Types = {"normal", "menu", "satellite"}
    TypeRequests = {"normal", "menu", "satellite"}
    States = {"restored", "minimized", "fullscreen"}
    Liberties = {"reparent"}
SPECIFICATION Spec
INVARIANTS
    FullscreenExact
    TreeConsistent
    
SYMMETRY Symmetry
