\* core_tree
CONSTANTS
    NoWindow = NoWindow
    NoApp = NoApp
    Unset = Unset
    Windows = {w1, w2, w3}
    Apps = {a1}
    Workspaces = {s1}
    Types = {"dialog"}
    TypeRequests = {}
    States = {"restored", "hidden"}
    Liberties = {}
SPECIFICATION Spec
INVARIANTS
    PolicyFocus
PROPERTIES
    FocusStaysInWorkspace
    FocusSurvives
    FocusPromise
SYMMETRY Symmetry
