\* core_lifetime
CONSTANTS
    NoWindow = NoWindow
    NoApp = NoApp
    Unset = Unset
    Windows = {w1, w2}
    Apps = {a1}
    Workspaces = {s1, s2}
    Types = {"normal", "dialog"}
    TypeRequests = {}
    States = {"restored"}
    Liberties = {"release", "early"}
SPECIFICATION Spec
INVARIANTS
    TypeOK
    ReferencesLive
    DeadRowsReclaimed
SYMMETRY Symmetry
