\* deco_race
CONSTANTS
    Windows = {w1, w2}
    NoWindow = NoWindow
    MaxQueue = 2
    MaxChanges = 2
    Liberties = {"race", "stop"}
SPECIFICATION Spec
INVARIANTS
    
    PaintsLive
    RequestsAwaited
    AnswersFindData
PROPERTIES
    StopEnds
