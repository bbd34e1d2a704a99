\* deco_life
CONSTANTS
    Windows = {w1, w2}
    NoWindow = NoWindow
    MaxQueue = 2
    MaxChanges = 2
    Liberties = {}
SPECIFICATION Spec
PROPERTIES
    PaintedAsFocused
    TitlebarsGo
