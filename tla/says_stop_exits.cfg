\* says_stop_exits
CONSTANTS
    Startup = {s1}
    Launched = {l1}
    NoClient = NoClient
    StopCallbacks = {hook, other}
    Hook = hook
    Liberties = {"policy"}
SPECIFICATION Spec
PROPERTIES
    StopExits
CHECK_DEADLOCK FALSE
