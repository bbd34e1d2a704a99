\* clients
CONSTANTS
    Startup = {s1, s2}
    Launched = {l1, l2}
    NoClient = NoClient
    StopCallbacks = {hook, other}
    Hook = hook
    Liberties = {"thread", "policy"}
SPECIFICATION Spec
INVARIANTS
    JoinedBySignal
    ToldBeforeJoined

    
    
CHECK_DEADLOCK FALSE
