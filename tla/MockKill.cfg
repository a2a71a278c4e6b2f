SPECIFICATION Spec
CONSTANTS
    a = a
    b = b
    mute = mute
    Clients <- MCClients
    Talkers <- MCTalkers
    MaxOpen = 2
INVARIANT KillIsClean
