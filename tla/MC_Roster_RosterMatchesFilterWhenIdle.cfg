CONSTANTS
    me = me
    cand = cand
    rec = rec
    NoTarget = NoTarget
    Users <- MCUsers
    Me = me
    InitRole <- MCInitRole
    MaxInFlight = 2
SPECIFICATION Spec
INVARIANT RosterMatchesFilterWhenIdle
