\* Two users, runs of the plugin and recovery codes against one another.
SPECIFICATION Spec
CONSTANTS
    Null = Null
    m1 = m1
    Machines = {m1}
    MachineOf <- OneMachine
    Users = {u1, u2}
    Runs = {r1, r2}
    Codes = {k1, k2}
    Calls = {c1, c2, c3, c4}
    LinkTtl = 1
    MaxDevices = 2
    MaxClock = 1
SYMMETRY LinkSymmetry
INVARIANTS TypeOK AnswersAgree ConfigHoldsItsDevice NoCallStuck
PROPERTY GrantsSettled
CHECK_DEADLOCK FALSE
