CONSTANTS
    Chosen = {"atoms"}
    Null = Null
    Undefined = Undefined
    Absent = Absent
    Getter = Getter
    Plain = Plain
    Thenable = Thenable
    BadThen = BadThen
    Thrown = Thrown
    p1 = p1
    p2 = p2
    p3 = p3
    Slack = 1
    MaxStrings = 4
    AtomMax = 6
    Functions <- MCBodies
    Compiled <- MCCompiled
    Tests <- MCTests
    Throwers <- MCThrowers
    MaxEvents = 7
SPECIFICATION EngineSpec
INVARIANT AtomsUnique
CHECK_DEADLOCK FALSE
