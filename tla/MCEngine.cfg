CONSTANTS
    Chosen = {"heap", "map", "promise", "all", "generator", "shapes", "array", "chain", "proxy",
              "regexp", "code", "atoms", "closures", "walks"}
    Null = Null
    Undefined = Undefined
    Absent = Absent
    Getter = Getter
    Plain = Plain
    Thenable = Thenable
    BadThen = BadThen
    Thrown = Thrown
    p1 = p1
    p2 = p2
    p3 = p3
    Slack = 0
    MaxStrings = 3
    AtomMax = 3
    Functions <- MCBodies
    Compiled <- MCCompiled
    Tests <- MCTests
    Throwers <- MCThrowers
    MaxEvents = 6
SPECIFICATION EngineSpec
INVARIANTS     ShapesSound ArraysAsSpecified PropertiesAsSpecified ProxyKeepsItsWord MatchesAsSpecified   
PROPERTIES  ShapesImplementLists
CHECK_DEADLOCK FALSE
