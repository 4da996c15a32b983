SPECIFICATION FairSpec
CONSTANTS
    timer = timer
    t1 = t1
    tick = tick
    m1 = m1
    c1 = c1
    Timer = timer
    NoTask = NoTask
    Workers = {w1, w2}
    Tasks = {timer, t1}
    Coroutines = {tick, m1, c1}
    TaskOf <- OneTaskOf
    Main <- OneMain
CHECK_DEADLOCK FALSE
INVARIANTS
    TypeOK
    RunExclusively
    PointersAlive
PROPERTIES
    WokenRuns
    StopReaches
