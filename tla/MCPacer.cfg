SPECIFICATION FairSpec
CONSTANTS
    t1 = t1
    t2 = t2
    t3 = t3
    Tasks <- MCTasks
    NoTask = NoTask
    MinDelay = 2
    Jitter = 1
INVARIANTS TypeOK
PROPERTIES MinimumGap EveryoneSends
