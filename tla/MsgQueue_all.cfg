SPECIFICATION FairSpec
CONSTANTS
    Producers = {p1, p2}
    Poppers = {c1, c2}
    Pollers = {agg}
    MaxPush = 2
    MaxResume = 1
    Null = Null
INVARIANTS
    ListIntact
    NothingLeft
PROPERTIES
    ImplementsChannel
    EveryItemTaken
    EveryoneReturns
