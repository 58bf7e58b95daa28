SPECIFICATION FairSpec
CONSTANTS
    m1 = m1
    m2 = m2
    t1 = t1
    r1 = r1
    r2 = r2
    Ordinary = {m1}
    Tasks = {t1}
    Replies = {r1, r2}
    KeptReplies = 2
    Courses <- MCCourses
INVARIANTS
    NothingLost
    HandedOnce
    AnsweredOnce
PROPERTIES
    PausedStartsNothing
    OwnerIsHeard
    WakesAreReported
