SPECIFICATION Spec
CONSTANTS
    m1 = m1
    m2 = m2
    t1 = t1
    r1 = r1
    r2 = r2
    Ordinary = {m1, m2}
    Tasks = {}
    Replies = {}
    KeptReplies = 2
    Courses <- MergedCourses
PROPERTIES
    MergedIsAnswered
