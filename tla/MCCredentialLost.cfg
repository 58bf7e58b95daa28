SPECIFICATION Spec
CONSTANTS
    m1 = m1
    m2 = m2
    m3 = m3
    p1 = p1
    Mint = {m1, m2, m3}
    Pass = {p1}
    NoOperation = NoOperation
    Courses <- LostCourses
SYMMETRY Symmetry
PROPERTIES
    LostBlocksMints
