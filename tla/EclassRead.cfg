SPECIFICATION Spec
CONSTANTS
    t1 = t1
    t2 = t2
    c1 = c1
    c2 = c2
    l1 = l1
    l2 = l2
    q1 = q1
    q2 = q2
    x1 = x1
    None = None
    Calls = {r1, r2}
    Terms <- MCTerms
    Courses <- MCCourses
    Lectures <- MCLectures
    CourseQueries = {q1, q2}
    TitleQueries = {x1}
    Enrolled <- MCEnrolled
    CourseOf <- MCCourseOf
    CourseScore <- MCCourseScore
    TitleScore <- MCTitleScore
    Requests <- MCRequests
    Parts = 2
    Ttl = 1
    MaxTime = 1
    MaxRestarts = 1
CHECK_DEADLOCK FALSE
INVARIANTS
    EclassReadInv
    PlayedWasResolved
