SPECIFICATION Spec
CONSTANTS
    s1 = s1
    s2 = s2
    Sessions = {s1, s2}
    MaxId = 15
    Attempts = 2
    CountedRetries = TRUE
    Scenes <- const_Scenes
SYMMETRY Perms
INVARIANT AnswerIsCommitted
