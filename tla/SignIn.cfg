SPECIFICATION Spec
CONSTANTS
    Logins = {l1, l2}
    Changers = {c1, c2}
    MaxAttempts = 2
    Window = 2
    MaxChanges = 2
    MaxFaults = 1
    None = None
INVARIANTS TypeOK ChangeTakesHold AttemptsAreCounted
PROPERTIES PauseIsNotProlonged
SYMMETRY Interchangeable
