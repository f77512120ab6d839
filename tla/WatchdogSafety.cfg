SPECIFICATION Spec
CONSTANTS
    Checkers = {c1, c2}
    Silence = 2
    AlertAfter = 3
    Cooldown = 1
    MaxCooldown = 2
    MaxResyncs = 1
    Horizon = 3
    MaxChanges = 1
    MaxCrashes = 1
    None = None
SYMMETRY Interchangeable
INVARIANTS TypeOK MessagesPaired
