CONSTANTS
    c1 = c1
    c2 = c2
    None = None
    Absent = Absent
    Clients = {c1, c2}
    RawEmails <- MCEmails
    RawPhones <- MCPhones
    Lowered <- MCLowered
    Digits <- MCDigits
    MaxLeads = 1
    MaxCreated = 3
    MaxUpdates = 1
    MaxFaults = 1
SYMMETRY ClientSymmetry
SPECIFICATION Spec
INVARIANTS
    TypeOK
    OvershootBounded
    DuplicatesOnlyFromRaces
    ChangesAnnounced
    NoCallStuck
CHECK_DEADLOCK FALSE
