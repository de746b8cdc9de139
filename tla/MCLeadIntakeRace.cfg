CONSTANTS
    c1 = c1
    c2 = c2
    None = None
    Absent = Absent
    Clients = {c1, c2}
    RawEmails <- MCEmails
    RawPhones <- MCPhones
    Lowered <- MCLowered
    Digits <- MCDigits
    MaxLeads = 2
    MaxCreated = 2
    MaxUpdates = 0
    MaxFaults = 0
SYMMETRY ClientSymmetry
SPECIFICATION Spec
INVARIANT Deduplicated
CHECK_DEADLOCK FALSE
