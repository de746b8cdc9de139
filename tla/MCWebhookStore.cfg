CONSTANTS
    c1 = c1
    c2 = c2
    msg = msg
    deal = deal
    bare = bare
    other = other
    text = text
    long = long
    kMsg = kMsg
    kDeal = kDeal
    kLong = kLong
    kUnknown = kUnknown
    Calls = {c1, c2}
    Events = {msg, deal, bare, other, text, long}
    KeyOf <- MCKeyOf
    WithoutId = {bare, other, text}
    Malformed = {text}
    Refused = {long}
    Svix <- MCSvix
    HubSpot <- MCHubSpot
    MaxFaults = 2
SPECIFICATION FairSpec
INVARIANTS
    TypeOK
    AnsweredIsRecorded
    DuplicateRowsOnlyFromRaces
PROPERTIES
    BatchAtomic
    RetriesEnd
