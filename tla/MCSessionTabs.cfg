\* Two pages of one browser: two sign-ins, two expired device tokens, one end, one loss.
SPECIFICATION FairSpec
CONSTANTS
    a = a
    b = b
    x = x
    y = y
    Tabs = {a, b}
    Calls = {x}
    TabOf <- OneCall
    MaxDevices = 2
    MaxEvents = 2
    MaxOpenings = 2
PROPERTIES RotatesThePair  StaysSignedIn
CHECK_DEADLOCK FALSE
