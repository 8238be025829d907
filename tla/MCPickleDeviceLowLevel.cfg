SPECIFICATION LSpec
CONSTANTS
    Clients = {c1, c2}
    Device = Device
    HeaderPerOpen = TRUE
    Command <- MCCommand
    NoCommand = NoCommand
    NoPage = NoPage
    MaxFds = 2
    MaxPages = 1
    MaxLog = 2
SYMMETRY Symmetry
INVARIANTS LTypeOK FdsAccounted OutIsHonest CommandsWhole
PROPERTIES ImplementsChannel
CHECK_DEADLOCK FALSE
