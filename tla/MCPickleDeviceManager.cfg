SPECIFICATION MSpec
CONSTANTS
    Clients = {c1}
    Device = Device
    HeaderPerOpen = FALSE
    Command <- MCCommand
    NoCommand = NoCommand
    NoPage = NoPage
    MaxFds = 4
    MaxPages = 2
    MaxLog = 2
    Managers = {m1, m2}
    m1 = m1
    m2 = m2
    ProcessOf <- MCProcessOf
    c1 = c1
    MmapIds = {0, 1}
    JobDescriptors = {job1}
    JobLength <- MCJobLength
    job1 = job1
CHECK_DEADLOCK FALSE
INVARIANTS MTypeOK PagesUsable AddressesMatch PagesDistinct WatchedOnceOrNever
PROPERTIES PointersKept MethodsEnd
