CONSTANTS
    lead = lead  dev = dev
    full = full  small = small
    ana = ana  h1 = h1
    k1 = k1  i1 = i1  i2 = i2
    Keys = {k1}
    Ids = {i1, i2}
    Roles = {lead, dev}
    Names = {ana}
    Nobody = Nobody
    Payloads = {full, small}
    RolesOf <- MCRolesOf
    Caps = {h1}
    NoRoom = NoRoom
    Issued <- MCIssued
    RoomTTL = 1
    Window = 2
    Skew = 1
    MaxNow = 2
    MaxVersion = 2
    Txns = {t1, t2, t3}
    Free = Free
    Requests <- Calls
    Attempts = 2
    PurgeLimit = 2
SYMMETRY Connections
SPECIFICATION Spec
INVARIANT ReferencesLive
INVARIANT NoDeadlock
PROPERTY ImplementsService
PROPERTY RowsEvolve
