CONSTANTS
    lead = lead  dev = dev
    full = full  small = small
    h1 = h1  h2 = h2
    Keys = {k1, k2}
    Ids = {i1, i2}
    Roles = {lead, dev}
    Names = {ana}
    Nobody = Nobody
    Payloads = {full, small}
    RolesOf <- MCRolesOf
    Caps = {h1, h2}
    NoRoom = NoRoom
    Issued <- MCIssued
    RoomTTL = 2
    Window = 2
    Skew = 1
    MaxNow = 4
    MaxVersion = 2
    PurgeLimit = 1
SPECIFICATION Spec
INVARIANT TypeOK
INVARIANT PointersLive
INVARIANT ForgottenOnlyWhenClosed
PROPERTY ExpiredRoomsFrozen
PROPERTY ImplementsService
