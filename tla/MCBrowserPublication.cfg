CONSTANTS
    lead = lead  dev = dev
    full = full  small = small
    h1 = h1  h2 = h2
    Keys = {k1}
    Ids = {i1, i2}
    Roles = {lead, dev}
    Names = {ana}
    Nobody = Nobody
    Payloads = {full, small}
    RolesOf <- MCRolesOf
    Caps = {h1, h2}
    NoRoom = NoRoom
    Issued <- MCIssued
    RoomTTL = 1
    Window = 2
    Skew = 1
    MaxNow = 2
    MaxVersion = 2
    Tabs = {t1, t2}
    Nowhere = Nowhere
    Nothing = Nothing
SYMMETRY Interchangeable
SPECIFICATION PageSpec
INVARIANT AttemptKept
INVARIANT ShownOwn
INVARIANT RoomsSound
INVARIANT OneRoomPerCapability
