CONSTANTS
    lead = lead
    full = full  small = small
    h1 = h1  h2 = h2  h3 = h3
    Keys = {k1, k2}
    Ids = {i1, i2}
    Roles = {lead}
    Names = {ana}
    Nobody = Nobody
    Payloads = {full, small}
    RolesOf <- MCRolesOf
    Caps = {h1, h3}
    NoRoom = NoRoom
    Issued <- MCIssued
    RoomTTL = 2
    Window = 2
    Skew = 1
    MaxNow = 2
    MaxVersion = 2
    Terminals = {t1}
    Modes = {"publish", "recover"}
    Nowhere = Nowhere
    NoFile = NoFile
    Drift = 0
SPECIFICATION FairRecovery
PROPERTY RecoveryEnds
