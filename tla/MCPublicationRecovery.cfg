CONSTANTS
    lead = lead
    full = full  small = small
    h1 = h1  h2 = h2  h3 = h3
    Keys = {k1}
    Ids = {i1, i2}
    Roles = {lead}
    Names = {ana}
    Nobody = Nobody
    Payloads = {full, small}
    RolesOf <- MCRolesOf
    Caps = {h1, h2, h3}
    NoRoom = NoRoom
    Issued <- MCIssued
    RoomTTL = 1
    Window = 1
    Skew = 1
    MaxNow = 1
    MaxVersion = 1
    Terminals = {t1, t2}
    Modes = {"publish", "recover", "new"}
    Nowhere = Nowhere
    NoFile = NoFile
    Drift = 0
SYMMETRY Interchangeable
SPECIFICATION RecoverySpec
INVARIANT OwnTemporary
INVARIANT NoSilentReplacement
PROPERTY CredentialsStable
