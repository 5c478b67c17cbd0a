CONSTANTS
    v1 = v1  v2 = v2  other = other  away = away
    a1 = a1  a2 = a2  r1 = r1  r2 = r2  here = here  there = there
    Payload <- MCPayload
    Role = "MY-ROLE.md"
    Packs = {v1, v2, other, away}
    RoomOf <- MCRoomOf
    RoleOf <- MCRoleOf
    ContentOf <- MCContent
    Edits = {mine}
    NoFile = NoFile
    Stamp = Stamp
    ProductFiles = {"AGENTS.md", "PROJECT.md", "member.json"}
    Names = {"AGENTS.md", "agents.md", "PROJECT.md", "member.json", "other.md"}
    Folded <- MCFolded
    MAX_FILE_BYTES = 2
    MAX_PACK_BYTES = 5
    Sizes = {1, 2, 3}
    MaxFiles = 4
    START = "<!-- grill-with-me:start -->"
    END = "<!-- grill-with-me:end -->"
    Break = ""
    Texts = {"ours", "theirs"}
    NoText = NoText
    MaxPieces = 4
    Downloads <- MCDownloads
    SPEC_HEADINGS <- MCHeadings
    Agreements = {"a", "b"}
    NoFence = NoFence
    SpecLines <- MCSpecLines
    ContractLines <- MCContractLines
    MaxLines = 5
    MAX_BYTES = 256
    Cases <- MCCases
    Ids = {retention}
    Hashes = {h1, h2}
    TypeHashes = {t1}
    NoTypes = NoTypes
    MaxRevisions = 4
SPECIFICATION CheckoutSpec
INVARIANT RetryAllowed
INVARIANT PacksWhole
INVARIANT SpecsSound
INVARIANT AgreementsSound
INVARIANT GateAgrees
INVARIANT AmendmentsKept
PROPERTY EditsKept
PROPERTY CommitPoint
PROPERTY LocalIgnored
PROPERTY BlocksKept
