CONSTANTS
    typed = typed  again = again
    prose = prose  types = types
    Terminals = {f1}
    Drafts = {typed}
    ProseOf <- MCProseOf
    TypesOf <- MCTypesOf
    Legacy = Legacy
    LegacySets <- MCLegacySets
    Made <- MCMade
    NoFile = NoFile
    Torn = Torn
    MaxRevisions = 1
    MaxFaults = 1
SPECIFICATION FairSpec
PROPERTY JournalEnds
