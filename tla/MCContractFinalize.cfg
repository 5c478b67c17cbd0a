CONSTANTS
    typed = typed  again = again
    prose = prose  types = types
    Terminals = {f1, f2}
    Drafts = {typed, again}
    ProseOf <- MCProseOf
    TypesOf <- MCTypesOf
    Legacy = Legacy
    LegacySets <- MCLegacySets
    Made <- MCMade
    NoFile = NoFile
    Torn = Torn
    MaxRevisions = 2
    MaxFaults = 1
SPECIFICATION FairSpec
INVARIANT Durable
INVARIANT Recoverable
INVARIANT StatusSound
PROPERTY RetryEnds
