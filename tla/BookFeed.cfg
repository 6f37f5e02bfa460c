CONSTANTS
    Null = Null
    a = a
    b = b
    Events <- MCEvents
    Needs <- MCNeeds
    Catalogue <- MCCatalogue
    Ring = 1
    PageLimit = 1
    MaxDeferred = 1
    MaxSeq = 5
    MaxFaults = 2
SPECIFICATION FairSpec
INVARIANTS NothingInvisible SeqNamesOneEvent ToldSurvives
CHECK_DEADLOCK FALSE
PROPERTY Relayed
