SPECIFICATION FairSpec
CONSTANTS
    MaxHeight = 4
    MaxCopies = 2
    Outputs = {1, 2, 4}
    NoteAt = 2
    NoTree = NoTree
    NoWitness = NoWitness
INVARIANTS
    AnchorsAreOnChain
