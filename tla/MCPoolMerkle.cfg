SPECIFICATION Spec
CONSTANTS
    TREE_DEPTH = 3
    ROOT_HISTORY = 3
    Leaves = {"a", "b"}
    Zero = "zero"
INVARIANTS
    MirrorAgrees
    ProofAccepted
    SealedWitness
    MembershipIsPrefix
PROPERTY
    ImplementsNoteTree
CHECK_DEADLOCK FALSE
