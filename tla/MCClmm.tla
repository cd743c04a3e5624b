------------------------------- MODULE MCClmm -------------------------------
(* Two assets, and a pool or two.                                          *)
EXTENDS Clmm, ClmmSdkTree, TLC

Interchangeable == Permutations(Owners) \cup Permutations(Assets)
                       \cup Permutations(SpendingKeys)

Commitments == {<<"a">>, <<"b">>}

\* The tree from the root down: the subtree of the given height whose first
\* leaf has the given index.
Subtree[height \in 0 .. 3, first \in 0 .. 7, nodes \in Seq(Commitments)] ==
    IF height = 0
    THEN IF first < Len(nodes) THEN nodes[first + 1] ELSE <<"zero">>
    ELSE compute_hash(Subtree[height - 1, first, nodes],
                      Subtree[height - 1, first + 2 ^ (height - 1), nodes])

\* The siblings of a leaf, from the leaf up.
Path(nodes, index, height) ==
    [i \in 1 .. height |->
        LET size == 2 ^ (i - 1)
            node == index \div size
        IN  [is_left |-> node % 2 = 0,
             sibling |-> Subtree[i - 1,
                IF node % 2 = 0 THEN (node + 1) * size ELSE (node - 1) * size,
                nodes]]]

\* compute_root_from_leaves is the root of the full tree, for every number of
\* leaves, and verify_proof accepts the path of each of them and of no other.
ASSUME RootOfLeaves ==
    \A height \in 0 .. 3 : \A n \in 0 .. 2 ^ height :
        \A nodes \in [1 .. n -> Commitments] :
            LET root == compute_root_from_leaves(nodes, height) IN
            /\ root = Subtree[height, 0, nodes]
            /\ \A i \in 0 .. n - 1 : \A leaf \in Commitments :
                  verify_proof(leaf, root, Path(nodes, i, height))
                     <=> leaf = nodes[i + 1]

\* What the client makes of the same leaves: its root is the contract's only
\* when the leaves need the tree's full height, and its witness is good against
\* the contract's root only for the one leaf of a tree that has no other.
ASSUME SdkTreeIsAnother ==
    \A height \in 2 .. 3 : \A n \in 1 .. 2 ^ height :
        \A nodes \in [1 .. n -> Commitments] :
            LET root == compute_root_from_leaves(nodes, height) IN
            /\ buildMerkleTree(nodes) = root <=> n > 2 ^ (height - 1)
            /\ \A i \in 0 .. n - 1 :
                  verifyMerkleProof(nodes[i + 1], root,
                                    generateMerkleProof(nodes, i, height))
                     <=> n = 1

-----------------------------------------------------------------------------
\* What the clients make of all this.
Sdk == INSTANCE ClmmSdk

ASSUME ClientLayoutsAgree == Sdk!ClientLayoutsAgree
ASSUME SdkMintIsRefused == Sdk!SdkMintIsRefused
ASSUME PositionsCollide == Sdk!PositionsCollide
ASSUME ImportForgetsSpends == Sdk!ImportForgetsSpends

\* And what its page shows.
App == INSTANCE ClmmApp
    WITH Accounts <- {"alice", "bob"}, MaxSteps <- 9, MaxLedger <- 3, MaxSent <- 2,
         MaxRecords <- 3

Hasty == App!Hasty
OneByOne == App!OneByOne
Patiently == App!Patiently

ASSUME OneAtATime == App!OneAtATime(Hasty)
ASSUME PatientPageIsTrue == App!PatientPageIsTrue(Patiently)
ASSUME SubmissionReadsForItsOwn == App!SubmissionReadsForItsOwn(OneByOne)
ASSUME LateReadingStays == App!LateReadingStays(Hasty)
ASSUME ExpiredStaysPending == App!ExpiredStaysPending(Hasty)
ASSUME FailedMayLand == App!FailedMayLand(Hasty)
ASSUME RecordsAreShared == App!RecordsAreShared
=============================================================================
