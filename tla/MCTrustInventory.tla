------------------------- MODULE MCTrustInventory -------------------------
(***************************************************************************)
(* A small instance of TrustInventory: a legacy root about to expire, a    *)
(* next root, an intermediate that is no root, and one chain seeded.       *)
(***************************************************************************)
EXTENDS TrustInventory, TLC

CONSTANTS w1, w2

Legacy == [from |-> 0, to |-> 3, root |-> TRUE]
NextRoot == [from |-> 1, to |-> 6, root |-> TRUE]
Issuing == [from |-> 0, to |-> 6, root |-> FALSE]

\* A bundle that outlives its root, one that ends before, and one sent with a
\* certificate the path does not need and that is not valid yet.
MCBundles ==
    { [root |-> Legacy, pathFrom |-> 0, pathTo |-> 5, from |-> 0, to |-> 5,
       fingerprint |-> "f1"],
      [root |-> NextRoot, pathFrom |-> 0, pathTo |-> 2, from |-> 0, to |-> 2,
       fingerprint |-> "f2"],
      [root |-> Legacy, pathFrom |-> 0, pathTo |-> 4, from |-> 2, to |-> 4,
       fingerprint |-> "f3"] }

LegacyRow == [certificate |-> Legacy, state |-> "valid", revoked |-> FALSE,
              archived |-> FALSE]

MCSeedAnchors ==
    {[c \in AnchorCodes |-> IF c = "legacy" THEN LegacyRow ELSE NoRow]}

MCSeedChains ==
    {[c \in ChainCodes |->
        IF c = "platform"
        THEN [anchor |-> "legacy", fingerprint |-> "seed", from |-> 0, to |-> 2,
              state |-> "validated"]
        ELSE NoRow]}

MCCertificates == {Legacy, NextRoot, Issuing}

MCSymmetry == Permutations({w1, w2})
=============================================================================
