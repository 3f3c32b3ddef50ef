-------------------------- MODULE PromotionContract --------------------------
(***************************************************************************)
(* What Stage 4.5 promises, whatever accept-promotion does to keep it: a    *)
(* receipt is minted in one step and states only (path, content) pairs that *)
(* a human has ratified.  Ratifications are never taken back.               *)
(***************************************************************************)
CONSTANTS
  Clusters,   \* one receipt per cluster
  Paths,      \* workspace paths of the artifacts
  Contents,   \* what may stand at a path
  NoReceipt   \* the cluster has none

VARIABLES
  ratified,   \* the (path, content) pairs with a ratified ruling
  receipt     \* [Clusters -> manifest or NoReceipt]

vars == <<ratified, receipt>>

Manifests == UNION {[A -> Contents] : A \in SUBSET Paths}

Init ==
  /\ ratified = {}
  /\ receipt = [c \in Clusters |-> NoReceipt]

\* A human rules on an exact set.
Ratify ==
  /\ ratified \subseteq ratified'
  /\ ratified' \subseteq Paths \X Contents
  /\ UNCHANGED receipt

\* A receipt for cluster c, new or over the one it had.
Mint(c) ==
  /\ receipt'[c] \in Manifests
  /\ \A p \in DOMAIN receipt'[c] : <<p, receipt'[c][p]>> \in ratified
  /\ receipt' = [receipt EXCEPT ![c] = receipt'[c]]
  /\ UNCHANGED ratified

Next == Ratify \/ \E c \in Clusters : Mint(c)

Spec == Init /\ [][Next]_vars
=============================================================================
