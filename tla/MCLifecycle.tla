---------------------------- MODULE MCLifecycle -----------------------------
(* Lifecycle with libraries named for what they do: "a", "b", "c" plain,     *)
(* "k" exports xy_claim, "z" hands over no context, "x" has no xy_install.   *)
EXTENDS Lifecycle

Plain == Paths \ (Claimers \cup Bare \cup NoInstall)
MCSymmetry == Permutations(Cells) \cup Permutations(Plain)

\* Present(P): the entries of the libraries P.
Present(P) == {c \in Loaded : ent[c].path \in P}

\* Bound: the states explored are of two kinds. Libraries of all kinds, claimed
\* regions and calls, with at most one plain library, one reference to each
\* entry and, while a region has a gate, one level of foreign code less; or
\* plain libraries alone, in a root without a gate, with shared references and
\* installs as deep as there are entries. States of neither kind are checked
\* and not gone on from.
MCMixed ==
  /\ \A c \in Loaded : ent[c].refs = 1
  /\ Cardinality(Present(Plain)) <= 1
  /\ \A r \in live : gate[r] => Len(frames) < MaxFrames /\ \A q \in live \ {r} : ~gate[q]
MCCascade ==
  /\ Present(Paths \ Plain) = {} /\ live = {Root} /\ ~gate[Root]
  /\ \A f \in ToSet(frames) : f.kind = "install"
MCBound == MCMixed \/ MCCascade
=============================================================================
