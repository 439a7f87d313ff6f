------------------------------ MODULE Subtrees ------------------------------
(* Vectors over a region tree, shared by HookBus and Dispatch. *)
EXTENDS Integers, SequencesExt

\* Depth-first collection below r: a region's own modules, then every child's
\* subtree in child-list order. M and C are module and child lists.
CollectOf(M, C, r) ==
  LET collect[n \in DOMAIN M] ==
        M[n] \o FlattenSeq([i \in DOMAIN C[n] |-> collect[C[n][i]]])
  IN  collect[r]

\* The elements of s that are in S, in order.
Only(s, S) ==
  LET kept[i \in 0..Len(s)] ==
        IF i = 0 THEN <<>>
        ELSE IF s[i] \in S THEN Append(kept[i-1], s[i]) ELSE kept[i-1]
  IN  kept[Len(s)]

\* The list s with its element e unlinked.
Unlinked(s, e) == RemoveAt(s, CHOOSE i \in DOMAIN s : s[i] = e)
=============================================================================
