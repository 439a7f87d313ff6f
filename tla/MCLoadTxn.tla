----------------------------- MODULE MCLoadTxn ------------------------------
(* LoadTxn with a library that has a region state and one without a context. *)
EXTENDS LoadTxn

\* Bound on the states that are gone on from. Once a copy without a name has
\* been lost, only the load that lost it goes on: it fails, and what it leaves
\* is explored without the loss in its history. A load whose copy is in the
\* last directory is followed until it has an entry, which would differ from
\* one with a copy in another directory by the number of that directory.
MCBound ==
  /\ "file" \in lost => txs # <<>> /\ Top.main
  /\ \A k \in DOMAIN ent : ent[k].dir < Len(Dirs)
=============================================================================
