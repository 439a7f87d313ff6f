----------------------------- MODULE MCDispatch -----------------------------
(* Dispatch over three regions. The first set of entries holds two loads of  *)
(* library "p" that share an image, and one of "q"; the second a library "z" *)
(* that takes no hook.                                                       *)
EXTENDS Dispatch

MCEntries == {"p1", "p2", "q1"}
MCMixed == {"p1", "q1", "z1"}
MCPathOf == [e \in Entries |-> CASE e \in {"p1", "p2"} -> "p"
                                 [] e = "q1" -> "q"
                                 [] e = "z1" -> "z"]
MCImageOf == MCPathOf
MCExports == [p \in Paths |-> IF p = "z" THEN {} ELSE Hooks]
=============================================================================
