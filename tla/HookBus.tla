------------------------------ MODULE HookBus ------------------------------
(***************************************************************************)
(* What hook dispatch promises, without caches: a call from region r runs  *)
(* the modules on the lists of r's subtree that export the hook, depth     *)
(* first, as the lists are at that moment. A region that is not policed    *)
(* (nothing was ever denied at or below it) is unaffected by any deny;     *)
(* from a policed region its own denies hold, and those of its ancestors   *)
(* may.                                                                    *)
(***************************************************************************)
EXTENDS Subtrees

CONSTANTS Regions, Root, Paths, Entries, PathOf, Hooks, Exports, HasCtx

VARIABLES
  live,         \* regions
  anc,          \* anc[r]: r and its ancestors
  children,     \* child lists, newest first
  mods,         \* module lists
  hook_ids,     \* registered hooks
  denied_hooks, \* hooks denied in a region
  denied_mods,  \* modules denied in a region
  policed,      \* regions at or below which something was denied
  last          \* the last call and the modules it ran

vars == <<live, anc, children, mods, hook_ids, denied_hooks, denied_mods, policed, last>>

NoCall == [op |-> "none"]

Below(r) == {x \in live : r \in anc[x]}

ModulesBelow(r) == CollectOf([x \in Below(r) |-> mods[x]], [x \in Below(r) |-> children[x]], r)

\* The modules among vec that take hook h when the given paths are blocked.
Listeners(vec, h, blocked) ==
  {e \in Entries : /\ e \in ToSet(vec) /\ PathOf[e] \in HasCtx
                   /\ PathOf[e] \notin blocked /\ h \in Exports[PathOf[e]]}

Init ==
  /\ live = {Root}
  /\ anc = [r \in Regions |-> IF r = Root THEN {Root} ELSE {}]
  /\ children = [r \in Regions |-> <<>>]
  /\ mods = [r \in Regions |-> <<>>]
  /\ hook_ids = {}
  /\ denied_hooks = [r \in Regions |-> {}]
  /\ denied_mods = [r \in Regions |-> {}]
  /\ policed = [r \in Regions |-> FALSE]
  /\ last = NoCall

\* A region below p appears.
NewRegion(p, c) ==
  /\ live' = live \cup {c}
  /\ anc' = [anc EXCEPT ![c] = anc[p] \cup {c}]
  /\ children' = [children EXCEPT ![p] = <<c>> \o @]
  /\ last' = NoCall
  /\ UNCHANGED <<mods, hook_ids, denied_hooks, denied_mods, policed>>

\* The module list of r changes by one join, departure or move. A departing
\* module takes the denies of its path in that region with it.
ListChange(r, seq, lifted) ==
  /\ mods' = [mods EXCEPT ![r] = seq]
  /\ denied_mods' = [denied_mods EXCEPT ![r] = @ \ lifted]
  /\ last' = NoCall
  /\ UNCHANGED <<live, anc, children, hook_ids, denied_hooks, policed>>

Join(e, r)    == ListChange(r, Append(mods[r], e), {})
Leave(e, r)   == ListChange(r, Unlinked(mods[r], e), {PathOf[e]})
Move(e, r, i) == ListChange(r, InsertAt(Unlinked(mods[r], e), i, e), {})

Register(h) ==
  /\ hook_ids' = hook_ids \cup {h}
  /\ last' = NoCall
  /\ UNCHANGED <<live, anc, children, mods, denied_hooks, denied_mods, policed>>

Deny(r, hs, ps) ==
  /\ denied_hooks' = [denied_hooks EXCEPT ![r] = @ \cup hs]
  /\ denied_mods' = [denied_mods EXCEPT ![r] = @ \cup ps]
  /\ policed' = [q \in Regions |-> policed[q] \/ q \in anc[r]]
  /\ last' = NoCall
  /\ UNCHANGED <<live, anc, children, mods, hook_ids>>

Result(r, h, err, ran) ==
  last' = [op |-> "call", at |-> r, hook |-> h, err |-> err, ran |-> ran]

\* A call is refused, or runs every listener below r once, in order.
Call(r, h) ==
  /\ \/ h \notin hook_ids /\ Result(r, h, "NOTFOUND", <<>>)
     \/ h \in hook_ids /\ Result(r, h, "TOOBIG", <<>>)
     \/ /\ h \in hook_ids /\ policed[r] /\ \E a \in anc[r] : h \in denied_hooks[a]
        /\ Result(r, h, "EPERM", <<>>)
     \/ /\ h \in hook_ids /\ h \notin denied_hooks[r]
        /\ \E blocked \in SUBSET Paths :
             /\ denied_mods[r] \subseteq blocked
             /\ policed[r] \/ blocked = {}
             /\ LET all == ModulesBelow(r)
                    ran == Only(all, Listeners(all, h, blocked))
                IN  Result(r, h, IF ran = <<>> THEN "NOTFOUND" ELSE "OK", ran)
  /\ UNCHANGED <<live, anc, children, mods, hook_ids, denied_hooks, denied_mods, policed>>

\* Everything but the registered hooks is forgotten.
Reset ==
  /\ live' = {Root}
  /\ anc' = [r \in Regions |-> IF r = Root THEN {Root} ELSE {}]
  /\ children' = [r \in Regions |-> <<>>]
  /\ mods' = [r \in Regions |-> <<>>]
  /\ denied_hooks' = [r \in Regions |-> {}]
  /\ denied_mods' = [r \in Regions |-> {}]
  /\ policed' = [r \in Regions |-> FALSE]
  /\ last' = NoCall
  /\ UNCHANGED hook_ids

Next ==
  \/ \E p \in live, c \in Regions \ live : NewRegion(p, c)
  \/ \E e \in Entries, r \in live : Join(e, r)
  \/ \E r \in live : \E e \in ToSet(mods[r]) : Leave(e, r)
  \/ \E r \in live : \E e \in ToSet(mods[r]), i \in DOMAIN mods[r] : Move(e, r, i)
  \/ \E h \in Hooks : Register(h)
  \/ \E r \in live, h \in Hooks : Deny(r, {h}, {})
  \/ \E r \in live, p \in Paths : Deny(r, {}, {p})
  \/ \E r \in live, h \in Hooks : Call(r, h)
  \/ Reset
  \/ last' = NoCall /\ UNCHANGED <<live, anc, children, mods, hook_ids, denied_hooks,
                                   denied_mods, policed>>

Spec == Init /\ [][Next]_vars
=============================================================================
