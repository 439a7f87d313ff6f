--------------------------- MODULE DispatchProofs ---------------------------
(***************************************************************************)
(* The caches of Dispatch are exact, for every number of regions, modules  *)
(* and hooks. The depth-first walk is never unfolded except on a region    *)
(* without children: a step either leaves every list it reads alone, and   *)
(* then its value cannot change (CollectUnchanged), or marks the region.   *)
(***************************************************************************)
EXTENDS Dispatch, TLAPS

\* The walk below a new region, which has no module and no child, is empty.
LEMMA CollectLeaf ==
  ASSUME NEW c
  PROVE  CollectOf([x \in {c} |-> <<>>], [x \in {c} |-> <<>>], c) = <<>>
<1> DEFINE M == [x \in {c} |-> <<>>]
           G(f) == [n \in DOMAIN M |-> M[n] \o FlattenSeq([i \in DOMAIN M[n] |-> f[M[n][i]]])]
           f0 == CHOOSE f : f = G(f)
           g0 == [n \in {c} |-> <<>>]
<1>1. \A f : G(f) = g0
  <2>1. DOMAIN M = {c} /\ M[c] = <<>> /\ DOMAIN M[c] = {}
    OBVIOUS
  <2>2. \A f : [i \in DOMAIN M[c] |-> f[M[c][i]]] = <<>>
    BY <2>1
  <2>3. FlattenSeq(<<>>) = <<>>
    BY DEF FlattenSeq
  <2>4. \A f : M[c] \o FlattenSeq([i \in DOMAIN M[c] |-> f[M[c][i]]]) = <<>>
    BY <2>1, <2>2, <2>3
  <2> QED BY <2>1, <2>4
<1>2. \E f : f = G(f)
  <2>1. g0 = G(g0)
    BY <1>1
  <2> HIDE DEF g0, G
  <2> QED BY <2>1
<1>3. f0 = G(f0)
  BY <1>2
<1>4. f0[c] = <<>>
  BY <1>1, <1>3
<1> QED BY <1>4 DEF CollectOf

\* A step that leaves the lists of r's subtree alone leaves its walk alone.
LEMMA CollectUnchanged ==
  ASSUME NEW r, Subtree(r)' = Subtree(r),
         \A x \in Subtree(r) : mods'[x] = mods[x] /\ children'[x] = children[x]
  PROVE  region_collect_subtree_mods(r)' = region_collect_subtree_mods(r)
<1>1. [x \in Subtree(r)' |-> mods'[x]] = [x \in Subtree(r) |-> mods[x]]
  OBVIOUS
<1>2. [x \in Subtree(r)' |-> children'[x]] = [x \in Subtree(r) |-> children[x]]
  OBVIOUS
<1> QED BY <1>1, <1>2 DEF region_collect_subtree_mods

\* A change to the module list of one region, with the marking that goes
\* with it: what Add, AddAborted, Drop and Move have in common.
ListStep(r) ==
  /\ r \in live
  /\ UNCHANGED regVars /\ UNCHANGED cacheVars
  /\ \A x \in Regions \ {r} : mods'[x] = mods[x]
  /\ region_mark_subtree_dirty(r)

\* After a list change the caches that still count as current are exact.
LEMMA ListStepCaches ==
  ASSUME TablesConsistent, NEW r, ListStep(r)
  PROVE  SubtreeCacheExact' /\ VectorExact' /\ VectorNotAhead'
<1> USE DEF TablesConsistent
<1>1. \A q \in live : q \notin anc[r] =>
        region_collect_subtree_mods(q)' = region_collect_subtree_mods(q)
  <2> SUFFICES ASSUME NEW q \in live, q \notin anc[r]
               PROVE  region_collect_subtree_mods(q)' = region_collect_subtree_mods(q)
    OBVIOUS
  <2>1. Subtree(q)' = Subtree(q)
    BY DEF ListStep, regVars, Subtree
  <2>2. \A x \in Subtree(q) : mods'[x] = mods[x] /\ children'[x] = children[x]
    BY DEF ListStep, regVars, Subtree, TypeOK
  <2> QED BY <2>1, <2>2, CollectUnchanged
<1>2. \A q \in live : q \in anc[r] => dirty'[q] /\ gen'[q] = gen[q] + 1
  BY DEF ListStep, region_mark_subtree_dirty, region_dispatch_gen_bump, TypeOK
<1>3. \A q \in live : q \notin anc[r] => dirty'[q] = dirty[q] /\ gen'[q] = gen[q]
  BY DEF ListStep, region_mark_subtree_dirty, region_dispatch_gen_bump, TypeOK
<1>4. live' = live /\ subtree_mods' = subtree_mods /\ hook_dispatch' = hook_dispatch
  BY DEF ListStep, regVars, cacheVars
<1>5. SubtreeCacheExact'
  BY <1>1, <1>2, <1>3, <1>4 DEF SubtreeCacheExact
<1>6. VectorNotAhead'
  <2>1. \A q \in Regions : gen'[q] \in Nat /\ gen'[q] >= gen[q]
    BY DEF ListStep, region_mark_subtree_dirty, region_dispatch_gen_bump, TypeOK
  <2> QED BY <2>1, <1>4 DEF VectorNotAhead, TypeOK
<1>7. VectorExact'
  <2> SUFFICES ASSUME NEW q \in live, NEW h \in Hooks,
                      hook_dispatch[q][h].region_gen = gen'[q]
               PROVE  /\ ~dirty'[q]
                      /\ hook_dispatch[q][h].mes =
                           Only(region_collect_subtree_mods(q)',
                                ListenersAmong(region_collect_subtree_mods(q)', h,
                                               hook_dispatch[q][h].blocked))
    BY <1>4 DEF VectorExact, ListenersAmong
  <2>1. q \notin anc[r]
    <3>1. hook_dispatch[q][h].region_gen <= gen[q] /\ gen[q] \in Nat
      BY DEF VectorNotAhead, TypeOK
    <3> QED BY <3>1, <1>2
  <2>2. gen'[q] = gen[q] /\ dirty'[q] = dirty[q]
    BY <2>1, <1>3
  <2>3. region_collect_subtree_mods(q)' = region_collect_subtree_mods(q)
    BY <2>1, <1>1
  <2> QED BY <2>2, <2>3 DEF VectorExact
<1> QED BY <1>5, <1>6, <1>7

\* Looking symbols up keeps the symbol caches typed and honest.
LEMMA ResolveHonest ==
  ASSUME TypeOK, SymbolCacheHonest, NEW E, NEW H, Resolve(E, H)
  PROVE  /\ fn_cache' \in [Entries -> [Hooks -> Slot]]
         /\ hook_impl' \in [Entries -> SUBSET Hooks]
         /\ SymbolCacheHonest'
<1>1. \A e \in Entries, h \in Hooks : dlsym(e, h) \in {"cb", "missing"}
  BY DEF dlsym
<1>2. fn_cache' \in [Entries -> [Hooks -> Slot]]
  BY <1>1 DEF Resolve, Resolved, TypeOK, Slot
<1>3. hook_impl' \in [Entries -> SUBSET Hooks]
  BY DEF Resolve, TypeOK
<1>4. SymbolCacheHonest'
  <2> SUFFICES ASSUME NEW e \in Entries, NEW h \in Hooks
               PROVE  /\ fn_cache'[e][h] = "missing" => h \notin Exports[PathOf[e]]
                      /\ fn_cache'[e][h] = "cb" => h \in hook_impl'[e]
                      /\ h \in hook_impl'[e] => h \in Exports[PathOf[e]]
    BY DEF SymbolCacheHonest
  <2>1. /\ fn_cache[e][h] = "missing" => h \notin Exports[PathOf[e]]
        /\ fn_cache[e][h] = "cb" => h \in hook_impl[e]
        /\ h \in hook_impl[e] => h \in Exports[PathOf[e]]
    BY DEF SymbolCacheHonest
  <2>2. h \in hook_impl'[e] <=>
          \/ h \in hook_impl[e]
          \/ e \in E /\ h \in H /\ fn_cache[e][h] = "unresolved" /\ dlsym(e, h) = "cb"
    BY DEF Resolve
  <2>3. fn_cache'[e][h] = IF e \in E /\ h \in H THEN Resolved(e, h) ELSE fn_cache[e][h]
    BY DEF Resolve
  <2> QED BY <2>1, <2>2, <2>3 DEF Resolved, dlsym
<1> QED BY <1>2, <1>3, <1>4

\* What a list change keeps of the rest of the invariant.
LEMMA ListStepFrame ==
  ASSUME TablesConsistent, NEW r, ListStep(r), DOMAIN mods' = Regions,
         denied_mods' \in [Regions -> SUBSET Paths],
         \A q \in Regions : denied_mods'[q] \subseteq denied_mods[q],
         has_deny' = has_deny
  PROVE  /\ AncestorsClosed' /\ UnusedBlank' /\ DenyFlagged' /\ VectorHonoursOwnDeny'
         /\ gen' \in [Regions -> Nat \ {0}] /\ dirty' \in [Regions -> BOOLEAN]
<1> USE DEF TablesConsistent
<1>1. AncestorsClosed'
  BY DEF AncestorsClosed, ListStep, regVars
<1>2. gen' \in [Regions -> Nat \ {0}] /\ dirty' \in [Regions -> BOOLEAN]
  BY DEF ListStep, region_mark_subtree_dirty, region_dispatch_gen_bump, TypeOK
<1>3. UnusedBlank'
  <2> SUFFICES ASSUME NEW q \in Regions \ live
               PROVE  /\ mods'[q] = <<>> /\ children'[q] = <<>> /\ subtree_mods'[q] = <<>>
                      /\ ~dirty'[q] /\ denied_mods'[q] = {}
                      /\ \A h \in Hooks : hook_dispatch'[q][h] = NoVector
    BY DEF UnusedBlank, ListStep, regVars
  <2>1. q # r /\ q \notin anc[r]
    BY DEF ListStep, AncestorsClosed
  <2> QED BY <2>1 DEF UnusedBlank, ListStep, regVars, cacheVars,
             region_mark_subtree_dirty, TypeOK
<1>4. DenyFlagged'
  BY DEF DenyFlagged, ListStep, regVars, TypeOK
<1>5. VectorHonoursOwnDeny'
  <2> SUFFICES ASSUME NEW q \in live, NEW h \in Hooks,
                      hook_dispatch[q][h].region_gen = gen'[q]
               PROVE  denied_mods'[q] \subseteq hook_dispatch[q][h].blocked
    BY DEF VectorHonoursOwnDeny, ListStep, regVars, cacheVars
  <2>1. gen'[q] = gen[q] \/ gen'[q] = gen[q] + 1
    BY DEF ListStep, region_mark_subtree_dirty, region_dispatch_gen_bump, TypeOK
  <2>2. hook_dispatch[q][h].region_gen <= gen[q] /\ gen[q] \in Nat
    BY DEF VectorNotAhead, TypeOK
  <2>3. gen'[q] = gen[q]
    BY <2>1, <2>2
  <2> QED BY <2>3 DEF VectorHonoursOwnDeny, TypeOK
<1> QED BY <1>1, <1>2, <1>3, <1>4, <1>5

\* A load (module_region_append and fn_cache_prewarm) keeps the tables consistent.
LEMMA AddStep ==
  ASSUME TablesConsistent, NEW e \in Entries \ used, NEW r \in live, Add(e, r)
  PROVE  TablesConsistent'
<1>1. ListStep(r)
  BY DEF Add, ListStep, TablesConsistent, TypeOK
<1>2. /\ fn_cache' \in [Entries -> [Hooks -> Slot]]
      /\ hook_impl' \in [Entries -> SUBSET Hooks]
      /\ SymbolCacheHonest'
  BY ResolveHonest DEF Add, TablesConsistent
<1>3. DOMAIN mods' = Regions /\ denied_mods' = denied_mods /\ has_deny' = has_deny
  BY DEF Add, denyVars, TablesConsistent, TypeOK
<1>4. /\ AncestorsClosed' /\ UnusedBlank' /\ DenyFlagged' /\ VectorHonoursOwnDeny'
      /\ gen' \in [Regions -> Nat \ {0}] /\ dirty' \in [Regions -> BOOLEAN]
  BY <1>1, <1>3, ListStepFrame DEF TablesConsistent, TypeOK
<1>5. TypeOK'
  BY <1>2, <1>3, <1>4 DEF Add, TypeOK, TablesConsistent, regVars, denyVars, cacheVars
<1> QED BY <1>1, <1>2, <1>4, <1>5, ListStepCaches DEF TablesConsistent

\* So does a load that is appended and aborted (mod_load_abort).
LEMMA AddAbortedStep ==
  ASSUME TablesConsistent, NEW r \in live, AddAborted(r)
  PROVE  TablesConsistent'
<1>1. ListStep(r)
  BY DEF AddAborted, ListStep
<1>2. SymbolCacheHonest'
  BY DEF AddAborted, symVars, SymbolCacheHonest, TablesConsistent
<1>3. DOMAIN mods' = Regions /\ denied_mods' = denied_mods /\ has_deny' = has_deny
  BY DEF AddAborted, denyVars, TablesConsistent, TypeOK
<1>4. /\ AncestorsClosed' /\ UnusedBlank' /\ DenyFlagged' /\ VectorHonoursOwnDeny'
      /\ gen' \in [Regions -> Nat \ {0}] /\ dirty' \in [Regions -> BOOLEAN]
  BY <1>1, <1>3, ListStepFrame DEF TablesConsistent, TypeOK
<1>5. TypeOK'
  BY <1>3, <1>4 DEF AddAborted, TypeOK, TablesConsistent, regVars, symVars, denyVars, cacheVars
<1> QED BY <1>1, <1>2, <1>4, <1>5, ListStepCaches DEF TablesConsistent

\* An unload keeps the tables consistent: the caches it clears elsewhere fall
\* back to "unresolved", which claims nothing.
LEMMA DropStep ==
  ASSUME TablesConsistent, NEW r \in live, NEW e, Drop(e, r)
  PROVE  TablesConsistent'
<1>1. ListStep(r)
  BY DEF Drop, ListStep, TablesConsistent, TypeOK
<1>2. /\ fn_cache' \in [Entries -> [Hooks -> Slot]]
      /\ \A x \in Entries, h \in Hooks :
           fn_cache'[x][h] = fn_cache[x][h] \/ fn_cache'[x][h] = "unresolved"
  BY DEF Drop, TablesConsistent, TypeOK, Slot
<1>3. SymbolCacheHonest'
  BY <1>2 DEF Drop, SymbolCacheHonest, TablesConsistent
<1>4. /\ DOMAIN mods' = Regions /\ has_deny' = has_deny
      /\ denied_mods' \in [Regions -> SUBSET Paths]
      /\ \A q \in Regions : denied_mods'[q] \subseteq denied_mods[q]
  BY DEF Drop, TablesConsistent, TypeOK
<1>5. /\ AncestorsClosed' /\ UnusedBlank' /\ DenyFlagged' /\ VectorHonoursOwnDeny'
      /\ gen' \in [Regions -> Nat \ {0}] /\ dirty' \in [Regions -> BOOLEAN]
  BY <1>1, <1>4, ListStepFrame
<1>6. TypeOK'
  BY <1>2, <1>4, <1>5 DEF Drop, TypeOK, TablesConsistent, regVars, cacheVars
<1> QED BY <1>1, <1>3, <1>5, <1>6, ListStepCaches DEF TablesConsistent

\* Moving a reloaded module back to its place keeps the tables consistent.
LEMMA MoveStep ==
  ASSUME TablesConsistent, NEW r \in live, NEW e, NEW i, Move(e, r, i)
  PROVE  TablesConsistent'
<1>1. ListStep(r)
  BY DEF Move, ListStep, TablesConsistent, TypeOK
<1>2. SymbolCacheHonest'
  BY DEF Move, symVars, SymbolCacheHonest, TablesConsistent
<1>3. DOMAIN mods' = Regions /\ denied_mods' = denied_mods /\ has_deny' = has_deny
  BY DEF Move, denyVars, TablesConsistent, TypeOK
<1>4. /\ AncestorsClosed' /\ UnusedBlank' /\ DenyFlagged' /\ VectorHonoursOwnDeny'
      /\ gen' \in [Regions -> Nat \ {0}] /\ dirty' \in [Regions -> BOOLEAN]
  BY <1>1, <1>3, ListStepFrame DEF TablesConsistent, TypeOK
<1>5. TypeOK'
  BY <1>3, <1>4 DEF Move, TypeOK, TablesConsistent, regVars, symVars, denyVars, cacheVars
<1> QED BY <1>1, <1>2, <1>4, <1>5, ListStepCaches DEF TablesConsistent

\* A claim disturbs the walks of p and its ancestors only, all of which are
\* marked; the new region starts with an empty and exact vector.
LEMMA ClaimStep ==
  ASSUME TablesConsistent, NEW p \in live, NEW c \in Regions \ live, Claim(p, c)
  PROVE  TablesConsistent'
<1> USE DEF TablesConsistent
<1>0. p # c /\ c \notin anc[p] /\ (\A x \in live : c \notin anc[x])
  BY DEF AncestorsClosed
<1>1. /\ live' = live \cup {c} /\ anc' = [anc EXCEPT ![c] = anc[p] \cup {c}]
      /\ parent' = [parent EXCEPT ![c] = p]
      /\ children' = [children EXCEPT ![p] = <<c>> \o @]
      /\ mods' = mods /\ subtree_mods' = subtree_mods /\ hook_dispatch' = hook_dispatch
      /\ denied_mods' = denied_mods /\ denied_hooks' = denied_hooks /\ has_deny' = has_deny
      /\ fn_cache' = fn_cache /\ hook_impl' = hook_impl
      /\ used' = used /\ mod_hd' = mod_hd /\ hook_ids' = hook_ids
  BY DEF Claim, symVars, denyVars, cacheVars
<1>2. /\ gen' = [q \in Regions |-> IF q \in anc[p] THEN gen[q] + 1 ELSE gen[q]]
      /\ dirty' = [q \in Regions |-> dirty[q] \/ q \in anc[p]]
  BY DEF Claim, region_mark_subtree_dirty, region_dispatch_gen_bump
<1>3. TypeOK'
  <2>1. anc' \in [Regions -> SUBSET Regions] /\ parent' \in [Regions -> Regions \cup {NULL}]
    BY <1>1 DEF TypeOK
  <2>2. gen' \in [Regions -> Nat \ {0}] /\ dirty' \in [Regions -> BOOLEAN]
    BY <1>2 DEF TypeOK
  <2> QED BY <1>1, <2>1, <2>2 DEF TypeOK
<1>4. AncestorsClosed'
  BY <1>0, <1>1 DEF AncestorsClosed, TypeOK
<1>5. UnusedBlank'
  BY <1>1, <1>2 DEF UnusedBlank, AncestorsClosed, TypeOK
<1>6. \A q \in live : q \notin anc[p] =>
        region_collect_subtree_mods(q)' = region_collect_subtree_mods(q)
  <2> SUFFICES ASSUME NEW q \in live, q \notin anc[p]
               PROVE  region_collect_subtree_mods(q)' = region_collect_subtree_mods(q)
    OBVIOUS
  <2>1. Subtree(q)' = Subtree(q)
    BY <1>0, <1>1 DEF Subtree, TypeOK
  <2>2. \A x \in Subtree(q) : mods'[x] = mods[x] /\ children'[x] = children[x]
    BY <1>1 DEF Subtree, TypeOK
  <2> QED BY <2>1, <2>2, CollectUnchanged
<1>7. region_collect_subtree_mods(c)' = <<>>
  <2>1. Subtree(c)' = {c}
    BY <1>0, <1>1 DEF Subtree, TypeOK
  <2>2. mods'[c] = <<>> /\ children'[c] = <<>>
    BY <1>0, <1>1 DEF UnusedBlank, TypeOK
  <2>3. /\ [x \in Subtree(c)' |-> mods'[x]] = [x \in {c} |-> <<>>]
        /\ [x \in Subtree(c)' |-> children'[x]] = [x \in {c} |-> <<>>]
    BY <2>1, <2>2
  <2> QED BY <2>3, CollectLeaf DEF region_collect_subtree_mods
<1>8. SubtreeCacheExact'
  <2>1. subtree_mods'[c] = <<>>
    BY <1>1 DEF UnusedBlank
  <2> QED BY <1>1, <1>2, <1>6, <1>7, <2>1 DEF SubtreeCacheExact, TypeOK
<1>9. VectorNotAhead'
  BY <1>1, <1>2 DEF VectorNotAhead, TypeOK
<1>10. \A q \in live', h \in Hooks : hook_dispatch'[q][h].region_gen = gen'[q] =>
         q \in live /\ q \notin anc[p] /\ gen'[q] = gen[q]
  <2> SUFFICES ASSUME NEW q \in live', NEW h \in Hooks,
                      hook_dispatch[q][h].region_gen = gen'[q]
               PROVE  q \in live /\ q \notin anc[p] /\ gen'[q] = gen[q]
    BY <1>1
  <2>1. q # c
    <3>1. hook_dispatch[c][h].region_gen = 0
      BY DEF UnusedBlank, NoVector
    <3> QED BY <3>1, <1>3 DEF TypeOK
  <2>2. q \in live
    BY <2>1, <1>1
  <2>3. hook_dispatch[q][h].region_gen <= gen[q] /\ gen[q] \in Nat
    BY <2>2 DEF VectorNotAhead, TypeOK
  <2> QED BY <1>2, <2>2, <2>3 DEF TypeOK
<1>11. VectorExact'
  <2> SUFFICES ASSUME NEW q \in live', NEW h \in Hooks,
                      hook_dispatch[q][h].region_gen = gen'[q]
               PROVE  /\ ~dirty'[q]
                      /\ hook_dispatch[q][h].mes =
                           Only(region_collect_subtree_mods(q)',
                                ListenersAmong(region_collect_subtree_mods(q)', h,
                                               hook_dispatch[q][h].blocked))
    BY <1>1 DEF VectorExact, ListenersAmong
  <2>1. q \in live /\ q \notin anc[p] /\ gen'[q] = gen[q]
    BY <1>1, <1>10
  <2>2. dirty'[q] = dirty[q]
    BY <1>2, <2>1 DEF TypeOK
  <2>3. region_collect_subtree_mods(q)' = region_collect_subtree_mods(q)
    BY <2>1, <1>6
  <2> QED BY <2>1, <2>2, <2>3 DEF VectorExact
<1>12. DenyFlagged'
  BY <1>1 DEF DenyFlagged, UnusedBlank
<1>13. VectorHonoursOwnDeny'
  BY <1>1, <1>10 DEF VectorHonoursOwnDeny
<1>14. SymbolCacheHonest'
  BY <1>1 DEF SymbolCacheHonest
<1> QED BY <1>3, <1>4, <1>5, <1>8, <1>9, <1>11, <1>12, <1>13, <1>14

\* A step that changes neither the tree, the lists nor the tree caches keeps
\* everything said about them.
LEMMA TreeUnchanged ==
  ASSUME UNCHANGED regVars, mods' = mods
  PROVE  /\ \A q : region_collect_subtree_mods(q)' = region_collect_subtree_mods(q)
         /\ AncestorsClosed => AncestorsClosed'
<1>1. \A q : Subtree(q)' = Subtree(q)
  BY DEF regVars, Subtree
<1>2. children' = children
  BY DEF regVars
<1>3. \A q : region_collect_subtree_mods(q)' = region_collect_subtree_mods(q)
  BY <1>1, <1>2, CollectUnchanged
<1>4. AncestorsClosed => AncestorsClosed'
  BY DEF regVars, AncestorsClosed
<1> QED BY <1>3, <1>4

\* xy_areg fills symbol caches and changes nothing a vector was built from.
LEMMA AregStep ==
  ASSUME TablesConsistent, NEW h \in Hooks, xy_areg(h)
  PROVE  TablesConsistent'
<1> USE DEF TablesConsistent
<1>1. /\ UNCHANGED regVars /\ UNCHANGED denyVars /\ UNCHANGED cacheVars
      /\ UNCHANGED <<mods, used, mod_hd, gen, dirty>>
      /\ hook_ids' = hook_ids \cup {h}
  BY DEF xy_areg
<1>2. /\ fn_cache' \in [Entries -> [Hooks -> Slot]]
      /\ hook_impl' \in [Entries -> SUBSET Hooks]
      /\ SymbolCacheHonest'
  BY ResolveHonest DEF xy_areg
<1>3. TypeOK'
  BY <1>1, <1>2 DEF TypeOK, regVars, denyVars, cacheVars
<1>4. /\ \A q : region_collect_subtree_mods(q)' = region_collect_subtree_mods(q)
      /\ AncestorsClosed'
  BY <1>1, TreeUnchanged
<1>5. SubtreeCacheExact'
  BY <1>1, <1>4 DEF SubtreeCacheExact, regVars, cacheVars
<1>6. VectorExact'
  BY <1>1, <1>4 DEF VectorExact, ListenersAmong, regVars, cacheVars
<1>7. VectorNotAhead' /\ VectorHonoursOwnDeny' /\ DenyFlagged' /\ UnusedBlank'
  BY <1>1 DEF VectorNotAhead, VectorHonoursOwnDeny, DenyFlagged, UnusedBlank,
     regVars, cacheVars, denyVars
<1> QED BY <1>2, <1>3, <1>4, <1>5, <1>6, <1>7

\* A deny bumps the generation of the denying region and its ancestors, so no
\* vector of theirs counts as current; other regions' denies are unchanged.
LEMMA DenyStep ==
  ASSUME TablesConsistent, NEW r \in live, DenyIn(r),
         denied_hooks' \in [Regions -> SUBSET Hooks],
         denied_mods' \in [Regions -> SUBSET Paths],
         \A q \in Regions \ {r} : denied_mods'[q] = denied_mods[q]
  PROVE  TablesConsistent'
<1> USE DEF TablesConsistent
<1>1. /\ UNCHANGED regVars /\ UNCHANGED symVars /\ UNCHANGED cacheVars
      /\ UNCHANGED <<mods, used, mod_hd, hook_ids, dirty>>
      /\ has_deny' = [q \in Regions |-> has_deny[q] \/ q \in anc[r]]
      /\ gen' = [q \in Regions |-> IF q \in anc[r] THEN gen[q] + 1 ELSE gen[q]]
  BY DEF DenyIn, region_dispatch_gen_bump
<1>2. TypeOK'
  <2>1. has_deny' \in [Regions -> BOOLEAN] /\ gen' \in [Regions -> Nat \ {0}]
    BY <1>1 DEF TypeOK
  <2> QED BY <1>1, <2>1 DEF TypeOK, regVars, symVars, cacheVars
<1>3. /\ \A q : region_collect_subtree_mods(q)' = region_collect_subtree_mods(q)
      /\ AncestorsClosed'
  BY <1>1, TreeUnchanged
<1>4. \A q \in live, h \in Hooks : hook_dispatch[q][h].region_gen = gen'[q] =>
        q # r /\ gen'[q] = gen[q]
  <2> SUFFICES ASSUME NEW q \in live, NEW h \in Hooks,
                      hook_dispatch[q][h].region_gen = gen'[q]
               PROVE  q # r /\ gen'[q] = gen[q]
    OBVIOUS
  <2>1. hook_dispatch[q][h].region_gen <= gen[q] /\ gen[q] \in Nat
    BY DEF VectorNotAhead, TypeOK
  <2>2. q \notin anc[r]
    BY <1>1, <2>1 DEF TypeOK
  <2> QED BY <1>1, <2>2 DEF AncestorsClosed, TypeOK
<1>5. SubtreeCacheExact' /\ SymbolCacheHonest'
  BY <1>1, <1>3 DEF SubtreeCacheExact, SymbolCacheHonest, regVars, cacheVars, symVars
<1>6. VectorExact'
  BY <1>1, <1>3, <1>4 DEF VectorExact, ListenersAmong, regVars, cacheVars
<1>7. VectorNotAhead'
  BY <1>1 DEF VectorNotAhead, TypeOK, cacheVars
<1>8. VectorHonoursOwnDeny'
  BY <1>1, <1>4, SMTT(30) DEF VectorHonoursOwnDeny, regVars, cacheVars, TypeOK
<1>9. DenyFlagged'
  BY <1>1 DEF DenyFlagged, AncestorsClosed, regVars, TypeOK
<1>10. UnusedBlank'
  BY <1>1 DEF UnusedBlank, regVars, cacheVars, TypeOK
<1> QED BY <1>2, <1>3, <1>5, <1>6, <1>7, <1>8, <1>9, <1>10

\* A refused xy_call leaves the tables alone.
LEMMA CallRefusedStep ==
  ASSUME TablesConsistent, NEW r \in live, NEW h \in Hooks, CallRefused(r, h)
  PROVE  TablesConsistent'
<1> USE DEF TablesConsistent
<1>1. /\ UNCHANGED regVars /\ UNCHANGED symVars /\ UNCHANGED cacheVars /\ UNCHANGED denyVars
      /\ UNCHANGED <<mods, used, mod_hd, hook_ids, dirty, gen>>
  BY DEF CallRefused
<1>2. TypeOK'
  BY <1>1 DEF TypeOK, regVars, symVars, cacheVars, denyVars
<1>3. /\ \A q : region_collect_subtree_mods(q)' = region_collect_subtree_mods(q)
      /\ AncestorsClosed'
  BY <1>1, TreeUnchanged
<1>4. SubtreeCacheExact' /\ SymbolCacheHonest'
  BY <1>1, <1>3 DEF SubtreeCacheExact, SymbolCacheHonest, regVars, cacheVars, symVars
<1>5. VectorExact'
  BY <1>1, <1>3 DEF VectorExact, ListenersAmong, regVars, cacheVars
<1>6. VectorNotAhead' /\ VectorHonoursOwnDeny' /\ DenyFlagged' /\ UnusedBlank'
  BY <1>1 DEF VectorNotAhead, VectorHonoursOwnDeny, DenyFlagged, UnusedBlank,
     regVars, cacheVars, denyVars
<1> QED BY <1>2, <1>3, <1>4, <1>5, <1>6

\* A call that gets through. The module vector it uses is the walk itself;
\* a vector built from it keeps exactly the listeners, because the symbol
\* caches answer truthfully for every module it looks at.
LEMMA CallDispatchedStep ==
  ASSUME TablesConsistent, NEW r \in live, NEW h \in Hooks, CallDispatched(r, h)
  PROVE  TablesConsistent'
<1> USE DEF TablesConsistent
<1> DEFINE all == region_collect_subtree_mods(r)
           vec == IF dirty[r] THEN all ELSE subtree_mods[r]
           built == hook_dispatch[r][h].region_gen # gen[r]
<1>0. r \in Regions
  BY DEF TypeOK
<1>1. vec = all
  BY DEF SubtreeCacheExact
<1>2. /\ UNCHANGED regVars /\ UNCHANGED denyVars
      /\ UNCHANGED <<mods, used, mod_hd, hook_ids, gen>>
      /\ subtree_mods' = [subtree_mods EXCEPT ![r] = vec]
      /\ dirty' = [dirty EXCEPT ![r] = FALSE]
      /\ built => region_rebuild_hook_dispatch(r, h, vec)
      /\ ~built => UNCHANGED <<hook_dispatch, fn_cache, hook_impl>>
  BY DEF CallDispatched
<1> HIDE DEF vec
<1>3. /\ fn_cache' \in [Entries -> [Hooks -> Slot]]
      /\ hook_impl' \in [Entries -> SUBSET Hooks]
      /\ SymbolCacheHonest'
  <2>1. CASE built
    <3>1. Resolve({e \in Considered(r, vec) : h \notin hook_impl[e]}, {h})
      BY <1>2, <2>1 DEF region_rebuild_hook_dispatch
    <3> QED BY <3>1, ResolveHonest
  <2>2. CASE ~built
    BY <1>2, <2>2 DEF SymbolCacheHonest, TypeOK
  <2> QED BY <2>1, <2>2
<1> DEFINE keep == {e \in Considered(r, vec) : h \in hook_impl'[e]}
           fresh == [region_gen |-> gen[r], mes |-> Only(vec, keep),
                     callable |-> Only(vec, {e \in keep : fn_cache'[e][h] = "cb"}),
                     blocked |-> Blocked(r)]
<1>4. built => hook_dispatch' = [hook_dispatch EXCEPT ![r][h] = fresh]
  BY <1>2 DEF region_rebuild_hook_dispatch
<1>5. built => keep = ListenersAmong(all, h, Blocked(r))
  <2> SUFFICES ASSUME built, NEW e \in Considered(r, vec)
               PROVE  h \in hook_impl'[e] <=> h \in Exports[PathOf[e]]
    BY <1>1 DEF Considered, ListenersAmong
  <2>1. e \in Entries
    BY DEF Considered
  <2>2. Resolve({x \in Considered(r, vec) : h \notin hook_impl[x]}, {h})
    BY <1>2 DEF region_rebuild_hook_dispatch
  <2>3. h \in hook_impl'[e] => h \in Exports[PathOf[e]]
    BY <1>3, <2>1 DEF SymbolCacheHonest
  <2>4. ASSUME h \in Exports[PathOf[e]], h \notin hook_impl[e]
        PROVE  h \in hook_impl'[e]
    <3>1. fn_cache[e][h] \in Slot /\ fn_cache[e][h] # "missing" /\ fn_cache[e][h] # "cb"
      BY <2>1, <2>4 DEF SymbolCacheHonest, TypeOK
    <3>2. fn_cache[e][h] = "unresolved" /\ dlsym(e, h) = "cb"
      BY <3>1, <2>4 DEF Slot, dlsym
    <3> QED BY <3>2, <2>1, <2>2, <2>4 DEF Resolve
  <2>5. h \in hook_impl[e] => h \in hook_impl'[e]
    BY <2>1, <2>2 DEF Resolve
  <2> QED BY <2>3, <2>4, <2>5
<1> HIDE DEF keep, built
<1>6. /\ \A q : region_collect_subtree_mods(q)' = region_collect_subtree_mods(q)
      /\ AncestorsClosed'
  BY <1>2, TreeUnchanged
<1>7. \A q \in Regions, k \in Hooks :
        \/ hook_dispatch'[q][k] = hook_dispatch[q][k] /\ (q = r /\ k = h => ~built)
        \/ built /\ q = r /\ k = h /\ hook_dispatch'[q][k] = fresh
  BY <1>0, <1>2, <1>4 DEF TypeOK
<1>7a. fresh.region_gen = gen[r] /\ fresh.mes = Only(vec, keep) /\ fresh.blocked = Blocked(r)
  OBVIOUS
<1> HIDE DEF fresh
<1>8. TypeOK'
  <2>1. dirty' \in [Regions -> BOOLEAN] /\ DOMAIN subtree_mods' = Regions
    BY <1>2 DEF TypeOK
  <2>2. /\ DOMAIN hook_dispatch' = Regions
        /\ \A q \in Regions : DOMAIN hook_dispatch'[q] = Hooks
    BY <1>0, <1>2, <1>4, SMTT(30) DEF TypeOK
  <2>3. \A q \in Regions, k \in Hooks : hook_dispatch'[q][k].region_gen \in Nat
    BY <1>0, <1>7, <1>7a DEF TypeOK
  <2> QED BY <1>2, <1>3, <2>1, <2>2, <2>3 DEF TypeOK, regVars, denyVars
<1>9. SubtreeCacheExact'
  BY <1>0, <1>1, <1>2, <1>6 DEF SubtreeCacheExact, regVars, TypeOK
<1>10. VectorNotAhead'
  BY <1>0, <1>2, <1>7, <1>7a DEF VectorNotAhead, TypeOK
<1>11. VectorExact'
  <2> SUFFICES ASSUME NEW q \in live, NEW k \in Hooks,
                      hook_dispatch'[q][k].region_gen = gen[q]
               PROVE  /\ ~dirty'[q]
                      /\ hook_dispatch'[q][k].mes =
                           Only(region_collect_subtree_mods(q),
                                ListenersAmong(region_collect_subtree_mods(q), k,
                                               hook_dispatch'[q][k].blocked))
    BY <1>2, <1>6 DEF VectorExact, ListenersAmong, regVars
  <2>0. q \in Regions
    BY DEF TypeOK
  <2>1. CASE hook_dispatch'[q][k] = hook_dispatch[q][k]
    BY <1>0, <1>2, <2>0, <2>1 DEF VectorExact, TypeOK
  <2>2. CASE built /\ q = r /\ k = h /\ hook_dispatch'[q][k] = fresh
    <3>1. ~dirty'[q]
      BY <1>0, <1>2, <2>2 DEF TypeOK
    <3> QED BY <1>1, <1>5, <1>7a, <2>2, <3>1
  <2> QED BY <1>7, <2>0, <2>1, <2>2
<1>12. VectorHonoursOwnDeny'
  <2>1. denied_mods[r] \subseteq Blocked(r)
    BY DEF Blocked, Chain, DenyFlagged, AncestorsClosed
  <2>2. ASSUME NEW q \in live, NEW k \in Hooks, hook_dispatch'[q][k].region_gen = gen[q]
        PROVE  denied_mods[q] \subseteq hook_dispatch'[q][k].blocked
    <3>0. q \in Regions
      BY DEF TypeOK
    <3>1. CASE hook_dispatch'[q][k] = hook_dispatch[q][k]
      BY <2>2, <3>1 DEF VectorHonoursOwnDeny
    <3>2. CASE q = r /\ hook_dispatch'[q][k] = fresh
      BY <1>7a, <2>1, <3>2
    <3> QED BY <1>7, <3>0, <3>1, <3>2
  <2> QED BY <1>2, <2>2 DEF VectorHonoursOwnDeny, regVars, denyVars
<1>13. DenyFlagged'
  BY <1>2 DEF DenyFlagged, regVars, denyVars
<1>14. UnusedBlank'
  <2> SUFFICES ASSUME NEW q \in Regions \ live
               PROVE  /\ mods[q] = <<>> /\ children[q] = <<>> /\ subtree_mods'[q] = <<>>
                      /\ ~dirty'[q] /\ denied_mods[q] = {}
                      /\ \A k \in Hooks : hook_dispatch'[q][k] = NoVector
    BY <1>2 DEF UnusedBlank, regVars, denyVars
  <2>1. q # r
    OBVIOUS
  <2> QED BY <1>2, <1>7, <2>1 DEF UnusedBlank, TypeOK
<1> QED BY <1>3, <1>6, <1>8, <1>9, <1>10, <1>11, <1>12, <1>13, <1>14

\* Tables as bootstrap creates them are consistent.
LEMMA InitTables == Init => TablesConsistent
<1> SUFFICES ASSUME Init PROVE TablesConsistent
  OBVIOUS
<1> USE TableAssumption DEF Init
<1>1. TypeOK
  BY DEF TypeOK, NoVector, Slot
<1>2. AncestorsClosed
  BY DEF AncestorsClosed
<1>3. UnusedBlank /\ SymbolCacheHonest /\ DenyFlagged
  BY DEF UnusedBlank, SymbolCacheHonest, DenyFlagged
<1>4. SubtreeCacheExact
  <2>1. Subtree(Root) = {Root}
    BY DEF Subtree
  <2>2. /\ [x \in Subtree(Root) |-> mods[x]] = [x \in {Root} |-> <<>>]
        /\ [x \in Subtree(Root) |-> children[x]] = [x \in {Root} |-> <<>>]
    BY <2>1
  <2>3. region_collect_subtree_mods(Root) = <<>>
    BY <2>2, CollectLeaf DEF region_collect_subtree_mods
  <2> QED BY <2>3 DEF SubtreeCacheExact
<1>5. VectorExact /\ VectorNotAhead /\ VectorHonoursOwnDeny
  BY DEF VectorExact, VectorNotAhead, VectorHonoursOwnDeny, NoVector
<1> QED BY <1>1, <1>2, <1>3, <1>4, <1>5 DEF TablesConsistent

\* xy_shutdown and the next bootstrap restore the initial tables; only entries
\* already used and hook ids survive.
LEMMA ShutdownStep ==
  ASSUME TablesConsistent, Shutdown
  PROVE  TablesConsistent'
<1> USE TableAssumption DEF Shutdown
<1>1. TypeOK'
  BY DEF TypeOK, TablesConsistent, NoVector, Slot
<1>2. AncestorsClosed'
  BY DEF AncestorsClosed
<1>3. UnusedBlank' /\ SymbolCacheHonest' /\ DenyFlagged'
  BY DEF UnusedBlank, SymbolCacheHonest, DenyFlagged
<1>4. SubtreeCacheExact'
  <2>1. Subtree(Root)' = {Root}
    BY DEF Subtree
  <2>2. /\ [x \in Subtree(Root)' |-> mods'[x]] = [x \in {Root} |-> <<>>]
        /\ [x \in Subtree(Root)' |-> children'[x]] = [x \in {Root} |-> <<>>]
    BY <2>1
  <2>3. region_collect_subtree_mods(Root)' = <<>>
    BY <2>2, CollectLeaf DEF region_collect_subtree_mods
  <2> QED BY <2>3 DEF SubtreeCacheExact
<1>5. VectorExact' /\ VectorNotAhead' /\ VectorHonoursOwnDeny'
  BY DEF VectorExact, VectorNotAhead, VectorHonoursOwnDeny, NoVector
<1> QED BY <1>1, <1>2, <1>3, <1>4, <1>5 DEF TablesConsistent

\* Every step keeps the tables consistent.
LEMMA NextTables == TablesConsistent /\ [Next]_vars => TablesConsistent'
<1> SUFFICES ASSUME TablesConsistent, [Next]_vars PROVE TablesConsistent'
  OBVIOUS
<1>1. CASE \E p \in live, c \in Regions \ live : Claim(p, c)
  BY <1>1, ClaimStep
<1>2. CASE \E e \in Entries \ used, r \in live : Add(e, r)
  BY <1>2, AddStep
<1>3. CASE \E r \in live : AddAborted(r)
  BY <1>3, AddAbortedStep
<1>4. CASE \E r \in live : \E e \in ToSet(mods[r]) : Drop(e, r)
  BY <1>4, DropStep
<1>5. CASE \E r \in live : \E e \in ToSet(mods[r]), i \in DOMAIN mods[r] : Move(e, r, i)
  BY <1>5, MoveStep
<1>6. CASE \E h \in Hooks : xy_areg(h)
  BY <1>6, AregStep
<1>7. ASSUME NEW r \in live, NEW h \in Hooks, DenyHook(r, h)
      PROVE  TablesConsistent'
  <2>1. /\ denied_hooks' \in [Regions -> SUBSET Hooks]
        /\ denied_mods' = denied_mods /\ denied_mods \in [Regions -> SUBSET Paths]
    BY <1>7 DEF DenyHook, TablesConsistent, TypeOK
  <2> QED BY <1>7, <2>1, DenyStep DEF DenyHook
<1>8. ASSUME NEW r \in live, NEW p \in Paths, DenyModule(r, p)
      PROVE  TablesConsistent'
  <2>1. /\ denied_hooks' \in [Regions -> SUBSET Hooks]
        /\ denied_mods' \in [Regions -> SUBSET Paths]
        /\ \A q \in Regions \ {r} : denied_mods'[q] = denied_mods[q]
    BY <1>8 DEF DenyModule, TablesConsistent, TypeOK
  <2> QED BY <1>8, <2>1, DenyStep DEF DenyModule
<1>9. CASE \E r \in live, h \in Hooks : CallRefused(r, h)
  BY <1>9, CallRefusedStep
<1>10. CASE \E r \in live, h \in Hooks : CallDispatched(r, h)
  BY <1>10, CallDispatchedStep
<1>11. CASE Shutdown
  BY <1>11, ShutdownStep
<1>12. CASE UNCHANGED vars
  <2>1. /\ UNCHANGED regVars /\ UNCHANGED symVars /\ UNCHANGED cacheVars /\ UNCHANGED denyVars
        /\ UNCHANGED <<mods, used, mod_hd, hook_ids, dirty, gen>>
    BY <1>12 DEF vars, regVars, symVars, cacheVars, denyVars
  <2>2. /\ \A q : region_collect_subtree_mods(q)' = region_collect_subtree_mods(q)
        /\ AncestorsClosed'
    BY <2>1, TreeUnchanged DEF TablesConsistent
  <2>3. TypeOK' /\ SymbolCacheHonest' /\ UnusedBlank' /\ DenyFlagged'
    BY <2>1 DEF TablesConsistent, TypeOK, SymbolCacheHonest, UnusedBlank, DenyFlagged,
       regVars, symVars, cacheVars, denyVars
  <2>4. SubtreeCacheExact' /\ VectorExact' /\ VectorNotAhead' /\ VectorHonoursOwnDeny'
    BY <2>1, <2>2 DEF TablesConsistent, SubtreeCacheExact, VectorExact, VectorNotAhead,
       VectorHonoursOwnDeny, ListenersAmong, regVars, cacheVars, denyVars
  <2> QED BY <2>2, <2>3, <2>4 DEF TablesConsistent
<1> QED BY <1>1, <1>2, <1>3, <1>4, <1>5, <1>6, <1>7, <1>8, <1>9, <1>10, <1>11, <1>12 DEF Next

\* The tables are consistent in every reachable state.
THEOREM ConsistentAlways == Spec => []TablesConsistent
<1>1. Init => TablesConsistent
  BY InitTables
<1>2. TablesConsistent /\ [Next]_vars => TablesConsistent'
  BY NextTables
<1> QED BY <1>1, <1>2, PTL DEF Spec

\* The types of the tables.
THEOREM TypeCorrect == Spec => []TypeOK
<1>1. TablesConsistent => TypeOK
  BY DEF TablesConsistent
<1> QED BY <1>1, ConsistentAlways, PTL

\* A module vector not marked dirty equals a fresh depth-first walk: the
\* shortcut at the top of xy_call never misses a claim, load or unload.
THEOREM SubtreeCacheCorrect == Spec => []SubtreeCacheExact
<1>1. TablesConsistent => SubtreeCacheExact
  BY DEF TablesConsistent
<1> QED BY <1>1, ConsistentAlways, PTL

\* A listener vector of the current generation is exact: the one comparison
\* xy_call makes before it runs a cached vector is enough.
THEOREM VectorCacheCorrect == Spec => []VectorExact
<1>1. TablesConsistent => VectorExact
  BY DEF TablesConsistent
<1> QED BY <1>1, ConsistentAlways, PTL

\* A current vector leaves out the modules its own region denies.
THEOREM OwnModuleDenyHonoured == Spec => []VectorHonoursOwnDeny
<1>1. TablesConsistent => VectorHonoursOwnDeny
  BY DEF TablesConsistent
<1> QED BY <1>1, ConsistentAlways, PTL
=============================================================================
