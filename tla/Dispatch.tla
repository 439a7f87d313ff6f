------------------------------ MODULE Dispatch ------------------------------
(***************************************************************************)
(* The dispatch tables of libxylem. Every region caches, for its subtree,  *)
(* the modules in depth-first order (subtree_mods, guarded by a dirty      *)
(* flag) and, per hook, the vector of listeners (hook_dispatch, guarded by *)
(* a generation number). Every module entry caches the symbols it looked   *)
(* up (fn_cache, hook_impl_bits). The actions are the operations the       *)
(* loader performs on the tables (in the order Lifecycle composes them),   *)
(* xy_areg, xy_deny, xy_shutdown and xy_call up to the callbacks.          *)
(***************************************************************************)
EXTENDS Integers, Subtrees

CONSTANTS
  Regions,      \* region entries that can be allocated
  Root,         \* the root region
  Paths,        \* module paths
  Entries,      \* module entries; each stands for one load of one path
  PathOf,       \* PathOf[e]: path of the library that e loaded
  ImageOf,      \* ImageOf[e]: mapped image e's handle refers to
  Hooks,        \* hook names (xy_areg gives each name one id, for good)
  Exports,      \* Exports[p]: the hooks library p exports
  HasCtx,       \* the libraries that hand their xy context to the loader
  SharedImages, \* whether one image may be loaded into several regions
  MaxGen,       \* bound: dispatch generations
  NULL

ASSUME TableAssumption ==
  /\ Root \in Regions /\ NULL \notin Regions /\ IsFiniteSet(Regions)
  /\ PathOf \in [Entries -> Paths]
  /\ Exports \in [Paths -> SUBSET Hooks]
  /\ HasCtx \subseteq Paths
  /\ SharedImages \in BOOLEAN

VARIABLES
  live,          \* allocated region entries
  parent,        \* parent[r], NULL for the root
  anc,           \* anc[r]: r and its ancestors, what the parent pointers reach
  children,      \* children[r] in list order, newest first
  mods,          \* mods[r]: the region's module list, head first
  used,          \* entries allocated so far
  mod_hd,        \* entries the module map holds
  hook_ids,      \* hooks that have an id
  fn_cache,      \* fn_cache[e][h]: "unresolved" (NULL), "missing" or "cb"
  hook_impl,     \* hook_impl[e]: the hooks whose implementation bit is set
  gen,           \* dispatch_gen
  dirty,         \* subtree_mods_dirty
  subtree_mods,  \* cached depth-first module vector
  hook_dispatch, \* hook_dispatch[r][h]: cached listener vector
  denied_hooks,  \* hook names denied in r
  denied_mods,   \* module paths denied in r
  has_deny,      \* XY_SUBTREE_HAS_DENY
  last           \* the last call, or NoCall

regVars == <<live, parent, anc, children>>
symVars == <<fn_cache, hook_impl>>
denyVars == <<denied_hooks, denied_mods, has_deny>>
cacheVars == <<subtree_mods, hook_dispatch>>
vars == <<live, parent, anc, children, mods, used, mod_hd, hook_ids, fn_cache, hook_impl,
          gen, dirty, subtree_mods, hook_dispatch, denied_hooks, denied_mods,
          has_deny, last>>

NoCall == [op |-> "none"]

\* A cached listener vector: the generation it was built at, the entries of
\* its slots, those whose slot holds a callback, and (history) the paths that
\* were denied when it was built.
NoVector == [region_gen |-> 0, mes |-> <<>>, callable |-> <<>>, blocked |-> {}]

-----------------------------------------------------------------------------
(* The tree and what a rebuild reads from it. *)

Subtree(r) == {x \in live : r \in anc[x]}

\* Depth-first walk over the module and child lists of r's subtree.
region_collect_subtree_mods(r) ==
  CollectOf([x \in Subtree(r) |-> mods[x]], [x \in Subtree(r) |-> children[x]], r)

-----------------------------------------------------------------------------
(* Symbol lookup. *)

dlsym(e, h) == IF h \in Exports[PathOf[e]] THEN "cb" ELSE "missing"

\* What fn_cache holds for h after a resolve that trusts a resolved slot.
Resolved(e, h) == IF fn_cache[e][h] = "unresolved" THEN dlsym(e, h) ELSE fn_cache[e][h]

\* Entries in E look up the hooks in H: empty slots are filled and the
\* implementation bit of a symbol that was found is set (fn_cache_resolve,
\* fn_cache_prewarm).
Resolve(E, H) ==
  /\ fn_cache' = [e \in Entries |-> [h \in Hooks |->
       IF e \in E /\ h \in H THEN Resolved(e, h) ELSE fn_cache[e][h]]]
  /\ hook_impl' = [e \in Entries |-> hook_impl[e] \cup
       {h \in Hooks : e \in E /\ h \in H /\ fn_cache[e][h] = "unresolved"
                        /\ dlsym(e, h) = "cb"}]

-----------------------------------------------------------------------------
(* Invalidation. *)

\* Mutated forms of region_dispatch_gen_bump: the ancestors are left out; the
\* counter wraps to zero, the generation of a vector that was never built.
BumpOnly(r) ==
  /\ gen[Root] < MaxGen
  /\ gen' = [gen EXCEPT ![r] = @ + 1]
BumpWraps(r) ==
  gen' = [q \in Regions |-> IF q \in anc[r] THEN (gen[q] + 1) % MaxGen ELSE gen[q]]

region_dispatch_gen_bump(r) ==
  /\ gen[Root] < MaxGen
  /\ gen' = [q \in Regions |-> IF q \in anc[r] THEN gen[q] + 1 ELSE gen[q]]

\* Mutated form of region_mark_subtree_dirty: the ancestors' vectors stay.
MarkOnly(r) ==
  /\ region_dispatch_gen_bump(r)
  /\ dirty' = [dirty EXCEPT ![r] = TRUE]

region_mark_subtree_dirty(r) ==
  /\ region_dispatch_gen_bump(r)
  /\ dirty' = [q \in Regions |-> dirty[q] \/ q \in anc[r]]

-----------------------------------------------------------------------------
(* Operations of the loader on the tables. *)

\* A claim adds region c under p, at the head of p's child list.
Claim(p, c) ==
  /\ live' = live \cup {c}
  /\ parent' = [parent EXCEPT ![c] = p]
  /\ anc' = [anc EXCEPT ![c] = anc[p] \cup {c}]
  /\ children' = [children EXCEPT ![p] = <<c>> \o @]
  /\ region_mark_subtree_dirty(p)
  /\ last' = NoCall
  /\ UNCHANGED <<mods, used, mod_hd, hook_ids, symVars, denyVars, cacheVars>>

\* A load of a path that r does not hold yet puts entry e at the tail of r's
\* list and resolves the known hooks.
Add(e, r) ==
  /\ \A x \in ToSet(mods[r]) : PathOf[x] # PathOf[e]
  /\ SharedImages \/ \A x \in mod_hd : ImageOf[x] # ImageOf[e]
  /\ used' = used \cup {e} /\ mod_hd' = mod_hd \cup {e}
  /\ mods' = [mods EXCEPT ![r] = Append(@, e)]
  /\ region_mark_subtree_dirty(r)
  /\ Resolve({e}, hook_ids)
  /\ last' = NoCall
  /\ UNCHANGED <<regVars, hook_ids, denyVars, cacheVars>>

\* A load that fails for want of xy_install: appended, then taken off again.
\* Nothing looks at the tables in between, so the two bumps count as one.
AddAborted(r) ==
  /\ region_mark_subtree_dirty(r)
  /\ last' = NoCall
  /\ UNCHANGED <<regVars, mods, used, mod_hd, hook_ids, symVars, denyVars, cacheVars>>

\* Mutated form of Drop: the map is cleaned up, the region's list is not.
DropFromMapOnly(e, r) ==
  /\ mod_hd' = mod_hd \ {e}
  /\ region_mark_subtree_dirty(r)
  /\ last' = NoCall
  /\ UNCHANGED <<regVars, mods, used, hook_ids, symVars, denyVars, cacheVars>>

\* An unload: other entries of the same image forget the callbacks they
\* resolved, denies of the path in the entry's own region go, the entry leaves
\* the list.
Drop(e, r) ==
  /\ fn_cache' = [x \in Entries |->
       IF x # e /\ x \in mod_hd /\ ImageOf[x] = ImageOf[e]
       THEN [h \in Hooks |-> IF fn_cache[x][h] = "cb" THEN "unresolved" ELSE fn_cache[x][h]]
       ELSE fn_cache[x]]
  /\ denied_mods' = [denied_mods EXCEPT ![r] = @ \ {PathOf[e]}]
  /\ mods' = [mods EXCEPT ![r] = Unlinked(@, e)]
  /\ mod_hd' = mod_hd \ {e}
  /\ region_mark_subtree_dirty(r)
  /\ last' = NoCall
  /\ UNCHANGED <<regVars, used, hook_ids, hook_impl, denied_hooks, has_deny, cacheVars>>

\* The end of a reload: entry e moves to position i of its region's list. Again
\* the bumps of detaching and inserting count as one.
Move(e, r, i) ==
  /\ mods' = [mods EXCEPT ![r] = InsertAt(Unlinked(@, e), i, e)]
  /\ region_mark_subtree_dirty(r)
  /\ last' = NoCall
  /\ UNCHANGED <<regVars, used, mod_hd, hook_ids, symVars, denyVars, cacheVars>>

-----------------------------------------------------------------------------
(* xy_areg and xy_deny. *)

\* A new hook gets its id and is looked up in every loaded module. No
\* generation changes: nothing can be cached for an id that did not exist.
xy_areg(h) ==
  /\ h \notin hook_ids
  /\ hook_ids' = hook_ids \cup {h}
  /\ Resolve(mod_hd, hook_ids')
  /\ last' = NoCall
  /\ UNCHANGED <<regVars, mods, used, mod_hd, gen, dirty, denyVars, cacheVars>>

\* Mutated form of DenyIn: only the proper ancestors get the flag.
DenyInFlaggingAbove(r) ==
  /\ has_deny' = [q \in Regions |-> has_deny[q] \/ q \in anc[r] \ {r}]
  /\ region_dispatch_gen_bump(r)
  /\ last' = NoCall
  /\ UNCHANGED <<regVars, mods, used, mod_hd, hook_ids, symVars, dirty, cacheVars>>

\* What both kinds of deny do once the list of region r has the new element.
DenyIn(r) ==
  /\ has_deny' = [q \in Regions |-> has_deny[q] \/ q \in anc[r]]
  /\ region_dispatch_gen_bump(r)
  /\ last' = NoCall
  /\ UNCHANGED <<regVars, mods, used, mod_hd, hook_ids, symVars, dirty, cacheVars>>

DenyHook(r, h) ==
  /\ denied_hooks' = [denied_hooks EXCEPT ![r] = @ \cup {h}]
  /\ DenyIn(r)
  /\ UNCHANGED denied_mods

DenyModule(r, p) ==
  /\ denied_mods' = [denied_mods EXCEPT ![r] = @ \cup {p}]
  /\ DenyIn(r)
  /\ UNCHANGED denied_hooks

-----------------------------------------------------------------------------
(* xy_call from region r. *)

\* Mutated form of Chain: the walk starts at the parent.
ChainAboveRegion(r) == IF has_deny[r] THEN anc[r] \ {r} ELSE {}

\* The ancestor chain is only built when the caller's region carries the flag.
Chain(r) == IF has_deny[r] THEN anc[r] ELSE {}

HookDenied(r, h) == \E a \in Chain(r) : h \in denied_hooks[a]

Blocked(r) == UNION {denied_mods[a] : a \in Chain(r)}

Outcome(r, h, err, ran) ==
  last' = [op |-> "call", at |-> r, hook |-> h, err |-> err, ran |-> ran]

\* A call that stops before any table is touched: a hook without an id, an
\* adapter whose return type is too large, a denied hook.
CallRefused(r, h) ==
  /\ \/ h \notin hook_ids /\ Outcome(r, h, "NOTFOUND", <<>>)
     \/ h \in hook_ids /\ Outcome(r, h, "TOOBIG", <<>>)
     \/ h \in hook_ids /\ HookDenied(r, h) /\ Outcome(r, h, "EPERM", <<>>)
  /\ UNCHANGED <<regVars, mods, used, mod_hd, hook_ids, symVars, gen, dirty, denyVars, cacheVars>>

\* Mutated form of Considered: denied modules are not left out.
ConsideredUndenied(r, vec) == {e \in Entries : e \in ToSet(vec) /\ PathOf[e] \in HasCtx}

\* Entries of the given vector that a rebuild for hook h looks at.
Considered(r, vec) ==
  {e \in Entries : e \in ToSet(vec) /\ PathOf[e] \in HasCtx /\ PathOf[e] \notin Blocked(r)}

\* The listener vector of r for h, filtered out of the module vector vec;
\* an entry without the bit is looked up now.
region_rebuild_hook_dispatch(r, h, vec) ==
  LET ask == {e \in Considered(r, vec) : h \notin hook_impl[e]}
  IN  /\ Resolve(ask, {h})
      /\ LET keep == {e \in Considered(r, vec) : h \in hook_impl'[e]}
         IN  hook_dispatch' = [hook_dispatch EXCEPT ![r][h] =
               [region_gen |-> gen[r],
                mes |-> Only(vec, keep),
                callable |-> Only(vec, {e \in keep : fn_cache'[e][h] = "cb"}),
                blocked |-> Blocked(r)]]

\* A call that gets through: caches are brought up to date, then the slots
\* that hold a callback run in order.
CallDispatched(r, h) ==
  /\ h \in hook_ids /\ ~HookDenied(r, h)
  /\ LET vec == IF dirty[r] THEN region_collect_subtree_mods(r) ELSE subtree_mods[r]
     IN  /\ subtree_mods' = [subtree_mods EXCEPT ![r] = vec]
         /\ dirty' = [dirty EXCEPT ![r] = FALSE]
         /\ IF hook_dispatch[r][h].region_gen # gen[r]
            THEN region_rebuild_hook_dispatch(r, h, vec)
            ELSE UNCHANGED <<hook_dispatch, fn_cache, hook_impl>>
  /\ LET ran == hook_dispatch'[r][h].callable
     IN  Outcome(r, h, IF ran = <<>> THEN "NOTFOUND" ELSE "OK", ran)
  /\ UNCHANGED <<regVars, mods, used, mod_hd, hook_ids, gen, denyVars>>

-----------------------------------------------------------------------------

\* The tables as bootstrap leaves them.
Init ==
  /\ live = {Root}
  /\ parent = [r \in Regions |-> NULL]
  /\ anc = [r \in Regions |-> IF r = Root THEN {Root} ELSE {}]
  /\ children = [r \in Regions |-> <<>>]
  /\ mods = [r \in Regions |-> <<>>]
  /\ fn_cache = [e \in Entries |-> [h \in Hooks |-> "unresolved"]]
  /\ hook_impl = [e \in Entries |-> {}]
  /\ gen = [r \in Regions |-> 1]
  /\ dirty = [r \in Regions |-> FALSE]
  /\ subtree_mods = [r \in Regions |-> <<>>]
  /\ hook_dispatch = [r \in Regions |-> [h \in Hooks |-> NoVector]]
  /\ denied_hooks = [r \in Regions |-> {}]
  /\ denied_mods = [r \in Regions |-> {}]
  /\ has_deny = [r \in Regions |-> FALSE]
  /\ last = NoCall
  /\ used = {} /\ mod_hd = {} /\ hook_ids = {}

\* xy_shutdown and the next bootstrap: hook names and ids survive.
Shutdown ==
  /\ live' = {Root}
  /\ parent' = [r \in Regions |-> NULL]
  /\ anc' = [r \in Regions |-> IF r = Root THEN {Root} ELSE {}]
  /\ children' = [r \in Regions |-> <<>>]
  /\ mods' = [r \in Regions |-> <<>>]
  /\ fn_cache' = [e \in Entries |-> [h \in Hooks |-> "unresolved"]]
  /\ hook_impl' = [e \in Entries |-> {}]
  /\ gen' = [r \in Regions |-> 1]
  /\ dirty' = [r \in Regions |-> FALSE]
  /\ subtree_mods' = [r \in Regions |-> <<>>]
  /\ hook_dispatch' = [r \in Regions |-> [h \in Hooks |-> NoVector]]
  /\ denied_hooks' = [r \in Regions |-> {}]
  /\ denied_mods' = [r \in Regions |-> {}]
  /\ has_deny' = [r \in Regions |-> FALSE]
  /\ last' = NoCall
  /\ mod_hd' = {}
  /\ UNCHANGED <<used, hook_ids>>

Next ==
  \/ \E p \in live, c \in Regions \ live : Claim(p, c)
  \/ \E e \in Entries \ used, r \in live : Add(e, r)
  \/ \E r \in live : AddAborted(r)
  \/ \E r \in live : \E e \in ToSet(mods[r]) : Drop(e, r)
  \/ \E r \in live : \E e \in ToSet(mods[r]), i \in DOMAIN mods[r] : Move(e, r, i)
  \/ \E h \in Hooks : xy_areg(h)
  \/ \E r \in live, h \in Hooks : DenyHook(r, h)
  \/ \E r \in live, p \in Paths : DenyModule(r, p)
  \/ \E r \in live, h \in Hooks : CallRefused(r, h)
  \/ \E r \in live, h \in Hooks : CallDispatched(r, h)
  \/ Shutdown

Spec == Init /\ [][Next]_vars

\* The tables implement the bus: caching is invisible in what calls run.
HB == INSTANCE HookBus WITH policed <- has_deny
ImplementsHookBus == HB!Spec

-----------------------------------------------------------------------------
(* Properties. *)

Slot == {"unresolved", "missing", "cb"}

\* Type invariant of the tables.
TypeOK ==
  /\ live \subseteq Regions /\ Root \in live
  /\ parent \in [Regions -> Regions \cup {NULL}]
  /\ anc \in [Regions -> SUBSET Regions]
  /\ DOMAIN children = Regions /\ DOMAIN mods = Regions
  /\ used \subseteq Entries /\ mod_hd \subseteq used /\ hook_ids \subseteq Hooks
  /\ fn_cache \in [Entries -> [Hooks -> Slot]]
  /\ hook_impl \in [Entries -> SUBSET Hooks]
  /\ gen \in [Regions -> Nat \ {0}]
  /\ dirty \in [Regions -> BOOLEAN]
  /\ DOMAIN subtree_mods = Regions
  /\ DOMAIN hook_dispatch = Regions
  /\ \A r \in Regions : /\ DOMAIN hook_dispatch[r] = Hooks
                        /\ \A h \in Hooks : hook_dispatch[r][h].region_gen \in Nat
  /\ denied_hooks \in [Regions -> SUBSET Hooks]
  /\ denied_mods \in [Regions -> SUBSET Paths]
  /\ has_deny \in [Regions -> BOOLEAN]

\* What invalidation walks is the ancestor line: every live region reaches
\* itself, only live regions, and through its parent what the parent reaches.
AncestorsClosed ==
  \A r \in live :
    /\ r \in anc[r] /\ anc[r] \subseteq live
    /\ r # Root => parent[r] \in live /\ anc[r] = anc[parent[r]] \cup {r}

\* The module map and the region lists hold the same entries, and no entry is
\* on two lists or twice on one: loads, unloads, reloads and aborted loads
\* change both together.
MapMatchesLists ==
  /\ mod_hd = UNION {ToSet(mods[r]) : r \in live}
  /\ \A r, q \in live : \A i \in DOMAIN mods[r], j \in DOMAIN mods[q] :
       mods[r][i] = mods[q][j] => r = q /\ i = j

\* The symbol caches never lie: a negative answer and an implementation bit
\* agree with the library, and a cached callback has its bit.
SymbolCacheHonest ==
  \A e \in Entries, h \in Hooks :
    /\ fn_cache[e][h] = "missing" => h \notin Exports[PathOf[e]]
    /\ fn_cache[e][h] = "cb" => h \in hook_impl[e]
    /\ h \in hook_impl[e] => h \in Exports[PathOf[e]]

\* A module vector that is not marked dirty is what a fresh depth-first walk
\* would collect, whatever claims, loads, unloads and reloads happened below.
SubtreeCacheExact ==
  \A r \in live : ~dirty[r] => subtree_mods[r] = region_collect_subtree_mods(r)

\* The listeners of hook h among the given modules, minus the blocked paths.
ListenersAmong(vec, h, blocked) ==
  {e \in Entries : /\ e \in ToSet(vec) /\ PathOf[e] \in HasCtx
                   /\ PathOf[e] \notin blocked /\ h \in Exports[PathOf[e]]}

\* A listener vector whose generation is current is exact: it lists the
\* modules of the subtree that implement the hook and were not denied when it
\* was built, in depth-first order, and no entry that has been unloaded.
\* xy_call relies on this comparison alone.
VectorExact ==
  \A r \in live, h \in Hooks :
    LET v == hook_dispatch[r][h]
        all == region_collect_subtree_mods(r)
    IN  v.region_gen = gen[r] =>
          /\ ~dirty[r]
          /\ v.mes = Only(all, ListenersAmong(all, h, v.blocked))

\* A vector is never newer than its region.
VectorNotAhead ==
  \A r \in Regions, h \in Hooks : hook_dispatch[r][h].region_gen <= gen[r]

\* A current vector leaves out every module path denied in its own region.
VectorHonoursOwnDeny ==
  \A r \in live, h \in Hooks :
    hook_dispatch[r][h].region_gen = gen[r] => denied_mods[r] \subseteq hook_dispatch[r][h].blocked

\* A region that denies a module carries the flag xy_call looks at.
DenyFlagged ==
  \A r \in live : denied_mods[r] # {} => has_deny[r]

\* A region entry that is not allocated has the contents calloc gives it.
UnusedBlank ==
  \A r \in Regions \ live :
    /\ mods[r] = <<>> /\ children[r] = <<>> /\ subtree_mods[r] = <<>>
    /\ ~dirty[r] /\ denied_mods[r] = {}
    /\ \A h \in Hooks : hook_dispatch[r][h] = NoVector

\* The inductive invariant behind VectorExact: tables that no invalidation
\* can leave stale, because every mark and every bump reaches all ancestors,
\* vectors never run ahead of their region, and symbol caches are honest.
TablesConsistent ==
  /\ TypeOK /\ AncestorsClosed /\ UnusedBlank
  /\ SymbolCacheHonest
  /\ SubtreeCacheExact /\ VectorExact /\ VectorNotAhead
  /\ DenyFlagged /\ VectorHonoursOwnDeny

\* A denied hook or module never runs in a call made from the very region
\* that denied it, whatever happened to the tables since (README.md, xy_deny:
\* "The denial applies to the caller's own region as well"; xy.h says the
\* opposite, see OwnRegionNotDenied).
OwnDenyEnforced ==
  last.op = "call" =>
    /\ last.hook \in denied_hooks[last.at] => last.err # "OK"
    /\ \A i \in DOMAIN last.ran : PathOf[last.ran[i]] \notin denied_mods[last.at]

\* xy.h, xy_deny: "The deny applies to sub-regions only (children-only
\* semantics by default). A module's own region is never blocked by its own
\* deny." A call is refused only for a deny made above the caller's region.
OwnRegionNotDenied ==
  last.op = "call" /\ last.err = "EPERM" =>
    \E a \in anc[last.at] \ {last.at} : last.hook \in denied_hooks[a]

\* module_clear_fn_cache_for_handle, "force re-resolve": an unload elsewhere
\* only costs the other instances of the image a lookup. Every listener of a
\* call that got through runs.
EveryListenerRuns ==
  last.op = "call" /\ last.err \notin {"EPERM", "TOOBIG"} =>
    LET v == hook_dispatch[last.at][last.hook]
        all == region_collect_subtree_mods(last.at)
    IN  last.hook \in hook_ids =>
          last.ran = Only(all, ListenersAmong(all, last.hook, v.blocked))
=============================================================================
