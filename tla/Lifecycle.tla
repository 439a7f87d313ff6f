----------------------------- MODULE Lifecycle ------------------------------
(***************************************************************************)
(* Loading, unloading and reloading modules, and the code that runs while  *)
(* they do. One thread; foreign code (the host, an xy_install, a hook      *)
(* body, the function given to xy_with_region) calls the API, and what the *)
(* library does between two pieces of foreign code is one step. A piece of *)
(* foreign code that is running is a frame. Claim handlers and             *)
(* xy_region_cleanup callbacks are taken to make no API calls.             *)
(*                                                                         *)
(* Region ids, claims and the module map are the subject of RegionTree,    *)
(* denies and caches of Dispatch: here a region is a node of the tree, the *)
(* map is read off the region lists (KeysNameRegions and MapMatchesLists   *)
(* relate them), and a call writes the listeners into its region's slots   *)
(* whether the cached vector is stale or not (VectorExact: if it is not,   *)
(* it writes what is there).                                               *)
(***************************************************************************)
EXTENDS Integers, Subtrees

CONSTANTS
  Regions, Root,        \* region entries and the root
  Cells,                \* memory for module entries
  Paths,                \* resolved module paths
  Claimers,             \* libraries that export xy_claim
  Bare,                 \* libraries that hand over no xy context
  NoInstall,            \* libraries that export no xy_install
  MultiRegion,          \* whether a library is loaded into several regions
  LoadDuringCall,       \* whether modules are loaded while a hook runs
  UnloadFrom,           \* the foreign code ("body", "install") during which
                        \* modules are unloaded
  Recycle,              \* whether the allocator hands out an address that a
                        \* parent link still holds
  MaxFrames,            \* bound: nesting of foreign code
  MaxRefs,              \* bound: references to a module
  NULL, Dangling

ASSUME SetAssumption ==
  /\ Root \in Regions
  /\ Claimers \subseteq Paths /\ Bare \subseteq Paths /\ NoInstall \subseteq Paths
  /\ {NULL, Dangling} \cap (Regions \cup Cells) = {} /\ NULL # Dangling
  /\ IsFiniteSet(Cells) /\ Cells \cap Paths = {} /\ NULL \notin Paths
  /\ MaxFrames \in Nat /\ MaxRefs \in Nat \ {0}

VARIABLES
  live, anc, kids,  \* the region tree: anc[r] is r and its ancestors
  gate,             \* require_claim of a region
  ent,              \* module entries by memory cell, Free when not allocated
  mods,             \* the module list of a region
  slots,            \* hook_dispatch slots of a region, <<>> when no call reads them
  ctx,              \* the static xy context of an image
  cur,              \* current region: id and entry pointer
  loading,          \* xy_loading_mod
  reloading,        \* xy_reloading
  frames,           \* foreign code that is running, innermost last
  held,             \* history: loads by the host that it has not undone
  bad,              \* history: freed memory was read
  last              \* what the last call or reload did

regVars == <<live, anc, kids>>
heap == <<ent, mods, slots>>
vars == <<live, anc, kids, gate, ent, mods, slots, ctx, cur, loading, reloading,
          frames, held, bad, last>>

Free == [path |-> NULL]
Unbound == [region |-> Root, named |-> TRUE]
NoResult == [op |-> "none"]

Loaded == {c \in Cells : ent[c] # Free}
Listens(c) == ent[c].path \notin Bare

-----------------------------------------------------------------------------
(* Foreign code. *)

\* A frame: the module whose code runs; what the library keeps in local
\* variables meanwhile (the context to restore, the reload in progress, the
\* place in a listener vector); and (history) the entries that were before and
\* behind the module, or that the call was to run and has run.
BlankFrame ==
  [kind |-> "scope", e |-> NULL, saved |-> cur, loading |-> NULL,
   reload |-> NULL, after |-> NULL, at |-> NULL, n |-> 0, i |-> 0,
   changed |-> FALSE, was |-> <<>>, seen |-> <<>>]

Top == frames[Len(frames)]
Running(kind) == \E i \in DOMAIN frames : frames[i].kind = kind
CanPush == Len(frames) < MaxFrames

\* The module whose code runs on top of the frames fs, NULL for the host.
LoaderOf(fs) ==
  LET own == {i \in DOMAIN fs : fs[i].kind # "scope"}
  IN  IF own = {} THEN NULL ELSE fs[Max(own)].e

Caller == LoaderOf(frames)

\* What the instance lets foreign code do.
MayLoad == ~Running("body") \/ LoadDuringCall
MayUnload == \A kind \in {"body", "install"} \ UnloadFrom : ~Running(kind)

\* History: the loads of (p, r) that the host has not undone, after d more.
Counted(h, p, r, d) ==
  IF Caller # NULL THEN h
  ELSE [h EXCEPT ![p][r] = IF @ + d < 0 THEN 0 ELSE @ + d]

-----------------------------------------------------------------------------
(* Entries, lists and slots. A heap is a record of ent and mods. *)

\* The entry of path p in region r (module_lookup_from_fname).
lookup(p, r) ==
  LET found == {c \in ToSet(mods[r]) : ent[c].path = p}
  IN  IF found = {} THEN NULL ELSE CHOOSE c \in found : TRUE

Heap == [ent |-> ent, mods |-> mods]
Become(s) == ent' = s.ent /\ mods' = s.mods

\* What a pointer to cell x is worth once the cells D are freed.
After(x, D) == IF x \in D THEN Dangling ELSE x
Scrub(s, D) == [i \in DOMAIN s |-> After(s[i], D)]

\* Mutated forms of Doomed: only direct children are taken along; a child's
\* other references are not respected.
DoomedShallow(e) ==
  {e} \cup {m \in Loaded : ent[m].parent = e /\ ent[m].refs = 1 /\ Listens(m)}
DoomedShared(e) == {e} \cup {m \in Loaded : ent[m].parent = e /\ Listens(m)}

\* The entries that leave with e: those whose loader leaves and who have no
\* other reference, transitively. An entry without a context is passed over.
Doomed(e) ==
  LET d[n \in 0 .. Cardinality(Cells)] ==
        IF n = 0 THEN {e}
        ELSE d[n-1] \cup {m \in Loaded : /\ ent[m].parent \in d[n-1]
                                         /\ ent[m].refs = 1 /\ Listens(m)}
  IN  d[Cardinality(Cells)]

\* Mutated form of Without: the entries stay on the region lists.
WithoutDetaching(D) ==
  [ent |-> [c \in Cells |-> IF c \in D THEN Free ELSE ent[c]], mods |-> mods]

\* The heap when the entries D are gone: other children of theirs have lost
\* a reference, and their loader.
Without(D) ==
  [ent |-> [c \in Cells |->
      CASE c \in D -> Free
        [] c \notin D /\ ent[c] # Free /\ ent[c].parent \in D ->
             [ent[c] EXCEPT !.refs = IF Listens(c) THEN @ - 1 ELSE @, !.stale = TRUE]
        [] OTHER -> ent[c]],
   mods |-> [r \in Regions |-> Only(mods[r], Cells \ D)]]

\* The heap after _mod_unload of e, and the cells it frees.
Dropped(e) == IF ent[e].refs > 1 THEN {} ELSE Doomed(e)

\* Mutated form of Unloaded: the count is not compared with zero.
UnloadedCountOnly(e) == [Heap EXCEPT !.ent[e].refs = @ - 1]

Unloaded(e) ==
  IF ent[e].refs > 1 THEN [Heap EXCEPT !.ent[e].refs = @ - 1] ELSE Without(Doomed(e))

\* Frames, slots and contexts when the cells D are freed.
FramesAfter(D) ==
  [i \in DOMAIN frames |->
     [frames[i] EXCEPT !.e = After(@, D), !.after = After(@, D),
                       !.was = Scrub(@, D), !.seen = Scrub(@, D)]]

SlotsAfter(D) == [r \in Regions |-> Scrub(slots[r], D)]

\* A context that no entry refers to is not recorded: nothing reads it before
\* the next load binds it again.
Refers(m, D) == \E c \in Loaded \ D : ent[c].img = m
CtxAfter(D) == [m \in DOMAIN ctx |-> IF Refers(m, D) THEN ctx[m] ELSE Unbound]

\* Foreign code does not unload a module that is being installed.
Freeable(D) == \A i \in DOMAIN frames : frames[i].kind = "install" => frames[i].e \notin D

\* The cascade over D looks up a child by a name that was freed.
NameRead(D) == \E c \in Loaded : ent[c].parent \in D /\ Listens(c) /\ ~ctx[ent[c].img].named

-----------------------------------------------------------------------------
(* Loading. *)

\* Regions a load of p can end up in: the current one, or a claimed child.
Target(p) ==
  IF ~gate[cur.id] THEN {cur.id}
  ELSE IF p \in Claimers THEN Regions \ live ELSE {}

\* The tree with r in it, r new or not.
Grown(r) ==
  /\ live' = live \cup {r}
  /\ anc' = [anc EXCEPT ![r] = IF r \in live THEN @ ELSE anc[cur.id] \cup {r}]
  /\ kids' = IF r \in live THEN kids ELSE [kids EXCEPT ![cur.id] = <<r>> \o @]

\* A library that is elsewhere already keeps its one context.
MayShare(p) == MultiRegion \/ \A c \in Loaded : ent[c].path # p

\* A load of p into r binds the context of its image and then fails: the name
\* is freed with the entry. During a reload the image is a copy, if copying
\* the file succeeds.
BindInVain(p, r) ==
  \/ reloading /\ UNCHANGED ctx
  \/ ctx' = IF p \in Bare \/ ~Refers(p, {}) THEN ctx
            ELSE [ctx EXCEPT ![p] = [region |-> r, named |-> FALSE]]

\* _mod_load up to the call of xy_install, out of heap s, contexts cx and
\* frames fs; f carries what a reload in progress remembers. The entry is
\* appended before xy_install runs.
Begin(p, s, cx, fs, hs, f) ==
  \E c \in Cells, r \in Target(p), img \in IF reloading' THEN Cells \cup {p} ELSE {p} :
    /\ s.ent[c] = Free /\ img \in {c, p}
    /\ Recycle \/ ~\E m \in Cells : s.ent[m] # Free /\ s.ent[m].parent = c
    /\ Grown(r)
    /\ Become([ent |-> [s.ent EXCEPT ![c] =
                          [path |-> p, img |-> img, region |-> r, refs |-> 1,
                           parent |-> loading, stale |-> FALSE, shared |-> FALSE]],
               mods |-> [s.mods EXCEPT ![r] = Append(@, c)]])
    /\ ctx' = IF p \in Bare THEN cx ELSE [cx EXCEPT ![img] = [region |-> r, named |-> TRUE]]
    /\ cur' = [id |-> r, at |-> r]
    /\ loading' = c
    /\ frames' = Append(fs, [f EXCEPT !.kind = "install", !.e = c,
                                      !.loading = loading])
    /\ held' = Counted(hs, p, r, 1)

\* xy_load of a module that is there takes a reference.
LoadReuse(p) ==
  LET e == lookup(p, cur.id)
  IN  /\ MayLoad /\ e # NULL /\ ent[e].refs < MaxRefs
      /\ ent' = [ent EXCEPT ![e].refs = @ + 1, ![e].shared = TRUE]
      /\ held' = Counted(held, p, cur.id, 1)
      /\ last' = NoResult
      /\ UNCHANGED <<regVars, gate, mods, slots, ctx, cur, loading, reloading, frames, bad>>

\* xy_load into a gated region, without a claim or with one its handler turns
\* down: the context is bound already, and its name is freed with the entry.
LoadRefused(p) ==
  /\ MayLoad /\ MayShare(p)
  /\ lookup(p, cur.id) = NULL /\ gate[cur.id]
  /\ BindInVain(p, cur.id)
  /\ last' = NoResult
  /\ UNCHANGED <<regVars, gate, heap, cur, loading, reloading, frames, held, bad>>

\* xy_load of a library without xy_install: what was claimed stays claimed.
LoadNoInstall(p) ==
  /\ MayLoad /\ MayShare(p) /\ p \in NoInstall
  /\ lookup(p, cur.id) = NULL
  /\ \E r \in Target(p) :
       /\ Grown(r)
       /\ BindInVain(p, r)
  /\ last' = NoResult
  /\ UNCHANGED <<gate, heap, cur, loading, reloading, frames, held, bad>>

\* xy_load of a library that gets as far as its xy_install.
LoadBegin(p) ==
  /\ MayLoad /\ MayShare(p) /\ p \notin NoInstall /\ CanPush
  /\ lookup(p, cur.id) = NULL
  /\ UNCHANGED reloading
  /\ Begin(p, Heap, ctx, frames, held, BlankFrame)
  /\ last' = NoResult
  /\ UNCHANGED <<gate, slots, bad>>

\* Mutated form of Reinserted: the module goes to the tail.
ReinsertedLast(s, e, a) == Append(Unlinked(s, e), e)

\* List s without e, and with it again behind a, or at the head.
Reinserted(s, e, a) ==
  LET rest == Unlinked(s, e)
      i == IF a = NULL THEN 1
           ELSE 1 + CHOOSE j \in DOMAIN rest : rest[j] = a
  IN  InsertAt(rest, i, e)

\* xy_install returns. A reload then looks its module up again and moves it
\* behind the entry that used to precede it.
InstallReturn ==
  /\ frames # <<>> /\ Top.kind = "install"
  /\ LET f == Top
         e == IF f.reload = NULL THEN NULL ELSE lookup(f.reload, f.saved.id)
     IN  /\ frames' = Front(frames)
         /\ cur' = f.saved
         /\ loading' = f.loading
         /\ reloading' = (reloading /\ f.reload = NULL)
         /\ bad' = (e # NULL /\ f.after = Dangling)
         /\ IF e # NULL /\ f.after # Dangling
            THEN /\ mods' = [mods EXCEPT ![f.saved.id] = Reinserted(@, e, f.after)]
                 /\ last' = [op |-> "reload", e |-> e, before |-> f.was,
                             behind |-> f.seen, list |-> mods'[f.saved.id]]
            ELSE UNCHANGED mods /\ last' = NoResult
  /\ UNCHANGED <<regVars, gate, ent, slots, ctx, held>>

-----------------------------------------------------------------------------
(* Unloading and reloading. *)

\* _mod_unload of p in the current region; the children that leave with it are
\* found through the names their contexts hold.
_mod_unload(p) ==
  LET e == lookup(p, cur.id)
      D == Dropped(e)
  IN  /\ MayUnload /\ e # NULL /\ Freeable(D)
      /\ Become(Unloaded(e))
      /\ ctx' = CtxAfter(D)
      /\ frames' = FramesAfter(D)
      /\ slots' = SlotsAfter(D)
      /\ bad' = NameRead(D)
      /\ held' = Counted(held, p, cur.id, -1)
      /\ last' = NoResult
      /\ UNCHANGED <<regVars, gate, cur, loading>>

Unload(p) == _mod_unload(p) /\ UNCHANGED reloading

\* Mutated form of Predecessor: the entry itself is remembered.
PredecessorItself(e) == e

\* The entry before e in its region's list (region_prev).
Predecessor(e) ==
  LET s == mods[ent[e].region]
      i == CHOOSE j \in DOMAIN s : s[j] = e
  IN  IF i = 1 THEN NULL ELSE s[i-1]

\* xy_reload of a module with one reference: unloaded, then loaded as a
\* private copy.
ReloadBegin(p) ==
  LET e == lookup(p, cur.id)
      D == Doomed(e)
      i == CHOOSE j \in DOMAIN mods[cur.id] : mods[cur.id][j] = e
      before == SubSeq(mods[cur.id], 1, i - 1)
      behind == SubSeq(mods[cur.id], i + 1, Len(mods[cur.id]))
  IN  /\ MayUnload /\ MayLoad /\ CanPush
      /\ e # NULL /\ ent[e].refs = 1 /\ Freeable(D)
      /\ reloading' = TRUE
      /\ Begin(p, Without(D), CtxAfter(D), FramesAfter(D), Counted(held, p, cur.id, -1),
               [BlankFrame EXCEPT !.reload = p,
                                  !.after = After(Predecessor(e), D),
                                  !.was = Scrub(before, D), !.seen = Scrub(behind, D)])
      /\ slots' = SlotsAfter(D)
      /\ bad' = NameRead(D)
      /\ last' = NoResult
      /\ UNCHANGED gate

\* xy_reload of a module with more references: unload and load only touch the
\* count, and the entry goes back to where it was.
ReloadShared(p) ==
  LET e == lookup(p, cur.id)
  IN  /\ MayUnload /\ MayLoad
      /\ e # NULL /\ ent[e].refs > 1
      /\ reloading' = FALSE
      /\ last' = NoResult
      /\ UNCHANGED <<regVars, gate, heap, ctx, cur, loading, frames, held, bad>>

\* xy_reload whose second half fails (the file cannot be opened, or the region
\* has a gate by now): the first half is not undone.
ReloadLost(p) ==
  MayLoad /\ _mod_unload(p) /\ reloading' = FALSE

-----------------------------------------------------------------------------
(* Calling a hook that every module with a context implements. *)

Below(r) == {x \in live : r \in anc[x]}

Listeners(r) ==
  Only(CollectOf([x \in Below(r) |-> mods[x]], [x \in Below(r) |-> kids[x]], r),
       {c \in Loaded : Listens(c)})

\* Mutated form of Rebuilt: the slots are filled from the back.
RebuiltBackwards(old, new) == Reverse(new)

\* A rebuild writes over the slots in place; what lies behind stays.
Rebuilt(old, new) == new \o SubSeq(old, Len(new) + 1, Len(old))

\* Mutated form of RunSlot: the current region is not switched.
RunSlotInPlace(me, c0, f, below) ==
  IF me = Dangling
  THEN bad' = TRUE /\ UNCHANGED <<frames, cur>>
  ELSE /\ frames' = Append(below, [f EXCEPT !.e = me, !.i = @ + 1, !.seen = Append(@, me)])
       /\ cur' = c0
       /\ UNCHANGED bad

\* The body in slot me runs, called from context c0; f is the frame of the
\* call, on top of the frames "below".
RunSlot(me, c0, f, below) ==
  IF me = Dangling
  THEN bad' = TRUE /\ UNCHANGED <<frames, cur>>
  ELSE LET to == ctx[ent[me].img].region
           changed == to # f.saved.id
       IN  /\ frames' = Append(below,
                [f EXCEPT !.e = me, !.i = @ + 1, !.changed = changed,
                          !.saved = [id |-> f.saved.id, at |-> c0.at],
                          !.seen = Append(@, me)])
           /\ cur' = IF changed THEN [id |-> to, at |-> ent[me].region] ELSE c0
           /\ UNCHANGED bad

\* xy_call from the current region.
Call ==
  LET r == cur.at
      new == Listeners(r)
  IN  /\ IF new = <<>>
         THEN UNCHANGED <<slots, frames, cur, bad>>
         ELSE /\ CanPush
              /\ slots' = [slots EXCEPT ![r] = Rebuilt(@, new)]
              /\ RunSlot(new[1], cur,
                         [BlankFrame EXCEPT !.kind = "body", !.at = r, !.n = Len(new),
                                            !.was = new],
                         frames)
      /\ last' = NoResult
      /\ UNCHANGED <<regVars, gate, ent, mods, ctx, loading, reloading, held>>

\* A hook body returns; the next slot is read from memory as it is now.
BodyReturn ==
  /\ frames # <<>> /\ Top.kind = "body"
  /\ LET f == Top
         c0 == IF f.changed THEN f.saved ELSE cur
     IN  IF f.i < f.n
         THEN /\ RunSlot(slots[f.at][f.i + 1], c0, f, Front(frames))
              /\ last' = NoResult
              /\ UNCHANGED slots
         ELSE /\ frames' = Front(frames)
              /\ cur' = c0
              /\ slots' = IF \E g \in ToSet(frames') : g.kind = "body" /\ g.at = f.at
                          THEN slots ELSE [slots EXCEPT ![f.at] = <<>>]
              /\ last' = [op |-> "call", was |-> f.was, seen |-> f.seen]
              /\ UNCHANGED bad
  /\ UNCHANGED <<regVars, gate, ent, mods, ctx, loading, reloading, held>>

-----------------------------------------------------------------------------
(* Scopes, gates, shutdown. *)

\* xy_with_region. A scope for the region one is in changes nothing and is
\* left out.
WithRegion(r) ==
  /\ CanPush /\ cur # [id |-> r, at |-> r]
  /\ frames' = Append(frames, BlankFrame)
  /\ cur' = [id |-> r, at |-> r]
  /\ last' = NoResult
  /\ UNCHANGED <<regVars, gate, heap, ctx, loading, reloading, held, bad>>

\* Mutated form of ScopeReturn: the entry pointer is not put back.
ScopeReturnIdOnly ==
  /\ frames # <<>> /\ Top.kind = "scope"
  /\ frames' = Front(frames)
  /\ cur' = [cur EXCEPT !.id = Top.saved.id]
  /\ last' = NoResult
  /\ UNCHANGED <<regVars, gate, heap, ctx, loading, reloading, held, bad>>

\* The scope function returns.
ScopeReturn ==
  /\ frames # <<>> /\ Top.kind = "scope"
  /\ frames' = Front(frames)
  /\ cur' = Top.saved
  /\ last' = NoResult
  /\ UNCHANGED <<regVars, gate, heap, ctx, loading, reloading, held, bad>>

\* xy_require_claim with a handler, or with NULL.
RequireClaim(on) ==
  /\ gate' = [gate EXCEPT ![cur.id] = on]
  /\ last' = NoResult
  /\ UNCHANGED <<regVars, heap, ctx, cur, loading, reloading, frames, held, bad>>

Init ==
  /\ live = {Root}
  /\ anc = [r \in Regions |-> IF r = Root THEN {Root} ELSE {}]
  /\ kids = [r \in Regions |-> <<>>]
  /\ gate = [r \in Regions |-> FALSE]
  /\ ent = [c \in Cells |-> Free]
  /\ mods = [r \in Regions |-> <<>>]
  /\ slots = [r \in Regions |-> <<>>]
  /\ ctx = [m \in Paths \cup Cells |-> Unbound]
  /\ cur = [id |-> Root, at |-> Root]
  /\ loading = NULL /\ reloading = FALSE
  /\ frames = <<>>
  /\ held = [p \in Paths |-> [r \in Regions |-> 0]]
  /\ bad = FALSE
  /\ last = NoResult

\* xy_shutdown by the host: every module and region goes; images stay mapped.
Shutdown ==
  /\ frames = <<>>
  /\ live' = {Root}
  /\ anc' = [r \in Regions |-> IF r = Root THEN {Root} ELSE {}]
  /\ kids' = [r \in Regions |-> <<>>]
  /\ gate' = [r \in Regions |-> FALSE]
  /\ ent' = [c \in Cells |-> Free]
  /\ mods' = [r \in Regions |-> <<>>]
  /\ slots' = [r \in Regions |-> <<>>]
  /\ ctx' = [m \in DOMAIN ctx |-> Unbound]
  /\ cur' = [id |-> Root, at |-> Root]
  /\ held' = [p \in Paths |-> [r \in Regions |-> 0]]
  /\ last' = NoResult
  /\ UNCHANGED <<loading, reloading, frames, bad>>

Next ==
  /\ ~bad
  /\ \/ \E p \in Paths : \/ LoadReuse(p) \/ LoadRefused(p) \/ LoadNoInstall(p)
                         \/ LoadBegin(p) \/ Unload(p)
                         \/ ReloadBegin(p) \/ ReloadShared(p) \/ ReloadLost(p)
     \/ InstallReturn \/ Call \/ BodyReturn
     \/ \E r \in live : WithRegion(r)
     \/ ScopeReturn
     \/ \E on \in BOOLEAN : RequireClaim(on)
     \/ Shutdown

Spec == Init /\ [][Next]_vars

-----------------------------------------------------------------------------
(* Properties. *)

Ptr == Cells \cup {NULL, Dangling}

\* Type invariant of entries, contexts and frames.
TypeOK ==
  /\ Root \in live /\ live \subseteq Regions
  /\ anc \in [Regions -> SUBSET Regions] /\ gate \in [Regions -> BOOLEAN]
  /\ \A c \in Loaded :
       /\ ent[c].path \in Paths /\ ent[c].region \in live
       /\ ent[c].refs \in 1..MaxRefs /\ ent[c].parent \in Cells \cup {NULL}
  /\ cur \in [id : live, at : live]
  /\ loading \in Cells \cup {NULL} /\ {reloading, bad} \subseteq BOOLEAN
  /\ \A i \in DOMAIN frames : frames[i].saved \in [id : live, at : live]

\* The region lists hold exactly the allocated entries, each once, in the
\* region it was loaded into, and no path twice in a region, whatever cascades
\* and interrupted reloads have happened.
ListsMatchEntries ==
  /\ Loaded = UNION {ToSet(mods[r]) : r \in live}
  /\ \A r \in live : /\ IsInjective(mods[r])
                     /\ \A c \in ToSet(mods[r]) : ent[c].region = r
                     /\ \A c, d \in ToSet(mods[r]) : ent[c].path = ent[d].path => c = d

\* The current region's id and entry pointer name the same region
\* (libxylem.c: "id and a direct pointer kept in sync").
ContextPaired == cur.id = cur.at

\* An xy_install or hook body runs in the region its module belongs to,
\* however it was reached.
RunsInOwnRegion ==
  frames # <<>> /\ Top.e \in Cells => cur.id = ent[Top.e].region

\* No freed entry and no freed name is read: not through a listener vector, not
\* through the predecessor a reload remembers, not by a cascade.
NoUseAfterFree == ~bad

\* A module that was loaded by another one outlives it only if it was loaded
\* more than once, or is invisible to the cascade for want of a context.
CascadeComplete ==
  \A c \in Loaded : ent[c].stale => ent[c].shared \/ ~Listens(c)

\* test_unload.c, "module stays alive until last holder unloads it": as long as
\* the host has not undone its own load, the module is there.
HostHoldsStay ==
  \A p \in Paths, r \in live : held[p][r] > 0 => lookup(p, r) # NULL

\* xy.h, xy_reload: "re-inserted at its original position in the dispatch
\* order": entries that were before the module, or behind it, still are.
ReloadKeepsPosition ==
  last.op = "reload" =>
    \A i, j \in DOMAIN last.list :
      /\ last.list[i] = last.e /\ last.list[j] \in ToSet(last.before) => j < i
      /\ last.list[i] = last.e /\ last.list[j] \in ToSet(last.behind) => j > i

\* README: "Calling a hook dispatches to every loaded module that provides it".
\* Of the listeners there were when the call began, each that is still loaded
\* when it ends has run exactly once.
EveryListenerOnce ==
  last.op = "call" =>
    \A c \in ToSet(last.was) \ {Dangling} :
      Cardinality({i \in DOMAIN last.seen : last.seen[i] = c}) = 1
=============================================================================
