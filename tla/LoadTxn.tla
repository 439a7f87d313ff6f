------------------------------ MODULE LoadTxn -------------------------------
(***************************************************************************)
(* What a load acquires and gives back. A load is a transaction of many    *)
(* steps, each of which can fail: it resolves the name, copies the library *)
(* to a temporary file when it is part of a reload, opens it, allocates an *)
(* entry, publishes it, binds the image's context to the name, claims,     *)
(* runs xy_install. The module keeps account of strings, entries, dlopen   *)
(* handles, region states and temporary files, of the pointers to them, of *)
(* what is lost when the last pointer to it goes, and of the map and the   *)
(* list that find an entry.                                                *)
(*                                                                         *)
(* One region and one thread; an xy_install may load, unload and reload    *)
(* other libraries. Regions and claims are in RegionTree, the order of the *)
(* list in Lifecycle. What a load acquires is named after the load's       *)
(* number, the lowest that nothing is named after and no entry holds as    *)
(* its loader: that an entry's address is used again while a child still   *)
(* points to it is in Lifecycle. The main program, which dlopen opens when *)
(* it is given no name, is taken to export none of a library's symbols.    *)
(***************************************************************************)
EXTENDS Integers, SequencesExt

CONSTANTS
  Libs,       \* libraries
  Stateful,   \* those with a region state
  Bare,       \* those that hand over no xy context
  MaxRefs,    \* bound: references to an entry
  MaxNest     \* bound: loads in progress

ASSUME TxnAssumption ==
  /\ {MaxRefs, MaxNest} \subseteq Nat \ {0} /\ IsFiniteSet(Libs)
  /\ Stateful \subseteq Libs /\ Bare \subseteq Libs

VARIABLES
  live,       \* what is allocated, open or on disk for loads and entries, as
              \* <<kind, load>>
  kept,       \* libraries whose own context has the name of a load that is over
  lost,       \* history: what is allocated or on disk, but nothing points to it
  ent,        \* module entries by the load that allocated them
  mod_hd,     \* mod_hd[l]: the entry the map finds for l, 0 if none
  mods,       \* the entries on the region's list
  txs,        \* loads in progress, innermost last
  reloading,  \* xy_reloading
  twice       \* history: something was given back that was not there

vars == <<live, kept, lost, ent, mod_hd, mods, txs, reloading, twice>>

Loads == 1 .. 2 * Cardinality(Libs) + MaxNest

\* The directories copy_to_tmp tries, in order.
Dirs == <<"beside", "/tmp", "./tmp">>

\* The pointers of an xy_load_txn_t that own something while they are set.
Fields == {"key", "load_path", "handle", "tmp_load_path", "stable_fname", "stable_key"}

\* What pointer f of load k with a copy in directory d refers to.
Owned(f, k, d) ==
  CASE f \in {"key", "stable_key"} -> {<<"key", k>>}
    [] f = "tmp_load_path" -> {<<Dirs[d], k>>, <<f, k>>}
    [] OTHER -> {<<f, k>>}

Allocated(k) == k \in DOMAIN ent

\* What tx is to give back. The key belongs to the entry once there is one.
OwnedBy(tx) ==
  UNION {Owned(f, tx.k, tx.dir) : f \in tx.ptr \ IF Allocated(tx.k) THEN {"stable_key"} ELSE {}}

\* What entry k owns beside its handle, and with it.
Parts(k) ==
  {<<"entry", k>>, <<"key", k>>}
  \cup (IF ent[k].state THEN {<<"region_state", k>>} ELSE {})
  \cup (IF ent[k].dir = 0 THEN {} ELSE Owned("tmp_load_path", k, ent[k].dir))

Whole(k) == Parts(k) \cup {<<"handle", k>>}

NameOf(k) == <<"stable_fname", k>>

\* Entry k's image is a private copy whose context points to the load's name:
\* no load opens that image again.
InCopy(k) == ent[k].dir # 0 /\ ent[k].lib \notin Bare

\* What other code can find or use. The names that contexts keep are not part
\* of it.
World == [live |-> live, ent |-> ent, mod_hd |-> mod_hd, mods |-> mods]

-----------------------------------------------------------------------------
(* Steps of a transaction. *)

Top == txs[Len(txs)]
At(pc) == txs # <<>> /\ Top.pc = pc
Foreign == txs = <<>> \/ At("install")
Loader == IF Len(txs) = 1 THEN 0 ELSE txs[Len(txs) - 1].k

tables == <<ent, mod_hd, mods>>
names == <<kept, lost>>

\* The load goes on as tx.
GoOn(tx) == txs' = Append(Front(txs), tx) /\ UNCHANGED reloading

\* The load is over; that of an xy_reload also clears the flag.
Finish == txs' = Front(txs) /\ reloading' = (reloading /\ ~Top.reload)

Acquire(S) == live' = live \cup S /\ UNCHANGED twice
Release(S) == live' = live \ S /\ twice' = (twice \/ ~(S \subseteq live))

Become(w) == live' = w.live /\ ent' = w.ent /\ mod_hd' = w.mod_hd /\ mods' = w.mods

Unused(w) ==
  Loads \ (DOMAIN w.ent \cup {w.ent[i].parent : i \in DOMAIN w.ent}
           \cup {t[2] : t \in w.live} \cup {tx.k : tx \in ToSet(txs)})

\* A load of l begins in world w: module_lookup_from_fname allocates path and
\* key and asks the map.
Begin(l, w, re) ==
  LET k == Min(Unused(w))
      f == w.mod_hd[l]
  IN  /\ Len(txs) < MaxNest /\ Unused(w) # {}
      /\ f # 0 => w.ent[f].refs < MaxRefs
      /\ Become([w EXCEPT !.live = @ \cup {<<"key", k>>, <<"load_path", k>>}])
      /\ reloading' = (reloading \/ re)
      /\ txs' = Append(txs,
           [k |-> k, lib |-> l, pc |-> IF reloading' THEN "copy" ELSE "open",
            ptr |-> {"key", "load_path"}, dir |-> 0, try |-> 1, found |-> f,
            main |-> FALSE, reload |-> re, before |-> w])

xy_load(l) == Foreign /\ Begin(l, World, FALSE) /\ UNCHANGED <<names, twice>>

-----------------------------------------------------------------------------
(* The private copy of a reload, and dlopen. *)

\* copy_one gets a temporary file from mkstemps.
CopyBegin ==
  /\ At("copy") /\ Top.try <= Len(Dirs)
  /\ Acquire({<<Dirs[Top.try], Top.k>>})
  /\ GoOn([Top EXCEPT !.pc = "write"])
  /\ UNCHANGED <<tables, names>>

\* It gets none, or the name is too long: copy_to_tmp tries the next directory.
CopyMissed ==
  /\ At("copy") /\ Top.try <= Len(Dirs)
  /\ GoOn([Top EXCEPT !.try = @ + 1])
  /\ UNCHANGED <<live, tables, names, twice>>

\* Mutated form of CopyFailed: the file stays.
CopyFailedLeaving ==
  /\ At("write")
  /\ GoOn([Top EXCEPT !.pc = "copy", !.try = @ + 1])
  /\ UNCHANGED <<live, tables, names, twice>>

\* Opening the library, reading, writing, chmod or fsync fails: the file is
\* removed again.
CopyFailed ==
  /\ At("write")
  /\ Release({<<Dirs[Top.try], Top.k>>})
  /\ GoOn([Top EXCEPT !.pc = "copy", !.try = @ + 1])
  /\ UNCHANGED <<tables, names>>

\* The copy is complete, and there is no memory for its name: copy_one reports
\* success all the same, the file stays, and dlopen will be given no name.
CopyUnnamed ==
  /\ At("write")
  /\ live' = live \ {<<Dirs[Top.try], Top.k>>} /\ lost' = lost \cup {"file"}
  /\ GoOn([Top EXCEPT !.pc = "open", !.main = TRUE])
  /\ UNCHANGED <<tables, kept, twice>>

\* The copy is complete and its name allocated.
CopyDone ==
  /\ At("write")
  /\ Acquire({<<"tmp_load_path", Top.k>>})
  /\ GoOn([Top EXCEPT !.pc = "open", !.dir = Top.try, !.ptr = @ \cup {"tmp_load_path"}])
  /\ UNCHANGED <<tables, names>>

\* No directory takes a copy: the library itself is opened.
CopyGivenUp ==
  /\ At("copy") /\ Top.try > Len(Dirs)
  /\ GoOn([Top EXCEPT !.pc = "open"])
  /\ UNCHANGED <<live, tables, names, twice>>

Open ==
  /\ At("open")
  /\ Acquire({<<"handle", Top.k>>})
  /\ GoOn([Top EXCEPT !.pc = "name", !.ptr = @ \cup {"handle"}])
  /\ UNCHANGED <<tables, names>>

\* dlopen of a file fails: mod_load_open_handle gives back copy, path and key
\* itself.
OpenFailed ==
  /\ At("open") /\ ~Top.main
  /\ Release(OwnedBy(Top))
  /\ Finish
  /\ UNCHANGED <<tables, names>>

-----------------------------------------------------------------------------
(* From the handle to the entry. *)

\* mod_load_try_reuse_existing: the entry found is counted, all else goes back.
Reuse ==
  /\ At("name") /\ Top.found # 0
  /\ ent' = [ent EXCEPT ![Top.found].refs = @ + 1]
  /\ Release(OwnedBy(Top))
  /\ Finish
  /\ UNCHANGED <<mod_hd, mods, names>>

\* Mutated form of Unpublished: the map keeps the entries.
UnpublishedFromList(D) == [mod_hd |-> mod_hd, mods |-> mods \ D]

\* Map and list without the entries D.
Unpublished(D) ==
  [mod_hd |-> [l \in Libs |-> IF mod_hd[l] \in D THEN 0 ELSE mod_hd[l]], mods |-> mods \ D]

\* mod_load_abort: map and list let go of the entry; it, what it owns and what
\* the transaction still points to are given back, the name that a context
\* points to by now included. Reached when there is no memory for the name,
\* none for the entry or no intern table, the claim is refused, or the image
\* has no xy_install.
Abort ==
  LET k == Top.k
  IN  /\ \/ At("name") /\ Top.found = 0
         \/ At("alloc") \/ At("claim") \/ At("run")
      /\ Release(OwnedBy(Top) \cup (IF Allocated(k) THEN Parts(k) ELSE {}))
      /\ ent' = [i \in DOMAIN ent \ {k} |-> ent[i]]
      /\ mod_hd' = Unpublished({k}).mod_hd /\ mods' = Unpublished({k}).mods
      /\ Finish
      /\ UNCHANGED names

\* The name is copied, the key moves from the lookup to the transaction, the
\* path to the intern table, which keeps it for good or frees a second copy.
Name ==
  /\ At("name") /\ Top.found = 0
  /\ live' = (live \cup {<<"stable_fname", Top.k>>}) \ {<<"load_path", Top.k>>}
  /\ GoOn([Top EXCEPT !.pc = "alloc",
                      !.ptr = (@ \ {"key", "load_path"}) \cup {"stable_key", "stable_fname"}])
  /\ UNCHANGED <<tables, names, twice>>

\* A new entry in the hands of load tx.
Fresh(tx) == [lib |-> tx.lib, dir |-> tx.dir, refs |-> 1, parent |-> Loader, state |-> FALSE]

\* Mutated form of Alloc: the transaction still points to the temporary file.
AllocKeepingTmp ==
  /\ At("alloc")
  /\ Acquire({<<"entry", Top.k>>})
  /\ ent' = [k \in DOMAIN ent \cup {Top.k} |-> IF k = Top.k THEN Fresh(Top) ELSE ent[k]]
  /\ GoOn([Top EXCEPT !.pc = "publish"])
  /\ UNCHANGED <<mod_hd, mods, names>>

\* The entry takes over key and temporary file.
Alloc ==
  /\ At("alloc")
  /\ Acquire({<<"entry", Top.k>>})
  /\ ent' = [k \in DOMAIN ent \cup {Top.k} |-> IF k = Top.k THEN Fresh(Top) ELSE ent[k]]
  /\ GoOn([Top EXCEPT !.pc = "publish", !.ptr = @ \ {"tmp_load_path"}])
  /\ UNCHANGED <<mod_hd, mods, names>>

Publish ==
  /\ At("publish")
  /\ mod_hd' = [mod_hd EXCEPT ![Top.lib] = Top.k]
  /\ GoOn([Top EXCEPT !.pc = "bind"])
  /\ UNCHANGED <<live, ent, mods, names, twice>>

\* Load tx opened the library itself, whose context other loads have bound.
BindsAgain(tx) == tx.lib \notin Bare /\ ~tx.main /\ tx.dir = 0

\* mod_load_bind_xy: the context of the image, if it has one, points to the
\* load's name from now on, which is the load's still. The name that the
\* library's own context had is lost; a copy has a new context.
Bind ==
  /\ At("bind")
  /\ IF BindsAgain(Top) /\ Top.lib \in kept
     THEN kept' = kept \ {Top.lib} /\ lost' = lost \cup {"name"}
     ELSE UNCHANGED names
  /\ GoOn([Top EXCEPT !.pc = "claim"])
  /\ UNCHANGED <<live, tables, twice>>

\* The claim is granted: the region state is allocated, if there is one and
\* there is memory, and the entry put on the list.
Enlist ==
  At("claim") /\ \E s \in {FALSE, Top.lib \in Stateful /\ ~Top.main} :
    /\ Acquire(IF s THEN {<<"region_state", Top.k>>} ELSE {})
    /\ ent' = [ent EXCEPT ![Top.k].state = s]
    /\ mods' = mods \cup {Top.k}
    /\ GoOn([Top EXCEPT !.pc = "run"])
    /\ UNCHANGED <<mod_hd, names>>

Install ==
  /\ At("run") /\ ~Top.main
  /\ GoOn([Top EXCEPT !.pc = "install"])
  /\ UNCHANGED <<live, tables, names, twice>>

\* xy_install returns. The handle is the entry's. Nothing frees the name: the
\* library's own context has it, or the copy's for as long as there is the
\* entry; it is lost if there is no context.
InstallReturn ==
  /\ At("install")
  /\ live' = IF Top.lib \in Bare \/ Top.dir = 0 THEN live \ {NameOf(Top.k)} ELSE live
  /\ kept' = IF BindsAgain(Top) THEN kept \cup {Top.lib} ELSE kept
  /\ lost' = IF Top.lib \in Bare THEN lost \cup {"name"} ELSE lost
  /\ Finish
  /\ UNCHANGED <<tables, twice>>

-----------------------------------------------------------------------------
(* Unloading, reloading, shutting down. *)

\* module_free_entry: everything the entries D own.
Freed(D) == UNION {Whole(k) : k \in D}

\* An unload of the loader reaches entry i through the name in its context.
Reached(i) == ent[i].lib \notin Bare

\* The entries that leave when k loses a reference: none while it has another,
\* else k and those it loaded that have no other, transitively. An entry
\* without a context is passed over.
Doomed(k) ==
  LET d[n \in 0 .. Cardinality(Libs)] ==
        IF n = 0 THEN {i \in {k} : ent[i].refs = 1}
        ELSE d[n-1] \cup {i \in DOMAIN ent : /\ ent[i].parent \in d[n-1]
                                             /\ ent[i].refs = 1 /\ Reached(i)}
  IN  d[Cardinality(Libs)]

\* Mutated form of Counted: the count goes down to zero unnoticed.
CountedToZero(k, D) ==
  [i \in DOMAIN ent |-> [ent[i] EXCEPT !.refs = IF i = k THEN @ - 1 ELSE @]]

\* The entries that stay when k loses a reference and D leave: others that D
\* loaded have lost a reference. They keep the pointer to their loader.
Counted(k, D) ==
  [i \in DOMAIN ent \ D |->
     [ent[i] EXCEPT !.refs =
        IF i = k \/ (ent[i].parent \in D /\ Reached(i)) THEN @ - 1 ELSE @]]

\* The names that only the contexts of the entries D have.
Orphaned(D) == {NameOf(k) : k \in {i \in D : InCopy(i)}}

\* The world when the entries D have been freed and entries e stay.
Rid(D, e) ==
  [live |-> live \ (Freed(D) \cup Orphaned(D)), ent |-> e,
   mod_hd |-> Unpublished(D).mod_hd, mods |-> Unpublished(D).mods]

\* What freeing the entries D leaves behind: lost names, and whether something
\* was given back that was not there.
Discarded(D) ==
  /\ lost' = lost \cup {"name" : t \in Orphaned(D)}
  /\ twice' = (twice \/ ~(Freed(D) \subseteq live))
  /\ UNCHANGED kept

\* The world after _mod_unload of entry k.
Without(k) == Rid(Doomed(k), Counted(k, Doomed(k)))

\* Foreign code unloads what is loaded and not being installed.
Unloadable(l) == Foreign /\ mod_hd[l] # 0 /\ \A tx \in ToSet(txs) : tx.k # mod_hd[l]

xy_unload(l) ==
  /\ Unloadable(l)
  /\ Become(Without(mod_hd[l]))
  /\ Discarded(Doomed(mod_hd[l]))
  /\ UNCHANGED <<txs, reloading>>

xy_reload(l) ==
  /\ Unloadable(l)
  /\ Begin(l, Without(mod_hd[l]), TRUE)
  /\ Discarded(Doomed(mod_hd[l]))

\* xy_shutdown by the host frees every entry the map holds.
Shutdown ==
  /\ txs = <<>> /\ DOMAIN ent # {}
  /\ LET D == {mod_hd[l] : l \in Libs} \ {0}
     IN  Become(Rid(D, <<>>)) /\ Discarded(D)
  /\ UNCHANGED <<txs, reloading>>

Init ==
  /\ live = {} /\ kept = {} /\ lost = {}
  /\ ent = <<>> /\ mod_hd = [l \in Libs |-> 0] /\ mods = {}
  /\ txs = <<>> /\ reloading = FALSE /\ twice = FALSE

Next ==
  \/ \E l \in Libs : xy_load(l) \/ xy_unload(l) \/ xy_reload(l)
  \/ CopyBegin \/ CopyMissed \/ CopyFailed \/ CopyUnnamed \/ CopyDone \/ CopyGivenUp
  \/ Open \/ OpenFailed \/ Reuse \/ Abort
  \/ Name \/ Alloc \/ Publish \/ Bind \/ Enlist \/ Install \/ InstallReturn
  \/ Shutdown

Spec == Init /\ [][Next]_vars

-----------------------------------------------------------------------------
(* Properties. *)

\* Type invariant: an entry of the map is counted at least once.
TypeOK ==
  /\ DOMAIN ent \subseteq Loads /\ mods \subseteq Loads
  /\ \A k \in DOMAIN ent : ent[k] \in
       [lib : Libs, dir : 0 .. Len(Dirs), refs : 1 .. MaxRefs,
        parent : {0} \cup Loads, state : BOOLEAN]
  /\ \A tx \in ToSet(txs) : tx.k \in Loads /\ tx.ptr \subseteq Fields
  /\ mod_hd \in [Libs -> {0} \cup Loads]
  /\ kept \subseteq Libs
  /\ {reloading, twice} \subseteq BOOLEAN

\* What entry k is to give back: the handle is its own once the load is over,
\* and the name is held by its image if that is a copy.
HeldByEntry(k) ==
  IF \E tx \in ToSet(txs) : tx.k = k THEN Parts(k)
  ELSE Whole(k) \cup IF InCopy(k) THEN {NameOf(k)} ELSE {}

\* What a load is to give back: a file that is being written too.
HeldByLoad(tx) ==
  OwnedBy(tx) \cup IF tx.pc = "write" THEN {<<Dirs[tx.try], tx.k>>} ELSE {}

\* Whatever is allocated, open or on disk for a load belongs to an entry or to
\* a pointer of a load in progress, and nothing that is gone is given back
\* again, through every failing copy, dlopen, claim and install, nested loads,
\* cascades and shutdown (mod_load_abort, module_free_entry, copy_one). What
\* the code does lose on the way is names of loads, which nothing frees once
\* xy_install has run, and copies whose own name could not be allocated: never
\* an entry, a key, a handle, a region state or the name of a file.
EachHeldOnce ==
  /\ ~twice
  /\ live = UNION ({HeldByEntry(k) : k \in DOMAIN ent} \cup {HeldByLoad(tx) : tx \in ToSet(txs)})
  /\ lost \subseteq {"name", "file"}
  /\ \A tx \in ToSet(txs) :
       /\ ~({"key", "stable_key"} \subseteq tx.ptr)
       /\ Allocated(tx.k) => OwnedBy(tx) \cap Parts(tx.k) = {}

\* An entry that the map or the list finds is whole, its dlopen handle open, so
\* that foreign code can unload it or dispatch to it at any moment; outside of
\* its own load it is found by both, and its context, if it has one, has a name
\* through which a cascade finds it as well (mod_load_publish_entry,
\* mod_load_bind_xy, mod_load_abort, _mod_unload).
LookupFindsLive ==
  /\ \A k \in ({mod_hd[l] : l \in Libs} \ {0}) \cup mods :
       Allocated(k) /\ Whole(k) \subseteq live
  /\ \A k \in DOMAIN ent : (\A tx \in ToSet(txs) : tx.k # k) =>
       /\ k \in mods /\ mod_hd[ent[k].lib] = k
       /\ Reached(k) => NameOf(k) \in live \/ ent[k].lib \in kept

\* A load is all or nothing: it ends with its entry in map and list, with one
\* more reference to the entry it found, or with everything as it was when it
\* began, after the unload if it is part of a reload, but for the name its
\* image's context had and a copy without a name (_mod_load and every goto fail
\* in it).
LoadAllOrNothing ==
  [][Len(txs') < Len(txs) =>
       \/ mod_hd'[Top.lib] = Top.k /\ Top.k \in mods'
       \/ World' = Top.before
       \/ Top.found # 0 /\ World' = [Top.before EXCEPT !.ent[Top.found].refs = @ + 1]]_vars
=============================================================================
