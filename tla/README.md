# A TLA+ development for libxylem

libxylem is a C library for building programs out of shared-object modules. A
host loads modules into a tree of *regions*; a module declares hooks, and a call
of a hook made in a region runs every module of that region's subtree that
implements it. This directory models the library, checks the models with TLC and
proves most of what they promise with TLAPS, for every size of the instance.

Paths below are relative to the repository root as seen from here (`src/`).

## 1. Inventory

| component | state | operations | module |
|---|---|---|---|
| region tree (`src/src/libxylem.c`) | `region_hd`, per region prefix length, child list, claim gate; `mod_hd` keys; current region | claim during `xy_load`, `xy_require_claim`, `xy_with_region`, `xy_region_each` | `RegionTree` |
| dispatch tables (`src/src/libxylem-dispatch.c`, `libxylem.c`) | per region: module vector with dirty flag, listener vectors with generation; per module: symbol cache, implementation bits; denies | `xy_areg`, `xy_deny`, `xy_call`, and the list operations of the loader | `Dispatch`, `HookBus`, `Subtrees` |
| module lifecycle (`src/src/libxylem-module.c`, `libxylem.c`) | module entries with reference count, loader and region; contexts inside the images; current region; `xy_loading_mod`, `xy_reloading` | `xy_load`, `xy_unload`, `xy_reload`, `xy_call` with its bodies, `xy_with_region` | `Lifecycle` |
| module watcher (`src/src/libxylem-watch.c`) | mutex, thread, inotify descriptor, self-pipe, watch set | `xy_watch_start/stop/add/remove`, the watcher thread | `Watch` |
| load transaction (`src/src/libxylem.c`, `libxylem-module.c`) | strings, entries, `dlopen` handles, region states and temporary files of a load in progress (`xy_load_txn_t`) and of an entry | every step of `_mod_load` with its failure, `mod_load_abort`, `module_free_entry`, `copy_to_tmp` | `LoadTxn` |
| calls on several threads (`libxylem-dispatch.c`) | the two vectors of a region while they are rebuilt; thread-local current region and results; the shared `xy.adapter` | `xy_call` step by step, `xy_last` | `Calls` |
| bootstrap and shutdown (`src/src/libxylem-runtime.c`) | creates and frees all of the above | `xy_shutdown` and the implicit bootstrap | `Calls`, `LoadTxn`, and one step in the first three |
| `xy_errno` and `xy_strerror`, header macros, Rust bindings, Windows shims | none that other parts rely on | | not modelled (section 7) |

**Interactions.** Everything but the watcher runs on the thread that calls the
API, and any thread may: the library takes no lock. The library calls foreign code in four places: a module's `xy_install`, hook
bodies, the function given to `xy_with_region` and the visitor given to
`xy_region_each`. All of these may call the API again, so operations interleave
by nesting. The lifecycle changes region lists; every change has to reach the
dispatch caches of every ancestor region (`region_mark_subtree_dirty`,
`region_dispatch_gen_bump`), which `xy_call` trusts after comparing two numbers.
The watcher adds real concurrency: a second thread that runs `xy_reload` while it
holds its mutex.

**What is hard.** Cache invalidation over a tree; nested calls that save and
restore a pair of thread-local values; unloads that cascade along loader links
while other code holds pointers; loads that fail after half of their effects;
ids of fixed width; stop, restart and file events on two threads; calls on
several threads that share vectors they rebuild in place. `PROJECT.json`
lists the hazards line by line with the properties aimed at each.

**What makes each part correct.**

* Region tree: ids nest inside their parent's prefix, child lists are complete,
  keys name one module, the current region is always a live one, an enumeration
  visits the children there were when it began, each once.
* Dispatch: a cached vector that would be used is exact; caching is invisible;
  a denied module or hook does not run in the region that denied it.
* Lifecycle: lists and entries agree; nothing freed is read; a module's code runs
  in its own region; every listener runs once; an unload takes along what nobody
  else holds and no more; a reload keeps the module's place.
* Load transaction: whatever fails, each thing a load acquires has one owner and is
  given back at most once, what is lost is known, and nothing half loaded can be
  found.
* Calls on several threads: each runs its listeners once, reads nothing freed,
  and `xy_last` tells a thread of its own call.
* Watcher: watches and set agree, also when the kernel ends a watch, no descriptor
  leaks, a stop returns and leaves
  nothing running, a rewritten file is reloaded.

## 2. Modules

* `RegionTree`, `MCRegionTree`: the tree with ids of `W` bits. `LoadReuse`,
  `LoadRefused`, `LoadPlain`, `LoadClaimed` are the outcomes of `xy_load` here;
  `WithRegion`, `EachBegin/EachNext/EachBreak`, `RequireClaim`, `Return`,
  `Shutdown` the other calls. A frame is foreign code that is running.
* `Subtrees`: the depth-first walk and the filter that keeps its order, as recursive
  functions, and the unlinking of a list element; shared by the modules that need
  them.
* `Dispatch`, `MCDispatch`: the caches. One action per operation on the tables:
  `Claim`, `Add` (list append in a load), `AddAborted` (append undone), `Drop`
  (unload), `Move` (a reload's re-insertion), `xy_areg`, `DenyHook`,
  `DenyModule`, `CallRefused`, `CallDispatched`, `Shutdown`.
  `CallDispatched` does what `xy_call` does up to the callbacks: rebuild the
  module vector if dirty, rebuild the listener vector if its generation is old,
  and record in `last` which slots have a callback.
* `HookBus`: the abstract specification, a bus without caches, dirty flags,
  generations or symbol tables. A call runs what the lists say at that moment.
* `Lifecycle`, `MCLifecycle`: entries are memory cells, so that freeing and reuse
  of an address can be expressed; a pointer to a freed cell becomes `Dangling`
  wherever the code keeps it (loader links excepted: they are compared, never
  followed, and keep the address). Each step is what the library does between two
  pieces of foreign code; `LoadBegin`/`InstallReturn`, `Call`/`BodyReturn`,
  `WithRegion`/`ScopeReturn` are the two ends of such pieces. `xy_reload` is
  `ReloadBegin`, `ReloadShared` (its image could not be copied) or `ReloadLost`
  (its load failed), and ends in `InstallReturn`, which re-inserts the entry.
* `LoadTxn`, `MCLoadTxn`: an account of what loads acquire. `live` is the set of things that
  are allocated, open or on disk, each named by kind and load; a transaction has
  the set `ptr` of pointers that own something, as `xy_load_txn_t` has fields. The
  steps of `_mod_load` are `xy_load`, then for a reload `CopyBegin`, `CopyMissed`,
  `CopyFailed`, `CopyDone`, `CopyUnnamed` (no memory for the copy's name), `CopyGivenUp`
  (`copy_to_tmp` and `copy_one`), then `Open` or `OpenFailed`, `Reuse` or `Name`,
  `Alloc`, `Publish`, `Bind`, `Enlist`, `Install`, `InstallReturn`; `Abort` is `mod_load_abort` from each place that has a
  `goto fail`. `xy_unload` (with its cascade), `xy_reload` and nested `xy_load`s come
  from the host or from a running `xy_install`; `Shutdown` from the host. Numbers of
  loads are used again once nothing is named after them, so behaviours do not end.
  The name of a load (`stable_fname`) is the transaction's until `xy_install` has
  returned; from then on only the context of the image points to it. `kept` has the
  libraries whose own context, which every direct load binds again, has such a name;
  that of a private copy goes with its entry. `lost` records what no pointer leads
  to any more: a name whose context is bound again, freed or was never there, and a
  copy without a name.
* `Calls`, `MCCalls`: threads in `xy_call`. A call goes through `Begin`, `CollectBegin`
  and `Collect` (a dirty `subtree_mods`, one push at a time), `Table` (the hook
  record and the comparison of generations), `Fill` (one module at a time), `Read`
  (slots and count become local variables) and one `BodyReturn` per body, during
  which the thread may call again; `OutOfMemory` ends it at any place that calls
  `realloc`. `Faulty` says that a thread's next step goes through memory that is
  gone: the region entry, the table of hook records, the array of slots or a
  module entry. `Boot` and `xy_shutdown` set the thread-local pointer of the calling
  thread only. `Discipline` is what the host keeps to (section 3).
* `Watch`: callers, worker threads and the kernel's inotify instances. A call
  that holds `g_mu` from beginning to end is one step; `xy_watch_stop` is three
  (`StopBegin`, `StopJoin`, `StopClose`), because it releases the lock to join,
  and the watcher's loop is five (`Arm`, `Wake`, `Event`, `ReloadBegin`,
  `ReloadEnd`), with `EventDropped` for the event whose name cannot be copied. The
  watcher reads the descriptors without the lock, so `Arm` and `Wake` each read the
  globals of their own moment. `Rewrite` and `Replace` are what happens to files, and
  `OldFileGone` is the kernel ending the watch of a replaced file once nothing has it
  open or mapped: the watcher skips the event that says so (`IN_IGNORED`, line 186),
  so the entry keeps the number.

* `SeqLemmas`: what the operators of the models do to sequences, lists and walks,
  for every input. `DispatchProofs`, `BusProofs` (`Dispatch` and its refinement of
  `HookBus`), `RegionTreeProofs`, `LifecycleProofs`, `WatchProofs`, `CallsProofs` and
  `LoadTxnProofs`: the theorems about the module each is named after (section 4).

Definitions that are preceded by "Mutated form" are wrong on purpose: each is a
plausible bug of the definition behind it, used to show that a property would
notice (`mutants` in `PROJECT.json`). No specification uses them.

**Abstractions.** Paths, hooks, cells and regions are model values or small sets.
Allocation failure is in `Calls` and `LoadTxn` only. `Dispatch` takes claims and list appends as
separate operations, since other operations on the tables can come in between
(through claim handlers and `xy_install`). `Move` and `AddAborted` count the two
generation bumps of their code as one: nothing reads the number in between.
`Lifecycle` writes the listener slots on every call although the code skips this
when the vector is current; by `VectorExact` the slots would be the same.
Claim handlers and `xy_region_cleanup` callbacks are taken to make no API calls.
`xy_with_region` to the region that is current anyway is a nested scope without
effect and is left out. `mod_by_region_hd` is written and never read for a
decision, and is not modelled. In `Lifecycle` slots hold at most eight listeners,
the capacity the code starts with, and are rewritten in place; `Calls` starts with
a capacity of one, and an array that grows always moves. `Calls` has one region
and takes the symbol caches to be filled when a module is loaded, as
`fn_cache_prewarm` does. `LoadTxn` has one region, so claims are a step that
succeeds or fails; its list is a set, since order is `Lifecycle`'s subject. Interned
paths are kept for good and leave the account. Constructors that `dlopen` runs are
taken to make no API calls but `xy_self_init_ctx`, and the main program, which
`dlopen(NULL)` opens, to export no `xy_install`, context or region state. In `Watch` an
inotify queue does not overflow.

## 3. Runs

Passing runs:

| run | instance | distinct states | what it shows |
|---|---|---|---|
| `RegionTree` | 3-bit ids, claims of 0, 1, 2 bits and grants of 1, 2, 4, up to 4 regions, 2 nested calls | 562,000 | tree shape, nesting of prefixes, keys, live context, enumerations visit what was there once, regions are never altered by later claims |
| `Dispatch` | 3 regions (both tree shapes), 3 modules, one that takes no hook, 1 hook, 3 mutations between shutdowns | 229,000 | cache exactness, the inductive invariant of the proof, own denies, and that `Dispatch` implements `HookBus` |
| `Lifecycle` | 2 regions, 3 cells, 5 loadable libraries (3 plain, one claims, one hands over no context) and one without `xy_install`, 2 references each, 3 levels of foreign code; two kinds of states (below) | 262,000 | lists, contexts, memory, order of reloads, listeners, cascades over regions, and that cascades with shared references take exactly what they should |
| `Calls` | 2 threads, 2 hooks, 2 libraries of which one takes one hook, calls nested twice, 4 loads and unloads, 2 bootstraps, 1 failed allocation | 1,186,000 | trusted vectors are exact at every moment, listeners, memory, `xy_last` |
| `LoadTxn` | 2 libraries, one with a region state, one without a context, 2 references, 2 nested loads, 3 directories, two bounds (below) | 936,000 | each thing has one owner, no double free, what is lost, lookups find what is whole, loads are all or nothing |
| `Watch` | 2 callers, 3 names for 2 places, 6 effective calls, 2 file changes | 110,000 | descriptors, watches, quiet after stop, and the two liveness properties |

Violation runs; each is a disagreement between code and documentation that came
up while modelling, and each property quotes the line it takes at its word:

| run | property | what happens |
|---|---|---|
| `SharedImage` | `EveryListenerRuns` | unloading one of two instances of a library clears the other's cached callback but not its implementation bit; the slot is rebuilt with NULL and skipped |
| `OwnDeny` | `OwnRegionNotDenied` | a region denies a hook and calls it: refused with `XY_ERR_EPERM`, where `xy.h:373` says that a module's own region is never blocked by its own deny (`src/README.md:287` says the opposite of the header; the passing run `Dispatch` has that side as `OwnDenyEnforced`) |
| `ColdCalls` | `EachListenerOnce` | two threads call a hook whose vector is stale; one sets its count to zero after the other has filled it and before it reads it, so that a call finds no listener |
| `UnloadInCall` | `NoUseAfterFree` | a hook body unloads a listener behind it; the loop reads the freed entry |
| `RecycledParent` | `HostHoldsStay` | a module that outlives its loader keeps the freed address as its loader link; once that address is reused, unloading the new module takes it along |
| `WatchRestart` | `StopReturns` | a start between the unlock and the join of a stop replaces the pipe; the old thread never sees the stop byte |

**Bounds.** The interesting cases need few objects: a stale cache needs an
ancestor, a descendant and a sibling (three regions) and two modules whose order
can be wrong; a cascade needs three levels; a dangling predecessor needs two
modules beside the one reloaded. `MaxGen = 4` leaves room for three mutations
between two calls in `Dispatch`; the theorems hold for any bound. `RegionTree`
stops handlers at `MaxPlen = 2 < W`: at full width, and in the last hex digit, the
code does something else than the properties say (section 6). `Lifecycle`
has two kinds of states, told apart by `MCBound`, the `CONSTRAINT` of its run: all kinds
of libraries, claimed regions and calls, with one reference to each entry, at most one
plain library and, while a region has a gate, two pieces of foreign code; and plain libraries alone in the root, without a gate, with two
references and nested installs, so that children are shared and cascades are three
levels deep. A state of neither kind is checked and not gone on from. The `MCBound` of
`LoadTxn` stops at two places where what follows is explored elsewhere: after the
load that lost a copy without a name, which fails and leaves the state it began in,
and at an entry whose copy is in the last of the three directories, which differs
from another copy by a number. The theorems have no such bounds. The switches `MultiRegion`, `LoadDuringCall`, `UnloadFrom`, `Recycle`
(`Lifecycle`), `SharedImages` (`Dispatch`) and `Overlap` (`Watch`) restrict what
foreign code or the allocator does; the passing runs have them off, which is the
discipline under which the library works, and the violation runs turn them on
and show what the discipline is for.

The library has no lock around `xy_call`, so `Calls` says which use of it by several
threads is safe. `Discipline` is a subset of three rules: a call that rebuilds runs
while no other thread is in `xy_call` ("warm"); modules come and go while nobody is
in `xy_call` ("exclusive"); the thread that started the runtime shuts it down, when
nobody is in `xy_call` ("owner"). The run `Calls` has all three, `ColdCalls` all but
the first. Without "exclusive" (a load in a hook body, or the watcher's reload) or
without "owner" (another thread keeps its pointer to the root region) TLC finds
`NoFreedRead` violated within a few steps. All hooks have results of one size in
`Calls` (`Wide`): with two sizes `LastIsOwn` fails (section 6). `InitCap = 1` and
`TabRoom = 1`, where the code has 8 and 16, make arrays grow and tables move with two
modules and two hooks. Symmetry over cells and interchangeable
paths is used in `Lifecycle`'s runs and over threads in those of `Calls`, all of
which check invariants only.

**Deadlock** is checked everywhere except in `Watch`, where the bounded number of
calls and file changes ends every behaviour in a quiet state.

**Fairness** is assumed in `Watch` only: weak fairness of each watcher thread's
steps and of each stop that has begun. The scheduler runs threads that can run,
and `xy_install` is taken to return. A waiter on `g_mu` is not starved because the
lock is taken a bounded number of times in an instance; POSIX does not promise
more. Nothing makes a thread call the API or a file change. The other modules
state no liveness: their operations are sequential and end when foreign code
does.

## 4. Proofs

Every theorem below is proved for any sets of regions, modules, paths, hooks,
threads and callers, and for any value of the bounds. What is assumed is the named
`ASSUME` of the model, and the switch a theorem names: a switch is a rule the host
keeps, and the violation runs show what happens without it.

| module | theorems | assumed besides the model's `ASSUME` |
|---|---|---|
| `DispatchProofs` | `ConsistentAlways`, `TypeCorrect`, `SubtreeCacheCorrect`, `VectorCacheCorrect`, `OwnModuleDenyHonoured` | nothing |
| `BusProofs` | `MapAlwaysMatchesLists`, `WalkVisitsOnce`, `OwnDenyAlwaysEnforced` | nothing |
| `BusProofs` | `EveryListenerRunsUnshared`, `DispatchRefinesHookBus` | `~SharedImages` |
| `RegionTreeProofs` | `TreeAlways`, `TypeCorrect`, `TreeShapeAlways`, `AncestorChainAlwaysFits`, `ContextAlwaysLive`, `EachAlwaysVisitsSnapshot`, `RegionsAlwaysPersist`, `RegularAlways`, `PrefixesAlwaysNest`, `AncestorsAlwaysPass` | nothing |
| `RegionTreeProofs` | `ChildAlwaysInsideParent` | `MaxPlen < W` |
| `RegionTreeProofs` | `KeysAlwaysNameRegions` | `MaxPlen + KeyDrop <= W` |
| `LifecycleProofs` | `SoundAlways`, `TypeCorrect`, `ListsAlwaysMatch`, `CascadesComplete`, `ReloadAlwaysKeepsPosition` | nothing |
| `LifecycleProofs` | `PlacedAlways`, `ContextAlwaysPaired`, `AlwaysInOwnRegion` | `~MultiRegion` |
| `LifecycleProofs` | `HostHoldsAlways` | `UnloadFrom = {}`, `~Recycle` |
| `LifecycleProofs` | `EveryListenerAlwaysOnce` | `UnloadFrom = {}`, `~LoadDuringCall` |
| `LifecycleProofs` | `NeverUsedAfterFree` | `UnloadFrom = {}`, `~Recycle`, `~MultiRegion` |
| `WatchProofs` | `WatcherAlways`, `WatchTypeCorrect`, `DescriptorsAlwaysOwned`, `WatchesAlwaysMatchEntries`, `AlwaysQuietWhenStopped` | `~Overlap` |
| `CallsProofs` | `CallsAlways`, `CallsTypeCorrect`, `TrustedVectorsAlwaysExact`, `ListenersAlwaysOnce`, `NeverFreedRead` | `Discipline = Rules` |
| `CallsProofs` | `LastAlwaysOwn` | `Discipline = Rules`, and results of one size |
| `LoadTxnProofs` | `TxnAlways`, `TxnTypeCorrect`, `AlwaysHeldOnce`, `LookupAlwaysFindsLive`, `LoadsAllOrNothing` | nothing |

**`SeqLemmas`** holds the inductions the other proofs cite. An induction is stated
over a set of naturals (`SetInduction`, from the least element of a set), and that
a recursive function is defined at all comes from `PrimitiveRecursion` or from a
solution built step by step (`OnlyDefined`, `FlattenDefined`, `WalkSolvable`). The
facts: what `Only`, `RemoveAt`, `InsertAt`, `Unlinked`, `Append` and concatenation
keep and hold, and that the depth-first walk of a finite forest whose lists are
apart visits every element of a subtree once (`WalkFacts`).

**Dispatch.** `VectorExact` alone is not inductive. A vector with an old generation
could become current again if generations were ever lower than a vector's
(`VectorNotAhead`, with generations that skip zero, the mark of a vector never
built); a list change below a region must be seen by it, so every live region must
reach all of its ancestors (`AncestorsClosed`); a rebuild takes its modules from
`subtree_mods`, so that cache must be exact when it is not dirty
(`SubtreeCacheExact`); it takes implementation bits at their word
(`SymbolCacheHonest`); and a region entry that is claimed must begin blank
(`UnusedBlank`). `TablesConsistent` is the conjunction; TLC checks it as an invariant
of the run `Dispatch`. The argument: `ListStep` is what every change of a region list
has in common (it marks and bumps exactly the ancestors). `CollectUnchanged` says
that the walk of a region depends only on the lists of its subtree, hence is the
same for every region that is not an ancestor; `ListStepCaches` concludes that
caches outside stay exact and inside are not trusted. Each list action is a
`ListStep` with a few facts of its own; `CallDispatchedStep` shows that a rebuild
makes exact what it stores.

**The bus.** `BusConsistent` adds that lists and map agree, that the tree is a
finite forest, that a region with denies is flagged, that a current vector holds no
blocked module, and that (for unshared images) an entry with an implementation bit has its
callback. With it, every step
of `Dispatch` maps to a step of `HookBus` or to a stutter: a call to the bus's call,
since what it runs is the walk of the lists at that moment, filtered.

**Region tree.** `TreeConsistent` relates the parent pointers with the child lists
as sequences of siblings, with depth and prefix length (so chains are bounded by the
width), and with the frames: what an enumeration has seen and what is still behind
its place make up the list it began with. That following `sibling_next` ends needs a
numbering of the regions by creation (`Numbered`): pointers lead to older regions
only. A claim relinks two pointers; the proof shows that it puts one region at the
head of one list and leaves every other list alone.

The ids are what `Regular` adds. An id is its prefix followed by zeros, a multiple of
`pow2[W - plen]` (`IdsAligned`), and below full width it begins with its parent's
prefix (`PrefixesNest`, `PrefixesAlwaysNest`). The slot search builds an id with a
bitwise or; that this is a sum when the bits are disjoint is shown bit by bit from the
recursive function (`BitOrUnfolds`, `OrIsSum`), and what a mask keeps of a sum is
division (`MaskedTwice`, `DivModUnique`). `ChildAlwaysInsideParent` is `PrefixesNest`
where no prefix uses up the id. Masks compose, so prefixes nest along whole chains and
the documented ancestry test never misses an ancestor (`AncestorsAlwaysPass`). Two
aligned ids differ above the digit `mod_key` drops if prefixes end above it
(`KeysApart`), and a load that is re-keyed to a claimed region takes its key along
(`KeysAlwaysNameRegions`). The two conditions are bounds on what claim handlers
grant: with 64 bits, prefixes of at most 63 and of at most 60 bits; section 6 says what
the code does beyond.

**Lifecycle.** The invariant comes in layers, each proved from the ones before it,
with as few switches as it needs.

* `Sound` needs none. The regions are a finite tree; an entry is in a live region
  and on that region's list, once; its image is its library or a copy of its own;
  a frame that names a module names one that is there, or nothing; the slots a
  call still has to run are there; `xy_loading_mod` is a module whose `xy_install`
  runs. An operation frees and adds entries, and a reload does both, so the
  parts are stated of any heap and the state between the two halves of a reload
  has them too. `DoomedFacts` is what a cascade is: the least set with the entry
  unloaded and every visible module that only its members hold.
* `ReloadsNest` needs none either. An `xy_install` may unload what its reload
  remembers and reload other modules, or the same one, of the region the outer
  reload will put its module into. So what a reload in progress knows is stated
  by order alone (`Placing`): up to the entry it remembers are all that were before
  the old module, none that were behind it, and not the module. Two reloads of a
  region are layered (`Layered`): what the outer one knows of is never the module of
  the inner one, and if both reload the same library the inner one puts it behind
  what the outer one remembers. A module that moves so passes no entry that a reload
  further out tells apart (`PlacingMoved`, `LayeredMoved`).
* `Placed` (`~MultiRegion`): the context in an entry's image is bound to that entry,
  and the context that each piece of foreign code returns to is the one of the code
  below it.
* `HeldFits` (`UnloadFrom = {}`, `~Recycle`): the loads of the host and the one of a
  loader that is still there are counted apart in `refs`, so a cascade never drops
  one of the host's. A recycled address would make a loader out of a stranger.
* `CallsFit` (`UnloadFrom = {}`, `~LoadDuringCall`): a call in progress walks the
  listeners there are now, and has run those before its place.
* `Steady` (`UnloadFrom = {}`, `~Recycle`, `~MultiRegion`): there are ranks that put a
  loader before what it loads and every list in order (`Ordered`), so what a reload
  frees with its module is behind it and the remembered predecessor stays; a reload
  in progress knows a place with all that was before on one side and all that was
  behind on the other (`ReloadsFit`); slots are kept for calls only and hold nothing
  freed (`SlotsInUse`). When a reload moves its module up, every rank is doubled to
  make room for the new one (`OrderedMoved`).

`NeverUsedAfterFree` does not need `~LoadDuringCall`: a load in a body can make a
call miss a listener, never read a freed one.

**Watcher.** `WatchConsistent` adds to the properties who may be where: one stop at a
time, and none while the watcher runs (`StopsExclusive`); the only thread is the one
created last, and the mutex is held across steps only by a thread that runs an
`xy_install` (`ThreadOwned`); names are in the set once (`NamesDistinct`); every watch
of the open instance has an entry, an entry's number is a watch on its file or on
the one that was replaced, or was one that has ended, and numbers to come are free
(`WatchesPaired`). That the kernel never gives a number twice is what makes the
numbers entries keep harmless: removing such an entry hands `inotify_rm_watch` a
number that is no watch.

**Calls.** The invariant `CallsConsistent` is about all threads: while
`subtree_mods` is dirty no vector is current; a call that rebuilds is alone, and has
filled a prefix of the listeners; every frame below the innermost of a thread is in
a body and walks a current vector; a hook record that a call points to is in the
table; a call in progress keeps `xy.adapter` set. Each rule is used where it is
needed: "warm" for the lone rebuild, "exclusive" so that lists do not change under a
body, "owner" so that no pointer to the root region outlives it.

**Load transactions.** The invariant `Fits` takes a state of the account and a
stack of loads. It says what the pointers of a transaction are and what it has in
hand at each place of `_mod_load`; that only the innermost load can be outside
`xy_install`; that the things allocated are, apart, those of the entries and those
in hand of the loads; and that the world the innermost load found is the present
one less its own things, which is what makes an abort all or nothing. A name is an
exception to all or nothing: what the context had before the load is gone, so the
worlds compared do not have the names that contexts keep (`kept`). `ContextsNamed`
adds that an entry with a context has a name, its copy's or the library's own: a
load binds the library's context again only if no entry of it is there, since the
map would have found it. A cascading
unload needs an argument of its own: `Doomed` is computed in as many rounds as there
are libraries, and `ChainStops` with `EntriesBounded` show by counting that it is
closed by then, so that no entry that stays loses its last reference.

**Only model-checked.** Liveness under fairness (`StopReturns`, `UpdateReloaded`), which
this prover does not do. Every safety property of a passing run has a theorem. The
counterexamples of the violation runs are TLC's.

## 5. Reading a mutant

Each property has one mutant, for instance `BumpOnly` (a bump that leaves out the
ancestors) for `VectorExact`, `PredecessorItself` (a reload that remembers the
entry it is about to free) for `NoUseAfterFree`, `WakeBlindToPipe` (the watcher
tests the pipe too late) for `StopReturns`, `AllocKeepingTmp` (entry and transaction
both own the temporary file) for `EachHeldOnce`, `OpenedStamped` (the generation is
stored before the slots are) for `EachListenerOnce`. Replacing the definition by its mutant
makes TLC report the property as violated.

## 6. Disagreements without a run

Met while modelling; the models do what the code does.

* Slot 0 under a parent is the parent's own id, so a claim of `b` bits has room for
  `2^b - 1` children (`src/docs/api.md:206` says `2^bits`).
* Children of different widths are allocated without regard to each other's
  prefixes, so the documented ancestry test (`src/docs/api.md:197`,
  `src/src/papi.h:39`) can take a sibling for an ancestor.
* With a prefix of all 64 bits the slot search (`src/src/libxylem.c:1213-1228`) runs
  past the parent's slots.
* `mod_key` (`src/src/libxylem.c:384-398`) loses the last hex digit of the region id.
* `xy_region_each` visits the newest child first; `src/docs/api.md:143` and
  `src/include/ttypt/xy.h:420` say "in allocation order". `EachVisitsSnapshot` says
  nothing of the order; stated with it, two children are a counterexample.
* `src/README.md:287` says that a deny affects any call "dispatched from within the
  denying region (or any descendant)"; `xy_call` looks at denies only from a region
  that carries the flag (`src/src/libxylem-dispatch.c:252`), and a deny flags its
  region and the ancestors. With `OwnDenyEnforced` stated for descendants too, TLC
  finds the counterexample.
* A hook body that loads a module and calls the same hook again rewrites the slots
  the outer call walks (`src/src/libxylem-dispatch.c:177`): a listener runs twice or
  not at all. `Lifecycle` with `LoadDuringCall` violates `EveryListenerOnce`.
* Two instances of one image share one static context, and dispatch pairs the id of
  one region with the entry of the other (`src/src/libxylem-dispatch.c:303`;
  `src/src/libxylem.c:44`: "kept in sync"). `Lifecycle` with `MultiRegion` and two
  claiming libraries violates `ContextPaired`.
* A load of such a library into a second region rebinds the shared context; if the
  load is then refused or fails, the abort frees the name the context points to
  (`src/src/libxylem.c:1064`), and a later cascade of the entry that is still there
  reads it. `Lifecycle` with `MultiRegion` and a claiming library violates
  `NoUseAfterFree`, so `NeverUsedAfterFree` cannot do without `~MultiRegion`.
* `xy_last` copies as many bytes as the return type of the hook called last by
  anyone has (`src/src/libxylem-dispatch.c:19`), from the result of this thread.
* `copy_one` does not look at what `strdup` returned (`src/src/libxylem.c:863`): without
  memory the copy succeeds with no name, `dlopen(NULL)` opens the program itself, the
  load fails and the temporary file stays (`CopyUnnamed`; "file" in `lost`).
* The name of a load is never freed once its `xy_install` has run: the next load that
  binds the image overwrites it (`src/src/libxylem.c:1064`), a copy's goes with its
  image, and an image without a context never had it ("name" in `lost`).
* An aborted load does not take back the increment of `xy_mod_count`
  (`src/src/libxylem-module.c:90`); nothing reads that counter.
* The loader link is set by loads from an `xy_install` only (`src/src/papi.h:138`).
* A parent is appended before its `xy_install` runs, so it precedes the children it
  loads (`src/tests/test_unload.c:184` describes the other order).
* A reload whose `xy_install` unloads the entry that preceded the module re-inserts
  behind a freed entry (`src/src/libxylem-module.c:255`).
* The watcher watches files, not directories, so it never sees a library being
  replaced by a rename, the case `src/src/libxylem-watch.c:17` names.
* An `xy_install` that calls `xy_watch_add` during a reload by the watcher waits for
  a mutex its own thread holds (`src/src/libxylem-watch.c:211`).

## 7. Not modelled

`xy_errno` and `xy_strerror` (a copy of the latest return value and a constant table);
two threads that bootstrap the runtime at once, and a bootstrap that fails (a
constructor of the library does it before there are threads); the contents of
copied files; a crash between two steps, since nothing that outlives the process
is read again; the macros of the headers and the Rust bindings (wrappers and
generated code without state of their own); the Windows shims; examples and tests.

## 8. Plan

Done: the component models, the abstract bus and its refinement, calls on several
threads, the account of load transactions, and the proofs of section 4. No safety
property of a run is without a theorem. What the theorems still assume beyond the
`ASSUME`s are rules the host keeps; the violation runs and section 6 show what each of
them excludes.
