------------------------------- MODULE Calls --------------------------------
(***************************************************************************)
(* Several threads in xy_call: the rebuild of the two vectors split into   *)
(* the steps another thread can see, allocation that fails, nested calls   *)
(* from hook bodies, the thread-local results that xy_last reads, and the  *)
(* bootstrap and shutdown of the runtime with its thread-local pointer.    *)
(*                                                                         *)
(* There is one region, the root: trees and denies are in Dispatch, nested *)
(* loads and changes of region in Lifecycle. Memory is not reused: an      *)
(* entry is a module with the number of its load, a region entry is the    *)
(* number of its bootstrap, and an array that realloc grows counts as      *)
(* moved, so it is told apart from its older self by its capacity.         *)
(***************************************************************************)
EXTENDS Subtrees

CONSTANTS
  Threads,
  Hooks,       \* hook ids, 0 .. n
  Mods,        \* libraries
  Deaf,        \* <<library, hook>>: the library does not export the hook
  Wide,        \* hooks with a large return type
  InitCap,     \* capacity a vector starts with (8 in the code)
  TabRoom,     \* hook records allocated ahead of the one needed (16)
  Discipline,  \* what the host keeps to, a subset of Rules
  MaxNest,     \* bound: calls in progress on one thread
  MaxChanges,  \* bound: loads and unloads after one bootstrap
  MaxBoots,    \* bound: bootstraps
  MaxFails,    \* bound: failed allocations
  NULL

\* "warm": a call that rebuilds runs while no other thread is in xy_call.
\* "exclusive": modules come and go while nobody is in xy_call.
\* "owner": the thread that started the runtime shuts it down, when nobody is
\* in xy_call.
Rules == {"warm", "exclusive", "owner"}

ASSUME CallsAssumption ==
  /\ Hooks \subseteq Nat /\ Wide \subseteq Hooks /\ NULL \notin Hooks
  /\ Deaf \subseteq Mods \X Hooks
  /\ {InitCap, TabRoom, MaxNest, MaxBoots} \subseteq Nat \ {0}
  /\ {MaxChanges, MaxFails} \subseteq Nat
  /\ Discipline \subseteq Rules

VARIABLES
  root,     \* the root region's entry: number of its bootstrap, 0 if freed
  reg,      \* what the entry holds
  stack,    \* calls in progress on a thread, innermost last
  tls,      \* a thread's xy_current_region_entry, xy_last_ran, xy_last_retp
  adapter,  \* xy.adapter, shared by all threads
  boots, changes, fails,  \* counters behind the bounds
  res       \* history: how the thread's latest call ended

vars == <<root, reg, stack, tls, adapter, boots, changes, fails, res>>

-----------------------------------------------------------------------------
(* Data. *)

NoVector == [slots |-> <<>>, count |-> 0, cap |-> 0, gen |-> 0]

\* A region entry after calloc: its module list, generation, subtree_mods with
\* capacity and dirty flag, and the hook records with their number.
NewRegion ==
  [mods |-> <<>>, gen |-> 1, list |-> <<>>, lcap |-> 0, dirty |-> FALSE,
   tab |-> 0, vec |-> [h \in Hooks |-> NoVector]]

NewTls == [at |-> 0, ran |-> 0, ret |-> NULL]
NoResult == [h |-> NULL, end |-> "none", exact |-> TRUE]

Hears(e, h) == <<e[1], h>> \notin Deaf
Alive == ToSet(reg.mods)

\* The modules a call of h is to run, in this order.
Hearing(h) == {e \in Alive : Hears(e, h)}
Listeners(h) == Only(reg.mods, Hearing(h))

Current(h) == ~reg.dirty /\ reg.vec[h].gen = reg.gen

Grown(cap) == IF cap = 0 THEN InitCap ELSE 2 * cap

\* Writing x at position i of an array whose written part is s.
Put(s, i, x) == IF i <= Len(s) THEN [s EXCEPT ![i] = x] ELSE Append(s, x)

-----------------------------------------------------------------------------
(* Calls in progress. A call is at one of the places                       *)
(*   collect  pushing reg.mods[i+1] onto subtree_mods                      *)
(*   table    about to take the address of its hook record                 *)
(*   fill     looking at subtree_mods[i+1] for its vector                  *)
(*   read     about to read the vector's address and count                 *)
(*   body     in the body in slot i of n                                   *)

Busy(t) == stack[t] # <<>>
Top(t) == stack[t][Len(stack[t])]
At(t, pc) == Busy(t) /\ Top(t).pc = pc
Moved(t, f) == [stack EXCEPT ![t] = Append(Front(@), f)]

Rebuilding(t) == \E pc \in {"collect", "table", "fill"} : At(t, pc)
Others(t) == Threads \ {t}

\* The next step of t goes through memory that has been freed: the region
\* entry, the table of hook records, the array of slots, a module entry.
Faulty(t) ==
  /\ Busy(t)
  /\ LET f == Top(t)
         v == reg.vec[f.h]
         walks == (f.pc = "read" /\ v.count > 0) \/ (f.pc = "body" /\ f.i < f.n)
     IN  \/ f.at # root /\ (f.pc # "body" \/ walks)
         \/ f.pc \in {"fill", "read"} /\ f.tab # reg.tab
         \/ f.pc = "fill" /\ f.i < Len(reg.list) /\ reg.list[f.i + 1] \notin Alive
         \/ f.pc = "body" /\ walks /\ f.cap # v.cap
         \/ walks /\ v.slots[f.i + 1] \notin Alive

-----------------------------------------------------------------------------
(* The runtime. *)

Init ==
  /\ root = 0 /\ reg = NewRegion
  /\ stack = [t \in Threads |-> <<>>]
  /\ tls = [t \in Threads |-> NewTls]
  /\ adapter = NULL
  /\ boots = 0 /\ changes = 0 /\ fails = 0
  /\ res = [t \in Threads |-> NoResult]

\* xy_init, or the first API call that finds no runtime. The calling thread is
\* the one whose current region is set. The library's constructor does this
\* before there are threads; two at once are not modelled.
Boot(t) ==
  /\ root = 0 /\ ~Busy(t)
  /\ root' = boots + 1 /\ boots' = boots + 1
  /\ reg' = NewRegion
  /\ tls' = [tls EXCEPT ![t].at = root']
  /\ UNCHANGED <<stack, adapter, changes, fails, res>>

\* Mutated form of Torn: the current region of the thread stays.
TornKeepingRegion(t) == [tls EXCEPT ![t].ran = 0, ![t].ret = NULL]

\* The calling thread's locals after a teardown; no other thread's change.
Torn(t) == [tls EXCEPT ![t] = NewTls]

xy_shutdown(t) ==
  /\ root # 0 /\ boots < MaxBoots
  /\ "owner" \in Discipline => tls[t].at = root /\ \A u \in Threads : ~Busy(u)
  /\ root' = 0 /\ reg' = NewRegion
  /\ tls' = Torn(t)
  /\ adapter' = NULL /\ changes' = 0
  /\ res' = [u \in Threads |-> NoResult]
  /\ UNCHANGED <<stack, boots, fails>>

\* What every change of a module list does to the region's caches.
Changed(mods) == [reg EXCEPT !.mods = mods, !.gen = @ + 1, !.dirty = TRUE]

MayChange ==
  /\ root # 0 /\ changes < MaxChanges
  /\ "exclusive" \in Discipline => \A t \in Threads : ~Busy(t)

\* xy_load of m; that a loaded module is only counted is in Lifecycle.
Load(m) ==
  /\ MayChange /\ \A e \in Alive : e[1] # m
  /\ reg' = Changed(Append(reg.mods, <<m, changes>>))
  /\ changes' = changes + 1
  /\ UNCHANGED <<root, stack, tls, adapter, boots, fails, res>>

\* xy_unload, or the first half of an xy_reload, such as the watcher's.
Unload(e) ==
  /\ MayChange
  /\ reg' = Changed(Unlinked(reg.mods, e))
  /\ changes' = changes + 1
  /\ UNCHANGED <<root, stack, tls, adapter, boots, fails, res>>

-----------------------------------------------------------------------------
(* xy_call. *)

MayCall(t, h) ==
  /\ root # 0
  /\ Busy(t) => At(t, "body") /\ Len(stack[t]) < MaxNest
  /\ "warm" \in Discipline =>
       \/ \A u \in Others(t) : ~Busy(u)
       \/ Current(h) /\ \A u \in Others(t) : ~Rebuilding(u)

\* A thread without a current region looks the root up and keeps no pointer.
Begin(t, h) ==
  /\ MayCall(t, h)
  /\ stack' = [stack EXCEPT ![t] = Append(@,
       [h |-> h, pc |-> "table", at |-> IF tls[t].at = 0 THEN root ELSE tls[t].at,
        i |-> 0, n |-> 0, cap |-> 0, tab |-> 0, want |-> Listeners(h), seen |-> <<>>])]
  /\ tls' = [tls EXCEPT ![t].ran = 0, ![t].ret = h]
  /\ adapter' = h
  /\ res' = [res EXCEPT ![t] = NoResult]
  /\ UNCHANGED <<root, reg, boots, changes, fails>>

\* A dirty subtree_mods is emptied and collected again.
CollectBegin(t) ==
  /\ At(t, "table") /\ ~Faulty(t) /\ reg.dirty
  /\ reg' = [reg EXCEPT !.list = <<>>]
  /\ stack' = Moved(t, [Top(t) EXCEPT !.pc = "collect", !.i = 0])
  /\ UNCHANGED <<root, tls, adapter, boots, changes, fails, res>>

\* Mutated form of Collect: the vector is clean as soon as it is non-empty.
CollectCleanEarly(t) ==
  /\ At(t, "collect") /\ ~Faulty(t)
  /\ LET f == Top(t)
     IN  IF f.i < Len(reg.mods)
         THEN /\ reg' = [reg EXCEPT !.list = Append(@, reg.mods[f.i + 1]), !.dirty = FALSE,
                            !.lcap = IF Len(reg.list) >= @ THEN Grown(@) ELSE @]
              /\ stack' = Moved(t, [f EXCEPT !.i = @ + 1])
         ELSE /\ reg' = [reg EXCEPT !.dirty = FALSE]
              /\ stack' = Moved(t, [f EXCEPT !.pc = "table"])
  /\ UNCHANGED <<root, tls, adapter, boots, changes, fails, res>>

\* region_subtree_mods_push of one module, or the end of the list.
Collect(t) ==
  /\ At(t, "collect") /\ ~Faulty(t)
  /\ LET f == Top(t)
     IN  IF f.i < Len(reg.mods)
         THEN /\ reg' = [reg EXCEPT !.list = Append(@, reg.mods[f.i + 1]),
                            !.lcap = IF Len(reg.list) >= @ THEN Grown(@) ELSE @]
              /\ stack' = Moved(t, [f EXCEPT !.i = @ + 1])
         ELSE /\ reg' = [reg EXCEPT !.dirty = FALSE]
              /\ stack' = Moved(t, [f EXCEPT !.pc = "table"])
  /\ UNCHANGED <<root, tls, adapter, boots, changes, fails, res>>

\* Mutated form of Opened: the generation is stored before the slots are.
OpenedStamped(v) == [v EXCEPT !.count = 0, !.gen = reg.gen]

\* A vector whose rebuild begins.
Opened(v) == [v EXCEPT !.count = 0]

\* The hook record is made if there is none, its address taken, and its
\* generation compared with the region's.
Table(t) ==
  /\ At(t, "table") /\ ~Faulty(t) /\ ~reg.dirty
  /\ LET f == Top(t)
         tab == IF f.h >= reg.tab THEN f.h + TabRoom ELSE reg.tab
         fresh == reg.vec[f.h].gen = reg.gen
     IN  /\ stack' = Moved(t, [f EXCEPT !.pc = IF fresh THEN "read" ELSE "fill",
                                        !.tab = tab, !.i = 0])
         /\ reg' = [reg EXCEPT !.tab = tab,
                               !.vec[f.h] = IF fresh THEN @ ELSE Opened(@)]
  /\ UNCHANGED <<root, tls, adapter, boots, changes, fails, res>>

\* Mutated form of Stored: the capacity is not looked at.
StoredUnchecked(v, e) ==
  [v EXCEPT !.slots = Put(@, v.count + 1, e), !.count = @ + 1]

\* Vector v with e in its next slot.
Stored(v, e) ==
  [v EXCEPT !.slots = Put(@, v.count + 1, e), !.count = @ + 1,
            !.cap = IF v.count >= @ THEN Grown(@) ELSE @]

\* One module is considered for the vector, or the vector is complete.
Fill(t) ==
  /\ At(t, "fill") /\ ~Faulty(t)
  /\ LET f == Top(t)
         e == reg.list[f.i + 1]
     IN  IF f.i < Len(reg.list)
         THEN /\ reg' = IF Hears(e, f.h) THEN [reg EXCEPT !.vec[f.h] = Stored(@, e)] ELSE reg
              /\ stack' = Moved(t, [f EXCEPT !.i = @ + 1])
         ELSE /\ reg' = [reg EXCEPT !.vec[f.h].gen = reg.gen]
              /\ stack' = Moved(t, [f EXCEPT !.pc = "read", !.i = 0])
  /\ UNCHANGED <<root, tls, adapter, boots, changes, fails, res>>

\* Mutated form of Kept: the result of the latest nested call stays.
KeptFromNested(t, ran) == [tls EXCEPT ![t].ran = ran]

\* xy_last_ran and xy_set_last_ret at the end of a call.
Kept(t, ran) == [tls EXCEPT ![t].ran = ran, ![t].ret = IF ran > 0 THEN Top(t).h ELSE NULL]

\* The call on top of t returns to its caller after ran bodies.
Ended(t, ran, end) ==
  /\ stack' = [stack EXCEPT ![t] = Front(@)]
  /\ tls' = Kept(t, ran)
  /\ res' = [res EXCEPT ![t] = [h |-> Top(t).h, end |-> end,
                                exact |-> Top(t).seen = Top(t).want]]

\* The body in the next slot of vector v, which f walks, runs.
Entered(t, f, v) ==
  stack' = Moved(t, [f EXCEPT !.pc = "body", !.i = @ + 1,
                              !.seen = Append(@, v.slots[f.i + 1])])

\* Address and count of the vector become local variables; an empty one ends
\* the call, another one has its first body run.
Read(t) ==
  /\ At(t, "read") /\ ~Faulty(t)
  /\ LET f == Top(t)
         v == reg.vec[f.h]
     IN  IF v.count = 0
         THEN Ended(t, 0, "notfound")
         ELSE /\ Entered(t, [f EXCEPT !.n = v.count, !.cap = v.cap], v)
              /\ UNCHANGED <<tls, res>>
  /\ UNCHANGED <<root, reg, adapter, boots, changes, fails>>

\* A body returns: the next slot is run from memory as it is now, or the call
\* ends.
BodyReturn(t) ==
  /\ At(t, "body") /\ ~Faulty(t)
  /\ LET f == Top(t)
     IN  IF f.i < f.n
         THEN Entered(t, f, reg.vec[f.h]) /\ UNCHANGED <<tls, res>>
         ELSE Ended(t, f.n, "ok")
  /\ UNCHANGED <<root, reg, adapter, boots, changes, fails>>

\* Where a call needs memory: for a push, the hook records, a slot.
Allocates(t) ==
  LET f == Top(t)
      v == reg.vec[f.h]
  IN  \/ At(t, "collect") /\ f.i < Len(reg.mods) /\ Len(reg.list) >= reg.lcap
      \/ At(t, "table") /\ ~reg.dirty /\ f.h >= reg.tab
      \/ /\ At(t, "fill") /\ f.i < Len(reg.list)
         /\ Hears(reg.list[f.i + 1], f.h) /\ v.count >= v.cap

\* realloc fails and the call with it; what was written so far stays.
OutOfMemory(t) ==
  /\ Busy(t) /\ ~Faulty(t) /\ Allocates(t) /\ fails < MaxFails
  /\ Ended(t, 0, "failed")
  /\ adapter' = Top(t).h
  /\ fails' = fails + 1
  /\ UNCHANGED <<root, reg, boots, changes>>

Step(t) ==
  \/ CollectBegin(t) \/ Collect(t) \/ Table(t) \/ Fill(t) \/ Read(t)
  \/ BodyReturn(t) \/ OutOfMemory(t)

Next ==
  \/ \E t \in Threads : \/ Boot(t) \/ xy_shutdown(t) \/ Step(t)
                        \/ \E h \in Hooks : Begin(t, h)
  \/ \E m \in Mods : Load(m)
  \/ \E e \in Alive : Unload(e)

Spec == Init /\ [][Next]_vars

-----------------------------------------------------------------------------
(* What xy_last tells a thread: the status, and, if it is XY_OK, whose result
   the bytes are and how many are copied. The size is that of xy.adapter. *)

Size(h) == IF h \in Wide THEN 2 ELSE 1

xy_last(t) ==
  CASE adapter = NULL -> [err |-> "invalid"]
    [] adapter # NULL /\ tls[t].ran = 0 -> [err |-> "notfound"]
    [] OTHER -> [err |-> "ok", of |-> tls[t].ret, size |-> Size(adapter)]

-----------------------------------------------------------------------------
(* Properties. *)

\* Type invariant; no vector holds more than its array has room for.
TypeOK ==
  /\ {root, boots} \subseteq 0 .. MaxBoots
  /\ changes \in 0 .. MaxChanges /\ fails \in 0 .. MaxFails
  /\ reg.gen \in 1 .. MaxChanges + 1 /\ reg.dirty \in BOOLEAN
  /\ Len(reg.list) <= reg.lcap
  /\ \A h \in Hooks : LET v == reg.vec[h]
                      IN  v.count <= Len(v.slots) /\ Len(v.slots) <= v.cap /\ v.gen <= reg.gen
  /\ \A t \in Threads : /\ Len(stack[t]) <= MaxNest
                        /\ tls[t].at \in 0 .. MaxBoots /\ tls[t].ran \in Nat
                        /\ tls[t].ret \in Hooks \cup {NULL}
  /\ adapter \in Hooks \cup {NULL}

\* A vector that a call would use as it is holds exactly the listeners, in
\* dispatch order, at every moment: while other vectors are being rebuilt, and
\* after rebuilds that ran out of memory half-way.
TrustedVectorExact ==
  \A h \in Hooks :
    Current(h) => SubSeq(reg.vec[h].slots, 1, reg.vec[h].count) = Listeners(h)

\* README: "Calling a hook dispatches to every loaded module that provides it."
\* A call that did not fail has run each listener once and in order, whatever
\* other threads called meanwhile.
EachListenerOnce ==
  \A t \in Threads : res[t].end \in {"ok", "notfound"} => res[t].exact

\* No call goes on through a region entry, hook record, slot array or module
\* entry that was freed or moved by another call, a load, a reload on the
\* watcher's thread, or a shutdown.
NoFreedRead == \A t \in Threads : ~Faulty(t)

\* xy_last after a call: the result of that call of this thread, whatever the
\* bodies and the other threads called, or that nothing ran.
LastIsOwn ==
  \A t \in Threads :
    res[t] # NoResult =>
      xy_last(t) = IF res[t].end = "ok"
                   THEN [err |-> "ok", of |-> res[t].h, size |-> Size(res[t].h)]
                   ELSE [err |-> "notfound"]
=============================================================================
