---------------------------- MODULE WatchProofs -----------------------------
(***************************************************************************)
(* The watcher for every number of threads, names and calls, as long as    *)
(* no start or stop is called while a stop is going on.                    *)
(***************************************************************************)
EXTENDS Watch, SeqLemmas

-----------------------------------------------------------------------------
(* The inductive invariant. *)

WorkerState ==
  [pc : {"none", "arm", "select", "batch", "reload", "install", "exited"},
   sel : Nat, batch : Seq(Nat), name : Names \cup {NULL}]
CallerState == [pc : {"idle", "stop", "join"}, join : Workers \cup {NULL}]
Entry == [fname : Names, wd : Int]
WatchMap == UNION {[D -> Names \cup {NULL}] : D \in SUBSET Nat}
Instance == [open : BOOLEAN, watch : WatchMap, gone : SUBSET Nat, last : Nat, queue : Seq(Nat),
             byte : BOOLEAN]

Typed ==
  /\ g_mu \in Workers \cup {NULL} /\ g_running \in BOOLEAN
  /\ g_thread \in Workers \cup {NULL}
  /\ g_entries \in Seq(Entry) /\ inst \in Seq(Instance) /\ g_fds \in 0..Len(inst)
  /\ worker \in [Workers -> WorkerState] /\ caller \in [Callers -> CallerState]

Quiet == \A t \in Callers : caller[t].pc = "idle"

\* One stop at a time, none while the watcher runs, and it joins the thread
\* that was created last.
StopsExclusive ==
  /\ \A t, u \in Callers : caller[t].pc # "idle" /\ caller[u].pc # "idle" => t = u
  /\ g_running => Quiet
  /\ \A t \in Callers : caller[t].pc = "join" => caller[t].join = g_thread

\* The only thread is the one created last; it is gone, and the descriptors
\* with it, when the watcher is stopped; the lock is held by a thread that
\* runs xy_install.
ThreadOwned ==
  /\ \A w \in Workers : worker[w] # NoWorker => w = g_thread
  /\ ~g_running /\ Quiet => g_fds = NoFd /\ \A w \in Workers : worker[w] = NoWorker
  /\ g_mu # NULL => worker[g_mu].pc = "install"

\* Names are in the set once, and what must be reloaded is in the set.
NamesDistinct ==
  /\ Len(g_entries) <= WATCH_MAX
  /\ \A i, j \in DOMAIN g_entries : g_entries[i].fname = g_entries[j].fname => i = j
  /\ due \subseteq Watched

\* Number wd of an entry for name n is a watch of instance o on that name's
\* file, or on the one it had, or the number of a watch that has ended.
WatchFor(o, wd, n) ==
  \/ wd \in DOMAIN o.watch /\ o.watch[wd] \in {n, NULL}
  \/ wd \in o.gone

\* The watches of instance o all belong to an entry of list s, no two entries
\* hold one number, and the numbers to come are free.
WatchesPaired(o, s) ==
  /\ DOMAIN o.watch \cup o.gone \subseteq 1..o.last
  /\ DOMAIN o.watch \cap o.gone = {}
  /\ \A i \in DOMAIN s : s[i].wd # NoWd => WatchFor(o, s[i].wd, s[i].fname)
  /\ \A wd \in DOMAIN o.watch : \E i \in DOMAIN s : s[i].wd = wd
  /\ \A i, j \in DOMAIN s : s[i].wd # NoWd /\ s[i].wd = s[j].wd => i = j

WatchConsistent ==
  /\ Typed /\ StopsExclusive /\ ThreadOwned /\ DescriptorsOwned
  /\ NamesDistinct /\ (g_fds # NoFd => WatchesPaired(inst[g_fds], g_entries))

-----------------------------------------------------------------------------
(* Types. *)

\* The records the watcher starts from.
LEMMA RecordFacts ==
  /\ NoWorker \in WorkerState /\ Idle \in CallerState
  /\ Opened \in Instance /\ Closed \in Instance
  /\ Opened.open = TRUE /\ Opened.gone = {} /\ Closed.open = FALSE
  /\ NoWorker.pc = "none" /\ Idle.pc = "idle"
<1>1. NoWorker \in WorkerState
  <2>1. <<>> \in Seq(Nat) /\ 0 \in Nat
    OBVIOUS
  <2> QED BY <2>1 DEF NoWorker, WorkerState, NoFd
<1>2. Idle \in CallerState
  BY DEF Idle, CallerState
<1>3. [wd \in {} |-> NULL] \in WatchMap
  <2>1. [wd \in {} |-> NULL] \in [{} -> Names \cup {NULL}]
    OBVIOUS
  <2> QED BY <2>1 DEF WatchMap
<1>4. Opened \in Instance
  <2> DEFINE m == [wd \in {} |-> NULL]
  <2>1. m \in WatchMap
    BY <1>3
  <2> HIDE DEF m
  <2>2. [open |-> TRUE, watch |-> m, gone |-> {}, last |-> 0, queue |-> <<>>, byte |-> FALSE]
          \in Instance
    BY <2>1 DEF Instance
  <2> QED BY <2>2 DEF Opened, m
<1>5. Closed \in Instance /\ Closed.open = FALSE
  <2> HIDE DEF Opened
  <2>1. Closed = [Opened EXCEPT !.open = FALSE]
    BY DEF Closed
  <2> QED BY <1>4, <2>1 DEF Instance
<1> QED BY <1>1, <1>2, <1>4, <1>5 DEF Opened, NoWorker, Idle

\* inotify keeps the type of an instance.
LEMMA KernelFacts ==
  ASSUME NEW o \in Instance
  PROVE  /\ \A n \in Names :
              /\ inotify_add_watch(o, n) \in Instance
              /\ inotify_add_watch(o, n).last = o.last + 1
              /\ inotify_add_watch(o, n).open = o.open
              /\ inotify_add_watch(o, n).gone = o.gone
              /\ DOMAIN inotify_add_watch(o, n).watch = DOMAIN o.watch \cup {o.last + 1}
              /\ inotify_add_watch(o, n).watch[o.last + 1] = n
              /\ \A wd \in DOMAIN o.watch : wd # o.last + 1 =>
                   inotify_add_watch(o, n).watch[wd] = o.watch[wd]
         /\ \A wd :
              /\ inotify_rm_watch(o, wd) \in Instance
              /\ inotify_rm_watch(o, wd).last = o.last
              /\ inotify_rm_watch(o, wd).open = o.open
              /\ inotify_rm_watch(o, wd).gone = o.gone
              /\ DOMAIN inotify_rm_watch(o, wd).watch = DOMAIN o.watch \ {wd}
              /\ \A d \in DOMAIN o.watch \ {wd} :
                   inotify_rm_watch(o, wd).watch[d] = o.watch[d]
<1>1. o.watch \in WatchMap /\ o.last \in Nat
  BY DEF Instance
<1>2. /\ DOMAIN o.watch \subseteq Nat
      /\ \A wd \in DOMAIN o.watch : o.watch[wd] \in Names \cup {NULL}
  BY <1>1 DEF WatchMap
<1>3. ASSUME NEW n \in Names
      PROVE  /\ inotify_add_watch(o, n) \in Instance
             /\ inotify_add_watch(o, n).last = o.last + 1
             /\ inotify_add_watch(o, n).open = o.open
             /\ inotify_add_watch(o, n).gone = o.gone
             /\ DOMAIN inotify_add_watch(o, n).watch = DOMAIN o.watch \cup {o.last + 1}
             /\ inotify_add_watch(o, n).watch[o.last + 1] = n
             /\ \A wd \in DOMAIN o.watch : wd # o.last + 1 =>
                  inotify_add_watch(o, n).watch[wd] = o.watch[wd]
  <2> DEFINE m == [wd \in DOMAIN o.watch \cup {o.last + 1} |->
                     IF wd = o.last + 1 THEN n ELSE o.watch[wd]]
  <2>1. m \in [DOMAIN o.watch \cup {o.last + 1} -> Names \cup {NULL}]
    BY <1>2
  <2>2. DOMAIN o.watch \cup {o.last + 1} \subseteq Nat
    BY <1>1, <1>2
  <2>3. m \in WatchMap
    BY <2>1, <2>2 DEF WatchMap
  <2>4. inotify_add_watch(o, n) = [o EXCEPT !.last = o.last + 1, !.watch = m]
    BY DEF inotify_add_watch, Instance
  <2>5. /\ DOMAIN m = DOMAIN o.watch \cup {o.last + 1} /\ m[o.last + 1] = n
        /\ \A wd \in DOMAIN o.watch : wd # o.last + 1 => m[wd] = o.watch[wd]
    OBVIOUS
  <2> HIDE DEF m
  <2>6. o.last + 1 \in Nat
    BY <1>1
  <2>7. /\ inotify_add_watch(o, n) \in Instance
        /\ inotify_add_watch(o, n).last = o.last + 1 /\ inotify_add_watch(o, n).watch = m
        /\ inotify_add_watch(o, n).open = o.open /\ inotify_add_watch(o, n).gone = o.gone
    BY <2>3, <2>4, <2>6 DEF Instance
  <2> QED BY <2>5, <2>7
<1>4. ASSUME NEW wd
      PROVE  /\ inotify_rm_watch(o, wd) \in Instance
             /\ inotify_rm_watch(o, wd).last = o.last
             /\ inotify_rm_watch(o, wd).open = o.open
             /\ inotify_rm_watch(o, wd).gone = o.gone
             /\ DOMAIN inotify_rm_watch(o, wd).watch = DOMAIN o.watch \ {wd}
             /\ \A d \in DOMAIN o.watch \ {wd} :
                  inotify_rm_watch(o, wd).watch[d] = o.watch[d]
  <2> DEFINE m == [d \in DOMAIN o.watch \ {wd} |-> o.watch[d]]
  <2>1. m \in [DOMAIN o.watch \ {wd} -> Names \cup {NULL}]
    BY <1>2
  <2>2. DOMAIN o.watch \ {wd} \subseteq Nat
    BY <1>1, <1>2
  <2>3. m \in WatchMap
    BY <2>1, <2>2 DEF WatchMap
  <2>4. inotify_rm_watch(o, wd) = [o EXCEPT !.watch = m]
    BY DEF inotify_rm_watch, Instance
  <2>5. /\ DOMAIN m = DOMAIN o.watch \ {wd}
        /\ \A d \in DOMAIN o.watch \ {wd} : m[d] = o.watch[d]
    OBVIOUS
  <2> HIDE DEF m
  <2>6. /\ inotify_rm_watch(o, wd) \in Instance
        /\ inotify_rm_watch(o, wd).last = o.last /\ inotify_rm_watch(o, wd).watch = m
        /\ inotify_rm_watch(o, wd).open = o.open /\ inotify_rm_watch(o, wd).gone = o.gone
    BY <2>3, <2>4 DEF Instance
  <2> QED BY <2>5, <2>6
<1> QED BY <1>3, <1>4

\* Positions in a set of array indices are counted 1, 2, ... without gaps.
LEMMA NthFacts ==
  ASSUME NEW n \in Nat, NEW S \in SUBSET (1..n)
  PROVE  /\ Cardinality(S) \in Nat
         /\ \A i \in S : Nth(S, i) \in 1..Cardinality(S)
         /\ \A i, j \in S : Nth(S, i) = Nth(S, j) => i = j
         /\ \A wd \in 1..Cardinality(S) : \E i \in S : Nth(S, i) = wd
<1> DEFINE Upto(i) == {j \in S : j <= i}
           f == [i \in S |-> Nth(S, i)]
           N == Cardinality(S)
<1>1. IsFiniteSet(S) /\ N \in Nat /\ S \subseteq Nat
  <2>1. IsFiniteSet(1..n)
    BY FS_Interval
  <2>2. IsFiniteSet(S)
    BY <2>1, FS_Subset
  <2>3. N \in Nat
    BY <2>2, FS_CardinalityType
  <2> QED BY <2>2, <2>3
<1>2. \A i \in S : /\ Upto(i) \subseteq S /\ i \in Upto(i) /\ Nth(S, i) = Cardinality(Upto(i))
  BY <1>1 DEF Nth
<1>3. \A i \in S : IsFiniteSet(Upto(i)) /\ Cardinality(Upto(i)) \in Nat /\ Cardinality(Upto(i)) <= N
  <2> TAKE i \in S
  <2> DEFINE U == Upto(i)
  <2>1. U \in SUBSET S
    OBVIOUS
  <2> HIDE DEF U
  <2>2. IsFiniteSet(U) /\ Cardinality(U) <= N
    BY <1>1, <2>1, FS_Subset
  <2>3. Cardinality(U) \in Nat
    BY <2>2, FS_CardinalityType
  <2> QED BY <2>2, <2>3 DEF U
<1>4. \A i \in S : Cardinality(Upto(i)) # 0
  <2> TAKE i \in S
  <2> DEFINE U == Upto(i)
  <2>1. U # {} /\ IsFiniteSet(U)
    BY <1>2, <1>3
  <2> HIDE DEF U
  <2>2. Cardinality(U) # 0
    BY <2>1, FS_EmptySet
  <2> QED BY <2>2 DEF U
<1>5. \A i \in S : Nth(S, i) \in 1..N
  <2> TAKE i \in S
  <2> DEFINE k == Cardinality(Upto(i))
  <2>1. k \in Nat /\ k <= N /\ k # 0 /\ Nth(S, i) = k
    BY <1>2, <1>3, <1>4
  <2> HIDE DEF k, N
  <2> QED BY <1>1, <2>1
<1>6. ASSUME NEW i \in S, NEW j \in S, i < j PROVE Nth(S, i) # Nth(S, j)
  <2> DEFINE U == Upto(i)
             V == Upto(j)
  <2>0. \A x \in S : x \in Nat /\ (x <= i => x <= j) /\ ~(j <= i) /\ j <= j
    BY <1>1, <1>6
  <2>1. U \in SUBSET V /\ j \in V /\ j \notin U
    BY <2>0
  <2>2. IsFiniteSet(V) /\ Nth(S, i) = Cardinality(U) /\ Nth(S, j) = Cardinality(V)
    BY <1>2, <1>3
  <2> HIDE DEF U, V
  <2>3. Cardinality(V) = Cardinality(U) => V = U
    BY <2>1, <2>2, FS_Subset
  <2> QED BY <2>1, <2>2, <2>3
<1>7. \A i, j \in S : Nth(S, i) = Nth(S, j) => i = j
  BY <1>1, <1>6
<1>8. f \in Injection(S, 1..N)
  BY <1>5, <1>7 DEF Injection, IsInjective
<1>9. IsFiniteSet(1..N) /\ Cardinality(1..N) = N
  BY <1>1, FS_Interval
<1> HIDE DEF f
<1>10. f \in Surjection(S, 1..N)
  <2> HIDE DEF N
  <2> DEFINE T == 1..N
  <2>1. f \in Injection(S, T) /\ IsFiniteSet(T) /\ Cardinality(S) = Cardinality(T)
    BY <1>8, <1>9 DEF N
  <2> HIDE DEF T
  <2>2. f \in Surjection(S, T)
    BY <2>1, FS_Injection
  <2> QED BY <2>2 DEF T
<1>11. \A wd \in 1..N : \E i \in S : f[i] = wd
  BY <1>10 DEF Surjection
<1> QED BY <1>1, <1>5, <1>7, <1>11 DEF f

\* entry_rewatch numbers the watches of a new instance and its entries alike.
LEMMA RewatchFacts ==
  ASSUME Typed, NEW S \in SUBSET DOMAIN g_entries
  PROVE  /\ RewatchedEntries(S) \in Seq(Entry)
         /\ DOMAIN RewatchedEntries(S) = DOMAIN g_entries
         /\ Len(RewatchedEntries(S)) = Len(g_entries)
         /\ \A i \in DOMAIN g_entries : RewatchedEntries(S)[i].fname = g_entries[i].fname
         /\ RewatchedInstance(S) \in Instance /\ RewatchedInstance(S).open = TRUE
         /\ WatchesPaired(RewatchedInstance(S), RewatchedEntries(S))
<1> DEFINE N == Cardinality(S)
           n == Len(g_entries)
           e == RewatchedEntries(S)
           o == RewatchedInstance(S)
<1>1. /\ n \in Nat /\ DOMAIN g_entries = 1..n
      /\ \A i \in 1..n : g_entries[i] \in Entry
  BY DEF Typed
<1>2. /\ N \in Nat
      /\ \A i \in S : Nth(S, i) \in 1..N
      /\ \A i, j \in S : Nth(S, i) = Nth(S, j) => i = j
      /\ \A wd \in 1..N : \E i \in S : Nth(S, i) = wd
  <2>1. S \in SUBSET (1..n)
    BY <1>1
  <2> HIDE DEF n
  <2> QED BY <1>1, <2>1, NthFacts
<1>3. /\ DOMAIN e = 1..n
      /\ \A i \in 1..n : e[i] = [g_entries[i] EXCEPT !.wd = IF i \in S THEN Nth(S, i) ELSE NoWd]
  BY <1>1 DEF RewatchedEntries
<1> HIDE DEF e, n
<1>4. \A i \in 1..n : /\ e[i] \in Entry /\ e[i].fname = g_entries[i].fname
                      /\ e[i].wd = IF i \in S THEN Nth(S, i) ELSE NoWd
  <2> TAKE i \in 1..n
  <2>1. (IF i \in S THEN Nth(S, i) ELSE NoWd) \in Int
    BY <1>2 DEF NoWd
  <2> QED BY <1>1, <1>3, <2>1 DEF Entry
<1>5. e \in Seq(Entry) /\ Len(e) = n
  <2>1. e \in [1..n -> Entry]
    <3>1. e = [i \in 1..n |-> e[i]]
      BY <1>1, <1>3 DEF e, RewatchedEntries
    <3> QED BY <1>4, <3>1
  <2> QED BY <1>1, <2>1
<1> DEFINE m == [wd \in 1..N |-> g_entries[CHOOSE i \in S : Nth(S, i) = wd].fname]
<1>6. \A i \in S : m[Nth(S, i)] = g_entries[i].fname
  <2> TAKE i \in S
  <2>1. (CHOOSE j \in S : Nth(S, j) = Nth(S, i)) = i
    BY <1>2
  <2> QED BY <1>2, <2>1
<1>7. m \in [1..N -> Names \cup {NULL}]
  <2>1. \A wd \in 1..N : m[wd] \in Names
    <3> TAKE wd \in 1..N
    <3>1. PICK i \in S : Nth(S, i) = wd
      BY <1>2
    <3>2. m[wd] = g_entries[i].fname /\ i \in 1..n
      BY <1>1, <1>6, <3>1
    <3> QED BY <1>1, <3>2 DEF Entry
  <2> QED BY <2>1
<1>8. m \in WatchMap
  <2>1. 1..N \subseteq Nat
    BY <1>2
  <2> QED BY <1>7, <2>1 DEF WatchMap
<1>9. o = [Opened EXCEPT !.last = N, !.watch = m]
  BY DEF RewatchedInstance
<1>10. DOMAIN m = 1..N
  OBVIOUS
<1> HIDE DEF m, o, N
<1>11. o \in Instance /\ o.open = TRUE /\ o.last = N /\ o.watch = m /\ o.gone = {}
  <2>1. Opened \in Instance /\ Opened.open = TRUE /\ Opened.gone = {}
    BY RecordFacts
  <2> QED BY <1>2, <1>8, <1>9, <2>1 DEF Instance
<1>12. WatchesPaired(o, e)
  <2>1. \A i \in DOMAIN e : e[i].wd # NoWd => i \in S /\ e[i].wd = Nth(S, i)
    BY <1>3, <1>4
  <2>2. \A wd \in DOMAIN m : \E i \in DOMAIN e : e[i].wd = wd
    <3> TAKE wd \in DOMAIN m
    <3>1. PICK i \in S : Nth(S, i) = wd
      BY <1>2, <1>10
    <3>2. i \in 1..n
      BY <1>1
    <3> QED BY <1>3, <1>4, <3>1, <3>2
  <2>3. \A i \in DOMAIN e : e[i].wd # NoWd => e[i].wd \in DOMAIN m /\ m[e[i].wd] = e[i].fname
    BY <1>1, <1>2, <1>4, <1>6, <1>10, <2>1
  <2>4. \A i, j \in DOMAIN e : e[i].wd # NoWd /\ e[i].wd = e[j].wd => i = j
    BY <1>2, <2>1
  <2> QED BY <1>10, <1>11, <2>2, <2>3, <2>4 DEF WatchesPaired, WatchFor
<1> QED BY <1>1, <1>3, <1>4, <1>5, <1>11, <1>12 DEF e, o, n

-----------------------------------------------------------------------------
(* The watcher thread. *)

\* One element of a list is replaced.
LEMMA ReplacedFacts ==
  ASSUME NEW T, NEW s \in Seq(T), NEW i \in 1..Len(s), NEW v \in T
  PROVE  /\ [s EXCEPT ![i] = v] \in Seq(T) /\ Len([s EXCEPT ![i] = v]) = Len(s)
         /\ [s EXCEPT ![i] = v][i] = v
         /\ \A j \in 1..Len(s) : j # i => [s EXCEPT ![i] = v][j] = s[j]
<1>1. Len(s) \in Nat /\ s \in [1..Len(s) -> T]
  OBVIOUS
<1>2. [s EXCEPT ![i] = v] \in [1..Len(s) -> T]
  BY <1>1
<1> QED BY <1>1, <1>2

\* Steps of a thread that exists, as far as the invariant is concerned: they
\* keep the watches, the set and the callers.
LEMMA ThreadStep ==
  ASSUME WatchConsistent, NEW w \in Workers, NEW v \in WorkerState,
         worker[w].pc # "none", v.pc # "none", worker' = [worker EXCEPT ![w] = v],
         UNCHANGED <<g_running, g_fds, g_thread, g_entries, caller>>,
         inst' \in Seq(Instance), Len(inst') = Len(inst),
         \A i \in 1..Len(inst) : /\ inst'[i].open = inst[i].open
                                 /\ inst'[i].watch = inst[i].watch
                                 /\ inst'[i].gone = inst[i].gone
                                 /\ inst'[i].last = inst[i].last,
         due' \subseteq due, g_mu' \in Workers \cup {NULL},
         g_mu' # NULL => worker'[g_mu'].pc = "install"
  PROVE  WatchConsistent'
<1>1. Typed /\ StopsExclusive /\ ThreadOwned /\ DescriptorsOwned /\ NamesDistinct
  BY DEF WatchConsistent
<1>2. worker \in [Workers -> WorkerState] /\ worker' \in [Workers -> WorkerState]
  BY <1>1 DEF Typed
<1>3. Typed'
  BY <1>1, <1>2 DEF Typed
<1>4. StopsExclusive'
  BY <1>1 DEF StopsExclusive, Quiet
<1>5. worker[w] # NoWorker /\ v # NoWorker
  BY RecordFacts
<1>6. ThreadOwned'
  BY <1>1, <1>2, <1>5 DEF ThreadOwned, Quiet
<1>7. DOMAIN inst' = 1..Len(inst) /\ DOMAIN inst = 1..Len(inst)
  BY <1>1 DEF Typed
<1>8. DescriptorsOwned'
  BY <1>1, <1>7 DEF DescriptorsOwned
<1>9. NamesDistinct'
  BY <1>1 DEF NamesDistinct, Watched
<1>10. g_fds' # NoFd => WatchesPaired(inst[g_fds], g_entries)' 
  <2> HAVE g_fds' # NoFd
  <2>1. g_fds \in 1..Len(inst)
    BY <1>1 DEF Typed, NoFd
  <2>2. WatchesPaired(inst[g_fds], g_entries)
    BY DEF WatchConsistent
  <2>3. /\ inst'[g_fds].watch = inst[g_fds].watch /\ inst'[g_fds].last = inst[g_fds].last
        /\ inst'[g_fds].gone = inst[g_fds].gone
    BY <2>1
  <2> QED BY <2>2, <2>3 DEF WatchesPaired, WatchFor
<1> QED BY <1>3, <1>4, <1>6, <1>8, <1>9, <1>10 DEF WatchConsistent

\* The thread arms select with the descriptors it finds.
LEMMA ArmStep ==
  ASSUME WatchConsistent, NEW w \in Workers, Arm(w)
  PROVE  WatchConsistent'
<1> DEFINE v == [worker[w] EXCEPT !.pc = "select", !.sel = g_fds]
<1>1. worker \in [Workers -> WorkerState] /\ g_fds \in Nat /\ inst \in Seq(Instance)
      /\ g_mu \in Workers \cup {NULL} /\ (g_mu # NULL => worker[g_mu].pc = "install")
  BY DEF WatchConsistent, Typed, ThreadOwned
<1>2. /\ worker[w].pc = "arm" /\ worker' = [worker EXCEPT ![w] = v] /\ g_mu' = g_mu
      /\ UNCHANGED <<g_running, g_fds, g_thread, g_entries, caller, inst, due>>
  BY <1>1 DEF Arm, setVars
<1>3. v \in WorkerState /\ v.pc = "select"
  BY <1>1 DEF WorkerState
<1> HIDE DEF v
<1>4. g_mu' # NULL => worker'[g_mu'].pc = "install"
  BY <1>1, <1>2
<1> QED BY <1>1, <1>2, <1>3, <1>4, ThreadStep

\* select returns and the thread reads, exits or arms again.
LEMMA WakeStep ==
  ASSUME WatchConsistent, NEW w \in Workers, Wake(w)
  PROVE  WatchConsistent'
<1> DEFINE same == g_fds = worker[w].sel
           read == same /\ ~inst[g_fds].byte
           v == [worker[w] EXCEPT !.pc = IF read THEN "batch" ELSE IF same THEN "exited" ELSE "arm",
                                  !.batch = IF read THEN inst[g_fds].queue ELSE <<>>]
<1>1. worker \in [Workers -> WorkerState] /\ inst \in Seq(Instance) /\ g_fds \in 0..Len(inst)
      /\ g_mu \in Workers \cup {NULL} /\ (g_mu # NULL => worker[g_mu].pc = "install")
  BY DEF WatchConsistent, Typed, ThreadOwned
<1>2. /\ worker[w].pc = "select" /\ worker' = [worker EXCEPT ![w] = v] /\ g_mu' = g_mu
      /\ UNCHANGED <<g_running, g_fds, g_thread, g_entries, caller, due>>
      /\ worker[w].sel # NoFd
      /\ inst' = IF read THEN [inst EXCEPT ![g_fds].queue = <<>>] ELSE inst
  BY <1>1 DEF Wake, Ready
<1>3. read => g_fds \in 1..Len(inst)
  BY <1>1, <1>2 DEF NoFd
<1>4. \A i \in 1..Len(inst) : inst[i] \in Instance
  BY <1>1
<1>5. v \in WorkerState /\ v.pc \in {"batch", "exited", "arm"}
  <2> DEFINE pc == IF read THEN "batch" ELSE IF same THEN "exited" ELSE "arm"
             b == IF read THEN inst[g_fds].queue ELSE <<>>
  <2>1. b \in Seq(Nat) /\ pc \in {"batch", "exited", "arm"}
    BY <1>3, <1>4 DEF Instance
  <2>2. v = [worker[w] EXCEPT !.pc = pc, !.batch = b]
    OBVIOUS
  <2> HIDE DEF pc, b, v
  <2> QED BY <1>1, <2>1, <2>2 DEF WorkerState
<1>6. /\ inst' \in Seq(Instance) /\ Len(inst') = Len(inst)
      /\ \A i \in 1..Len(inst) : /\ inst'[i].open = inst[i].open
                                 /\ inst'[i].watch = inst[i].watch
                                 /\ inst'[i].gone = inst[i].gone
                                 /\ inst'[i].last = inst[i].last
  <2>1. CASE read
    <3> DEFINE o == [inst[g_fds] EXCEPT !.queue = <<>>]
    <3>0. inst[g_fds] \in Instance /\ <<>> \in Seq(Nat)
      BY <1>3, <1>4, <2>1
    <3>1. /\ o \in Instance /\ o.open = inst[g_fds].open /\ o.watch = inst[g_fds].watch
          /\ o.last = inst[g_fds].last /\ o.gone = inst[g_fds].gone
      BY <3>0 DEF Instance
    <3>2. inst' = [inst EXCEPT ![g_fds] = o]
      BY <1>2, <2>1
    <3> HIDE DEF o
    <3>3. /\ inst' \in Seq(Instance) /\ Len(inst') = Len(inst) /\ inst'[g_fds] = o
          /\ \A j \in 1..Len(inst) : j # g_fds => inst'[j] = inst[j]
      BY <1>1, <1>3, <2>1, <3>1, <3>2, ReplacedFacts
    <3> QED BY <3>1, <3>3
  <2>2. CASE ~read
    BY <1>1, <1>2, <2>2
  <2> QED BY <2>1, <2>2
<1> HIDE DEF v, read
<1>7. g_mu' # NULL => worker'[g_mu'].pc = "install"
  BY <1>1, <1>2
<1> QED BY <1>1, <1>2, <1>5, <1>6, <1>7, ThreadStep

\* The next event is looked up.
LEMMA EventStep ==
  ASSUME WatchConsistent, NEW w \in Workers, Event(w)
  PROVE  WatchConsistent'
<1>1. /\ worker \in [Workers -> WorkerState] /\ inst \in Seq(Instance)
      /\ g_mu \in Workers \cup {NULL} /\ (g_mu # NULL => worker[g_mu].pc = "install")
      /\ g_entries \in Seq(Entry)
  BY DEF WatchConsistent, Typed, ThreadOwned
<1>2. /\ worker[w].pc = "batch" /\ g_mu' = g_mu
      /\ UNCHANGED <<g_running, g_fds, g_thread, g_entries, caller, inst, due>>
  BY DEF Event, setVars
<1>3. PICK v \in WorkerState : v.pc # "none" /\ worker' = [worker EXCEPT ![w] = v]
  <2>1. CASE worker[w].batch = <<>>
    <3> DEFINE v == [worker[w] EXCEPT !.pc = "arm"]
    <3>1. v \in WorkerState /\ v.pc # "none"
      BY <1>1 DEF WorkerState
    <3>2. worker' = [worker EXCEPT ![w] = v]
      BY <1>1, <2>1 DEF Event
    <3> QED BY <3>1, <3>2
  <2>2. CASE worker[w].batch # <<>>
    <3> DEFINE i == entry_find_by_wd(Head(worker[w].batch))
               v == [worker[w] EXCEPT !.batch = Tail(worker[w].batch),
                                      !.pc = IF i = 0 THEN "batch" ELSE "reload",
                                      !.name = IF i = 0 THEN NULL ELSE g_entries[i].fname]
    <3>1. worker' = [worker EXCEPT ![w] = v]
      BY <1>1, <2>2 DEF Event
    <3>2. i # 0 => i \in DOMAIN g_entries
      <4> DEFINE at == {j \in DOMAIN g_entries : g_entries[j].wd = Head(worker[w].batch)}
      <4>1. i = IF at = {} THEN 0 ELSE Min(at)
        BY DEF entry_find_by_wd
      <4>2. at \subseteq Nat
        BY <1>1
      <4>3. ASSUME at # {} PROVE Min(at) \in at
        <5>1. \E x \in at : \A y \in at : x <= y
          BY <4>2, <4>3, LeastNat
        <5> QED BY <5>1 DEF Min
      <4> QED BY <4>1, <4>3
    <3> HIDE DEF i
    <3>3. i # 0 => g_entries[i].fname \in Names
      <4>1. i # 0 => g_entries[i] \in Entry
        BY <1>1, <3>2
      <4> QED BY <4>1 DEF Entry
    <3>4. worker[w].batch \in Seq(Nat)
      BY <1>1 DEF WorkerState
    <3>5. Tail(worker[w].batch) \in Seq(Nat)
      BY <2>2, <3>4
    <3>6. v \in WorkerState /\ v.pc # "none"
      BY <1>1, <3>3, <3>5 DEF WorkerState
    <3> QED BY <3>1, <3>6
  <2> QED BY <2>1, <2>2
<1>4. g_mu' # NULL => worker'[g_mu'].pc = "install"
  BY <1>1, <1>2, <1>3
<1> QED BY <1>1, <1>2, <1>3, <1>4, ThreadStep

\* There is no memory for the name of the next event.
LEMMA EventDroppedStep ==
  ASSUME WatchConsistent, NEW w \in Workers, EventDropped(w)
  PROVE  WatchConsistent'
<1> DEFINE v == [worker[w] EXCEPT !.batch = Tail(worker[w].batch)]
<1>1. /\ worker \in [Workers -> WorkerState] /\ inst \in Seq(Instance)
      /\ g_mu \in Workers \cup {NULL}
  BY DEF WatchConsistent, Typed
<1>2. /\ worker[w].pc = "batch" /\ worker[w].batch # <<>> /\ g_mu = NULL /\ g_mu' = g_mu
      /\ worker' = [worker EXCEPT ![w] = v]
      /\ UNCHANGED <<g_running, g_fds, g_thread, g_entries, caller, inst>>
      /\ due' \subseteq due
  BY <1>1 DEF EventDropped, setVars
<1>3. v \in WorkerState /\ v.pc = "batch"
  <2>1. worker[w] \in WorkerState /\ worker[w].batch \in Seq(Nat)
    BY <1>1 DEF WorkerState
  <2>2. Tail(worker[w].batch) \in Seq(Nat)
    BY <1>2, <2>1
  <2> QED BY <1>2, <2>1, <2>2 DEF WorkerState
<1> HIDE DEF v
<1> QED BY <1>1, <1>2, <1>3, ThreadStep

\* The thread takes the lock, reloads and gives it back.
LEMMA ReloadSteps ==
  ASSUME WatchConsistent, NEW w \in Workers, ReloadBegin(w) \/ ReloadEnd(w)
  PROVE  WatchConsistent'
<1>1. worker \in [Workers -> WorkerState] /\ inst \in Seq(Instance) /\ NULL \notin Workers
  BY WatchAssumption DEF WatchConsistent, Typed
<1>2. CASE ReloadBegin(w)
  <2> DEFINE v == [worker[w] EXCEPT !.pc = "install"]
  <2>1. /\ worker[w].pc = "reload" /\ g_mu' = w /\ worker' = [worker EXCEPT ![w] = v]
        /\ UNCHANGED <<g_running, g_fds, g_thread, g_entries, caller, inst>>
        /\ due' \subseteq due
    BY <1>1, <1>2 DEF ReloadBegin
  <2>2. v \in WorkerState /\ v.pc = "install"
    BY <1>1 DEF WorkerState
  <2> HIDE DEF v
  <2>3. g_mu' # NULL => worker'[g_mu'].pc = "install"
    BY <1>1, <2>1, <2>2
  <2> QED BY <1>1, <2>1, <2>2, <2>3, ThreadStep
<1>3. CASE ReloadEnd(w)
  <2> DEFINE v == [worker[w] EXCEPT !.pc = "batch", !.name = NULL]
  <2>1. /\ worker[w].pc = "install" /\ g_mu' = NULL /\ worker' = [worker EXCEPT ![w] = v]
        /\ UNCHANGED <<g_running, g_fds, g_thread, g_entries, caller, inst, due>>
    BY <1>1, <1>3 DEF ReloadEnd
  <2>2. v \in WorkerState /\ v.pc = "batch"
    BY <1>1 DEF WorkerState
  <2> HIDE DEF v
  <2> QED BY <1>1, <2>1, <2>2, ThreadStep
<1> QED BY <1>2, <1>3

-----------------------------------------------------------------------------
(* The API. *)

\* What a call that leaves threads and callers alone has to keep.
LEMMA SetStep ==
  ASSUME WatchConsistent, UNCHANGED <<g_mu, g_running, g_fds, g_thread, worker, caller>>,
         inst' \in Seq(Instance), Len(inst') = Len(inst),
         \A i \in 1..Len(inst) : inst'[i].open = inst[i].open,
         g_entries' \in Seq(Entry), NamesDistinct',
         g_fds # NoFd => WatchesPaired(inst'[g_fds], g_entries')
  PROVE  WatchConsistent'
<1>1. Typed /\ StopsExclusive /\ ThreadOwned /\ DescriptorsOwned /\ NamesDistinct
  BY DEF WatchConsistent
<1>2. Typed'
  BY <1>1 DEF Typed
<1>3. StopsExclusive' /\ ThreadOwned'
  BY <1>1 DEF StopsExclusive, ThreadOwned, Quiet
<1>4. DOMAIN inst' = 1..Len(inst) /\ DOMAIN inst = 1..Len(inst)
  BY <1>1 DEF Typed
<1>5. DescriptorsOwned'
  BY <1>1, <1>4 DEF DescriptorsOwned
<1> QED BY <1>2, <1>3, <1>5 DEF WatchConsistent

\* The instance that the globals name.
LEMMA CurrentInstance ==
  ASSUME Typed, g_fds # NoFd
  PROVE  g_fds \in 1..Len(inst) /\ inst[g_fds] \in Instance
  BY DEF Typed, NoFd

\* xy_watch_add appends an entry, watched or not.
LEMMA AddStep ==
  ASSUME WatchConsistent, NEW t \in Callers, NEW n \in Names, xy_watch_add(t, n)
  PROVE  WatchConsistent'
<1>1. /\ Typed /\ NamesDistinct /\ (g_fds # NoFd => WatchesPaired(inst[g_fds], g_entries))
      /\ n \notin Watched /\ Len(g_entries) < WATCH_MAX
      /\ UNCHANGED <<g_mu, g_running, g_fds, g_thread, worker, caller, due>>
  BY DEF WatchConsistent, xy_watch_add, Added
<1> DEFINE k == Len(g_entries)
<1>2. /\ g_entries \in Seq(Entry) /\ inst \in Seq(Instance) /\ k \in Nat /\ DOMAIN g_entries = 1..k
      /\ \A i \in 1..k : g_entries[i] \in Entry /\ g_entries[i].fname # n
  <2>1. g_entries \in Seq(Entry) /\ inst \in Seq(Instance)
    BY <1>1 DEF Typed
  <2> QED BY <1>1, <2>1 DEF Watched
<1>3. ASSUME NEW wd \in Int, g_entries' = Append(g_entries, [fname |-> n, wd |-> wd])
      PROVE  /\ g_entries' \in Seq(Entry) /\ Len(g_entries') = k + 1 /\ DOMAIN g_entries' = 1..k+1
             /\ g_entries'[k + 1].fname = n /\ g_entries'[k + 1].wd = wd
             /\ \A i \in 1..k : g_entries'[i] = g_entries[i]
             /\ NamesDistinct'
  <2> DEFINE e == [fname |-> n, wd |-> wd]
  <2>1. e \in Entry /\ e.fname = n /\ e.wd = wd
    BY DEF Entry
  <2> HIDE DEF e
  <2>2. g_entries' = Append(g_entries, e)
    BY <1>3 DEF e
  <2>3. /\ g_entries' \in Seq(Entry) /\ Len(g_entries') = k + 1 /\ DOMAIN g_entries' = 1..k+1
        /\ g_entries'[k + 1] = e /\ \A i \in 1..k : g_entries'[i] = g_entries[i]
    BY <1>2, <2>1, <2>2
  <2>4. Len(g_entries') <= WATCH_MAX
    BY <1>1, <1>2, <2>3, WatchAssumption
  <2> HIDE DEF k
  <2>5. \A i \in 1..k+1 : i \in 1..k \/ i = k + 1
    BY <1>2
  <2>6. \A i, j \in DOMAIN g_entries' : g_entries'[i].fname = g_entries'[j].fname => i = j
    <3>1. \A i, j \in 1..k : g_entries[i].fname = g_entries[j].fname => i = j
      BY <1>1, <1>2 DEF NamesDistinct
    <3> QED BY <1>2, <2>1, <2>3, <2>5, <3>1
  <2>7. Watched \subseteq Watched'
    <3>1. \A i \in 1..k : i \in DOMAIN g_entries'
      BY <1>2, <2>3
    <3> QED BY <1>2, <2>3, <3>1 DEF Watched
  <2>8. NamesDistinct'
    BY <1>1, <2>4, <2>6, <2>7 DEF NamesDistinct
  <2> QED BY <2>1, <2>3, <2>8
<1> HIDE DEF k
<1>4. \A i \in 1..k+1 : i \in 1..k \/ i = k + 1
  BY <1>2
<1>5. CASE g_entries' = Append(g_entries, [fname |-> n, wd |-> NoWd]) /\ inst' = inst
  <2>1. NoWd \in Int
    BY DEF NoWd
  <2>2. g_fds # NoFd => WatchesPaired(inst'[g_fds], g_entries')
    <3> HAVE g_fds # NoFd
    <3>1. WatchesPaired(inst[g_fds], g_entries)
      BY <1>1
    <3>2. DOMAIN g_entries \subseteq DOMAIN g_entries'
      BY <1>2, <1>3, <1>5, <2>1
    <3> QED BY <1>2, <1>3, <1>4, <1>5, <2>1, <3>1, <3>2 DEF WatchesPaired, WatchFor
  <2> QED BY <1>1, <1>2, <1>3, <1>5, <2>1, <2>2, SetStep
<1>6. CASE /\ g_fds # NoFd
           /\ inst' = [inst EXCEPT ![g_fds] = inotify_add_watch(@, n)]
           /\ g_entries' = Append(g_entries, [fname |-> n, wd |-> inst'[g_fds].last])
  <2> DEFINE o == inst[g_fds]
             q == inotify_add_watch(o, n)
  <2>1. g_fds \in 1..Len(inst) /\ o \in Instance
    BY <1>1, <1>6, CurrentInstance
  <2>2. inst' = [inst EXCEPT ![g_fds] = q]
    BY <1>6
  <2> HIDE DEF o
  <2>3. /\ q \in Instance /\ q.last = o.last + 1 /\ q.open = o.open /\ q.gone = o.gone
        /\ DOMAIN q.watch = DOMAIN o.watch \cup {o.last + 1} /\ q.watch[o.last + 1] = n
        /\ \A wd \in DOMAIN o.watch : wd # o.last + 1 => q.watch[wd] = o.watch[wd]
    BY <2>1, KernelFacts
  <2> HIDE DEF q
  <2>4. /\ inst' \in Seq(Instance) /\ Len(inst') = Len(inst) /\ inst'[g_fds] = q
        /\ \A j \in 1..Len(inst) : j # g_fds => inst'[j] = inst[j]
    BY <1>2, <2>1, <2>2, <2>3, ReplacedFacts
  <2>5. \A i \in 1..Len(inst) : inst'[i].open = inst[i].open
    BY <2>3, <2>4 DEF o
  <2>6. o.last \in Nat
    BY <2>1 DEF Instance
  <2>7. o.last + 1 \in Int /\ g_entries' = Append(g_entries, [fname |-> n, wd |-> o.last + 1])
    BY <1>6, <2>3, <2>4, <2>6
  <2>8. /\ g_entries' \in Seq(Entry) /\ Len(g_entries') = k + 1 /\ DOMAIN g_entries' = 1..k+1
        /\ g_entries'[k + 1].fname = n /\ g_entries'[k + 1].wd = o.last + 1
        /\ \A i \in 1..k : g_entries'[i] = g_entries[i]
        /\ NamesDistinct'
    BY <1>3, <2>7
  <2>9. WatchesPaired(o, g_entries)
    BY <1>1, <1>6 DEF o
  <2>10. WatchesPaired(q, g_entries')
    <3>1. /\ DOMAIN o.watch \cup o.gone \subseteq 1..o.last /\ DOMAIN o.watch \cap o.gone = {}
          /\ o.last + 1 \notin DOMAIN o.watch \cup o.gone
      BY <2>6, <2>9 DEF WatchesPaired
    <3>2. /\ DOMAIN q.watch \cup q.gone \subseteq 1..q.last
          /\ DOMAIN q.watch \cap q.gone = {}
      BY <2>3, <2>6, <3>1
    <3>3. 1..k \subseteq DOMAIN g_entries' /\ k + 1 \in DOMAIN g_entries'
      BY <1>2, <2>8
    <3>4. \A i \in 1..k : g_entries[i].wd # o.last + 1
      <4>1. \A i \in 1..k : g_entries[i].wd # NoWd => g_entries[i].wd \in DOMAIN o.watch \cup o.gone
        BY <1>2, <2>9 DEF WatchesPaired, WatchFor
      <4>2. o.last + 1 # NoWd
        BY <2>6 DEF NoWd
      <4> QED BY <3>1, <4>1, <4>2
    <3>5. \A i \in DOMAIN g_entries' : g_entries'[i].wd # NoWd =>
            WatchFor(q, g_entries'[i].wd, g_entries'[i].fname)
      <4>1. \A i \in 1..k : g_entries[i].wd # NoWd =>
              WatchFor(o, g_entries[i].wd, g_entries[i].fname)
        BY <1>2, <2>9 DEF WatchesPaired
      <4>2. \A i \in 1..k : g_entries'[i].wd # NoWd =>
              WatchFor(q, g_entries'[i].wd, g_entries'[i].fname)
        BY <2>3, <2>8, <3>4, <4>1 DEF WatchFor
      <4>3. WatchFor(q, g_entries'[k + 1].wd, g_entries'[k + 1].fname)
        BY <2>3, <2>8 DEF WatchFor
      <4> QED BY <1>4, <2>8, <4>2, <4>3
    <3>6. \A wd \in DOMAIN q.watch : \E i \in DOMAIN g_entries' : g_entries'[i].wd = wd
      <4>1. \A wd \in DOMAIN o.watch : \E i \in 1..k : g_entries[i].wd = wd
        BY <1>2, <2>9 DEF WatchesPaired
      <4>2. \A wd \in DOMAIN o.watch : \E i \in DOMAIN g_entries' : g_entries'[i].wd = wd
        BY <2>8, <3>3, <4>1
      <4> QED BY <2>3, <2>8, <3>3, <4>2
    <3>7. \A i, j \in DOMAIN g_entries' :
            g_entries'[i].wd # NoWd /\ g_entries'[i].wd = g_entries'[j].wd => i = j
      <4>1. \A i, j \in 1..k : g_entries[i].wd # NoWd /\ g_entries[i].wd = g_entries[j].wd => i = j
        BY <1>2, <2>9 DEF WatchesPaired
      <4> QED BY <1>4, <2>8, <3>4, <4>1
    <3> QED BY <3>2, <3>5, <3>6, <3>7 DEF WatchesPaired
  <2> QED BY <1>1, <2>4, <2>5, <2>8, <2>10, SetStep
<1> QED BY <1>5, <1>6 DEF xy_watch_add, Added

\* xy_watch_remove closes the gap in the array and drops the watch.
LEMMA RemoveStep ==
  ASSUME WatchConsistent, NEW t \in Callers, NEW n \in Names, xy_watch_remove(t, n)
  PROVE  WatchConsistent'
<1> DEFINE k == Len(g_entries)
           x == CHOOSE j \in DOMAIN g_entries : g_entries[j].fname = n
           e == g_entries[x]
<1>1. /\ Typed /\ NamesDistinct /\ (g_fds # NoFd => WatchesPaired(inst[g_fds], g_entries))
      /\ n \in Watched /\ due' = due \ {n}
      /\ UNCHANGED <<g_mu, g_running, g_fds, g_thread, worker, caller>>
      /\ inst' = (IF g_fds # NoFd /\ e.wd # NoWd
                  THEN [inst EXCEPT ![g_fds] = inotify_rm_watch(@, e.wd)] ELSE inst)
      /\ g_entries' = RemoveAt(g_entries, x)
  BY DEF WatchConsistent, xy_watch_remove
<1>2. /\ g_entries \in Seq(Entry) /\ inst \in Seq(Instance) /\ k \in Nat /\ DOMAIN g_entries = 1..k
      /\ \A i \in 1..k : g_entries[i] \in Entry
  <2>1. g_entries \in Seq(Entry) /\ inst \in Seq(Instance)
    BY <1>1 DEF Typed
  <2> QED BY <1>1, <2>1
<1>3. x \in 1..k /\ e.fname = n
  <2>1. \E j \in DOMAIN g_entries : g_entries[j].fname = n
    BY <1>1 DEF Watched
  <2> QED BY <1>2, <2>1
<1> HIDE DEF x, k
<1>4. /\ g_entries' \in Seq(Entry) /\ Len(g_entries') = k - 1
      /\ \A j \in 1..k-1 : g_entries'[j] = IF j < x THEN g_entries[j] ELSE g_entries[j + 1]
  <2>1. x \in 1..Len(g_entries)
    BY <1>3 DEF k
  <2> QED BY <1>1, <1>2, <2>1, RemoveAtFacts DEF k
<1>5. DOMAIN g_entries' = 1..k-1
  BY <1>2, <1>4
\* Where an entry of the new list was, and where one of the old list is now.
<1> DEFINE from(j) == IF j < x THEN j ELSE j + 1
           to(i) == IF i < x THEN i ELSE i - 1
<1>6. /\ \A j \in 1..k-1 : from(j) \in 1..k /\ from(j) # x /\ g_entries'[j] = g_entries[from(j)]
      /\ \A i, j \in 1..k-1 : from(i) = from(j) => i = j
      /\ \A i \in 1..k : i # x => to(i) \in 1..k-1 /\ from(to(i)) = i
  <2>1. \A j \in 1..k-1 : from(j) \in 1..k /\ from(j) # x
    BY <1>2, <1>3
  <2>2. \A j \in 1..k-1 : g_entries'[j] = g_entries[from(j)]
    BY <1>4
  <2>3. \A i, j \in 1..k-1 : from(i) = from(j) => i = j
    BY <1>2, <1>3
  <2>4. \A i \in 1..k : i # x => to(i) \in 1..k-1 /\ from(to(i)) = i
    BY <1>2, <1>3
  <2> QED BY <2>1, <2>2, <2>3, <2>4
<1> HIDE DEF from, to
<1>7. \A i \in 1..k : i # x => g_entries[i].fname # n
  BY <1>1, <1>2, <1>3 DEF NamesDistinct
<1>8. NamesDistinct'
  <2>1. Len(g_entries') <= WATCH_MAX
    BY <1>1, <1>2, <1>4, WatchAssumption DEF NamesDistinct, k
  <2>2. \A i, j \in 1..k : g_entries[i].fname = g_entries[j].fname => i = j
    BY <1>1, <1>2 DEF NamesDistinct
  <2>3. \A i, j \in DOMAIN g_entries' : g_entries'[i].fname = g_entries'[j].fname => i = j
    BY <1>5, <1>6, <2>2
  <2>4. Watched \ {n} \subseteq Watched'
    <3>1. ASSUME NEW i \in 1..k, g_entries[i].fname # n
          PROVE  \E j \in DOMAIN g_entries' : g_entries'[j].fname = g_entries[i].fname
      <4>1. i # x
        BY <1>3, <3>1
      <4>2. to(i) \in 1..k-1 /\ g_entries'[to(i)] = g_entries[i]
        BY <1>6, <4>1
      <4> QED BY <1>5, <4>2
    <3> QED BY <1>2, <3>1 DEF Watched
  <2> QED BY <1>1, <2>1, <2>3, <2>4 DEF NamesDistinct
<1>9. CASE g_fds # NoFd
  <2> DEFINE o == inst[g_fds]
             q == IF e.wd # NoWd THEN inotify_rm_watch(o, e.wd) ELSE o
  <2>1. g_fds \in 1..Len(inst) /\ o \in Instance /\ WatchesPaired(o, g_entries)
    BY <1>1, <1>9, CurrentInstance
  <2>2. inst' = IF e.wd # NoWd THEN [inst EXCEPT ![g_fds] = inotify_rm_watch(o, e.wd)] ELSE inst
    BY <1>1, <1>9
  <2> HIDE DEF o
  <2>3. /\ q \in Instance /\ q.last = o.last /\ q.open = o.open /\ q.gone = o.gone
        /\ DOMAIN q.watch = DOMAIN o.watch \ {e.wd}
        /\ \A d \in DOMAIN o.watch \ {e.wd} : q.watch[d] = o.watch[d]
    <3>1. CASE e.wd # NoWd
      BY <2>1, <3>1, KernelFacts
    <3>2. CASE e.wd = NoWd
      <4>1. NoWd \notin DOMAIN o.watch
        <5>1. DOMAIN o.watch \subseteq 1..o.last /\ o.last \in Nat
          BY <2>1 DEF WatchesPaired, Instance
        <5>2. NoWd \notin 1..o.last
          BY <5>1 DEF NoWd
        <5> QED BY <5>1, <5>2
      <4>2. DOMAIN o.watch \ {e.wd} = DOMAIN o.watch
        BY <3>2, <4>1
      <4> QED BY <2>1, <3>2, <4>2
    <3> QED BY <3>1, <3>2
  <2>4. /\ inst' \in Seq(Instance) /\ Len(inst') = Len(inst) /\ inst'[g_fds] = q
        /\ \A j \in 1..Len(inst) : j # g_fds => inst'[j] = inst[j]
    <3>1. CASE e.wd # NoWd
      <4>1. inst' = [inst EXCEPT ![g_fds] = q]
        BY <2>2, <3>1
      <4> HIDE DEF q
      <4> QED BY <1>2, <2>1, <2>3, <4>1, ReplacedFacts
    <3>2. CASE e.wd = NoWd
      BY <1>2, <2>2, <3>2 DEF o
    <3> QED BY <3>1, <3>2
  <2> HIDE DEF q
  <2>5. \A i \in 1..Len(inst) : inst'[i].open = inst[i].open
    BY <2>3, <2>4 DEF o
  <2>6. WatchesPaired(q, g_entries')
    <3>1. \A i, j \in 1..k : g_entries[i].wd # NoWd /\ g_entries[i].wd = g_entries[j].wd => i = j
      BY <1>2, <2>1 DEF WatchesPaired
    <3>2. DOMAIN q.watch \cup q.gone \subseteq 1..q.last /\ DOMAIN q.watch \cap q.gone = {}
      BY <2>1, <2>3 DEF WatchesPaired
    <3>3. \A j \in DOMAIN g_entries' : g_entries'[j].wd # NoWd =>
            WatchFor(q, g_entries'[j].wd, g_entries'[j].fname)
      <4> SUFFICES ASSUME NEW j \in 1..k-1, g_entries'[j].wd # NoWd
                   PROVE  WatchFor(q, g_entries'[j].wd, g_entries'[j].fname)
        BY <1>5
      <4>1. from(j) \in 1..k /\ from(j) # x /\ g_entries'[j] = g_entries[from(j)]
        BY <1>6
      <4>2. WatchFor(o, g_entries[from(j)].wd, g_entries[from(j)].fname)
        BY <1>2, <2>1, <4>1 DEF WatchesPaired
      <4>3. g_entries[from(j)].wd # e.wd
        BY <1>3, <3>1, <4>1
      <4> QED BY <2>3, <4>1, <4>2, <4>3 DEF WatchFor
    <3>4. \A wd \in DOMAIN q.watch : \E j \in DOMAIN g_entries' : g_entries'[j].wd = wd
      <4> TAKE wd \in DOMAIN q.watch
      <4>1. PICK i \in 1..k : g_entries[i].wd = wd
        BY <1>2, <2>1, <2>3 DEF WatchesPaired
      <4>2. i # x
        BY <2>3, <4>1
      <4>3. to(i) \in 1..k-1 /\ g_entries'[to(i)] = g_entries[i]
        BY <1>6, <4>2
      <4> QED BY <1>5, <4>1, <4>3
    <3>5. \A i, j \in DOMAIN g_entries' :
            g_entries'[i].wd # NoWd /\ g_entries'[i].wd = g_entries'[j].wd => i = j
      BY <1>5, <1>6, <3>1
    <3> QED BY <3>2, <3>3, <3>4, <3>5 DEF WatchesPaired
  <2> QED BY <1>1, <1>4, <1>8, <2>4, <2>5, <2>6, SetStep
<1>10. CASE g_fds = NoFd
  <2>1. inst' = inst
    BY <1>1, <1>10
  <2> QED BY <1>1, <1>2, <1>4, <1>8, <1>10, <2>1, SetStep
<1> QED BY <1>9, <1>10

-----------------------------------------------------------------------------
(* The files. *)

\* An event is queued for every watch on the file that was written.
LEMMA RewriteStep ==
  ASSUME WatchConsistent, NEW n \in Names, Rewrite(n)
  PROVE  WatchConsistent'
<1>1. /\ Typed /\ NamesDistinct /\ (g_fds # NoFd => WatchesPaired(inst[g_fds], g_entries))
      /\ UNCHANGED <<g_mu, g_running, g_fds, g_thread, g_entries, worker, caller>>
      /\ inst \in Seq(Instance) /\ g_entries \in Seq(Entry)
  BY DEF WatchConsistent, Rewrite, Update, Typed
<1> DEFINE q(i) == IF WatchesOn(i, n) = {} \/ (inst[i].queue # <<>> /\ Last(inst[i].queue) \in WatchesOn(i, n))
                   THEN inst[i].queue
                   ELSE Append(inst[i].queue, CHOOSE wd \in WatchesOn(i, n) : TRUE)
<1>2. inst' = [i \in DOMAIN inst |-> [inst[i] EXCEPT !.queue = q(i)]]
  BY DEF Rewrite
<1>3. DOMAIN inst = 1..Len(inst) /\ Len(inst) \in Nat /\ \A i \in 1..Len(inst) : inst[i] \in Instance
  BY <1>1
<1>4. \A i \in 1..Len(inst) : q(i) \in Seq(Nat)
  <2> TAKE i \in 1..Len(inst)
  <2>1. inst[i].queue \in Seq(Nat) /\ inst[i].watch \in WatchMap
    BY <1>3 DEF Instance
  <2>2. WatchesOn(i, n) \subseteq Nat
    BY <2>1 DEF WatchesOn, WatchMap
  <2>3. WatchesOn(i, n) # {} => (CHOOSE wd \in WatchesOn(i, n) : TRUE) \in Nat
    BY <2>2
  <2> QED BY <2>1, <2>3
<1> HIDE DEF q
<1>5. \A i \in 1..Len(inst) : /\ inst'[i] \in Instance /\ inst'[i].open = inst[i].open
                              /\ inst'[i].watch = inst[i].watch /\ inst'[i].last = inst[i].last
                              /\ inst'[i].gone = inst[i].gone
  <2> TAKE i \in 1..Len(inst)
  <2>1. inst'[i] = [inst[i] EXCEPT !.queue = q(i)] /\ inst[i] \in Instance /\ q(i) \in Seq(Nat)
    BY <1>2, <1>3, <1>4
  <2> QED BY <2>1 DEF Instance
<1>6. inst' \in Seq(Instance) /\ Len(inst') = Len(inst)
  <2>1. inst' \in [1..Len(inst) -> Instance]
    BY <1>2, <1>3, <1>5
  <2> QED BY <1>3, <2>1
<1>7. NamesDistinct'
  <2>1. g_fds # NoFd /\ WatchesOn(g_fds, n) # {} => n \in Watched
    <3> HAVE g_fds # NoFd /\ WatchesOn(g_fds, n) # {}
    <3>1. PICK wd \in DOMAIN inst[g_fds].watch : inst[g_fds].watch[wd] = n
      BY DEF WatchesOn
    <3>2. PICK i \in DOMAIN g_entries : g_entries[i].wd = wd
      BY <1>1 DEF WatchesPaired
    <3>3. wd # NoWd
      <4>1. inst[g_fds] \in Instance
        BY <1>1, CurrentInstance
      <4>2. wd \in 1..inst[g_fds].last /\ inst[g_fds].last \in Nat
        BY <1>1, <4>1 DEF WatchesPaired, Instance
      <4> QED BY <4>2 DEF NoWd
    <3>4. n \in {g_entries[i].fname, NULL}
      BY <1>1, <3>1, <3>2, <3>3 DEF WatchesPaired, WatchFor
    <3>5. n # NULL
      BY WatchAssumption
    <3> QED BY <3>4, <3>5 DEF Watched
  <2>2. due' \subseteq Watched
    BY <1>1, <2>1 DEF Rewrite, NamesDistinct
  <2> QED BY <1>1, <2>2 DEF NamesDistinct, Watched
<1>8. g_fds # NoFd => WatchesPaired(inst'[g_fds], g_entries')
  <2> HAVE g_fds # NoFd
  <2>1. g_fds \in 1..Len(inst)
    BY <1>1, CurrentInstance
  <2> QED BY <1>1, <1>5, <2>1 DEF WatchesPaired, WatchFor
<1> QED BY <1>1, <1>5, <1>6, <1>7, <1>8, SetStep

\* The watches on a replaced file stay and lose their name.
LEMMA ReplaceStep ==
  ASSUME WatchConsistent, NEW n \in Names, Replace(n)
  PROVE  WatchConsistent'
<1>1. /\ Typed /\ NamesDistinct /\ (g_fds # NoFd => WatchesPaired(inst[g_fds], g_entries))
      /\ UNCHANGED <<g_mu, g_running, g_fds, g_thread, g_entries, worker, caller, due>>
      /\ inst \in Seq(Instance) /\ g_entries \in Seq(Entry)
  BY DEF WatchConsistent, Replace, Update, Typed
<1> DEFINE m(i) == [wd \in DOMAIN inst[i].watch |->
                      IF inst[i].watch[wd] = n THEN NULL ELSE inst[i].watch[wd]]
<1>2. inst' = [i \in DOMAIN inst |-> [inst[i] EXCEPT !.watch = m(i)]]
  BY DEF Replace
<1>3. DOMAIN inst = 1..Len(inst) /\ Len(inst) \in Nat /\ \A i \in 1..Len(inst) : inst[i] \in Instance
  BY <1>1
<1>4. \A i \in 1..Len(inst) : /\ m(i) \in WatchMap /\ DOMAIN m(i) = DOMAIN inst[i].watch
                              /\ \A wd \in DOMAIN inst[i].watch : m(i)[wd] \in {inst[i].watch[wd], NULL}
  <2> TAKE i \in 1..Len(inst)
  <2>1. inst[i].watch \in WatchMap
    BY <1>3 DEF Instance
  <2>2. /\ DOMAIN inst[i].watch \subseteq Nat
        /\ \A wd \in DOMAIN inst[i].watch : inst[i].watch[wd] \in Names \cup {NULL}
    BY <2>1 DEF WatchMap
  <2>3. m(i) \in [DOMAIN inst[i].watch -> Names \cup {NULL}]
    BY <2>2
  <2>4. m(i) \in WatchMap
    BY <2>2, <2>3 DEF WatchMap
  <2> QED BY <2>4
<1> HIDE DEF m
<1>5. \A i \in 1..Len(inst) : /\ inst'[i] \in Instance /\ inst'[i].open = inst[i].open
                              /\ inst'[i].watch = m(i) /\ inst'[i].last = inst[i].last
                              /\ inst'[i].gone = inst[i].gone
  <2> TAKE i \in 1..Len(inst)
  <2>1. inst'[i] = [inst[i] EXCEPT !.watch = m(i)] /\ inst[i] \in Instance /\ m(i) \in WatchMap
    BY <1>2, <1>3, <1>4
  <2> QED BY <2>1 DEF Instance
<1>6. inst' \in Seq(Instance) /\ Len(inst') = Len(inst)
  <2>1. inst' \in [1..Len(inst) -> Instance]
    BY <1>2, <1>3, <1>5
  <2> QED BY <1>3, <2>1
<1>7. NamesDistinct'
  BY <1>1 DEF NamesDistinct, Watched
<1>8. g_fds # NoFd => WatchesPaired(inst'[g_fds], g_entries')
  <2> HAVE g_fds # NoFd
  <2>1. g_fds \in 1..Len(inst)
    BY <1>1, CurrentInstance
  <2>2. /\ inst'[g_fds].watch = m(g_fds) /\ inst'[g_fds].last = inst[g_fds].last
        /\ inst'[g_fds].gone = inst[g_fds].gone
        /\ DOMAIN m(g_fds) = DOMAIN inst[g_fds].watch
        /\ \A wd \in DOMAIN inst[g_fds].watch : m(g_fds)[wd] \in {inst[g_fds].watch[wd], NULL}
    BY <1>4, <1>5, <2>1
  <2> QED BY <1>1, <2>2 DEF WatchesPaired, WatchFor
<1> QED BY <1>1, <1>5, <1>6, <1>7, <1>8, SetStep

\* The kernel ends the watch of a replaced file.
LEMMA OldFileGoneStep ==
  ASSUME WatchConsistent, NEW i \in DOMAIN inst, NEW d \in DOMAIN inst[i].watch, OldFileGone(i, d)
  PROVE  WatchConsistent'
<1>1. /\ Typed /\ NamesDistinct /\ (g_fds # NoFd => WatchesPaired(inst[g_fds], g_entries))
      /\ UNCHANGED <<g_mu, g_running, g_fds, g_thread, g_entries, worker, caller, due>>
      /\ inst \in Seq(Instance) /\ g_entries \in Seq(Entry) /\ inst[i].watch[d] = NULL
  BY DEF WatchConsistent, OldFileGone, Typed
<1> DEFINE o == inst[i]
           r == inotify_rm_watch(o, d)
           q == [r EXCEPT !.gone = r.gone \cup {d}]
<1>2. i \in 1..Len(inst) /\ o \in Instance /\ d \in Nat
  <2>1. i \in 1..Len(inst) /\ o \in Instance
    BY <1>1
  <2> QED BY <2>1 DEF Instance, WatchMap
<1>3. inst' = [inst EXCEPT ![i] = q]
  BY DEF OldFileGone
<1> HIDE DEF o
<1>4. /\ r \in Instance /\ r.last = o.last /\ r.open = o.open /\ r.gone = o.gone
      /\ DOMAIN r.watch = DOMAIN o.watch \ {d}
      /\ \A wd \in DOMAIN o.watch \ {d} : r.watch[wd] = o.watch[wd]
  BY <1>2, KernelFacts
<1> HIDE DEF r
<1>5. /\ q \in Instance /\ q.last = o.last /\ q.open = o.open /\ q.gone = o.gone \cup {d}
      /\ DOMAIN q.watch = DOMAIN o.watch \ {d}
      /\ \A wd \in DOMAIN o.watch \ {d} : q.watch[wd] = o.watch[wd]
  <2>1. r.gone \cup {d} \in SUBSET Nat
    BY <1>2, <1>4 DEF Instance
  <2> QED BY <1>4, <2>1 DEF Instance
<1> HIDE DEF q
<1>6. /\ inst' \in Seq(Instance) /\ Len(inst') = Len(inst) /\ inst'[i] = q
      /\ \A j \in 1..Len(inst) : j # i => inst'[j] = inst[j]
  BY <1>1, <1>2, <1>3, <1>5, ReplacedFacts
<1>7. \A j \in 1..Len(inst) : inst'[j].open = inst[j].open
  BY <1>5, <1>6 DEF o
<1>8. NamesDistinct'
  BY <1>1 DEF NamesDistinct, Watched
<1>9. g_fds # NoFd => WatchesPaired(inst'[g_fds], g_entries')
  <2> HAVE g_fds # NoFd
  <2>1. g_fds \in 1..Len(inst) /\ WatchesPaired(inst[g_fds], g_entries)
    BY <1>1, CurrentInstance
  <2>2. CASE g_fds # i
    BY <1>1, <1>6, <2>1, <2>2
  <2>3. CASE g_fds = i
    <3>1. WatchesPaired(o, g_entries) /\ d \in DOMAIN o.watch /\ inst'[g_fds] = q
      BY <1>6, <2>1, <2>3 DEF o
    <3>2. WatchesPaired(q, g_entries)
      BY <1>5, <3>1 DEF WatchesPaired, WatchFor
    <3> QED BY <1>1, <3>1, <3>2
  <2> QED BY <2>2, <2>3
<1> QED BY <1>1, <1>6, <1>7, <1>8, <1>9, SetStep

-----------------------------------------------------------------------------
(* Starting and stopping. *)

\* The set keeps its names when it is watched anew or not watched any more.
LEMMA SameNames ==
  ASSUME NamesDistinct, Len(g_entries') = Len(g_entries), DOMAIN g_entries' = DOMAIN g_entries,
         \A i \in DOMAIN g_entries : g_entries'[i].fname = g_entries[i].fname,
         due' \subseteq due
  PROVE  NamesDistinct'
<1>1. Watched' = Watched
  BY DEF Watched
<1> QED BY <1>1 DEF NamesDistinct

\* xy_watch_start: new descriptors, the set watched anew, a new thread.
LEMMA StartStep ==
  ASSUME ~Overlap, WatchConsistent, NEW t \in Callers, xy_watch_start(t)
  PROVE  WatchConsistent'
<1>1. PICK S \in SUBSET DOMAIN g_entries, w \in Workers :
        /\ worker[w] = NoWorker
        /\ g_entries' = RewatchedEntries(S)
        /\ inst' = Append(inst, RewatchedInstance(S))
        /\ g_fds' = Len(inst')
        /\ g_thread' = w
        /\ worker' = [worker EXCEPT ![w].pc = "arm"]
  BY DEF xy_watch_start
<1>2. /\ Typed /\ StopsExclusive /\ ThreadOwned /\ DescriptorsOwned /\ NamesDistinct
      /\ UNCHANGED <<g_mu, caller, due>> /\ g_running' = TRUE /\ ~g_running /\ Quiet /\ g_mu = NULL
  BY DEF WatchConsistent, xy_watch_start, Calling, MayStartStop, Quiet
<1> DEFINE o == RewatchedInstance(S)
<1>3. /\ g_entries' \in Seq(Entry) /\ DOMAIN g_entries' = DOMAIN g_entries
      /\ Len(g_entries') = Len(g_entries)
      /\ \A i \in DOMAIN g_entries : g_entries'[i].fname = g_entries[i].fname
      /\ o \in Instance /\ o.open = TRUE /\ WatchesPaired(o, g_entries')
  BY <1>1, <1>2, RewatchFacts
<1>4. inst' = Append(inst, o)
  BY <1>1
<1> HIDE DEF o
<1>5. inst \in Seq(Instance) /\ worker \in [Workers -> WorkerState] /\ Len(inst) \in Nat
  BY <1>2 DEF Typed
<1>6. /\ inst' \in Seq(Instance) /\ Len(inst') = Len(inst) + 1 /\ DOMAIN inst' = 1..Len(inst)+1
      /\ inst'[Len(inst) + 1] = o /\ \A i \in 1..Len(inst) : inst'[i] = inst[i]
  BY <1>3, <1>4, <1>5
<1>7. g_fds = NoFd /\ \A x \in Workers : worker[x] = NoWorker
  BY <1>2 DEF ThreadOwned
<1>8. worker' \in [Workers -> WorkerState] /\ \A x \in Workers : x # w => worker'[x] = NoWorker
  BY <1>1, <1>5, <1>7 DEF WorkerState
<1>9. Typed'
  BY <1>1, <1>2, <1>3, <1>6, <1>8 DEF Typed
<1>10. StopsExclusive' /\ Quiet'
  BY <1>2 DEF StopsExclusive, Quiet
<1>11. ThreadOwned'
  BY <1>1, <1>2, <1>8 DEF ThreadOwned
<1>12. DescriptorsOwned'
  <2>1. \A i \in 1..Len(inst) : inst[i].open <=> i = 0
    BY <1>2, <1>5, <1>7 DEF DescriptorsOwned, NoFd
  <2>2. \A i \in 1..Len(inst)+1 : i \in 1..Len(inst) \/ i = Len(inst) + 1
    BY <1>5
  <2>3. \A i \in 1..Len(inst) : i # 0 /\ i # Len(inst) + 1
    BY <1>5
  <2> QED BY <1>1, <1>3, <1>6, <2>1, <2>2, <2>3 DEF DescriptorsOwned
<1>13. NamesDistinct'
  BY <1>2, <1>3, SameNames
<1>14. WatchesPaired(inst'[g_fds'], g_entries')
  BY <1>1, <1>3, <1>6
<1> QED BY <1>9, <1>10, <1>11, <1>12, <1>13, <1>14 DEF WatchConsistent

\* A start that could not create its thread.
LEMMA StartFailedStep ==
  ASSUME ~Overlap, WatchConsistent, NEW t \in Callers, StartFailed(t)
  PROVE  WatchConsistent'
<1>1. PICK S \in SUBSET DOMAIN g_entries : g_entries' = RewatchedEntries(S)
  BY DEF StartFailed
<1>2. /\ Typed /\ StopsExclusive /\ ThreadOwned /\ DescriptorsOwned /\ NamesDistinct
      /\ UNCHANGED <<g_mu, g_running, g_thread, worker, caller, due>> /\ ~g_running /\ Quiet
      /\ inst' = Append(inst, Closed) /\ g_fds' = NoFd
  BY DEF WatchConsistent, StartFailed, Calling, MayStartStop, Quiet
<1>3. /\ g_entries' \in Seq(Entry) /\ DOMAIN g_entries' = DOMAIN g_entries
      /\ Len(g_entries') = Len(g_entries)
      /\ \A i \in DOMAIN g_entries : g_entries'[i].fname = g_entries[i].fname
  BY <1>1, <1>2, RewatchFacts
<1>4. inst \in Seq(Instance) /\ Len(inst) \in Nat /\ Closed \in Instance /\ Closed.open = FALSE
  BY <1>2, RecordFacts DEF Typed
<1>5. /\ inst' \in Seq(Instance) /\ Len(inst') = Len(inst) + 1 /\ DOMAIN inst' = 1..Len(inst)+1
      /\ inst'[Len(inst) + 1] = Closed /\ \A i \in 1..Len(inst) : inst'[i] = inst[i]
  BY <1>2, <1>4
<1>6. g_fds = NoFd
  BY <1>2 DEF ThreadOwned
<1>7. Typed'
  BY <1>2, <1>3, <1>4, <1>5 DEF Typed, NoFd
<1>8. StopsExclusive'
  BY <1>2 DEF StopsExclusive, Quiet
<1>9. ThreadOwned'
  BY <1>2 DEF ThreadOwned, Quiet
<1>10. DescriptorsOwned'
  <2>1. \A i \in 1..Len(inst) : inst[i].open <=> i = 0
    BY <1>2, <1>4, <1>6 DEF DescriptorsOwned, NoFd
  <2>2. \A i \in 1..Len(inst)+1 : i # 0 /\ (i \in 1..Len(inst) \/ i = Len(inst) + 1)
    BY <1>4
  <2> QED BY <1>2, <1>4, <1>5, <2>1, <2>2 DEF DescriptorsOwned, NoFd
<1>11. NamesDistinct'
  BY <1>2, <1>3, SameNames
<1> QED BY <1>2, <1>7, <1>8, <1>9, <1>10, <1>11 DEF WatchConsistent

\* The first half of xy_watch_stop.
LEMMA StopBeginStep ==
  ASSUME ~Overlap, WatchConsistent, NEW t \in Callers, StopBegin(t)
  PROVE  WatchConsistent'
<1>1. /\ Typed /\ StopsExclusive /\ ThreadOwned /\ DescriptorsOwned /\ NamesDistinct
      /\ (g_fds # NoFd => WatchesPaired(inst[g_fds], g_entries))
      /\ g_running /\ g_running' = FALSE /\ due' = {} /\ Quiet
      /\ UNCHANGED <<g_mu, g_fds, g_thread, g_entries, worker>>
      /\ inst' = (IF g_fds = NoFd THEN inst ELSE [inst EXCEPT ![g_fds].byte = TRUE])
      /\ caller' = [caller EXCEPT ![t].pc = "stop"]
  BY DEF WatchConsistent, StopBegin, Calling, MayStartStop, Quiet
<1>2. inst \in Seq(Instance) /\ caller \in [Callers -> CallerState]
  BY <1>1 DEF Typed
<1>3. /\ caller' \in [Callers -> CallerState] /\ caller'[t].pc = "stop"
      /\ \A u \in Callers : u # t => caller'[u] = caller[u]
  BY <1>1, <1>2 DEF CallerState
<1>4. /\ inst' \in Seq(Instance) /\ Len(inst') = Len(inst)
      /\ \A i \in 1..Len(inst) : /\ inst'[i].open = inst[i].open
                                 /\ inst'[i].watch = inst[i].watch
                                 /\ inst'[i].gone = inst[i].gone
                                 /\ inst'[i].last = inst[i].last
  <2>1. CASE g_fds = NoFd
    BY <1>1, <1>2, <2>1
  <2>2. CASE g_fds # NoFd
    <3> DEFINE o == [inst[g_fds] EXCEPT !.byte = TRUE]
    <3>1. g_fds \in 1..Len(inst) /\ inst[g_fds] \in Instance
      BY <1>1, <2>2, CurrentInstance
    <3>2. /\ o \in Instance /\ o.open = inst[g_fds].open /\ o.watch = inst[g_fds].watch
          /\ o.last = inst[g_fds].last /\ o.gone = inst[g_fds].gone
      BY <3>1 DEF Instance
    <3>3. inst' = [inst EXCEPT ![g_fds] = o]
      BY <1>1, <2>2
    <3> HIDE DEF o
    <3>4. /\ inst' \in Seq(Instance) /\ Len(inst') = Len(inst) /\ inst'[g_fds] = o
          /\ \A j \in 1..Len(inst) : j # g_fds => inst'[j] = inst[j]
      BY <1>2, <3>1, <3>2, <3>3, ReplacedFacts
    <3> QED BY <3>2, <3>4
  <2> QED BY <2>1, <2>2
<1>5. Typed'
  BY <1>1, <1>3, <1>4 DEF Typed
<1>6. StopsExclusive'
  BY <1>1, <1>3 DEF StopsExclusive, Quiet
<1>7. ~Quiet'
  BY <1>3 DEF Quiet
<1>8. ThreadOwned'
  BY <1>1, <1>7 DEF ThreadOwned
<1>9. DOMAIN inst' = 1..Len(inst) /\ DOMAIN inst = 1..Len(inst)
  BY <1>2, <1>4
<1>10. DescriptorsOwned'
  BY <1>1, <1>4, <1>9 DEF DescriptorsOwned
<1>11. NamesDistinct'
  BY <1>1, SameNames
<1>12. g_fds' # NoFd => WatchesPaired(inst'[g_fds'], g_entries')
  <2> HAVE g_fds' # NoFd
  <2>1. g_fds \in 1..Len(inst)
    BY <1>1, CurrentInstance
  <2> QED BY <1>1, <1>4, <2>1 DEF WatchesPaired, WatchFor
<1> QED BY <1>5, <1>6, <1>8, <1>10, <1>11, <1>12 DEF WatchConsistent

\* pthread_join reads which thread to wait for.
LEMMA StopJoinStep ==
  ASSUME WatchConsistent, NEW t \in Callers, StopJoin(t)
  PROVE  WatchConsistent'
<1> DEFINE v == [pc |-> "join", join |-> g_thread]
<1>1. /\ Typed /\ StopsExclusive /\ ThreadOwned /\ DescriptorsOwned /\ NamesDistinct
      /\ (g_fds # NoFd => WatchesPaired(inst[g_fds], g_entries))
      /\ caller[t].pc = "stop" /\ caller' = [caller EXCEPT ![t] = v]
      /\ UNCHANGED <<g_mu, g_running, g_fds, g_thread, inst, g_entries, worker, due>>
  BY DEF WatchConsistent, StopJoin, setVars
<1>2. caller \in [Callers -> CallerState] /\ g_thread \in Workers \cup {NULL}
  BY <1>1 DEF Typed
<1>3. v \in CallerState /\ v.pc = "join" /\ v.join = g_thread
  BY <1>2 DEF CallerState
<1> HIDE DEF v
<1>4. /\ caller' \in [Callers -> CallerState] /\ caller'[t] = v
      /\ \A u \in Callers : u # t => caller'[u] = caller[u]
  BY <1>1, <1>2, <1>3
<1>5. Typed'
  BY <1>1, <1>4 DEF Typed
<1>6. StopsExclusive'
  BY <1>1, <1>3, <1>4 DEF StopsExclusive, Quiet
<1>7. ~Quiet'
  BY <1>3, <1>4 DEF Quiet
<1>8. ThreadOwned'
  BY <1>1, <1>7 DEF ThreadOwned
<1>9. DescriptorsOwned' /\ NamesDistinct'
  BY <1>1 DEF DescriptorsOwned, NamesDistinct, Watched
<1> QED BY <1>1, <1>5, <1>6, <1>8, <1>9 DEF WatchConsistent

\* The second half of xy_watch_stop.
LEMMA StopCloseStep ==
  ASSUME WatchConsistent, NEW t \in Callers, StopClose(t)
  PROVE  WatchConsistent'
<1>1. /\ Typed /\ StopsExclusive /\ ThreadOwned /\ DescriptorsOwned /\ NamesDistinct
      /\ caller[t].pc = "join" /\ g_mu = NULL /\ g_fds' = NoFd
      /\ inst' = (IF g_fds = NoFd THEN inst ELSE [inst EXCEPT ![g_fds] = Closed])
      /\ g_entries' = [i \in DOMAIN g_entries |-> [g_entries[i] EXCEPT !.wd = NoWd]]
      /\ worker' = [worker EXCEPT ![caller[t].join] = NoWorker]
      /\ caller' = [caller EXCEPT ![t] = Idle]
      /\ UNCHANGED <<g_mu, g_running, g_thread, due>>
  BY DEF WatchConsistent, StopClose
<1>2. /\ inst \in Seq(Instance) /\ caller \in [Callers -> CallerState]
      /\ worker \in [Workers -> WorkerState] /\ g_entries \in Seq(Entry)
      /\ Len(g_entries) \in Nat /\ DOMAIN g_entries = 1..Len(g_entries)
  BY <1>1 DEF Typed
<1>3. /\ caller' \in [Callers -> CallerState] /\ caller'[t] = Idle /\ Idle.pc = "idle"
      /\ \A u \in Callers : u # t => caller'[u] = caller[u]
  BY <1>1, <1>2, RecordFacts
<1>4. \A u \in Callers : u # t => caller[u].pc = "idle"
  BY <1>1 DEF StopsExclusive
<1>5. Quiet' /\ ~g_running
  BY <1>1, <1>3, <1>4 DEF Quiet, StopsExclusive
<1>6. /\ worker' \in [Workers -> WorkerState] /\ \A w \in Workers : worker'[w] = NoWorker
  <2>1. caller[t].join = g_thread
    BY <1>1 DEF StopsExclusive
  <2>2. \A w \in Workers : worker[w] # NoWorker => w = g_thread
    BY <1>1 DEF ThreadOwned
  <2> QED BY <1>1, <1>2, <2>1, <2>2, RecordFacts
<1>7. /\ g_entries' \in Seq(Entry) /\ Len(g_entries') = Len(g_entries)
      /\ DOMAIN g_entries' = DOMAIN g_entries
      /\ \A i \in DOMAIN g_entries : g_entries'[i].fname = g_entries[i].fname
  <2>1. \A i \in 1..Len(g_entries) : g_entries'[i] \in Entry /\ g_entries'[i].fname = g_entries[i].fname
    <3> TAKE i \in 1..Len(g_entries)
    <3>1. g_entries[i] \in Entry /\ NoWd \in Int
      BY <1>2 DEF NoWd
    <3>2. g_entries'[i] = [g_entries[i] EXCEPT !.wd = NoWd]
      BY <1>1, <1>2
    <3> QED BY <3>1, <3>2 DEF Entry
  <2>2. g_entries' \in [1..Len(g_entries) -> Entry]
    BY <1>1, <1>2, <2>1
  <2> QED BY <1>2, <2>1, <2>2
<1>8. /\ inst' \in Seq(Instance) /\ Len(inst') = Len(inst)
      /\ \A i \in 1..Len(inst) : inst'[i].open = FALSE
  <2>1. \A i \in 1..Len(inst) : inst[i].open <=> i = g_fds
    BY <1>1, <1>2 DEF DescriptorsOwned
  <2>2. \A i \in 1..Len(inst) : inst[i].open \in BOOLEAN
    <3>1. \A i \in 1..Len(inst) : inst[i] \in Instance
      BY <1>2
    <3> QED BY <3>1 DEF Instance
  <2>3. CASE g_fds = NoFd
    <3>1. \A i \in 1..Len(inst) : i # 0
      OBVIOUS
    <3> QED BY <1>1, <1>2, <2>1, <2>2, <2>3, <3>1 DEF NoFd
  <2>4. CASE g_fds # NoFd
    <3>1. g_fds \in 1..Len(inst) /\ Closed \in Instance /\ Closed.open = FALSE
      BY <1>1, <2>4, CurrentInstance, RecordFacts
    <3>2. inst' = [inst EXCEPT ![g_fds] = Closed]
      BY <1>1, <2>4
    <3>3. /\ inst' \in Seq(Instance) /\ Len(inst') = Len(inst) /\ inst'[g_fds] = Closed
          /\ \A j \in 1..Len(inst) : j # g_fds => inst'[j] = inst[j]
      BY <1>2, <3>1, <3>2, ReplacedFacts
    <3> QED BY <2>1, <2>2, <3>1, <3>3
  <2> QED BY <2>3, <2>4
<1>9. Typed'
  BY <1>1, <1>3, <1>6, <1>7, <1>8 DEF Typed, NoFd
<1>10. StopsExclusive'
  BY <1>5 DEF StopsExclusive, Quiet
<1>11. ThreadOwned'
  BY <1>1, <1>6 DEF ThreadOwned
<1>12. DescriptorsOwned'
  <2>1. DOMAIN inst' = 1..Len(inst) /\ \A i \in 1..Len(inst) : i # 0
    BY <1>2, <1>8
  <2> QED BY <1>1, <1>8, <2>1 DEF DescriptorsOwned, NoFd
<1>13. NamesDistinct'
  BY <1>1, <1>7, SameNames
<1> QED BY <1>1, <1>9, <1>10, <1>11, <1>12, <1>13 DEF WatchConsistent

-----------------------------------------------------------------------------
(* Theorems. *)

\* Nothing has been started.
LEMMA InitConsistent ==
  ASSUME Init PROVE WatchConsistent
<1>1. /\ g_mu = NULL /\ g_running = FALSE /\ g_fds = 0 /\ g_thread = NULL
      /\ g_entries = <<>> /\ inst = <<>> /\ due = {}
      /\ worker = [w \in Workers |-> NoWorker] /\ caller = [t \in Callers |-> Idle]
  BY DEF Init, NoFd
<1>2. Typed
  <2>1. worker \in [Workers -> WorkerState] /\ caller \in [Callers -> CallerState]
    BY <1>1, RecordFacts
  <2>2. g_entries \in Seq(Entry) /\ inst \in Seq(Instance) /\ g_fds \in 0..Len(inst)
    BY <1>1
  <2> QED BY <1>1, <2>1, <2>2 DEF Typed
<1>3. StopsExclusive /\ ThreadOwned
  BY <1>1, RecordFacts DEF StopsExclusive, ThreadOwned, Quiet, NoFd
<1>4. DescriptorsOwned /\ NamesDistinct
  BY <1>1, WatchAssumption DEF DescriptorsOwned, NamesDistinct
<1> QED BY <1>1, <1>2, <1>3, <1>4 DEF WatchConsistent, NoFd

\* The invariant is inductive when starts and stops do not overlap a stop.
LEMMA NextConsistent ==
  ASSUME ~Overlap, WatchConsistent, [Next]_vars PROVE WatchConsistent'
<1>1. CASE Next
  <2>1. ASSUME NEW t \in Callers,
               xy_watch_start(t) \/ StartFailed(t) \/ StopBegin(t) \/ Finish(t)
        PROVE  WatchConsistent'
    BY <2>1, StartStep, StartFailedStep, StopBeginStep, StopJoinStep, StopCloseStep DEF Finish
  <2>2. ASSUME NEW t \in Callers, NEW n \in Names, xy_watch_add(t, n) \/ xy_watch_remove(t, n)
        PROVE  WatchConsistent'
    BY <2>2, AddStep, RemoveStep
  <2>3. ASSUME NEW w \in Workers, Step(w) PROVE WatchConsistent'
    BY <2>3, ArmStep, WakeStep, EventStep, EventDroppedStep, ReloadSteps DEF Step
  <2>4. ASSUME NEW n \in Names, Rewrite(n) \/ Replace(n) PROVE WatchConsistent'
    BY <2>4, RewriteStep, ReplaceStep
  <2>5. ASSUME NEW i \in DOMAIN inst, NEW wd \in DOMAIN inst[i].watch, OldFileGone(i, wd)
        PROVE  WatchConsistent'
    BY <2>5, OldFileGoneStep
  <2> QED BY <1>1, <2>1, <2>2, <2>3, <2>4, <2>5 DEF Next
<1>2. CASE UNCHANGED vars
  <2>1. UNCHANGED <<g_mu, g_running, g_fds, g_thread, g_entries, inst, worker, caller, due>>
    BY <1>2 DEF vars
  <2>2. Typed /\ NamesDistinct /\ (g_fds # NoFd => WatchesPaired(inst[g_fds], g_entries))
    BY DEF WatchConsistent
  <2>3. NamesDistinct'
    BY <2>1, <2>2 DEF NamesDistinct, Watched
  <2> QED BY <2>1, <2>2, <2>3, SetStep DEF Typed
<1> QED BY <1>1, <1>2

\* Threads, callers, descriptors and watches are consistent in every reachable
\* state, for any number of callers, names and restarts.
THEOREM WatcherAlways ==
  ASSUME ~Overlap PROVE Spec => []WatchConsistent
<1>1. Init => WatchConsistent
  BY InitConsistent
<1>2. WatchConsistent /\ [Next]_vars => WatchConsistent'
  BY NextConsistent
<1> QED BY <1>1, <1>2, PTL DEF Spec

\* The names are in the set once each and never more than WATCH_MAX.
THEOREM WatchTypeCorrect ==
  ASSUME ~Overlap PROVE Spec => []TypeOK
<1>1. ASSUME WatchConsistent PROVE TypeOK
  <2>1. Typed /\ NamesDistinct
    BY <1>1 DEF WatchConsistent
  <2>2. /\ g_entries \in Seq(Entry) /\ Len(g_entries) \in Nat
        /\ DOMAIN g_entries = 1..Len(g_entries)
    BY <2>1 DEF Typed
  <2>3. Watched \subseteq Names
    <3>1. \A i \in DOMAIN g_entries : g_entries[i] \in Entry
      BY <2>2
    <3> QED BY <3>1 DEF Watched, Entry
  <2>4. Cardinality(Watched) = Len(g_entries)
    <3> DEFINE f == [i \in 1..Len(g_entries) |-> g_entries[i].fname]
               D == 1..Len(g_entries)
    <3>1. f \in Bijection(D, Watched)
      <4>1. f \in [D -> Watched] /\ IsInjective(f)
        BY <2>1, <2>2 DEF Watched, NamesDistinct, IsInjective
      <4>2. \A x \in Watched : \E i \in D : f[i] = x
        BY <2>2 DEF Watched
      <4> QED BY <4>1, <4>2 DEF Bijection, Injection, Surjection
    <3>2. IsFiniteSet(D) /\ Cardinality(D) = Len(g_entries)
      <4>1. 1 \in Int /\ Len(g_entries) \in Int
        BY <2>2
      <4> QED BY <2>2, <4>1, FS_Interval, SMTT(30)
    <3> HIDE DEF f, D
    <3>3. ExistsBijection(D, Watched)
      BY <3>1 DEF ExistsBijection
    <3> QED BY <3>2, <3>3, FS_Bijection
  <2> QED BY <2>1, <2>3, <2>4 DEF TypeOK, Typed, NamesDistinct, WorkerState, CallerState
<1> QED BY <1>1, WatcherAlways, PTL

\* No start that fails half way, no stop and no restart leaks a descriptor or
\* leaves the globals naming a closed one.
THEOREM DescriptorsAlwaysOwned ==
  ASSUME ~Overlap PROVE Spec => []DescriptorsOwned
<1>1. WatchConsistent => DescriptorsOwned
  BY DEF WatchConsistent
<1> QED BY <1>1, WatcherAlways, PTL

\* No watch of the kernel is without its entry and no number an entry holds
\* comes to stand for another file, while adds, removes and restarts compact
\* the array and renumber the watches, and replaced files take theirs away.
THEOREM WatchesAlwaysMatchEntries ==
  ASSUME ~Overlap PROVE Spec => []WatchesMatchEntries
<1>1. ASSUME WatchConsistent PROVE WatchesMatchEntries
  <2> SUFFICES ASSUME g_fds # NoFd, WatchesPaired(inst[g_fds], g_entries)
               PROVE  WatchesMatchEntries
    BY <1>1 DEF WatchConsistent, WatchesMatchEntries
  <2>1. \A i \in DOMAIN g_entries : g_entries[i].wd # NoWd =>
          \/ /\ g_entries[i].wd \in DOMAIN inst[g_fds].watch
             /\ inst[g_fds].watch[g_entries[i].wd] \in {g_entries[i].fname, NULL}
          \/ g_entries[i].wd \in inst[g_fds].gone \ DOMAIN inst[g_fds].watch
    BY DEF WatchesPaired, WatchFor
  <2> QED BY <2>1 DEF WatchesPaired, WatchesMatchEntries
<1> QED BY <1>1, WatcherAlways, PTL

\* After xy_watch_stop no thread is left and the lock is free.
THEOREM AlwaysQuietWhenStopped ==
  ASSUME ~Overlap PROVE Spec => []QuietWhenStopped
<1>1. ASSUME WatchConsistent PROVE QuietWhenStopped
  <2>1. ThreadOwned /\ Typed
    BY <1>1 DEF WatchConsistent
  <2> SUFFICES ASSUME ~g_running, Quiet
               PROVE  g_mu = NULL /\ \A w \in Workers : worker[w] = NoWorker
    BY DEF QuietWhenStopped, Quiet
  <2>2. \A w \in Workers : worker[w] = NoWorker
    BY <2>1 DEF ThreadOwned
  <2>3. g_mu = NULL
    BY <2>1, <2>2, RecordFacts DEF ThreadOwned, Typed
  <2> QED BY <2>2, <2>3
<1> QED BY <1>1, WatcherAlways, PTL
=============================================================================
