------------------------------- MODULE Watch --------------------------------
(***************************************************************************)
(* The module watcher: threads that call xy_watch_start, xy_watch_stop,    *)
(* xy_watch_add and xy_watch_remove, and the thread that start creates,    *)
(* which waits for inotify events and reloads the modules whose files      *)
(* changed. The mutex g_mu is held for the whole of an API call, which is  *)
(* one step therefore, except that stop gives it up to join the thread;    *)
(* the watcher holds it while xy_reload runs the module's xy_install. That *)
(* xy_install is taken to return and to make no calls of this API.         *)
(*                                                                         *)
(* A call that changes nothing (start when running, stop when not, add of  *)
(* a name that is there or of one too many, remove of one that is not) is  *)
(* a stuttering step. What xy_reload does is the subject of Lifecycle.     *)
(***************************************************************************)
EXTENDS Integers, SequencesExt

CONSTANTS
  Callers,      \* threads that call the API
  Workers,      \* thread objects that pthread_create can make
  Names,        \* module names, each of a file of its own
  WATCH_MAX,    \* XY_WATCH_MAX
  Overlap,      \* whether start and stop are called while a stop is going on
  MaxCalls,     \* bound: API calls that change something
  MaxUpdates,   \* bound: file updates
  NULL

ASSUME WatchAssumption ==
  /\ WATCH_MAX \in Nat /\ Overlap \in BOOLEAN
  /\ NULL \notin Names \cup Workers

VARIABLES
  g_mu,       \* worker that holds the mutex, or NULL
  g_running,
  g_fds,      \* g_ifd and g_pipe_r/w: the instance they belong to, or NoFd
  g_thread,   \* the thread created last
  g_entries,  \* the watch set, in array order
  inst,       \* kernel: inotify descriptor and pipe of every start
  worker,     \* per worker: where it is and its local variables
  caller,     \* per caller: "idle", or how far its xy_watch_stop is
  due,        \* history: names whose watched file changed, not reloaded since
  calls, updates

vars == <<g_mu, g_running, g_fds, g_thread, g_entries, inst, worker, caller,
          due, calls, updates>>
setVars == <<g_mu, g_running, g_fds, g_thread, inst>>

NoFd == 0
NoWd == -1

\* A watcher thread: pc, the instance its select waits for, the events read
\* and not looked at, and the name it is about to reload.
NoWorker == [pc |-> "none", sel |-> NoFd, batch |-> <<>>, name |-> NULL]
Idle == [pc |-> "idle", join |-> NULL]

\* An open inotify descriptor with its watches and its event queue, and the
\* pipe with the byte that asks the thread to stop. A file that was replaced
\* has no name any more; its watch is kept until the file itself goes, and its
\* number then is in gone (history). The IN_IGNORED events of watches that end
\* are skipped by the watcher (line 186) and left out, and so is a queue that
\* overflows.
Opened == [open |-> TRUE, watch |-> [wd \in {} |-> NULL], gone |-> {}, last |-> 0,
           queue |-> <<>>, byte |-> FALSE]
Closed == [Opened EXCEPT !.open = FALSE]

Watched == {g_entries[i].fname : i \in DOMAIN g_entries}

\* Position of the entry with watch descriptor wd, 0 if there is none.
entry_find_by_wd(wd) ==
  LET at == {i \in DOMAIN g_entries : g_entries[i].wd = wd}
  IN  IF at = {} THEN 0 ELSE Min(at)

\* inotify_add_watch on a file the instance does not watch yet.
inotify_add_watch(o, n) ==
  [o EXCEPT !.last = @ + 1,
            !.watch = [wd \in DOMAIN @ \cup {o.last + 1} |-> IF wd = o.last + 1 THEN n ELSE @[wd]]]

\* Nothing happens (EINVAL, ignored) if watch wd has ended.
inotify_rm_watch(o, wd) ==
  [o EXCEPT !.watch = [d \in DOMAIN @ \ {wd} |-> @[d]]]

\* entry_rewatch for every entry of a new instance, in array order, when the
\* watches at the positions in S can be placed.
Nth(S, i) == Cardinality({j \in S : j <= i})
RewatchedEntries(S) ==
  [i \in DOMAIN g_entries |-> [g_entries[i] EXCEPT !.wd = IF i \in S THEN Nth(S, i) ELSE NoWd]]
RewatchedInstance(S) ==
  [Opened EXCEPT !.last = Cardinality(S),
                 !.watch = [wd \in 1..Cardinality(S) |->
                              g_entries[CHOOSE i \in S : Nth(S, i) = wd].fname]]

-----------------------------------------------------------------------------
(* The API, called by thread t. *)

Calling(t) ==
  /\ caller[t].pc = "idle" /\ g_mu = NULL
  /\ calls < MaxCalls /\ calls' = calls + 1

MayStartStop == Overlap \/ \A t \in Callers : caller[t].pc = "idle"

xy_watch_start(t) ==
  /\ Calling(t) /\ MayStartStop /\ ~g_running
  /\ \E S \in SUBSET DOMAIN g_entries, w \in {x \in Workers : worker[x] = NoWorker} :
       /\ g_entries' = RewatchedEntries(S)
       /\ inst' = Append(inst, RewatchedInstance(S))
       /\ g_fds' = Len(inst')
       /\ g_thread' = w
       /\ worker' = [worker EXCEPT ![w].pc = "arm"]
  /\ g_running' = TRUE
  /\ UNCHANGED <<g_mu, caller, due, updates>>

\* pthread_create fails: the descriptors are closed again, the entries keep
\* the numbers of watches that are gone. (When inotify_init1 or pipe fails,
\* nothing has changed, unless a stop is going on.)
StartFailed(t) ==
  /\ Calling(t) /\ MayStartStop /\ ~g_running
  /\ \E S \in SUBSET DOMAIN g_entries : g_entries' = RewatchedEntries(S)
  /\ inst' = Append(inst, Closed)
  /\ g_fds' = NoFd
  /\ UNCHANGED <<g_mu, g_running, g_thread, worker, caller, due, updates>>

\* xy_watch_stop up to the join: the byte is written and the lock released.
StopBegin(t) ==
  /\ Calling(t) /\ MayStartStop /\ g_running
  /\ g_running' = FALSE
  /\ inst' = IF g_fds = NoFd THEN inst ELSE [inst EXCEPT ![g_fds].byte = TRUE]
  /\ caller' = [caller EXCEPT ![t].pc = "stop"]
  /\ due' = {}
  /\ UNCHANGED <<g_mu, g_fds, g_thread, g_entries, worker, updates>>

\* pthread_join reads g_thread without the lock.
StopJoin(t) ==
  /\ caller[t].pc = "stop"
  /\ caller' = [caller EXCEPT ![t] = [pc |-> "join", join |-> g_thread]]
  /\ UNCHANGED <<setVars, g_entries, worker, due, calls, updates>>

\* Mutated forms of StopClose: the thread is not waited for; the descriptors
\* are forgotten instead of closed.
StopCloseEarly(t) ==
  /\ caller[t].pc = "join" /\ g_mu = NULL
  /\ inst' = IF g_fds = NoFd THEN inst ELSE [inst EXCEPT ![g_fds] = Closed]
  /\ g_fds' = NoFd
  /\ g_entries' = [i \in DOMAIN g_entries |-> [g_entries[i] EXCEPT !.wd = NoWd]]
  /\ caller' = [caller EXCEPT ![t] = Idle]
  /\ UNCHANGED <<g_mu, g_running, g_thread, worker, due, calls, updates>>
StopCloseForgetting(t) ==
  /\ caller[t].pc = "join" /\ g_mu = NULL
  /\ worker[caller[t].join].pc = "exited"
  /\ g_fds' = NoFd
  /\ g_entries' = [i \in DOMAIN g_entries |-> [g_entries[i] EXCEPT !.wd = NoWd]]
  /\ worker' = [worker EXCEPT ![caller[t].join] = NoWorker]
  /\ caller' = [caller EXCEPT ![t] = Idle]
  /\ UNCHANGED <<g_mu, g_running, g_thread, inst, due, calls, updates>>

\* The thread has exited; whatever the globals name now is closed.
StopClose(t) ==
  /\ caller[t].pc = "join" /\ g_mu = NULL
  /\ worker[caller[t].join].pc = "exited"
  /\ inst' = IF g_fds = NoFd THEN inst ELSE [inst EXCEPT ![g_fds] = Closed]
  /\ g_fds' = NoFd
  /\ g_entries' = [i \in DOMAIN g_entries |-> [g_entries[i] EXCEPT !.wd = NoWd]]
  /\ worker' = [worker EXCEPT ![caller[t].join] = NoWorker]
  /\ caller' = [caller EXCEPT ![t] = Idle]
  /\ UNCHANGED <<g_mu, g_running, g_thread, due, calls, updates>>

\* Entry for name n at the end of the set; watched at once if there is an
\* inotify descriptor and the file can be watched.
Added(n) ==
  /\ \/ /\ g_entries' = Append(g_entries, [fname |-> n, wd |-> NoWd])
        /\ UNCHANGED inst
     \/ /\ g_fds # NoFd
        /\ inst' = [inst EXCEPT ![g_fds] = inotify_add_watch(@, n)]
        /\ g_entries' = Append(g_entries, [fname |-> n, wd |-> inst'[g_fds].last])
  /\ UNCHANGED <<g_mu, g_running, g_fds, g_thread, worker, caller, due, updates>>

\* Mutated form of xy_watch_add: the limit is not checked.
AddUnbounded(t, n) == Calling(t) /\ n \notin Watched /\ Added(n)

xy_watch_add(t, n) ==
  /\ Calling(t) /\ n \notin Watched /\ Len(g_entries) < WATCH_MAX
  /\ Added(n)

\* Mutated form of xy_watch_remove: the kernel goes on watching the file.
RemoveKeepingWatch(t, n) ==
  /\ Calling(t) /\ n \in Watched
  /\ g_entries' = SelectSeq(g_entries, LAMBDA e : e.fname # n)
  /\ due' = due \ {n}
  /\ UNCHANGED <<setVars, worker, caller, updates>>

xy_watch_remove(t, n) ==
  /\ Calling(t) /\ n \in Watched
  /\ LET i == CHOOSE j \in DOMAIN g_entries : g_entries[j].fname = n
     IN  /\ inst' = IF g_fds # NoFd /\ g_entries[i].wd # NoWd
                    THEN [inst EXCEPT ![g_fds] = inotify_rm_watch(@, g_entries[i].wd)]
                    ELSE inst
         /\ g_entries' = RemoveAt(g_entries, i)
  /\ due' = due \ {n}
  /\ UNCHANGED <<g_mu, g_running, g_fds, g_thread, worker, caller, updates>>

-----------------------------------------------------------------------------
(* The watcher thread w. *)

\* FD_SET and select read the globals without the lock. On descriptors that
\* are closed by then the thread waits for ever.
Arm(w) ==
  /\ worker[w].pc = "arm"
  /\ worker' = [worker EXCEPT ![w].pc = "select", ![w].sel = g_fds]
  /\ UNCHANGED <<setVars, g_entries, caller, due, calls, updates>>

\* What select waits for has happened.
Ready(i) == i # NoFd /\ inst[i].open /\ (inst[i].byte \/ inst[i].queue # <<>>)

\* Mutated form of Wake: events are read before the pipe is looked at, and the
\* pipe is never.
WakeBlindToPipe(w) ==
  /\ worker[w].pc = "select" /\ Ready(worker[w].sel)
  /\ IF g_fds = worker[w].sel /\ inst[g_fds].queue # <<>>
     THEN /\ worker' = [worker EXCEPT ![w].pc = "batch", ![w].batch = inst[g_fds].queue]
          /\ inst' = [inst EXCEPT ![g_fds].queue = <<>>]
     ELSE worker' = [worker EXCEPT ![w].pc = "arm"] /\ UNCHANGED inst
  /\ UNCHANGED <<g_mu, g_running, g_fds, g_thread, g_entries, caller, due, calls, updates>>

\* select returns. The bits it set are tested with the descriptors the
\* globals hold now: a stop request ends the thread, events are read.
Wake(w) ==
  /\ worker[w].pc = "select" /\ Ready(worker[w].sel)
  /\ LET same == g_fds = worker[w].sel
         read == same /\ ~inst[g_fds].byte
     IN  /\ worker' = [worker EXCEPT ![w] =
              [@ EXCEPT !.pc = IF read THEN "batch" ELSE IF same THEN "exited" ELSE "arm",
                        !.batch = IF read THEN inst[g_fds].queue ELSE <<>>]]
         /\ inst' = IF read THEN [inst EXCEPT ![g_fds].queue = <<>>] ELSE inst
  /\ UNCHANGED <<g_mu, g_running, g_fds, g_thread, g_entries, caller, due, calls, updates>>

\* Mutated form of Event: the rest of the buffer is dropped.
EventAlone(w) ==
  /\ worker[w].pc = "batch" /\ g_mu = NULL
  /\ LET i == IF worker[w].batch = <<>> THEN 0 ELSE entry_find_by_wd(Head(worker[w].batch))
     IN  worker' = [worker EXCEPT ![w] =
           [@ EXCEPT !.pc = IF i = 0 THEN "arm" ELSE "reload", !.batch = <<>>,
                     !.name = IF i = 0 THEN NULL ELSE g_entries[i].fname]]
  /\ UNCHANGED <<setVars, g_entries, caller, due, calls, updates>>

\* The next event of the buffer is looked up under the lock and the name
\* copied; an event of a watch that has been removed is dropped.
Event(w) ==
  /\ worker[w].pc = "batch"
  /\ IF worker[w].batch = <<>>
     THEN worker' = [worker EXCEPT ![w].pc = "arm"]
     ELSE /\ g_mu = NULL
          /\ LET i == entry_find_by_wd(Head(worker[w].batch))
             IN  worker' = [worker EXCEPT ![w] =
                   [worker[w] EXCEPT !.batch = Tail(@),
                                     !.pc = IF i = 0 THEN "batch" ELSE "reload",
                                     !.name = IF i = 0 THEN NULL ELSE g_entries[i].fname]]
  /\ UNCHANGED <<setVars, g_entries, caller, due, calls, updates>>

\* Events about name n that have been read or are queued, but for the first.
EventsLeft(w, n) ==
  LET queued == IF g_fds = NoFd THEN <<>> ELSE inst[g_fds].queue
  IN  {wd \in ToSet(Tail(worker[w].batch) \o queued) :
         entry_find_by_wd(wd) # 0 /\ g_entries[entry_find_by_wd(wd)].fname = n}

\* There is no memory for a copy of the name: the event is dropped, and the
\* update is missed unless another event about it is on its way.
EventDropped(w) ==
  /\ worker[w].pc = "batch" /\ worker[w].batch # <<>> /\ g_mu = NULL
  /\ LET i == entry_find_by_wd(Head(worker[w].batch))
         n == g_entries[i].fname
     IN  /\ i # 0
         /\ due' = IF EventsLeft(w, n) = {} THEN due \ {n} ELSE due
  /\ worker' = [worker EXCEPT ![w].batch = Tail(@)]
  /\ UNCHANGED <<setVars, g_entries, caller, calls, updates>>

\* The lock is taken again and xy_reload begins.
ReloadBegin(w) ==
  /\ worker[w].pc = "reload" /\ g_mu = NULL
  /\ g_mu' = w
  /\ worker' = [worker EXCEPT ![w].pc = "install"]
  /\ due' = due \ {worker[w].name}
  /\ UNCHANGED <<g_running, g_fds, g_thread, g_entries, inst, caller, calls, updates>>

ReloadEnd(w) ==
  /\ worker[w].pc = "install"
  /\ g_mu' = NULL
  /\ worker' = [worker EXCEPT ![w].pc = "batch", ![w].name = NULL]
  /\ UNCHANGED <<g_running, g_fds, g_thread, g_entries, inst, caller, due, calls, updates>>

-----------------------------------------------------------------------------
(* The files. *)

Update ==
  /\ updates < MaxUpdates /\ updates' = updates + 1
  /\ UNCHANGED <<g_mu, g_running, g_fds, g_thread, g_entries, worker, caller, calls>>

WatchesOn(i, n) == {wd \in DOMAIN inst[i].watch : inst[i].watch[wd] = n}

\* File n is rewritten and closed. An event equal to the last one queued is
\* merged with it.
Rewrite(n) ==
  /\ Update
  /\ inst' = [i \in DOMAIN inst |->
       [inst[i] EXCEPT !.queue =
          IF WatchesOn(i, n) = {} \/ (@ # <<>> /\ Last(@) \in WatchesOn(i, n)) THEN @
          ELSE Append(@, CHOOSE wd \in WatchesOn(i, n) : TRUE)]]
  /\ due' = IF g_running /\ g_fds # NoFd /\ WatchesOn(g_fds, n) # {}
            THEN due \cup {n} ELSE due

\* Another file is renamed to n's name. The watch stays with the old file
\* while that is open or mapped, and a watch on a file, not on its directory,
\* never reports IN_MOVED_TO: the branch of the watcher that registers the
\* watch again (lines 202-203) does not run.
Replace(n) ==
  /\ Update
  /\ inst' = [i \in DOMAIN inst |->
       [inst[i] EXCEPT !.watch = [wd \in DOMAIN @ |-> IF @[wd] = n THEN NULL ELSE @[wd]]]]
  /\ UNCHANGED due

\* The last reference to a replaced file goes: the kernel ends its watch. The
\* entry keeps the number.
OldFileGone(i, wd) ==
  /\ i \in DOMAIN inst /\ wd \in DOMAIN inst[i].watch /\ inst[i].watch[wd] = NULL
  /\ LET o == inotify_rm_watch(inst[i], wd)
     IN  inst' = [inst EXCEPT ![i] = [o EXCEPT !.gone = o.gone \cup {wd}]]
  /\ UNCHANGED <<g_mu, g_running, g_fds, g_thread, g_entries, worker, caller, due,
                 calls, updates>>

-----------------------------------------------------------------------------

Init ==
  /\ g_mu = NULL /\ g_running = FALSE /\ g_fds = NoFd /\ g_thread = NULL
  /\ g_entries = <<>> /\ inst = <<>>
  /\ worker = [w \in Workers |-> NoWorker]
  /\ caller = [t \in Callers |-> Idle]
  /\ due = {} /\ calls = 0 /\ updates = 0

Step(w) == \/ Arm(w) \/ Wake(w) \/ Event(w) \/ EventDropped(w)
           \/ ReloadBegin(w) \/ ReloadEnd(w)
Finish(t) == StopJoin(t) \/ StopClose(t)

Next ==
  \/ \E t \in Callers : \/ xy_watch_start(t) \/ StartFailed(t) \/ StopBegin(t)
                        \/ Finish(t)
  \/ \E t \in Callers, n \in Names : xy_watch_add(t, n) \/ xy_watch_remove(t, n)
  \/ \E w \in Workers : Step(w)
  \/ \E n \in Names : Rewrite(n) \/ Replace(n)
  \/ \E i \in DOMAIN inst : \E wd \in DOMAIN inst[i].watch : OldFileGone(i, wd)

\* Threads that can go on do; nobody has to call the API or change a file.
Fairness ==
  /\ \A w \in Workers : WF_vars(Step(w))
  /\ \A t \in Callers : WF_vars(Finish(t))

Spec == Init /\ [][Next]_vars /\ Fairness

-----------------------------------------------------------------------------
(* Properties. *)

\* Type invariant; the set holds at most WATCH_MAX names, each once.
TypeOK ==
  /\ g_mu \in Workers \cup {NULL} /\ g_running \in BOOLEAN
  /\ g_fds \in 0 .. Len(inst) /\ g_thread \in Workers \cup {NULL}
  /\ Len(g_entries) <= WATCH_MAX
  /\ Cardinality(Watched) = Len(g_entries) /\ Watched \subseteq Names
  /\ due \subseteq Watched
  /\ \A w \in Workers : worker[w].pc \in {"none", "arm", "select", "batch", "reload", "install", "exited"}
  /\ \A t \in Callers : caller[t].pc \in {"idle", "stop", "join"}

\* The descriptors that are open are the ones the globals name: starts that
\* fail half way, stops and restarts leak none.
DescriptorsOwned ==
  \A i \in DOMAIN inst : inst[i].open <=> i = g_fds

\* While there is an inotify descriptor, its watches and the entries agree,
\* whatever adds, removes and restarts have compacted and renumbered. Every
\* watch belongs to an entry. A number an entry holds is no other entry's; it
\* is a watch on the entry's file, or on the one that a replacement has pushed
\* out of the name, or its watch has ended with that file and the number stands
\* for no other.
WatchesMatchEntries ==
  g_fds # NoFd =>
    LET o == inst[g_fds]
        Has(i, wd) == g_entries[i].wd = wd
    IN  /\ \A wd \in DOMAIN o.watch : \E i \in DOMAIN g_entries : Has(i, wd)
        /\ \A i, j \in DOMAIN g_entries :
             g_entries[i].wd # NoWd /\ Has(j, g_entries[i].wd) => i = j
        /\ \A i \in DOMAIN g_entries : g_entries[i].wd # NoWd =>
             \/ /\ g_entries[i].wd \in DOMAIN o.watch
                /\ o.watch[g_entries[i].wd] \in {g_entries[i].fname, NULL}
             \/ g_entries[i].wd \in o.gone \ DOMAIN o.watch

\* When xy_watch_stop has returned, no watcher thread is left and no reload
\* goes on (xy-watch.h: "Blocks until the thread has exited").
QuietWhenStopped ==
  ~g_running /\ (\A t \in Callers : caller[t].pc = "idle")
    => g_mu = NULL /\ \A w \in Workers : worker[w] = NoWorker

\* xy-watch.h: xy_watch_stop "blocks until the thread has exited", and "all
\* functions are safe to call from any thread": a stop returns.
StopReturns ==
  \A t \in Callers : caller[t].pc # "idle" ~> caller[t].pc = "idle"

\* xy-watch.h: the watcher "calls xy_reload() automatically when a file is
\* updated on disk": one that is rewritten in place while it is watched is
\* reloaded, unless the watcher is stopped or the name removed first, or there
\* is no memory when its last event is looked at.
UpdateReloaded ==
  \A n \in Names : n \in due ~> n \notin due
=============================================================================
