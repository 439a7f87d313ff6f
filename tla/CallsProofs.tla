---------------------------- MODULE CallsProofs -----------------------------
(***************************************************************************)
(* Concurrent calls for every number of threads, hooks, modules and nested *)
(* calls, as long as the host keeps the three rules of Calls.              *)
(***************************************************************************)
EXTENDS Calls, SeqLemmas

-----------------------------------------------------------------------------
(* Prefixes and filters. *)

\* A longer prefix is a shorter one and the next element.
LEMMA PrefixGrows ==
  ASSUME NEW T, NEW s \in Seq(T), NEW i \in 0..Len(s), i < Len(s)
  PROVE  /\ SubSeq(s, 1, i) \in Seq(T) /\ Len(SubSeq(s, 1, i)) = i
         /\ s[i + 1] \in T
         /\ SubSeq(s, 1, i + 1) = Append(SubSeq(s, 1, i), s[i + 1])
<1> DEFINE p == SubSeq(s, 1, i)
           q == SubSeq(s, 1, i + 1)
<1>1. /\ p \in Seq(T) /\ Len(p) = i /\ \A k \in 1..i : p[k] = s[k]
  OBVIOUS
<1>2. /\ q \in Seq(T) /\ Len(q) = i + 1 /\ \A k \in 1..i+1 : q[k] = s[k]
  OBVIOUS
<1>3. s[i + 1] \in T
  OBVIOUS
<1> HIDE DEF p, q
<1>4. q = Append(p, s[i + 1])
  BY <1>1, <1>2, <1>3
<1> QED BY <1>1, <1>3, <1>4 DEF p, q

\* The filter of a list, from the one of the list without its last element.
LEMMA OnlyStep ==
  ASSUME NEW T, NEW s \in Seq(T), NEW S, NEW i \in 0..Len(s), i < Len(s)
  PROVE  Only(SubSeq(s, 1, i + 1), S) =
           IF s[i + 1] \in S THEN Append(Only(SubSeq(s, 1, i), S), s[i + 1])
                             ELSE Only(SubSeq(s, 1, i), S)
<1> DEFINE p == SubSeq(s, 1, i)
           q == SubSeq(s, 1, i + 1)
<1>1. /\ p \in Seq(T) /\ Len(p) = i /\ \A k \in 1..i : p[k] = s[k]
  OBVIOUS
<1>2. /\ q \in Seq(T) /\ Len(q) = i + 1 /\ \A k \in 1..i+1 : q[k] = s[k]
  OBVIOUS
<1> HIDE DEF p, q
<1>3. PICK f : f = KeptStep(p, S, f, Len(p)) /\ Only(p, S) = f[Len(p)]
  BY <1>1, OnlyDefined
<1>4. PICK g : g = KeptStep(q, S, g, Len(q)) /\ Only(q, S) = g[Len(q)]
  BY <1>2, OnlyDefined
<1>a. i \in Nat /\ i + 1 \in Nat /\ i <= i + 1
  OBVIOUS
<1>b. f = KeptStep(p, S, f, i) /\ g = KeptStep(q, S, g, i + 1)
  BY <1>1, <1>2, <1>3, <1>4
<1>c. \A k \in 1..i : p[k] = q[k]
  BY <1>1, <1>2
<1>5. f[i] = g[i]
  <2> DEFINE P(k) == k <= i => f[k] = g[k]
             Good == {k \in Nat : P(k)}
  <2>1. /\ \A k \in 0..i : f[k] = IF k = 0 THEN <<>>
                                  ELSE IF p[k] \in S THEN Append(f[k-1], p[k]) ELSE f[k-1]
        /\ \A k \in 0..i+1 : g[k] = IF k = 0 THEN <<>>
                                    ELSE IF q[k] \in S THEN Append(g[k-1], q[k]) ELSE g[k-1]
    BY <1>b DEF KeptStep
  <2>2. 0 \in Good
    BY <2>1
  <2>3. ASSUME NEW k \in Nat, k \in Good PROVE k + 1 \in Good
    <3>1. SUFFICES ASSUME k + 1 <= i PROVE f[k + 1] = g[k + 1]
      OBVIOUS
    <3>2. f[k] = g[k] /\ k + 1 \in 0..i /\ k + 1 \in 0..i+1 /\ p[k+1] = q[k+1] /\ (k + 1) - 1 = k
      BY <1>c, <2>3, <3>1
    <3> QED BY <2>1, <3>2
  <2>4. \A k \in Nat : k \in Good
    <3> HIDE DEF Good
    <3> QED BY <2>2, <2>3, SetInduction
  <2> QED BY <2>4, <1>a
<1>6. g[i + 1] = IF q[i + 1] \in S THEN Append(g[i], q[i + 1]) ELSE g[i]
  <2>1. \A k \in 0..i+1 : g[k] = IF k = 0 THEN <<>>
                                 ELSE IF q[k] \in S THEN Append(g[k-1], q[k]) ELSE g[k-1]
    BY <1>b DEF KeptStep
  <2>2. i + 1 \in 0..i+1 /\ (i + 1) - 1 = i /\ i + 1 # 0
    OBVIOUS
  <2> HIDE DEF KeptStep
  <2> QED BY <2>1, <2>2
<1> QED BY <1>1, <1>2, <1>3, <1>4, <1>5, <1>6 DEF p, q

\* Nothing is left of the empty list.
LEMMA OnlyOfNone ==
  ASSUME NEW T, NEW s \in Seq(T), NEW S
  PROVE  Only(SubSeq(s, 1, 0), S) = <<>> /\ SubSeq(s, 1, 0) = <<>> /\ SubSeq(s, 1, Len(s)) = s
<1>1. SubSeq(s, 1, 0) = <<>> /\ SubSeq(s, 1, Len(s)) = s
  OBVIOUS
<1>2. <<>> \in Seq(T) /\ Len(<<>>) = 0
  OBVIOUS
<1>3. PICK f : f = KeptStep(<<>>, S, f, Len(<<>>)) /\ Only(<<>>, S) = f[Len(<<>>)]
  BY <1>2, OnlyDefined
<1>4. f[0] = <<>>
  BY <1>2, <1>3 DEF KeptStep
<1> QED BY <1>1, <1>2, <1>3, <1>4

-----------------------------------------------------------------------------
(* The inductive invariant. Its parts take the state as parameters, so that
   what is said of one state is said of the next in the same words. *)

Entries == Mods \X Nat
Vector == [slots : Seq(Entries), count : Nat, cap : Nat, gen : Nat]
Region ==
  [mods : Seq(Entries), gen : Nat, list : Seq(Entries), lcap : Nat, dirty : BOOLEAN,
   tab : Nat, vec : [Hooks -> Vector]]
Frame ==
  [h : Hooks, pc : {"collect", "table", "fill", "read", "body"}, at : Nat, i : Nat,
   n : Nat, cap : Nat, tab : Nat, want : Seq(Entries), seen : Seq(Entries)]
Tls == [at : Nat, ran : Nat, ret : Hooks \cup {NULL}]
Result ==
  [h : Hooks \cup {NULL}, end : {"none", "ok", "notfound", "failed"}, exact : BOOLEAN]

Typed ==
  /\ root \in Nat /\ reg \in Region /\ stack \in [Threads -> Seq(Frame)]
  /\ tls \in [Threads -> Tls] /\ adapter \in Hooks \cup {NULL}
  /\ boots \in Nat /\ changes \in Nat /\ fails \in Nat
  /\ res \in [Threads -> Result]

HearingIn(r, h) == {e \in ToSet(r.mods) : Hears(e, h)}
ListenersIn(r, h) == Only(r.mods, HearingIn(r, h))
CurrentIn(r, h) == ~r.dirty /\ r.vec[h].gen = r.gen

\* One thread at most has a current region; nobody is in a call without a
\* runtime.
Runtime ==
  /\ \A t \in Threads : tls[t].at = 0 \/ tls[t].at = root
  /\ \A t, u \in Threads : tls[t].at # 0 /\ tls[u].at # 0 => t = u
  /\ root <= boots /\ boots <= MaxBoots
  /\ root = 0 => boots < MaxBoots /\ changes = 0 /\ \A t \in Threads : stack[t] = <<>>
  /\ changes <= MaxChanges /\ fails <= MaxFails
  /\ \A t \in Threads : /\ Len(stack[t]) <= MaxNest
                        /\ stack[t] # <<>> => adapter # NULL

\* What a region's caches keep to whatever rebuilds were cut short.
CachesFit(r) ==
  /\ r.gen >= 1 /\ Len(r.list) <= r.lcap
  /\ ~r.dirty => r.list = r.mods
  /\ \A h \in Hooks : /\ r.vec[h].count <= Len(r.vec[h].slots)
                      /\ Len(r.vec[h].slots) <= r.vec[h].cap
                      /\ r.vec[h].gen <= r.gen /\ (r.dirty => r.vec[h].gen # r.gen)
                      /\ r.vec[h].gen # 0 => h < r.tab
                      /\ CurrentIn(r, h) =>
                           SubSeq(r.vec[h].slots, 1, r.vec[h].count) = ListenersIn(r, h)

\* What a call at each place knows of the region.
FrameFits(f, r, at) ==
  /\ f.at = at /\ f.want = ListenersIn(r, f.h)
  /\ f.pc \in {"read", "body"} => CurrentIn(r, f.h)
  /\ f.pc = "body" => /\ f.n = r.vec[f.h].count /\ f.cap = r.vec[f.h].cap
                      /\ 1 <= f.i /\ f.i <= f.n
                      /\ f.seen = SubSeq(r.vec[f.h].slots, 1, f.i)
  /\ f.pc # "body" => f.seen = <<>>
  /\ f.pc \in {"fill", "read"} => f.tab = r.tab
  /\ f.pc = "read" => f.i = 0
  /\ f.pc = "collect" =>
       r.dirty /\ f.i <= Len(r.mods) /\ r.list = SubSeq(r.mods, 1, f.i)
  /\ f.pc = "fill" =>
       /\ ~r.dirty /\ r.vec[f.h].gen # r.gen /\ f.i <= Len(r.mods) /\ f.h < r.tab
       /\ SubSeq(r.vec[f.h].slots, 1, r.vec[f.h].count)
            = Only(SubSeq(r.mods, 1, f.i), HearingIn(r, f.h))

StackFits(s, r, at) ==
  \A k \in 1..Len(s) : FrameFits(s[k], r, at) /\ (k < Len(s) => s[k].pc = "body")

Rebuilds(s) == s # <<>> /\ s[Len(s)].pc \in {"collect", "table", "fill"}

\* A call that will write to the caches is the only one; one that merely has
\* not looked yet finds its vector current.
RebuildsAlone(st, r) ==
  \A t \in Threads : Rebuilds(st[t]) =>
    \/ \A u \in Threads : u # t => st[u] = <<>>
    \/ st[t][Len(st[t])].pc = "table" /\ CurrentIn(r, st[t][Len(st[t])].h)

\* What the last call of a thread left behind.
ResultFits(q, l, a) ==
  /\ q.end \in {"ok", "notfound"} => q.exact
  /\ q # NoResult => /\ a # NULL /\ q.h \in Hooks
                     /\ q.end = "ok" => l.ran > 0 /\ l.ret = q.h
                     /\ q.end # "ok" => l.ran = 0

CallsConsistent ==
  /\ Typed /\ Runtime /\ CachesFit(reg) /\ reg.gen = changes + 1
  /\ \A t \in Threads : StackFits(stack[t], reg, root)
  /\ RebuildsAlone(stack, reg)
  /\ \A t \in Threads : ResultFits(res[t], tls[t], adapter)

\* The state's own operators in these words.
LEMMA InOneRegion ==
  /\ \A h : Hearing(h) = HearingIn(reg, h) /\ Listeners(h) = ListenersIn(reg, h)
            /\ (Current(h) <=> CurrentIn(reg, h))
  /\ \A t : Rebuilding(t) <=> Rebuilds(stack[t])
<1>1. \A h : Hearing(h) = HearingIn(reg, h)
  BY DEF Hearing, HearingIn, Alive
<1> QED BY <1>1 DEF Listeners, ListenersIn, Current, CurrentIn, Rebuilding, Rebuilds, At, Busy, Top

\* A call in a body goes on as it was when what it walks stays.
LEMMA BodyStays ==
  ASSUME NEW r, NEW q, NEW at, NEW f, FrameFits(f, r, at), f.pc = "body",
         q.mods = r.mods, q.gen = r.gen, q.dirty = r.dirty, q.vec[f.h] = r.vec[f.h]
  PROVE  FrameFits(f, q, at)
BY DEF FrameFits, ListenersIn, HearingIn, CurrentIn

\* The listeners are entries of the region, and each hears the hook.
LEMMA ListenersFacts ==
  ASSUME NEW r \in Region, NEW h \in Hooks
  PROVE  /\ ListenersIn(r, h) \in Seq(Entries)
         /\ \A k \in 1..Len(ListenersIn(r, h)) : ListenersIn(r, h)[k] \in ToSet(r.mods)
<1>1. r.mods \in Seq(Entries)
  BY DEF Region
<1> DEFINE s == Only(r.mods, HearingIn(r, h))
<1>2. s \in Seq(Entries) /\ ToSet(s) = ToSet(r.mods) \cap HearingIn(r, h)
  BY <1>1, OnlyFacts
<1> HIDE DEF s
<1>3. \A k \in 1..Len(s) : s[k] \in ToSet(s)
  BY <1>2 DEF ToSet
<1> QED BY <1>2, <1>3 DEF s, ListenersIn

\* The call on top of a thread's stack.
LEMMA TopFacts ==
  ASSUME Typed, NEW t \in Threads, stack[t] # <<>>
  PROVE  /\ stack[t] \in Seq(Frame) /\ Len(stack[t]) \in Nat \ {0}
         /\ Top(t) = stack[t][Len(stack[t])] /\ Top(t) \in Frame
<1>1. stack[t] \in Seq(Frame)
  BY DEF Typed
<1>2. Len(stack[t]) \in Nat \ {0}
  BY <1>1
<1> QED BY <1>1, <1>2 DEF Top

-----------------------------------------------------------------------------
(* What the invariant says. *)

\* In a current vector every slot in use holds an entry of the region.
LEMMA SlotsAlive ==
  ASSUME NEW r \in Region, NEW h \in Hooks, CachesFit(r), CurrentIn(r, h),
         NEW i \in Nat, i < r.vec[h].count
  PROVE  r.vec[h].slots[i + 1] \in ToSet(r.mods)
<1> DEFINE s == r.vec[h].slots
           n == r.vec[h].count
           w == ListenersIn(r, h)
<1>1. r.vec[h] \in Vector
  BY DEF Region
<1>2. s \in Seq(Entries) /\ n \in Nat /\ n <= Len(s)
  BY <1>1 DEF Vector, CachesFit
<1>3. SubSeq(s, 1, n) = w
  BY DEF CachesFit
<1>4. \A k \in 1..Len(w) : w[k] \in ToSet(r.mods)
  BY ListenersFacts
<1>5. i < n
  OBVIOUS
<1> HIDE DEF s, n, w
<1>6. Len(SubSeq(s, 1, n)) = n /\ SubSeq(s, 1, n)[i + 1] = s[i + 1]
  BY <1>2, <1>5
<1>7. i + 1 \in 1..Len(w) /\ w[i + 1] = s[i + 1]
  BY <1>2, <1>3, <1>5, <1>6
<1>8. s[i + 1] \in ToSet(r.mods)
  BY <1>4, <1>7
<1> QED BY <1>8 DEF s

\* What the invariant says of the states the runs check.
LEMMA ConsistentImplies ==
  ASSUME CallsConsistent
  PROVE  TypeOK /\ TrustedVectorExact /\ EachListenerOnce /\ NoFreedRead
<1>1. Typed /\ Runtime /\ CachesFit(reg) /\ reg \in Region
  BY DEF CallsConsistent, Typed
<1>2. TypeOK
  <2>1. /\ {root, boots} \subseteq 0 .. MaxBoots
        /\ changes \in 0 .. MaxChanges /\ fails \in 0 .. MaxFails
        /\ reg.gen \in 1 .. MaxChanges + 1
    BY CallsAssumption, <1>1 DEF CallsConsistent, Typed, Runtime
  <2>2. reg.dirty \in BOOLEAN /\ Len(reg.list) <= reg.lcap
    BY <1>1 DEF Region, CachesFit
  <2>3. ASSUME NEW h \in Hooks
        PROVE  /\ reg.vec[h].count <= Len(reg.vec[h].slots)
               /\ Len(reg.vec[h].slots) <= reg.vec[h].cap
               /\ reg.vec[h].gen <= reg.gen
    BY <1>1 DEF CachesFit
  <2>4. ASSUME NEW t \in Threads
        PROVE  /\ Len(stack[t]) <= MaxNest
               /\ tls[t].at \in 0 .. MaxBoots /\ tls[t].ran \in Nat
               /\ tls[t].ret \in Hooks \cup {NULL}
    <3>1. tls[t] \in Tls
      BY <1>1 DEF Typed
    <3>2. tls[t].at = 0 \/ tls[t].at = root
      BY <1>1 DEF Runtime
    <3>3. MaxBoots \in Nat
      BY CallsAssumption
    <3>4. tls[t].at \in 0 .. MaxBoots
      BY <2>1, <3>2, <3>3
    <3> QED BY <3>1, <3>4, <1>1 DEF Tls, Runtime
  <2>5. adapter \in Hooks \cup {NULL}
    BY <1>1 DEF Typed
  <2> QED BY <2>1, <2>2, <2>3, <2>4, <2>5 DEF TypeOK
<1>3. TrustedVectorExact
  BY <1>1, InOneRegion DEF CachesFit, TrustedVectorExact
<1>4. EachListenerOnce
  BY DEF CallsConsistent, ResultFits, EachListenerOnce
<1>5. NoFreedRead
  <2> SUFFICES ASSUME NEW t \in Threads, stack[t] # <<>> PROVE ~Faulty(t)
    BY DEF NoFreedRead, Faulty, Busy
  <2> DEFINE f == Top(t)
             v == reg.vec[f.h]
  <2>1. /\ stack[t] \in Seq(Frame) /\ Len(stack[t]) \in Nat \ {0}
        /\ f = stack[t][Len(stack[t])] /\ f \in Frame
    BY <1>1, TopFacts
  <2>2. FrameFits(f, reg, root)
    BY <2>1 DEF CallsConsistent, StackFits
  <2>3. f.h \in Hooks /\ f.i \in Nat
    BY <2>1 DEF Frame
  <2> HIDE DEF f
  <2>4. f.at = root /\ (f.pc \in {"fill", "read"} => f.tab = reg.tab)
    BY <2>2 DEF FrameFits
  <2>5. ASSUME f.pc = "fill", f.i < Len(reg.list) PROVE reg.list[f.i + 1] \in Alive
    <3>1. reg.list = reg.mods
      BY <1>1, <2>2, <2>5 DEF FrameFits, CachesFit
    <3>2. reg.mods \in Seq(Entries)
      BY <1>1 DEF Region
    <3>3. f.i + 1 \in 1..Len(reg.mods)
      BY <2>3, <2>5, <3>1, <3>2
    <3> QED BY <3>1, <3>2, <3>3 DEF Alive, ToSet
  <2>6. f.pc = "body" => f.cap = v.cap
    BY <2>2 DEF FrameFits
  <2>7. ASSUME \/ f.pc = "read" /\ v.count > 0
               \/ f.pc = "body" /\ f.i < f.n
        PROVE  v.slots[f.i + 1] \in Alive
    <3>1. CurrentIn(reg, f.h) /\ f.i < v.count
      BY <2>2, <2>7 DEF FrameFits
    <3> QED BY <1>1, <2>3, <3>1, SlotsAlive DEF Alive
  <2> QED BY <2>4, <2>5, <2>6, <2>7 DEF Faulty, f
<1> QED BY <1>2, <1>3, <1>4, <1>5

-----------------------------------------------------------------------------
(* Steps of a call. *)

\* The other calls and the ones below stay as they were: when the region does,
\* or when the step's call is the only one of the threads' topmost and the ones
\* below it fit the region as it is now.
LEMMA CallMoves ==
  ASSUME CallsConsistent, NEW t \in Threads, stack[t] # <<>>, NEW g \in Frame,
         stack' = Moved(t, g),
         root' = root /\ tls' = tls /\ adapter' = adapter /\ boots' = boots,
         changes' = changes /\ fails' = fails /\ res' = res,
         reg' \in Region, CachesFit(reg'), reg'.gen = reg.gen,
         FrameFits(g, reg', root),
         \/ reg' = reg
         \/ /\ \A u \in Threads : u # t => stack[u] = <<>>
            /\ \A k \in 1..Len(stack[t])-1 : FrameFits(stack[t][k], reg', root),
         g.pc \in {"collect", "table", "fill"} => \A u \in Threads : u # t => stack[u] = <<>>
  PROVE  CallsConsistent'
<1>1. Typed /\ Runtime /\ stack \in [Threads -> Seq(Frame)]
  BY DEF CallsConsistent, Typed
<1>2. /\ stack[t] \in Seq(Frame) /\ Len(stack[t]) \in Nat \ {0}
      /\ Top(t) = stack[t][Len(stack[t])] /\ Top(t) \in Frame
  BY <1>1, TopFacts
<1> DEFINE s == stack[t]
           p == Append(Front(s), g)
<1>3. /\ p \in Seq(Frame) /\ Len(p) = Len(s) /\ p[Len(s)] = g
      /\ \A k \in 1..Len(s)-1 : p[k] = s[k]
  BY <1>2, FrameFacts
<1>4. stack'[t] = p /\ (\A u \in Threads : u # t => stack'[u] = stack[u])
      /\ stack' \in [Threads -> Seq(Frame)]
  <2>1. stack' = [stack EXCEPT ![t] = p]
    BY DEF Moved
  <2> HIDE DEF p
  <2> QED BY <2>1, <1>1, <1>3
<1>5. Len(s) \in Nat \ {0} /\ s = stack[t]
  BY <1>2
<1>6. p # <<>>
  BY <1>3, <1>5
<1> HIDE DEF s, p
<1>7. Typed'
  BY <1>1, <1>4 DEF Typed
<1>8. Runtime'
  <2>1. \A u \in Threads : Len(stack'[u]) <= MaxNest /\ (stack'[u] # <<>> => adapter # NULL)
    <3>1. Len(s) <= MaxNest /\ adapter # NULL
      BY <1>1, <1>5 DEF Runtime
    <3> QED BY <1>1, <1>3, <1>4, <3>1 DEF Runtime
  <2>2. root # 0
    BY <1>1 DEF Runtime
  <2> QED BY <1>1, <2>1, <2>2 DEF Runtime
<1>9. ASSUME NEW u \in Threads PROVE StackFits(stack'[u], reg', root')
  <2>1. CASE u = t
    <3>1. ASSUME NEW k \in 1..Len(s)
          PROVE  FrameFits(p[k], reg', root) /\ (k < Len(s) => p[k].pc = "body")
      <4>1. CASE k = Len(s)
        BY <1>3, <4>1
      <4>2. CASE k # Len(s)
        <5>1. k \in 1..Len(s)-1 /\ p[k] = s[k]
          BY <1>3, <1>5, <4>2
        <5>2. FrameFits(s[k], reg, root) /\ s[k].pc = "body"
          BY <1>5, <5>1 DEF CallsConsistent, StackFits
        <5> QED BY <1>5, <5>1, <5>2
      <4> QED BY <4>1, <4>2
    <3> QED BY <1>3, <1>4, <2>1, <3>1 DEF StackFits
  <2>2. CASE u # t
    <3>1. stack'[u] = stack[u] /\ StackFits(stack[u], reg, root)
      BY <1>4, <2>2 DEF CallsConsistent
    <3>2. CASE reg' = reg
      BY <3>1, <3>2
    <3>3. CASE stack[u] = <<>>
      <4>1. Len(stack[u]) = 0
        BY <3>3
      <4> QED BY <3>1, <4>1 DEF StackFits
    <3> QED BY <2>2, <3>2, <3>3
  <2> QED BY <2>1, <2>2
<1>10. RebuildsAlone(stack', reg')
  <2> SUFFICES ASSUME NEW u \in Threads, Rebuilds(stack'[u])
               PROVE  \/ \A w \in Threads : w # u => stack'[w] = <<>>
                      \/ /\ stack'[u][Len(stack'[u])].pc = "table"
                         /\ CurrentIn(reg', stack'[u][Len(stack'[u])].h)
    BY DEF RebuildsAlone
  <2>1. CASE u = t
    <3>1. g.pc \in {"collect", "table", "fill"}
      BY <1>3, <1>4, <2>1 DEF Rebuilds
    <3> QED BY <1>4, <2>1, <3>1
  <2>2. CASE u # t
    <3>1. Rebuilds(stack[u]) /\ stack'[u] = stack[u] /\ stack[u] # <<>>
      BY <1>4, <2>2 DEF Rebuilds
    <3>2. \/ \A w \in Threads : w # u => stack[w] = <<>>
          \/ stack[u][Len(stack[u])].pc = "table" /\ CurrentIn(reg, stack[u][Len(stack[u])].h)
      BY <3>1 DEF CallsConsistent, RebuildsAlone
    <3>3. reg' = reg
      BY <2>2, <3>1
    <3> QED BY <2>2, <3>1, <3>2, <3>3
  <2> QED BY <2>1, <2>2
<1>11. /\ reg'.gen = changes' + 1
       /\ \A u \in Threads : ResultFits(res'[u], tls'[u], adapter')
  BY DEF CallsConsistent
<1> QED BY <1>7, <1>8, <1>9, <1>10, <1>11 DEF CallsConsistent

\* The call on top of a thread returns.
LEMMA CallEnds ==
  ASSUME CallsConsistent, NEW t \in Threads, stack[t] # <<>>,
         NEW ran \in Nat, NEW end \in {"ok", "notfound", "failed"},
         Ended(t, ran, end),
         reg' = reg /\ root' = root /\ boots' = boots /\ changes' = changes,
         adapter' = adapter \/ adapter' = Top(t).h,
         fails' \in Nat, fails' <= MaxFails,
         end = "ok" <=> ran > 0,
         end \in {"ok", "notfound"} => Top(t).seen = Top(t).want
  PROVE  CallsConsistent'
<1>1. /\ Typed /\ Runtime /\ stack \in [Threads -> Seq(Frame)]
      /\ tls \in [Threads -> Tls] /\ res \in [Threads -> Result]
  BY DEF CallsConsistent, Typed
<1>2. /\ stack[t] \in Seq(Frame) /\ Len(stack[t]) \in Nat \ {0}
      /\ Top(t) = stack[t][Len(stack[t])] /\ Top(t) \in Frame
  BY <1>1, TopFacts
<1> DEFINE s == stack[t]
           p == Front(s)
           f == Top(t)
           l == [tls[t] EXCEPT !.ran = ran, !.ret = IF ran > 0 THEN f.h ELSE NULL]
           q == [h |-> f.h, end |-> end, exact |-> f.seen = f.want]
<1>3. /\ p \in Seq(Frame) /\ Len(p) = Len(s) - 1
      /\ \A k \in 1..Len(s)-1 : p[k] = s[k]
  BY <1>2, FrameFacts
<1>4. f.h \in Hooks /\ f.h # NULL
  BY <1>2, CallsAssumption DEF Frame
<1>5. /\ l \in Tls /\ l.at = tls[t].at /\ l.ran = ran
      /\ ran > 0 => l.ret = f.h
  BY <1>1, <1>4 DEF Tls
<1>6. q \in Result /\ q.h = f.h /\ q.end = end /\ (q.exact <=> f.seen = f.want)
  BY <1>4 DEF Result
<1>7. stack'[t] = p /\ (\A u \in Threads : u # t => stack'[u] = stack[u])
      /\ stack' \in [Threads -> Seq(Frame)]
  <2>1. stack' = [stack EXCEPT ![t] = p]
    BY DEF Ended
  <2> HIDE DEF p
  <2> QED BY <2>1, <1>1, <1>3
<1>8. tls'[t] = l /\ (\A u \in Threads : u # t => tls'[u] = tls[u])
      /\ tls' \in [Threads -> Tls]
  <2>1. tls' = [tls EXCEPT ![t] = l]
    BY <1>1 DEF Ended, Kept
  <2> HIDE DEF l
  <2> QED BY <2>1, <1>1, <1>5
<1>9. res'[t] = q /\ (\A u \in Threads : u # t => res'[u] = res[u])
      /\ res' \in [Threads -> Result]
  <2>1. res' = [res EXCEPT ![t] = q]
    BY DEF Ended
  <2> HIDE DEF q
  <2> QED BY <2>1, <1>1, <1>6
<1>10. Len(s) \in Nat \ {0} /\ s = stack[t] /\ f = Top(t)
  BY <1>2
<1>11. adapter # NULL
  BY <1>1 DEF Runtime
<1>12. adapter' \in Hooks /\ adapter' # NULL
  BY <1>1, <1>4, <1>11 DEF Typed
<1> HIDE DEF s, p, f, l, q
<1>13. Typed'
  BY <1>1, <1>7, <1>8, <1>9, <1>12 DEF Typed
<1>14. Runtime'
  <2>1. \A u \in Threads : Len(stack'[u]) <= MaxNest
    <3>1. Len(s) <= MaxNest /\ MaxNest \in Nat
      BY <1>1, <1>10, CallsAssumption DEF Runtime
    <3>2. Len(p) <= MaxNest
      BY <1>3, <1>10, <3>1
    <3> QED BY <1>1, <3>2, <1>7 DEF Runtime
  <2>2. root # 0
    BY <1>1 DEF Runtime
  <2>3. \A u \in Threads : tls'[u].at = tls[u].at
    BY <1>5, <1>8
  <2> QED BY <1>1, <1>12, <2>1, <2>2, <2>3 DEF Runtime
<1>15. ASSUME NEW u \in Threads PROVE StackFits(stack'[u], reg', root')
  <2>1. CASE u = t
    <3>1. ASSUME NEW k \in 1..Len(p)
          PROVE  FrameFits(p[k], reg, root) /\ p[k].pc = "body"
      <4>1. k \in 1..Len(s)-1 /\ p[k] = s[k]
        BY <1>3, <1>10
      <4>2. FrameFits(s[k], reg, root) /\ s[k].pc = "body"
        BY <1>10, <4>1 DEF CallsConsistent, StackFits
      <4> QED BY <4>1, <4>2
    <3> QED BY <1>7, <2>1, <3>1 DEF StackFits
  <2>2. CASE u # t
    BY <1>7, <2>2 DEF CallsConsistent
  <2> QED BY <2>1, <2>2
<1>16. ~Rebuilds(stack'[t])
  <2> SUFFICES ASSUME p # <<>> PROVE p[Len(p)].pc = "body"
    BY <1>7 DEF Rebuilds
  <2>1. Len(p) \in 1..Len(s)-1
    BY <1>3, <1>10
  <2> QED BY <1>3, <1>10, <2>1, SMTT(30) DEF CallsConsistent, StackFits
<1>17. RebuildsAlone(stack', reg')
  <2> SUFFICES ASSUME NEW u \in Threads, Rebuilds(stack'[u])
               PROVE  \/ stack'[u][Len(stack'[u])].pc = "table"
                         /\ CurrentIn(reg', stack'[u][Len(stack'[u])].h)
    BY DEF RebuildsAlone
  <2>1. u # t /\ stack'[u] = stack[u] /\ Rebuilds(stack[u])
    BY <1>7, <1>16
  <2>2. \/ \A w \in Threads : w # u => stack[w] = <<>>
        \/ stack[u][Len(stack[u])].pc = "table" /\ CurrentIn(reg, stack[u][Len(stack[u])].h)
    BY <2>1 DEF CallsConsistent, RebuildsAlone
  <2> QED BY <2>1, <2>2
<1>18. ASSUME NEW u \in Threads PROVE ResultFits(res'[u], tls'[u], adapter')
  <2>1. CASE u = t
    <3>1. q.end \in {"ok", "notfound"} => q.exact
      BY <1>6, <1>10
    <3>2. q.h \in Hooks /\ (q.end = "ok" => l.ran > 0 /\ l.ret = q.h) /\ (q.end # "ok" => l.ran = 0)
      BY <1>4, <1>5, <1>6
    <3> QED BY <1>8, <1>9, <1>12, <2>1, <3>1, <3>2 DEF ResultFits
  <2>2. CASE u # t
    BY <1>8, <1>9, <1>12, <2>2 DEF CallsConsistent, ResultFits
  <2> QED BY <2>1, <2>2
<1> QED BY <1>13, <1>14, <1>15, <1>17, <1>18 DEF CallsConsistent

\* The call on top of a thread fits, and where it stands says who else is
\* there: one that is going to write to the caches is alone.
LEMMA TopFits ==
  ASSUME CallsConsistent, NEW t \in Threads, stack[t] # <<>>
  PROVE  /\ Top(t) \in Frame /\ FrameFits(Top(t), reg, root)
         /\ \A k \in 1..Len(stack[t])-1 :
              /\ FrameFits(stack[t][k], reg, root) /\ stack[t][k].pc = "body"
              /\ CurrentIn(reg, stack[t][k].h)
         /\ Top(t).pc \in {"collect", "table", "fill"} /\ ~CurrentIn(reg, Top(t).h) =>
              \A u \in Threads : u # t => stack[u] = <<>>
<1>1. /\ stack[t] \in Seq(Frame) /\ Len(stack[t]) \in Nat \ {0}
      /\ Top(t) = stack[t][Len(stack[t])] /\ Top(t) \in Frame
  BY TopFacts DEF CallsConsistent
<1>2. FrameFits(Top(t), reg, root)
  BY <1>1 DEF CallsConsistent, StackFits
<1>3. ASSUME NEW k \in 1..Len(stack[t])-1
      PROVE  FrameFits(stack[t][k], reg, root) /\ stack[t][k].pc = "body"
  BY <1>1 DEF CallsConsistent, StackFits
<1>4. ASSUME NEW k \in 1..Len(stack[t])-1 PROVE CurrentIn(reg, stack[t][k].h)
  BY <1>3 DEF FrameFits
<1>5. ASSUME Top(t).pc \in {"collect", "table", "fill"}, ~CurrentIn(reg, Top(t).h)
      PROVE  \A u \in Threads : u # t => stack[u] = <<>>
  <2>1. Rebuilds(stack[t])
    BY <1>1, <1>5 DEF Rebuilds
  <2> QED BY <1>1, <1>5, <2>1 DEF CallsConsistent, RebuildsAlone
<1> QED BY <1>1, <1>2, <1>3, <1>4, <1>5

\* A dirty list of modules is emptied: no vector is current that was not.
LEMMA CollectBeginKeeps ==
  ASSUME CallsConsistent, NEW t \in Threads, CollectBegin(t)
  PROVE  CallsConsistent'
<1> DEFINE f == Top(t)
           g == [f EXCEPT !.pc = "collect", !.i = 0]
<1>1. stack[t] # <<>> /\ f.pc = "table" /\ reg.dirty
  BY DEF CollectBegin, At, Busy
<1>2. f \in Frame /\ FrameFits(f, reg, root) /\ (\A u \in Threads : u # t => stack[u] = <<>>)
      /\ \A k \in 1..Len(stack[t])-1 : CurrentIn(reg, stack[t][k].h)
  BY <1>1, TopFits DEF CurrentIn
<1>3. \A k \in 1..Len(stack[t])-1 : FALSE
  BY <1>1, <1>2 DEF CurrentIn
<1>4. reg \in Region /\ CachesFit(reg)
  BY DEF CallsConsistent, Typed
<1>5. /\ reg' = [reg EXCEPT !.list = <<>>] /\ stack' = Moved(t, g)
      /\ root' = root /\ tls' = tls /\ adapter' = adapter /\ boots' = boots
      /\ changes' = changes /\ fails' = fails /\ res' = res
  BY DEF CollectBegin
<1>6. /\ reg' \in Region /\ reg'.list = <<>> /\ reg'.mods = reg.mods /\ reg'.gen = reg.gen
      /\ reg'.lcap = reg.lcap /\ reg'.dirty = reg.dirty /\ reg'.tab = reg.tab /\ reg'.vec = reg.vec
      /\ reg.lcap \in Nat /\ reg.mods \in Seq(Entries)
  <2>1. <<>> \in Seq(Entries)
    OBVIOUS
  <2> QED BY <1>4, <1>5, <2>1 DEF Region
<1>7. CachesFit(reg')
  <2>1. Len(reg'.list) <= reg'.lcap
    BY <1>6
  <2> QED BY <1>1, <1>4, <1>6, <2>1 DEF CachesFit, CurrentIn
<1>8. /\ g \in Frame /\ g.pc = "collect" /\ g.i = 0 /\ g.h = f.h /\ g.at = f.at
      /\ g.want = f.want /\ g.seen = f.seen
  BY <1>2 DEF Frame
<1> HIDE DEF g, f
<1>9. FrameFits(g, reg', root)
  <2>1. g.i <= Len(reg'.mods) /\ reg'.list = SubSeq(reg'.mods, 1, g.i)
    BY <1>6, <1>8, OnlyOfNone
  <2> QED BY <1>1, <1>2, <1>6, <1>8, <2>1 DEF FrameFits, ListenersIn, HearingIn
<1> QED BY <1>1, <1>2, <1>3, <1>5, <1>6, <1>7, <1>8, <1>9, CallMoves

\* One more module is collected, or the list is complete and clean.
LEMMA CollectKeeps ==
  ASSUME CallsConsistent, NEW t \in Threads, Collect(t)
  PROVE  CallsConsistent'
<1> DEFINE f == Top(t)
<1>1. stack[t] # <<>> /\ f.pc = "collect"
  BY DEF Collect, At, Busy
<1>2. f \in Frame /\ FrameFits(f, reg, root)
  BY <1>1, TopFits
<1>3. reg.dirty /\ f.i <= Len(reg.mods) /\ reg.list = SubSeq(reg.mods, 1, f.i)
  BY <1>1, <1>2 DEF FrameFits
<1>4. /\ \A u \in Threads : u # t => stack[u] = <<>>
      /\ \A k \in 1..Len(stack[t])-1 : FALSE
  BY <1>1, <1>3, TopFits DEF CurrentIn
<1>5. reg \in Region /\ CachesFit(reg)
  BY DEF CallsConsistent, Typed
<1>6. /\ reg.mods \in Seq(Entries) /\ reg.list \in Seq(Entries) /\ f.i \in Nat
      /\ Len(reg.mods) \in Nat /\ reg.lcap \in Nat /\ Len(reg.list) <= reg.lcap
      /\ Len(reg.list) = f.i
  <2>1. reg.mods \in Seq(Entries) /\ reg.list \in Seq(Entries) /\ f.i \in Nat /\ reg.lcap \in Nat
    BY <1>2, <1>5 DEF Region, Frame
  <2> QED BY <1>3, <1>5, <2>1 DEF CachesFit
<1>7. /\ root' = root /\ tls' = tls /\ adapter' = adapter /\ boots' = boots
      /\ changes' = changes /\ fails' = fails /\ res' = res
  BY DEF Collect
<1>8. CASE f.i < Len(reg.mods)
  <2> DEFINE g == [f EXCEPT !.i = @ + 1]
             c == IF Len(reg.list) >= reg.lcap THEN Grown(reg.lcap) ELSE reg.lcap
             x == reg.mods[f.i + 1]
             l == Append(reg.list, x)
  <2>1. reg' = [reg EXCEPT !.list = l, !.lcap = c] /\ stack' = Moved(t, g)
    BY <1>8 DEF Collect
  <2>2. x \in Entries /\ l \in Seq(Entries) /\ Len(l) = f.i + 1 /\ l = SubSeq(reg.mods, 1, f.i + 1)
    <3>1. f.i \in 0..Len(reg.mods)
      BY <1>6, <1>8
    <3> HIDE DEF f
    <3>2. /\ SubSeq(reg.mods, 1, f.i) \in Seq(Entries) /\ x \in Entries
          /\ SubSeq(reg.mods, 1, f.i + 1) = Append(SubSeq(reg.mods, 1, f.i), x)
      BY <1>6, <1>8, <3>1, PrefixGrows
    <3> HIDE DEF x
    <3>3. l \in Seq(Entries) /\ Len(l) = Len(reg.list) + 1
      BY <1>6, <3>2
    <3>4. l = SubSeq(reg.mods, 1, f.i + 1)
      BY <1>3, <3>2
    <3> HIDE DEF l
    <3> QED BY <1>6, <3>2, <3>3, <3>4
  <2>3. c \in Nat /\ f.i + 1 <= c
    <3>1. InitCap \in Nat /\ InitCap > 0
      BY CallsAssumption
    <3> QED BY <1>6, <3>1 DEF Grown
  <2>4. /\ g \in Frame /\ g.pc = "collect" /\ g.i = f.i + 1 /\ g.h = f.h /\ g.at = f.at
        /\ g.want = f.want /\ g.seen = f.seen
    <3> HIDE DEF f
    <3>1. f.i + 1 \in Nat
      BY <1>6
    <3> QED BY <1>1, <1>2, <3>1 DEF Frame
  <2> HIDE DEF f, g, c, x, l
  <2>5. /\ reg' \in Region /\ reg'.list = l /\ reg'.mods = reg.mods /\ reg'.gen = reg.gen
        /\ reg'.lcap = c /\ reg'.dirty = reg.dirty /\ reg'.tab = reg.tab /\ reg'.vec = reg.vec
    BY <1>5, <2>1, <2>2, <2>3 DEF Region
  <2>6. CachesFit(reg')
    <3>1. Len(reg'.list) <= reg'.lcap
      BY <2>2, <2>3, <2>5
    <3> QED BY <1>3, <1>5, <2>5, <3>1 DEF CachesFit, CurrentIn
  <2>7. FrameFits(g, reg', root)
    <3>1. g.i <= Len(reg'.mods) /\ reg'.list = SubSeq(reg'.mods, 1, g.i)
      BY <1>6, <1>8, <2>2, <2>4, <2>5
    <3> QED BY <1>1, <1>2, <1>3, <2>4, <2>5, <3>1 DEF FrameFits, ListenersIn, HearingIn
  <2> QED BY <1>1, <1>4, <1>7, <2>1, <2>4, <2>5, <2>6, <2>7, CallMoves
<1>9. CASE ~(f.i < Len(reg.mods))
  <2> DEFINE g == [f EXCEPT !.pc = "table"]
  <2>1. reg' = [reg EXCEPT !.dirty = FALSE] /\ stack' = Moved(t, g)
    BY <1>9 DEF Collect
  <2>2. reg.list = reg.mods
    BY <1>3, <1>6, <1>9, OnlyOfNone
  <2>3. /\ g \in Frame /\ g.pc = "table" /\ g.h = f.h /\ g.at = f.at
        /\ g.want = f.want /\ g.seen = f.seen
    BY <1>2 DEF Frame
  <2> HIDE DEF f, g
  <2>4. /\ reg' \in Region /\ reg'.list = reg.list /\ reg'.mods = reg.mods /\ reg'.gen = reg.gen
        /\ reg'.lcap = reg.lcap /\ ~reg'.dirty /\ reg'.tab = reg.tab /\ reg'.vec = reg.vec
    BY <1>5, <2>1 DEF Region
  <2>5. CachesFit(reg')
    BY <1>3, <1>5, <2>2, <2>4 DEF CachesFit, CurrentIn
  <2>6. FrameFits(g, reg', root)
    BY <1>1, <1>2, <2>3, <2>4 DEF FrameFits, ListenersIn, HearingIn
  <2> QED BY <1>1, <1>4, <1>7, <2>1, <2>3, <2>4, <2>5, <2>6, CallMoves
<1> QED BY <1>8, <1>9

\* The region with vector v for hook h, and n hook records.
WithVector(r, h, v, n) == [r EXCEPT !.tab = n, !.vec = [r.vec EXCEPT ![h] = v]]

\* Only the vector of the hook and the number of records differ.
LEMMA VectorChanged ==
  ASSUME NEW r \in Region, NEW h \in Hooks, NEW v \in Vector, NEW n \in Nat
  PROVE  /\ WithVector(r, h, v, n) \in Region /\ WithVector(r, h, v, n).mods = r.mods
         /\ WithVector(r, h, v, n).gen = r.gen /\ WithVector(r, h, v, n).list = r.list
         /\ WithVector(r, h, v, n).lcap = r.lcap /\ WithVector(r, h, v, n).dirty = r.dirty
         /\ WithVector(r, h, v, n).tab = n /\ WithVector(r, h, v, n).vec[h] = v
         /\ \A k \in Hooks : k # h => WithVector(r, h, v, n).vec[k] = r.vec[k]
<1> DEFINE w == [r.vec EXCEPT ![h] = v]
           q == WithVector(r, h, v, n)
<1>1. r.vec \in [Hooks -> Vector]
  BY DEF Region
<1>2. w \in [Hooks -> Vector] /\ w[h] = v /\ \A k \in Hooks : k # h => w[k] = r.vec[k]
  BY <1>1
<1>3. q = [r EXCEPT !.tab = n, !.vec = w]
  BY DEF WithVector
<1> HIDE DEF w
<1>4. /\ q \in Region /\ q.mods = r.mods /\ q.gen = r.gen /\ q.list = r.list
      /\ q.lcap = r.lcap /\ q.dirty = r.dirty /\ q.tab = n /\ q.vec = w
  BY <1>2, <1>3 DEF Region
<1> HIDE DEF q
<1>5. /\ q \in Region /\ q.mods = r.mods /\ q.gen = r.gen /\ q.list = r.list
      /\ q.lcap = r.lcap /\ q.dirty = r.dirty /\ q.tab = n
      /\ q.vec[h] = v /\ \A k \in Hooks : k # h => q.vec[k] = r.vec[k]
  BY <1>2, <1>4
<1> QED BY <1>5 DEF q

\* A call that is alone and writes to its own vector leaves the ones below as
\* they were: those walk current vectors, and its own is not.
LEMMA LowerStay ==
  ASSUME CallsConsistent, NEW t \in Threads, stack[t] # <<>>, NEW q,
         q.mods = reg.mods, q.gen = reg.gen, q.dirty = reg.dirty,
         ~CurrentIn(reg, Top(t).h),
         \A k \in Hooks : k # Top(t).h => q.vec[k] = reg.vec[k]
  PROVE  \A k \in 1..Len(stack[t])-1 : FrameFits(stack[t][k], q, root)
<1> SUFFICES ASSUME NEW k \in 1..Len(stack[t])-1 PROVE FrameFits(stack[t][k], q, root)
  OBVIOUS
<1>1. /\ FrameFits(stack[t][k], reg, root) /\ stack[t][k].pc = "body"
      /\ CurrentIn(reg, stack[t][k].h)
  BY TopFits
<1>2. stack[t][k].h \in Hooks
  <2>1. stack[t] \in Seq(Frame) /\ Len(stack[t]) \in Nat \ {0}
    BY TopFacts DEF CallsConsistent
  <2>2. stack[t][k] \in Frame
    BY <2>1
  <2> QED BY <2>2 DEF Frame
<1> QED BY <1>1, <1>2, BodyStays

\* The caches fit if all but the vector of h does as before and that one does
\* not count as current.
LEMMA CachesStay ==
  ASSUME NEW r \in Region, CachesFit(r), NEW q \in Region, NEW h \in Hooks,
         q.mods = r.mods, q.gen = r.gen, q.list = r.list,
         q.lcap = r.lcap, q.dirty = r.dirty, r.tab <= q.tab,
         \A k \in Hooks : k # h => q.vec[k] = r.vec[k],
         q.vec[h].count <= Len(q.vec[h].slots),
         Len(q.vec[h].slots) <= q.vec[h].cap,
         q.vec[h].gen <= q.gen, q.dirty => q.vec[h].gen # q.gen,
         q.vec[h].gen # 0 => h < q.tab,
         CurrentIn(q, h) =>
           SubSeq(q.vec[h].slots, 1, q.vec[h].count) = ListenersIn(q, h)
  PROVE  CachesFit(q)
<1>1. \A k \in Hooks : ListenersIn(q, k) = ListenersIn(r, k)
  BY DEF ListenersIn, HearingIn
<1>2. r.tab \in Nat /\ q.tab \in Nat /\ Hooks \subseteq Nat
  BY CallsAssumption DEF Region
<1>3. q.gen >= 1 /\ Len(q.list) <= q.lcap /\ (~q.dirty => q.list = q.mods)
  BY DEF CachesFit
<1>4. ASSUME NEW k \in Hooks
      PROVE  /\ q.vec[k].count <= Len(q.vec[k].slots)
             /\ Len(q.vec[k].slots) <= q.vec[k].cap
             /\ q.vec[k].gen <= q.gen /\ (q.dirty => q.vec[k].gen # q.gen)
             /\ q.vec[k].gen # 0 => k < q.tab
             /\ CurrentIn(q, k) =>
                  SubSeq(q.vec[k].slots, 1, q.vec[k].count) = ListenersIn(q, k)
  <2>1. CASE k = h
    BY <2>1
  <2>2. CASE k # h
    <3>1. q.vec[k] = r.vec[k]
      BY <2>2
    <3>2. r.vec[k].gen # 0 => k < r.tab
      BY DEF CachesFit
    <3>3. r.vec[k].gen # 0 => k < q.tab
      BY <1>2, <3>2
    <3> QED BY <1>1, <3>1, <3>3 DEF CachesFit, CurrentIn
  <2> QED BY <2>1, <2>2
<1> QED BY <1>3, <1>4 DEF CachesFit

\* The hook record is made and its vector used or opened for filling.
LEMMA TableKeeps ==
  ASSUME CallsConsistent, NEW t \in Threads, Table(t)
  PROVE  CallsConsistent'
<1> DEFINE f == Top(t)
           v == reg.vec[f.h]
           tab == IF f.h >= reg.tab THEN f.h + TabRoom ELSE reg.tab
<1>1. stack[t] # <<>> /\ f.pc = "table" /\ ~reg.dirty
  BY DEF Table, At, Busy
<1>2. f \in Frame /\ FrameFits(f, reg, root) /\ f.h \in Hooks /\ f.h \in Nat
  BY <1>1, TopFits, CallsAssumption DEF Frame
<1>3. reg \in Region /\ CachesFit(reg)
  BY DEF CallsConsistent, Typed
<1>4. /\ root' = root /\ tls' = tls /\ adapter' = adapter /\ boots' = boots
      /\ changes' = changes /\ fails' = fails /\ res' = res
  BY DEF Table
<1>5. /\ v \in Vector /\ reg.tab \in Nat /\ reg.gen \in Nat /\ TabRoom \in Nat \ {0}
      /\ reg.mods \in Seq(Entries) /\ v.slots \in Seq(Entries)
      /\ v.cap \in Nat /\ v.gen \in Nat /\ v.count \in Nat
  BY <1>2, <1>3, CallsAssumption DEF Region, Vector
<1>6. /\ v.count <= Len(v.slots) /\ Len(v.slots) <= v.cap /\ v.gen <= reg.gen
      /\ v.gen # 0 => f.h < reg.tab
      /\ reg.gen >= 1
  BY <1>2, <1>3 DEF CachesFit
<1>7. CASE v.gen = reg.gen
  <2> DEFINE g == [f EXCEPT !.pc = "read", !.tab = reg.tab, !.i = 0]
  <2>1. tab = reg.tab
    BY <1>2, <1>5, <1>6, <1>7
  <2>2. stack' = Moved(t, g)
    BY <1>7, <2>1 DEF Table
  <2>3. reg' = reg
    <3>1. reg' = [reg EXCEPT !.tab = tab, !.vec[f.h] = @]
      BY <1>7 DEF Table
    <3> QED BY <1>3, <2>1, <3>1 DEF Region
  <2>4. /\ g \in Frame /\ g.pc = "read" /\ g.i = 0 /\ g.h = f.h /\ g.at = f.at
        /\ g.want = f.want /\ g.seen = f.seen /\ g.tab = reg.tab
    BY <1>2, <1>5 DEF Frame
  <2> HIDE DEF g
  <2>5. FrameFits(g, reg, root)
    BY <1>1, <1>2, <1>7, <2>4 DEF FrameFits, CurrentIn
  <2> QED BY <1>1, <1>3, <1>4, <2>2, <2>3, <2>4, <2>5, CallMoves
<1>8. CASE v.gen # reg.gen
  <2> DEFINE g == [f EXCEPT !.pc = "fill", !.tab = tab, !.i = 0]
             w == Opened(v)
  <2>1. stack' = Moved(t, g)
    BY <1>8 DEF Table
  <2>2. reg' = [reg EXCEPT !.tab = tab, !.vec = [reg.vec EXCEPT ![f.h] = w]]
    BY <1>8 DEF Table
  <2>3. tab \in Nat /\ reg.tab <= tab /\ f.h < tab
    BY <1>2, <1>5, <1>6
  <2>4. /\ w \in Vector /\ w.count = 0 /\ w.slots = v.slots /\ w.cap = v.cap /\ w.gen = v.gen
    BY <1>5 DEF Vector, Opened
  <2>5. /\ g \in Frame /\ g.pc = "fill" /\ g.i = 0 /\ g.h = f.h /\ g.at = f.at
        /\ g.want = f.want /\ g.seen = f.seen /\ g.tab = tab
    BY <1>2, <2>3 DEF Frame
  <2>6. ~CurrentIn(reg, f.h)
    BY <1>8 DEF CurrentIn
  <2>7. \A u \in Threads : u # t => stack[u] = <<>>
    BY <1>1, <2>6, TopFits
  <2> HIDE DEF w, g, tab
  <2>8. /\ reg' \in Region /\ reg'.mods = reg.mods /\ reg'.gen = reg.gen /\ reg'.list = reg.list
        /\ reg'.lcap = reg.lcap /\ reg'.dirty = reg.dirty /\ reg'.tab = tab
        /\ reg'.vec[f.h] = w /\ \A k \in Hooks : k # f.h => reg'.vec[k] = reg.vec[k]
    <3>1. reg' = WithVector(reg, f.h, w, tab)
      BY <2>2 DEF WithVector
    <3> HIDE DEF f
    <3> QED BY <1>2, <1>3, <2>3, <2>4, <3>1, VectorChanged
  <2>9. CachesFit(reg')
    <3>1. ~CurrentIn(reg', f.h)
      BY <1>8, <2>4, <2>8 DEF CurrentIn
    <3>2. /\ w.count <= Len(w.slots) /\ Len(w.slots) <= w.cap /\ w.gen <= reg.gen
          /\ w.gen # 0 => f.h < tab
      BY <1>5, <1>6, <2>3, <2>4
    <3> QED BY <1>1, <1>2, <1>3, <2>3, <2>8, <3>1, <3>2, CachesStay
  <2>10. FrameFits(g, reg', root)
    <3>1. SubSeq(w.slots, 1, 0) = <<>> /\ Only(SubSeq(reg.mods, 1, 0), HearingIn(reg', f.h)) = <<>>
      BY <1>5, <2>4, OnlyOfNone
    <3>2. ListenersIn(reg', f.h) = ListenersIn(reg, f.h)
      BY <2>8 DEF ListenersIn, HearingIn
    <3>3. SubSeq(reg'.vec[g.h].slots, 1, reg'.vec[g.h].count)
            = Only(SubSeq(reg'.mods, 1, g.i), HearingIn(reg', g.h))
      BY <2>4, <2>5, <2>8, <3>1
    <3>4. ~reg'.dirty /\ reg'.vec[g.h].gen # reg'.gen /\ g.i <= Len(reg'.mods) /\ g.h < reg'.tab
      BY <1>1, <1>5, <1>8, <2>3, <2>4, <2>5, <2>8
    <3>5. f.at = root /\ f.want = ListenersIn(reg, f.h) /\ f.seen = <<>>
      BY <1>1, <1>2 DEF FrameFits
    <3> QED BY <2>5, <2>8, <3>2, <3>3, <3>4, <3>5 DEF FrameFits
  <2>11. \A k \in 1..Len(stack[t])-1 : FrameFits(stack[t][k], reg', root)
    BY <1>1, <2>6, <2>8, LowerStay
  <2> QED BY <1>1, <1>4, <2>1, <2>5, <2>7, <2>8, <2>9, <2>10, <2>11, CallMoves
<1> QED BY <1>7, <1>8

\* A module is stored behind the ones in use, in room the array has or gets.
LEMMA StoredFacts ==
  ASSUME NEW v \in Vector, NEW e \in Entries,
         v.count <= Len(v.slots), Len(v.slots) <= v.cap
  PROVE  /\ Stored(v, e) \in Vector /\ Stored(v, e).count = v.count + 1
         /\ Stored(v, e).gen = v.gen
         /\ v.count + 1 <= Len(Stored(v, e).slots)
         /\ Len(Stored(v, e).slots) <= Stored(v, e).cap
         /\ SubSeq(Stored(v, e).slots, 1, v.count + 1) = Append(SubSeq(v.slots, 1, v.count), e)
<1> DEFINE s == v.slots
           n == v.count
           u == Put(s, n + 1, e)
           c == IF n >= v.cap THEN Grown(v.cap) ELSE v.cap
           w == Stored(v, e)
<1>1. s \in Seq(Entries) /\ n \in Nat /\ n <= Len(s) /\ Len(s) <= v.cap /\ v.cap \in Nat /\ Len(s) \in Nat
  BY DEF Vector
<1>2. w = [v EXCEPT !.slots = u, !.count = n + 1, !.cap = c]
  BY DEF Stored
<1>3. InitCap \in Nat /\ InitCap > 0
  BY CallsAssumption
<1> HIDE DEF s, n, w
<1>4. /\ u \in Seq(Entries) /\ n + 1 <= Len(u) /\ u[n + 1] = e
      /\ \A k \in 1..n : u[k] = s[k]
      /\ Len(u) = IF n < Len(s) THEN Len(s) ELSE n + 1
  <2>1. CASE n < Len(s)
    <3>1. u = [s EXCEPT ![n + 1] = e] /\ n + 1 \in 1..Len(s)
      BY <1>1, <2>1 DEF Put
    <3>2. s \in [1..Len(s) -> Entries]
      BY <1>1
    <3>3. /\ u \in [1..Len(s) -> Entries] /\ u[n + 1] = e
          /\ \A k \in 1..Len(s) : k # n + 1 => u[k] = s[k]
      BY <3>1, <3>2
    <3> HIDE DEF u
    <3>4. u \in Seq(Entries) /\ Len(u) = Len(s)
      BY <1>1, <3>3
    <3> QED BY <1>1, <2>1, <3>3, <3>4
  <2>2. CASE ~(n < Len(s))
    <3>1. u = Append(s, e) /\ Len(s) = n
      BY <1>1, <2>2 DEF Put
    <3> HIDE DEF u
    <3> QED BY <1>1, <2>2, <3>1
  <2> QED BY <2>1, <2>2
<1>5. c \in Nat /\ Len(u) <= c
  <2>1. c = IF n >= v.cap THEN Grown(v.cap) ELSE v.cap
    OBVIOUS
  <2> HIDE DEF u, c
  <2> QED BY <1>1, <1>3, <1>4, <2>1 DEF Grown
<1>6. SubSeq(u, 1, n + 1) = Append(SubSeq(s, 1, n), e)
  <2> DEFINE a == SubSeq(u, 1, n + 1)
             b == SubSeq(s, 1, n)
  <2> HIDE DEF u
  <2>1. a \in Seq(Entries) /\ Len(a) = n + 1 /\ \A k \in 1..n+1 : a[k] = u[k]
    BY <1>1, <1>4
  <2>2. b \in Seq(Entries) /\ Len(b) = n /\ \A k \in 1..n : b[k] = s[k]
    BY <1>1
  <2> HIDE DEF a, b
  <2>3. a = Append(b, e)
    BY <1>1, <1>4, <2>1, <2>2, SMTT(30)
  <2> QED BY <2>3 DEF a, b
<1> HIDE DEF u, c
<1>7. n + 1 \in Nat /\ n = v.count /\ s = v.slots
  BY <1>1 DEF n, s
<1>8. /\ w \in Vector /\ w.slots = u /\ w.count = n + 1 /\ w.cap = c /\ w.gen = v.gen
  BY <1>2, <1>4, <1>5, <1>7 DEF Vector
<1>9. /\ w \in Vector /\ w.count = n + 1 /\ w.gen = v.gen
      /\ n + 1 <= Len(w.slots) /\ Len(w.slots) <= w.cap
      /\ SubSeq(w.slots, 1, n + 1) = Append(SubSeq(s, 1, n), e)
  BY <1>4, <1>5, <1>6, <1>8
<1> QED BY <1>9 DEF w, n, s

\* One more module is considered for the vector, or the vector is current.
LEMMA FillKeeps ==
  ASSUME CallsConsistent, NEW t \in Threads, Fill(t)
  PROVE  CallsConsistent'
<1> DEFINE f == Top(t)
           v == reg.vec[f.h]
           H == HearingIn(reg, f.h)
           e == reg.mods[f.i + 1]
           g == [f EXCEPT !.i = f.i + 1]
<1>1. stack[t] # <<>> /\ f.pc = "fill"
  BY DEF Fill, At, Busy
<1>2. f \in Frame /\ FrameFits(f, reg, root) /\ f.h \in Hooks /\ f.i \in Nat
  BY <1>1, TopFits DEF Frame
<1>3. reg \in Region /\ CachesFit(reg)
  BY DEF CallsConsistent, Typed
<1>4. /\ root' = root /\ tls' = tls /\ adapter' = adapter /\ boots' = boots
      /\ changes' = changes /\ fails' = fails /\ res' = res
  BY DEF Fill
<1>5. /\ v \in Vector /\ reg.tab \in Nat /\ reg.gen \in Nat
      /\ reg.mods \in Seq(Entries) /\ v.slots \in Seq(Entries)
      /\ v.cap \in Nat /\ v.gen \in Nat /\ v.count \in Nat
  BY <1>2, <1>3 DEF Region, Vector
<1>6. /\ v.count <= Len(v.slots) /\ Len(v.slots) <= v.cap /\ v.gen <= reg.gen
  BY <1>2, <1>3 DEF CachesFit
<1>7. /\ ~reg.dirty /\ v.gen # reg.gen /\ f.i <= Len(reg.mods) /\ f.h < reg.tab
      /\ SubSeq(v.slots, 1, v.count) = Only(SubSeq(reg.mods, 1, f.i), H)
      /\ f.at = root /\ f.want = ListenersIn(reg, f.h) /\ f.seen = <<>> /\ f.tab = reg.tab
  BY <1>1, <1>2 DEF FrameFits
<1>8. reg.list = reg.mods
  BY <1>3, <1>7 DEF CachesFit
<1>9. ~CurrentIn(reg, f.h)
  BY <1>7 DEF CurrentIn
<1>10. \A u \in Threads : u # t => stack[u] = <<>>
  BY <1>1, <1>9, TopFits
<1>11. Len(reg.mods) \in Nat /\ f.i \in 0..Len(reg.mods)
  BY <1>2, <1>5, <1>7
<1>12. ASSUME f.i < Len(reg.mods)
       PROVE  /\ e \in Entries /\ (Hears(e, f.h) <=> e \in H)
              /\ Only(SubSeq(reg.mods, 1, f.i + 1), H) =
                   IF e \in H THEN Append(Only(SubSeq(reg.mods, 1, f.i), H), e)
                              ELSE Only(SubSeq(reg.mods, 1, f.i), H)
              /\ g \in Frame /\ g.pc = "fill" /\ g.i = f.i + 1 /\ g.h = f.h /\ g.at = f.at
              /\ g.want = f.want /\ g.seen = f.seen /\ g.tab = f.tab
              /\ f.i + 1 <= Len(reg.mods)
  <2> HIDE DEF f, H
  <2>1. f.i + 1 \in 1..Len(reg.mods)
    BY <1>11, <1>12
  <2>2. e \in Entries /\ e \in ToSet(reg.mods)
    BY <1>5, <2>1 DEF ToSet
  <2>3. Hears(e, f.h) <=> e \in H
    <3> HIDE DEF e
    <3> QED BY <2>2 DEF H, HearingIn
  <2>4. Only(SubSeq(reg.mods, 1, f.i + 1), H) =
          IF e \in H THEN Append(Only(SubSeq(reg.mods, 1, f.i), H), e)
                     ELSE Only(SubSeq(reg.mods, 1, f.i), H)
    BY <1>5, <1>11, <1>12, OnlyStep
  <2>5. /\ g \in Frame /\ g.pc = "fill" /\ g.i = f.i + 1 /\ g.h = f.h /\ g.at = f.at
        /\ g.want = f.want /\ g.seen = f.seen /\ g.tab = f.tab
    <3>1. f.i + 1 \in Nat
      BY <1>2
    <3> QED BY <1>1, <1>2, <3>1 DEF Frame
  <2> QED BY <1>11, <1>12, <2>1, <2>2, <2>3, <2>4, <2>5
<1>13. CASE f.i < Len(reg.mods) /\ Hears(e, f.h)
  <2> DEFINE w == Stored(v, e)
  <2>1. stack' = Moved(t, g) /\ reg' = [reg EXCEPT !.vec[f.h] = w]
    BY <1>8, <1>13 DEF Fill
  <2>2. e \in Entries
    BY <1>12, <1>13
  <2> HIDE DEF e
  <2>3. /\ w \in Vector /\ w.count = v.count + 1 /\ w.gen = v.gen
        /\ v.count + 1 <= Len(w.slots) /\ Len(w.slots) <= w.cap
        /\ SubSeq(w.slots, 1, v.count + 1) = Append(SubSeq(v.slots, 1, v.count), e)
    <3> HIDE DEF v
    <3> QED BY <1>5, <1>6, <2>2, StoredFacts
  <2> HIDE DEF w, g, f, H
  <2>4. reg' = WithVector(reg, f.h, w, reg.tab)
    BY <1>3, <2>1 DEF WithVector, Region
  <2>5. /\ reg' \in Region /\ reg'.mods = reg.mods /\ reg'.gen = reg.gen /\ reg'.list = reg.list
        /\ reg'.lcap = reg.lcap /\ reg'.dirty = reg.dirty /\ reg'.tab = reg.tab
        /\ reg'.vec[f.h] = w /\ \A k \in Hooks : k # f.h => reg'.vec[k] = reg.vec[k]
    <3> DEFINE n == reg.tab
               h == f.h
    <3>1. h \in Hooks /\ w \in Vector /\ n \in Nat /\ reg \in Region /\ reg' = WithVector(reg, h, w, n)
      BY <1>2, <1>3, <1>5, <2>3, <2>4
    <3> HIDE DEF n, h
    <3>2. /\ reg' \in Region /\ reg'.mods = reg.mods /\ reg'.gen = reg.gen /\ reg'.list = reg.list
          /\ reg'.lcap = reg.lcap /\ reg'.dirty = reg.dirty /\ reg'.tab = n
          /\ reg'.vec[h] = w /\ \A k \in Hooks : k # h => reg'.vec[k] = reg.vec[k]
      BY <3>1, VectorChanged
    <3> QED BY <3>2 DEF n, h
  <2>6. ~CurrentIn(reg', f.h)
    BY <1>7, <2>3, <2>5 DEF CurrentIn
  <2>7. CachesFit(reg')
    <3>1. /\ w.count <= Len(w.slots) /\ Len(w.slots) <= w.cap /\ w.gen <= reg.gen
          /\ reg.tab <= reg.tab
      <4>1. w.count <= Len(w.slots) /\ Len(w.slots) <= w.cap
        BY <2>3
      <4>2. w.gen <= reg.gen
        BY <1>6, <2>3
      <4>3. reg.tab <= reg.tab
        BY <1>5
      <4> QED BY <4>1, <4>2, <4>3
    <3> QED BY <1>2, <1>3, <1>7, <2>5, <2>6, <3>1, CachesStay
  <2>8. HearingIn(reg', f.h) = H /\ ListenersIn(reg', f.h) = ListenersIn(reg, f.h)
    BY <2>5 DEF H, HearingIn, ListenersIn
  <2>9. FrameFits(g, reg', root)
    <3>1. SubSeq(w.slots, 1, w.count) = Only(SubSeq(reg.mods, 1, f.i + 1), H)
      BY <1>7, <1>12, <1>13, <2>3
    <3> QED BY <1>7, <1>12, <1>13, <2>3, <2>5, <2>8, <3>1 DEF FrameFits
  <2>10. \A k \in 1..Len(stack[t])-1 : FrameFits(stack[t][k], reg', root)
    BY <1>1, <1>9, <2>5, LowerStay DEF f
  <2> QED BY <1>1, <1>4, <1>10, <1>12, <1>13, <2>1, <2>5, <2>7, <2>9, <2>10, CallMoves
<1>14. CASE f.i < Len(reg.mods) /\ ~Hears(e, f.h)
  <2>1. stack' = Moved(t, g) /\ reg' = reg
    BY <1>8, <1>14 DEF Fill
  <2>2. FrameFits(g, reg, root)
    <3>1. SubSeq(v.slots, 1, v.count) = Only(SubSeq(reg.mods, 1, f.i + 1), H)
      BY <1>7, <1>12, <1>14
    <3> HIDE DEF g, f
    <3> QED BY <1>7, <1>12, <1>14, <3>1 DEF FrameFits
  <2> QED BY <1>1, <1>3, <1>4, <1>10, <1>12, <1>14, <2>1, <2>2, CallMoves
<1>15. CASE ~(f.i < Len(reg.mods))
  <2> DEFINE w == [v EXCEPT !.gen = reg.gen]
             d == [f EXCEPT !.pc = "read", !.i = 0]
  <2>1. stack' = Moved(t, d) /\ reg' = [reg EXCEPT !.vec[f.h].gen = reg.gen]
    BY <1>8, <1>15 DEF Fill
  <2>2. /\ d \in Frame /\ d.pc = "read" /\ d.i = 0 /\ d.h = f.h /\ d.at = f.at
        /\ d.want = f.want /\ d.seen = f.seen /\ d.tab = f.tab
    BY <1>2 DEF Frame
  <2>3. /\ w \in Vector /\ w.count = v.count /\ w.gen = reg.gen /\ w.slots = v.slots
        /\ w.cap = v.cap
    BY <1>5 DEF Vector
  <2>4. reg' = WithVector(reg, f.h, w, reg.tab)
    BY <1>2, <1>3, <2>1 DEF WithVector, Region
  <2> HIDE DEF w, d, f, H
  <2>5. /\ reg' \in Region /\ reg'.mods = reg.mods /\ reg'.gen = reg.gen /\ reg'.list = reg.list
        /\ reg'.lcap = reg.lcap /\ reg'.dirty = reg.dirty /\ reg'.tab = reg.tab
        /\ reg'.vec[f.h] = w /\ \A k \in Hooks : k # f.h => reg'.vec[k] = reg.vec[k]
    <3> DEFINE n == reg.tab
               h == f.h
    <3>1. h \in Hooks /\ w \in Vector /\ n \in Nat /\ reg \in Region /\ reg' = WithVector(reg, h, w, n)
      BY <1>2, <1>3, <1>5, <2>3, <2>4
    <3> HIDE DEF n, h
    <3>2. /\ reg' \in Region /\ reg'.mods = reg.mods /\ reg'.gen = reg.gen /\ reg'.list = reg.list
          /\ reg'.lcap = reg.lcap /\ reg'.dirty = reg.dirty /\ reg'.tab = n
          /\ reg'.vec[h] = w /\ \A k \in Hooks : k # h => reg'.vec[k] = reg.vec[k]
      BY <3>1, VectorChanged
    <3> QED BY <3>2 DEF n, h
  <2>6. CurrentIn(reg', f.h)
    BY <1>7, <2>3, <2>5 DEF CurrentIn
  <2>7. ListenersIn(reg', f.h) = ListenersIn(reg, f.h)
    BY <2>5 DEF HearingIn, ListenersIn
  <2>8. SubSeq(w.slots, 1, w.count) = ListenersIn(reg', f.h)
    <3>1. f.i = Len(reg.mods)
      BY <1>11, <1>15
    <3>2. SubSeq(reg.mods, 1, f.i) = reg.mods
      BY <1>5, <3>1
    <3> QED BY <1>7, <2>3, <2>7, <3>2 DEF ListenersIn, H
  <2>9. CachesFit(reg')
    <3>1. /\ w.count <= Len(w.slots) /\ Len(w.slots) <= w.cap /\ w.gen <= reg.gen
          /\ reg.tab <= reg.tab
      BY <1>5, <1>6, <2>3
    <3> QED BY <1>2, <1>3, <1>7, <2>5, <2>6, <2>8, <3>1, CachesStay
  <2>10. FrameFits(d, reg', root)
    BY <1>7, <2>2, <2>5, <2>6, <2>7 DEF FrameFits
  <2>11. \A k \in 1..Len(stack[t])-1 : FrameFits(stack[t][k], reg', root)
    BY <1>1, <1>9, <2>5, LowerStay DEF f
  <2> QED BY <1>1, <1>4, <1>10, <2>1, <2>2, <2>5, <2>9, <2>10, <2>11, CallMoves
<1> QED BY <1>13, <1>14, <1>15

\* A call that walks a current vector goes on to its next slot.
LEMMA WalkMoves ==
  ASSUME CallsConsistent, NEW t \in Threads, stack[t] # <<>>,
         NEW f \in Frame, f.h \in Hooks, CurrentIn(reg, f.h),
         f.at = root, f.want = ListenersIn(reg, f.h),
         f.n = reg.vec[f.h].count, f.cap = reg.vec[f.h].cap, f.i < f.n,
         f.seen = SubSeq(reg.vec[f.h].slots, 1, f.i),
         Entered(t, f, reg.vec[f.h]),
         reg' = reg /\ root' = root /\ tls' = tls /\ adapter' = adapter /\ boots' = boots,
         changes' = changes /\ fails' = fails /\ res' = res
  PROVE  CallsConsistent'
<1> DEFINE v == reg.vec[f.h]
           x == v.slots[f.i + 1]
           l == Append(f.seen, x)
           m == f.i + 1
           g == [f EXCEPT !.pc = "body", !.i = m, !.seen = l]
<1>1. reg \in Region /\ CachesFit(reg)
  BY DEF CallsConsistent, Typed
<1>2. /\ v \in Vector /\ v.slots \in Seq(Entries) /\ v.count \in Nat /\ v.count <= Len(v.slots)
  BY <1>1 DEF Region, Vector, CachesFit
<1>3. f.i \in Nat /\ f.n \in Nat
  BY DEF Frame
<1>4. /\ f.seen \in Seq(Entries) /\ x \in Entries /\ SubSeq(v.slots, 1, f.i + 1) = Append(f.seen, x)
  <2>1. f.i \in 0..Len(v.slots) /\ f.i < Len(v.slots)
    BY <1>2, <1>3
  <2> HIDE DEF v
  <2> QED BY <1>2, <2>1, PrefixGrows DEF v
<1>5. stack' = Moved(t, g)
  BY DEF Entered
<1>6. m \in Nat /\ 1 <= m /\ m <= f.n /\ l \in Seq(Entries) /\ l = SubSeq(v.slots, 1, m)
  <2>1. l \in Seq(Entries)
    <3> HIDE DEF x
    <3> QED BY <1>4
  <2>2. m \in Nat /\ 1 <= m /\ m <= f.n
    BY <1>3
  <2>3. l = SubSeq(v.slots, 1, m)
    BY <1>4
  <2> QED BY <2>1, <2>2, <2>3
<1> HIDE DEF l, m, x, v
<1>7. /\ g \in Frame /\ g.pc = "body" /\ g.i = m /\ g.h = f.h /\ g.at = f.at
      /\ g.want = f.want /\ g.seen = l /\ g.tab = f.tab /\ g.n = f.n /\ g.cap = f.cap
  BY <1>6 DEF Frame
<1> HIDE DEF g
<1>8. FrameFits(g, reg, root)
  BY <1>6, <1>7 DEF FrameFits, v
<1> QED BY <1>1, <1>5, <1>7, <1>8, CallMoves

\* The call has read address and count: its first body runs, or it ends.
LEMMA ReadKeeps ==
  ASSUME CallsConsistent, NEW t \in Threads, Read(t)
  PROVE  CallsConsistent'
<1> DEFINE f == Top(t)
           v == reg.vec[f.h]
<1>1. stack[t] # <<>> /\ f.pc = "read"
  BY DEF Read, At, Busy
<1>2. f \in Frame /\ FrameFits(f, reg, root) /\ f.h \in Hooks
  BY <1>1, TopFits DEF Frame
<1>3. reg \in Region /\ CachesFit(reg) /\ fails \in Nat /\ fails <= MaxFails
  BY DEF CallsConsistent, Typed, Runtime
<1>4. reg' = reg /\ root' = root /\ boots' = boots /\ changes' = changes /\ fails' = fails
      /\ adapter' = adapter
  BY DEF Read
<1>5. /\ CurrentIn(reg, f.h) /\ f.at = root /\ f.want = ListenersIn(reg, f.h)
      /\ f.seen = <<>> /\ f.i = 0
  BY <1>1, <1>2 DEF FrameFits
<1>6. /\ v \in Vector /\ v.slots \in Seq(Entries) /\ v.count \in Nat /\ v.cap \in Nat
  BY <1>2, <1>3 DEF Region, Vector
<1>7. CASE v.count = 0
  <2>1. Ended(t, 0, "notfound")
    BY <1>7 DEF Read
  <2>2. f.seen = f.want
    <3>1. SubSeq(v.slots, 1, 0) = ListenersIn(reg, f.h)
      BY <1>2, <1>3, <1>5, <1>7 DEF CachesFit
    <3>2. SubSeq(v.slots, 1, 0) = <<>>
      BY <1>6
    <3> QED BY <1>5, <3>1, <3>2
  <2> QED BY <1>1, <1>3, <1>4, <2>1, <2>2, CallEnds
<1>8. CASE v.count # 0
  <2> DEFINE d == [f EXCEPT !.n = v.count, !.cap = v.cap]
  <2>1. Entered(t, d, v) /\ tls' = tls /\ res' = res
    BY <1>8 DEF Read
  <2>2. /\ d \in Frame /\ d.h = f.h /\ d.at = f.at /\ d.want = f.want /\ d.i = f.i
        /\ d.seen = f.seen /\ d.n = v.count /\ d.cap = v.cap
    BY <1>2, <1>6 DEF Frame
  <2> HIDE DEF d, f
  <2>3. d.i < d.n /\ d.seen = SubSeq(reg.vec[d.h].slots, 1, d.i)
    <3>1. SubSeq(v.slots, 1, 0) = <<>>
      BY <1>6
    <3> QED BY <1>5, <1>6, <1>8, <2>2, <3>1
  <2>4. Entered(t, d, reg.vec[d.h])
    BY <2>1, <2>2
  <2>5. /\ d.h \in Hooks /\ CurrentIn(reg, d.h) /\ d.at = root
        /\ d.want = ListenersIn(reg, d.h) /\ d.n = reg.vec[d.h].count
        /\ d.cap = reg.vec[d.h].cap
    BY <1>2, <1>5, <2>2
  <2> QED BY <1>1, <1>4, <2>1, <2>2, <2>3, <2>4, <2>5, WalkMoves
<1> QED BY <1>7, <1>8

\* A body returns: the next one runs, or the call ends.
LEMMA BodyReturnKeeps ==
  ASSUME CallsConsistent, NEW t \in Threads, BodyReturn(t)
  PROVE  CallsConsistent'
<1> DEFINE f == Top(t)
           v == reg.vec[f.h]
<1>1. stack[t] # <<>> /\ f.pc = "body"
  BY DEF BodyReturn, At, Busy
<1>2. f \in Frame /\ FrameFits(f, reg, root) /\ f.h \in Hooks /\ f.n \in Nat /\ f.i \in Nat
  BY <1>1, TopFits DEF Frame
<1>3. reg \in Region /\ CachesFit(reg) /\ fails \in Nat /\ fails <= MaxFails
  BY DEF CallsConsistent, Typed, Runtime
<1>4. reg' = reg /\ root' = root /\ boots' = boots /\ changes' = changes /\ fails' = fails
      /\ adapter' = adapter
  BY DEF BodyReturn
<1>5. /\ CurrentIn(reg, f.h) /\ f.at = root /\ f.want = ListenersIn(reg, f.h)
      /\ f.n = v.count /\ f.cap = v.cap /\ 1 <= f.i /\ f.i <= f.n
      /\ f.seen = SubSeq(v.slots, 1, f.i)
  BY <1>1, <1>2 DEF FrameFits
<1>6. CASE f.i < f.n
  <2>1. Entered(t, f, v) /\ tls' = tls /\ res' = res
    BY <1>6 DEF BodyReturn
  <2> HIDE DEF f
  <2> QED BY <1>1, <1>2, <1>4, <1>5, <1>6, <2>1, WalkMoves
<1>7. CASE ~(f.i < f.n)
  <2>1. Ended(t, f.n, "ok")
    BY <1>7 DEF BodyReturn
  <2>2. f.i = f.n /\ f.n > 0
    BY <1>2, <1>5, <1>7
  <2>3. SubSeq(v.slots, 1, v.count) = ListenersIn(reg, f.h)
    BY <1>2, <1>3, <1>5 DEF CachesFit
  <2>4. f.seen = f.want
    BY <1>5, <2>2, <2>3
  <2> QED BY <1>1, <1>2, <1>3, <1>4, <2>1, <2>2, <2>4, CallEnds
<1> QED BY <1>6, <1>7

\* Memory is short and the call ends: no vector is current that was not.
LEMMA OutOfMemoryKeeps ==
  ASSUME CallsConsistent, NEW t \in Threads, OutOfMemory(t)
  PROVE  CallsConsistent'
<1>1. stack[t] # <<>> /\ Ended(t, 0, "failed") /\ adapter' = Top(t).h
  BY DEF OutOfMemory, Busy
<1>2. fails \in Nat /\ fails <= MaxFails /\ fails < MaxFails /\ MaxFails \in Nat
  BY CallsAssumption DEF CallsConsistent, Typed, Runtime, OutOfMemory
<1>3. fails' \in Nat /\ fails' <= MaxFails
  BY <1>2 DEF OutOfMemory
<1>4. reg' = reg /\ root' = root /\ boots' = boots /\ changes' = changes
  BY DEF OutOfMemory
<1> QED BY <1>1, <1>3, <1>4, CallEnds

\* A call begins, from the host or from a body.
LEMMA BeginKeeps ==
  ASSUME Discipline = Rules, CallsConsistent, NEW t \in Threads, NEW h \in Hooks, Begin(t, h)
  PROVE  CallsConsistent'
<1> DEFINE s == stack[t]
           f == [h |-> h, pc |-> "table", at |-> IF tls[t].at = 0 THEN root ELSE tls[t].at,
                 i |-> 0, n |-> 0, cap |-> 0, tab |-> 0, want |-> Listeners(h), seen |-> <<>>]
           p == Append(s, f)
           l == [tls[t] EXCEPT !.ran = 0, !.ret = h]
<1>1. /\ Typed /\ Runtime /\ stack \in [Threads -> Seq(Frame)] /\ reg \in Region
      /\ tls \in [Threads -> Tls] /\ res \in [Threads -> Result] /\ root \in Nat
  BY DEF CallsConsistent, Typed
<1>2. /\ root # 0 /\ (s # <<>> => Top(t).pc = "body" /\ Len(s) < MaxNest)
      /\ \/ \A u \in Threads : u # t => stack[u] = <<>>
         \/ CurrentIn(reg, h) /\ \A u \in Threads : u # t => ~Rebuilds(stack[u])
  <2>1. MayCall(t, h) /\ "warm" \in Discipline
    BY DEF Begin, Rules
  <2> QED BY <2>1, InOneRegion DEF MayCall, At, Busy, Others
<1>3. ListenersIn(reg, h) \in Seq(Entries) /\ Listeners(h) = ListenersIn(reg, h)
  BY <1>1, ListenersFacts, InOneRegion
<1>4. tls[t].at = 0 \/ tls[t].at = root
  BY <1>1 DEF Runtime
<1>5. /\ f \in Frame /\ f.h = h /\ f.pc = "table" /\ f.at = root /\ f.want = ListenersIn(reg, h)
      /\ f.seen = <<>>
  <2>1. <<>> \in Seq(Entries)
    OBVIOUS
  <2> QED BY <1>1, <1>3, <1>4, <2>1 DEF Frame
<1>6. FrameFits(f, reg, root)
  <2> HIDE DEF f
  <2> QED BY <1>5 DEF FrameFits
<1>7. s \in Seq(Frame) /\ Len(s) \in Nat /\ Len(s) <= MaxNest /\ MaxNest \in Nat \ {0}
  BY <1>1, CallsAssumption DEF Runtime
<1>8. /\ stack' = [stack EXCEPT ![t] = p] /\ tls' = [tls EXCEPT ![t] = l]
      /\ adapter' = h /\ res' = [res EXCEPT ![t] = NoResult]
      /\ root' = root /\ reg' = reg /\ boots' = boots /\ changes' = changes /\ fails' = fails
  BY <1>1 DEF Begin
<1>9. l \in Tls /\ l.at = tls[t].at
  BY <1>1 DEF Tls
<1> HIDE DEF f
<1>10. /\ p \in Seq(Frame) /\ Len(p) = Len(s) + 1 /\ p[Len(s) + 1] = f
       /\ \A k \in 1..Len(s) : p[k] = s[k]
  BY <1>5, <1>7, FrameFacts
<1>11. NoResult \in Result /\ NoResult.end = "none"
  BY DEF NoResult, Result
<1>12. h # NULL
  BY CallsAssumption
<1>s. s = stack[t]
  OBVIOUS
<1> HIDE DEF s, p, l
<1>13. /\ stack'[t] = p /\ (\A u \in Threads : u # t => stack'[u] = stack[u])
       /\ stack' \in [Threads -> Seq(Frame)]
       /\ tls'[t] = l /\ (\A u \in Threads : u # t => tls'[u] = tls[u])
       /\ tls' \in [Threads -> Tls]
  BY <1>1, <1>8, <1>9, <1>10
<1>14. /\ res'[t] = NoResult /\ (\A u \in Threads : u # t => res'[u] = res[u])
       /\ res' \in [Threads -> Result]
  BY <1>1, <1>8, <1>11
<1>15. Typed'
  BY <1>1, <1>8, <1>13, <1>14 DEF Typed
<1>16. Runtime'
  <2>1. Len(p) <= MaxNest
    <3>1. CASE s = <<>>
      <4>1. Len(s) = 0
        BY <3>1
      <4> QED BY <1>7, <1>10, <4>1
    <3>2. CASE s # <<>>
      BY <1>2, <1>7, <1>10, <3>2
    <3> QED BY <3>1, <3>2
  <2>2. \A u \in Threads : Len(stack'[u]) <= MaxNest
    BY <1>1, <1>13, <2>1 DEF Runtime
  <2>3. \A u \in Threads : tls'[u].at = tls[u].at
    BY <1>9, <1>13
  <2> QED BY <1>1, <1>2, <1>8, <1>12, <2>2, <2>3 DEF Runtime
<1>17. ASSUME NEW u \in Threads PROVE StackFits(stack'[u], reg', root')
  <2>1. CASE u = t
    <3>1. ASSUME NEW k \in 1..Len(p)
          PROVE  FrameFits(p[k], reg, root) /\ (k < Len(p) => p[k].pc = "body")
      <4>1. CASE k = Len(s) + 1
        <5>1. ~(k < Len(p)) /\ p[k] = f
          BY <1>7, <1>10, <4>1
        <5> QED BY <1>6, <5>1
      <4>2. CASE k # Len(s) + 1
        <5>1. k \in 1..Len(s) /\ p[k] = s[k]
          BY <1>7, <1>10, <4>2
        <5>2. FrameFits(s[k], reg, root) /\ (k < Len(s) => s[k].pc = "body")
          BY <1>s, <5>1 DEF CallsConsistent, StackFits
        <5>3. s # <<>>
          BY <1>7, <5>1
        <5>4. s[Len(s)].pc = "body"
          BY <1>2, <1>s, <5>3 DEF Top
        <5>5. k = Len(s) \/ k < Len(s)
          BY <1>7, <5>1
        <5> QED BY <5>1, <5>2, <5>4, <5>5
      <4> QED BY <4>1, <4>2
    <3> QED BY <1>8, <1>13, <2>1, <3>1 DEF StackFits
  <2>2. CASE u # t
    BY <1>8, <1>13, <2>2 DEF CallsConsistent
  <2> QED BY <2>1, <2>2
<1>18. RebuildsAlone(stack', reg')
  <2> SUFFICES ASSUME NEW u \in Threads, Rebuilds(stack'[u])
               PROVE  \/ \A w \in Threads : w # u => stack'[w] = <<>>
                      \/ /\ stack'[u][Len(stack'[u])].pc = "table"
                         /\ CurrentIn(reg', stack'[u][Len(stack'[u])].h)
    BY DEF RebuildsAlone
  <2>1. CASE u = t
    <3>1. stack'[u][Len(stack'[u])] = f
      BY <1>10, <1>13, <2>1
    <3> QED BY <1>2, <1>5, <1>8, <1>13, <2>1, <3>1
  <2>2. CASE u # t
    <3>1. Rebuilds(stack[u]) /\ stack[u] # <<>>
      BY <1>13, <2>2 DEF Rebuilds
    <3> QED BY <1>2, <2>2, <3>1
  <2> QED BY <2>1, <2>2
<1>19. ASSUME NEW u \in Threads PROVE ResultFits(res'[u], tls'[u], adapter')
  <2>1. CASE u = t
    BY <1>11, <1>14, <2>1 DEF ResultFits
  <2>2. CASE u # t
    BY <1>8, <1>12, <1>13, <1>14, <2>2 DEF CallsConsistent, ResultFits
  <2> QED BY <2>1, <2>2
<1>20. CachesFit(reg') /\ reg'.gen = changes' + 1
  BY <1>8 DEF CallsConsistent
<1> QED BY <1>15, <1>16, <1>17, <1>18, <1>19, <1>20 DEF CallsConsistent

-----------------------------------------------------------------------------
(* Steps of the runtime, with nobody in a call. *)

\* A region after calloc fits.
LEMMA NewRegionFits ==
  NewRegion \in Region /\ CachesFit(NewRegion) /\ NewRegion.gen = 1
<1>1. <<>> \in Seq(Entries) /\ Len(<<>>) = 0
  OBVIOUS
<1>2. NoVector \in Vector /\ NoVector.slots = <<>> /\ NoVector.count = 0
      /\ NoVector.cap = 0 /\ NoVector.gen = 0
  BY <1>1 DEF NoVector, Vector
<1> DEFINE w == [h \in Hooks |-> NoVector]
<1>3. w \in [Hooks -> Vector] /\ \A h \in Hooks : w[h] = NoVector
  BY <1>2
<1>4. NewRegion = [mods |-> <<>>, gen |-> 1, list |-> <<>>, lcap |-> 0, dirty |-> FALSE,
                   tab |-> 0, vec |-> w]
  BY DEF NewRegion
<1> HIDE DEF w
<1>5. /\ NewRegion \in Region /\ NewRegion.mods = <<>> /\ NewRegion.gen = 1
      /\ NewRegion.list = <<>> /\ NewRegion.lcap = 0 /\ NewRegion.vec = w
      /\ ~NewRegion.dirty
  BY <1>1, <1>3, <1>4 DEF Region
<1>6. CachesFit(NewRegion)
  BY <1>1, <1>2, <1>3, <1>5 DEF CachesFit, CurrentIn
<1> QED BY <1>5, <1>6

\* With nobody in a call, the stacks fit any region.
LEMMA NobodyFits ==
  ASSUME NEW st, \A t \in Threads : st[t] = <<>>, NEW r, NEW at
  PROVE  (\A t \in Threads : StackFits(st[t], r, at)) /\ RebuildsAlone(st, r)
<1>1. Len(<<>>) = 0
  OBVIOUS
<1> QED BY <1>1 DEF StackFits, RebuildsAlone, Rebuilds

\* The runtime starts with one region and no vector.
LEMMA BootKeeps ==
  ASSUME CallsConsistent, NEW t \in Threads, Boot(t)
  PROVE  CallsConsistent'
<1> DEFINE l == [tls[t] EXCEPT !.at = boots + 1]
<1>1. /\ Typed /\ Runtime /\ tls \in [Threads -> Tls] /\ boots \in Nat /\ root \in Nat
      /\ MaxBoots \in Nat
  BY CallsAssumption DEF CallsConsistent, Typed
<1>2. /\ root = 0 /\ root' = boots + 1 /\ boots' = boots + 1 /\ reg' = NewRegion
      /\ tls' = [tls EXCEPT ![t] = l]
      /\ stack' = stack /\ adapter' = adapter /\ changes' = changes /\ fails' = fails
      /\ res' = res
  BY <1>1 DEF Boot
<1>3. boots < MaxBoots /\ changes = 0 /\ \A u \in Threads : stack[u] = <<>>
  BY <1>1, <1>2 DEF Runtime
<1>4. l \in Tls /\ l.at = boots + 1 /\ l.ran = tls[t].ran /\ l.ret = tls[t].ret
  BY <1>1 DEF Tls
<1> HIDE DEF l
<1>5. /\ tls'[t] = l /\ (\A u \in Threads : u # t => tls'[u] = tls[u])
      /\ tls' \in [Threads -> Tls]
  BY <1>1, <1>2, <1>4
<1>6. \A u \in Threads : tls[u].at = 0
  BY <1>1, <1>2 DEF Runtime
<1>7. Typed'
  BY <1>1, <1>2, <1>5, NewRegionFits DEF Typed
<1>8. Runtime'
  <2>1. /\ \A u \in Threads : tls'[u].at = 0 \/ tls'[u].at = root'
        /\ \A u, w \in Threads : tls'[u].at # 0 /\ tls'[w].at # 0 => u = w
    BY <1>2, <1>4, <1>5, <1>6
  <2>2. root' <= boots' /\ boots' <= MaxBoots /\ root' # 0
    BY <1>1, <1>2, <1>3
  <2> QED BY <1>1, <1>2, <2>1, <2>2 DEF Runtime
<1>9. /\ \A u \in Threads : StackFits(stack'[u], reg', root')
      /\ RebuildsAlone(stack', reg')
  BY <1>2, <1>3, NobodyFits
<1>10. \A u \in Threads : ResultFits(res'[u], tls'[u], adapter')
  BY <1>2, <1>4, <1>5 DEF CallsConsistent, ResultFits
<1> QED BY <1>2, <1>3, <1>7, <1>8, <1>9, <1>10, NewRegionFits DEF CallsConsistent

\* Shutdown leaves neither call nor vector behind.
LEMMA ShutdownKeeps ==
  ASSUME Discipline = Rules, CallsConsistent, NEW t \in Threads, xy_shutdown(t)
  PROVE  CallsConsistent'
<1>1. /\ Typed /\ Runtime /\ tls \in [Threads -> Tls] /\ boots \in Nat /\ root \in Nat
  BY DEF CallsConsistent, Typed
<1>2. /\ root # 0 /\ tls[t].at = root /\ boots < MaxBoots
      /\ \A u \in Threads : stack[u] = <<>>
  BY DEF xy_shutdown, Rules, Busy
<1>3. /\ root' = 0 /\ reg' = NewRegion /\ tls' = [tls EXCEPT ![t] = NewTls]
      /\ adapter' = NULL /\ changes' = 0 /\ res' = [u \in Threads |-> NoResult]
      /\ stack' = stack /\ boots' = boots /\ fails' = fails
  BY DEF xy_shutdown, Torn
<1>4. NewTls \in Tls /\ NewTls.at = 0
  BY DEF NewTls, Tls
<1>5. /\ tls'[t] = NewTls /\ (\A u \in Threads : u # t => tls'[u] = tls[u])
      /\ tls' \in [Threads -> Tls]
  BY <1>1, <1>3, <1>4
<1>6. \A u \in Threads : tls'[u].at = 0
  BY <1>1, <1>2, <1>4, <1>5 DEF Runtime
<1>7. NoResult \in Result /\ NoResult.end = "none"
  BY DEF NoResult, Result
<1>8. Typed'
  BY <1>1, <1>3, <1>5, <1>7, NewRegionFits DEF Typed
<1>9. Runtime'
  <2>1. MaxChanges \in Nat /\ 0 <= boots
    BY <1>1, CallsAssumption
  <2> QED BY <1>1, <1>2, <1>3, <1>6, <2>1 DEF Runtime
<1>10. /\ \A u \in Threads : StackFits(stack'[u], reg', root')
       /\ RebuildsAlone(stack', reg')
  BY <1>2, <1>3, NobodyFits
<1>11. \A u \in Threads : ResultFits(res'[u], tls'[u], adapter')
  BY <1>3, <1>7 DEF ResultFits
<1> QED BY <1>3, <1>8, <1>9, <1>10, <1>11, NewRegionFits DEF CallsConsistent

\* A module list changes: every vector is older than the region from then on.
LEMMA ChangeKeeps ==
  ASSUME Discipline = Rules, CallsConsistent, MayChange, NEW mods \in Seq(Entries),
         reg' = Changed(mods), changes' = changes + 1,
         UNCHANGED <<root, stack, tls, adapter, boots, fails, res>>
  PROVE  CallsConsistent'
<1>1. /\ Typed /\ Runtime /\ reg \in Region /\ CachesFit(reg) /\ changes \in Nat
      /\ reg.gen = changes + 1 /\ MaxChanges \in Nat
  BY CallsAssumption DEF CallsConsistent, Typed
<1>2. root # 0 /\ changes < MaxChanges /\ \A t \in Threads : stack[t] = <<>>
  BY DEF MayChange, Rules, Busy
<1>3. reg.gen + 1 \in Nat
  BY <1>1
<1>4. /\ reg' \in Region /\ reg'.mods = mods /\ reg'.gen = reg.gen + 1 /\ reg'.dirty
      /\ reg'.list = reg.list /\ reg'.lcap = reg.lcap /\ reg'.tab = reg.tab
      /\ reg'.vec = reg.vec
  BY <1>1, <1>3 DEF Changed, Region
<1>5. CachesFit(reg')
  <2>1. ASSUME NEW h \in Hooks
        PROVE  reg.vec[h].gen <= reg'.gen /\ reg.vec[h].gen # reg'.gen
    <3>1. reg.vec[h] \in Vector
      BY <1>1 DEF Region
    <3>2. reg.vec[h].gen \in Nat
      BY <3>1 DEF Vector
    <3> QED BY <1>1, <1>4, <3>2 DEF CachesFit
  <2>2. reg'.gen >= 1
    BY <1>1, <1>4
  <2> QED BY <1>1, <1>4, <2>1, <2>2 DEF CachesFit, CurrentIn
<1>6. Typed'
  BY <1>1, <1>4 DEF Typed
<1>7. Runtime'
  <2>1. changes' <= MaxChanges
    BY <1>1, <1>2
  <2> QED BY <1>1, <1>2, <2>1 DEF Runtime
<1>8. /\ \A u \in Threads : StackFits(stack'[u], reg', root')
      /\ RebuildsAlone(stack', reg')
  BY <1>2, NobodyFits
<1>9. \A u \in Threads : ResultFits(res'[u], tls'[u], adapter')
  BY DEF CallsConsistent
<1>10. reg'.gen = changes' + 1
  BY <1>1, <1>4
<1> QED BY <1>5, <1>6, <1>7, <1>8, <1>9, <1>10 DEF CallsConsistent

\* A load changes a list.
LEMMA LoadKeeps ==
  ASSUME Discipline = Rules, CallsConsistent, NEW m \in Mods, Load(m)
  PROVE  CallsConsistent'
<1> DEFINE x == <<m, changes>>
           s == Append(reg.mods, x)
<1>1. reg \in Region /\ changes \in Nat
  BY DEF CallsConsistent, Typed
<1>2. reg.mods \in Seq(Entries) /\ x \in Entries
  BY <1>1 DEF Region, Entries
<1>3. /\ MayChange /\ reg' = Changed(s) /\ changes' = changes + 1
      /\ UNCHANGED <<root, stack, tls, adapter, boots, fails, res>>
  BY DEF Load
<1> HIDE DEF x
<1>4. s \in Seq(Entries)
  BY <1>2
<1> HIDE DEF s
<1> QED BY <1>3, <1>4, ChangeKeeps

\* An unload changes a list.
LEMMA UnloadKeeps ==
  ASSUME Discipline = Rules, CallsConsistent, NEW e \in Alive, Unload(e)
  PROVE  CallsConsistent'
<1> DEFINE k == CHOOSE i \in DOMAIN reg.mods : reg.mods[i] = e
           s == RemoveAt(reg.mods, k)
<1>1. reg.mods \in Seq(Entries)
  BY DEF CallsConsistent, Typed, Region
<1>2. k \in 1..Len(reg.mods)
  <2>1. DOMAIN reg.mods = 1..Len(reg.mods)
    BY <1>1
  <2>2. \E i \in DOMAIN reg.mods : reg.mods[i] = e
    BY DEF Alive, ToSet
  <2> QED BY <2>1, <2>2
<1>3. /\ MayChange /\ reg' = Changed(s) /\ changes' = changes + 1
      /\ UNCHANGED <<root, stack, tls, adapter, boots, fails, res>>
  BY DEF Unload, Unlinked
<1> HIDE DEF k
<1>4. s \in Seq(Entries)
  BY <1>1, <1>2, RemoveAtFacts
<1> HIDE DEF s
<1> QED BY <1>3, <1>4, ChangeKeeps

-----------------------------------------------------------------------------
(* The theorems. *)

\* The invariant holds before the runtime starts.
LEMMA InitConsistent == Init => CallsConsistent
<1> SUFFICES ASSUME Init PROVE CallsConsistent
  OBVIOUS
<1>1. /\ root = 0 /\ reg = NewRegion /\ stack = [t \in Threads |-> <<>>]
      /\ tls = [t \in Threads |-> NewTls] /\ adapter = NULL
      /\ boots = 0 /\ changes = 0 /\ fails = 0 /\ res = [t \in Threads |-> NoResult]
  BY DEF Init
<1>2. /\ NewTls \in Tls /\ NewTls.at = 0 /\ NoResult \in Result /\ NoResult.end = "none"
  BY DEF NewTls, Tls, NoResult, Result
<1>3. /\ <<>> \in Seq(Frame) /\ Len(<<>>) = 0 /\ {MaxBoots, MaxNest} \subseteq Nat \ {0}
      /\ {MaxChanges, MaxFails} \subseteq Nat
  BY CallsAssumption
<1>4. Typed
  BY <1>1, <1>2, <1>3, NewRegionFits DEF Typed
<1>5. Runtime
  BY <1>1, <1>2, <1>3 DEF Runtime
<1>6. /\ \A u \in Threads : StackFits(stack[u], reg, root)
      /\ RebuildsAlone(stack, reg)
  BY <1>1, NobodyFits
<1>7. \A u \in Threads : ResultFits(res[u], tls[u], adapter)
  BY <1>1, <1>2 DEF ResultFits
<1> QED BY <1>1, <1>4, <1>5, <1>6, <1>7, NewRegionFits DEF CallsConsistent

\* If the host keeps the rules, a call that rebuilds is alone, every other one
\* walks a current vector, and the caches fit, at every moment.
THEOREM CallsAlways ==
  ASSUME Discipline = Rules
  PROVE  Spec => []CallsConsistent
<1>1. Init => CallsConsistent
  BY InitConsistent
<1>2. CallsConsistent /\ [Next]_vars => CallsConsistent'
  <2> SUFFICES ASSUME CallsConsistent, [Next]_vars PROVE CallsConsistent'
    OBVIOUS
  <2>1. ASSUME NEW t \in Threads, Boot(t) PROVE CallsConsistent'
    BY <2>1, BootKeeps
  <2>2. ASSUME NEW t \in Threads, xy_shutdown(t) PROVE CallsConsistent'
    BY <2>2, ShutdownKeeps
  <2>3. ASSUME NEW t \in Threads, Step(t) PROVE CallsConsistent'
    BY <2>3, CollectBeginKeeps, CollectKeeps, TableKeeps, FillKeeps, ReadKeeps,
       BodyReturnKeeps, OutOfMemoryKeeps DEF Step
  <2>4. ASSUME NEW t \in Threads, NEW h \in Hooks, Begin(t, h) PROVE CallsConsistent'
    BY <2>4, BeginKeeps
  <2>5. ASSUME NEW m \in Mods, Load(m) PROVE CallsConsistent'
    BY <2>5, LoadKeeps
  <2>6. ASSUME NEW e \in Alive, Unload(e) PROVE CallsConsistent'
    BY <2>6, UnloadKeeps
  <2>7. CASE UNCHANGED vars
    BY <2>7 DEF vars, CallsConsistent, Typed, Runtime
  <2> QED BY <2>1, <2>2, <2>3, <2>4, <2>5, <2>6, <2>7 DEF Next
<1> QED BY <1>1, <1>2, PTL DEF Spec

\* Counters stay inside their bounds and no vector outgrows its array.
THEOREM CallsTypeCorrect ==
  ASSUME Discipline = Rules
  PROVE  Spec => []TypeOK
BY CallsAlways, ConsistentImplies, PTL

\* A vector that a call would use as it is holds exactly the listeners, in
\* order, however many rebuilds ran out of memory half-way.
THEOREM TrustedVectorsAlwaysExact ==
  ASSUME Discipline = Rules
  PROVE  Spec => []TrustedVectorExact
BY CallsAlways, ConsistentImplies, PTL

\* A call that did not fail has run each listener once and in order.
THEOREM ListenersAlwaysOnce ==
  ASSUME Discipline = Rules
  PROVE  Spec => []EachListenerOnce
BY CallsAlways, ConsistentImplies, PTL

\* No call goes on through memory that was freed or moved.
THEOREM NeverFreedRead ==
  ASSUME Discipline = Rules
  PROVE  Spec => []NoFreedRead
BY CallsAlways, ConsistentImplies, PTL

\* xy_last returns the result of the thread's own latest call, provided every
\* hook has the same size of result: the size is taken from xy.adapter, which
\* another thread's call may have set.
THEOREM LastAlwaysOwn ==
  ASSUME Discipline = Rules, Wide = {} \/ Wide = Hooks
  PROVE  Spec => []LastIsOwn
<1>1. CallsConsistent => LastIsOwn
  <2> SUFFICES ASSUME CallsConsistent, NEW t \in Threads, res[t] # NoResult
               PROVE  xy_last(t) = IF res[t].end = "ok"
                                   THEN [err |-> "ok", of |-> res[t].h, size |-> Size(res[t].h)]
                                   ELSE [err |-> "notfound"]
    BY DEF LastIsOwn
  <2>1. /\ adapter # NULL /\ res[t].h \in Hooks
        /\ res[t].end = "ok" => tls[t].ran > 0 /\ tls[t].ret = res[t].h
        /\ res[t].end # "ok" => tls[t].ran = 0
    BY DEF CallsConsistent, ResultFits
  <2>2. adapter \in Hooks
    BY <2>1 DEF CallsConsistent, Typed
  <2>3. Size(adapter) = Size(res[t].h)
    BY <2>1, <2>2 DEF Size
  <2> QED BY <2>1, <2>3 DEF xy_last
<1> QED BY <1>1, CallsAlways, PTL
=============================================================================
