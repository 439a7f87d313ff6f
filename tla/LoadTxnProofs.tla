--------------------------- MODULE LoadTxnProofs ----------------------------
(***************************************************************************)
(* Load transactions for every set of libraries, every bound on references *)
(* and every depth of nested loads.                                        *)
(***************************************************************************)
EXTENDS LoadTxn, SeqLemmas

-----------------------------------------------------------------------------
(* The inductive invariant. Its parts take a world w and a stack s of loads as
   parameters: a load begins in a world that is not the current one. *)

Kinds ==
  {"key", "load_path", "handle", "tmp_load_path", "stable_fname", "entry", "region_state",
   "beside", "/tmp", "./tmp"}
Things == Kinds \X Loads

Entry ==
  [lib : Libs, dir : 0 .. 3, refs : 1 .. MaxRefs, parent : {0} \cup Loads, state : BOOLEAN]
EntMap == UNION {[D -> Entry] : D \in SUBSET Loads}
Worlds ==
  [live : SUBSET Things, ent : EntMap, mod_hd : [Libs -> {0} \cup Loads], mods : SUBSET Loads]

Early == {"copy", "write", "open", "name"}
Late == {"publish", "bind", "claim", "run", "install"}

Tx ==
  [k : Loads, lib : Libs, pc : Early \cup {"alloc"} \cup Late, ptr : SUBSET Fields, dir : 0 .. 3,
   try : 1 .. 4, found : {0} \cup Loads, main : BOOLEAN, reload : BOOLEAN, before : Worlds]

\* The kinds of things that load k has in L, and the things of kinds C.
Slice(L, k) == {c \in Kinds : <<c, k>> \in L}
Of(C, k) == C \X {k}

\* Load k takes up, and gives back, things of kinds C.
Plus(L, C, k) == L \cup Of(C, k)
Minus(L, C, k) == L \ Of(C, k)

\* A copy that is complete: the file and its name.
TmpKinds(d) == IF d = 0 THEN {} ELSE {"tmp_load_path", Dirs[d]}
TmpPtr(d) == IF d = 0 THEN {} ELSE {"tmp_load_path"}

\* The pointers a load has set at each of its places.
PtrAt(tx) ==
  IF tx.pc \in {"copy", "write"} THEN {"key", "load_path"}
  ELSE IF tx.pc = "open" THEN {"key", "load_path"} \cup TmpPtr(tx.dir)
  ELSE IF tx.pc = "name" THEN {"key", "load_path", "handle"} \cup TmpPtr(tx.dir)
  ELSE {"stable_key", "stable_fname", "handle"} \cup IF tx.pc = "alloc" THEN TmpPtr(tx.dir) ELSE {}

\* What a load has in hand there; the entry has the rest.
TxKinds(tx) ==
  IF tx.pc = "copy" THEN {"key", "load_path"}
  ELSE IF tx.pc = "write" THEN {"key", "load_path", Dirs[tx.try]}
  ELSE IF tx.pc = "open" THEN {"key", "load_path"} \cup TmpKinds(tx.dir)
  ELSE IF tx.pc = "name" THEN {"key", "load_path", "handle"} \cup TmpKinds(tx.dir)
  ELSE {"stable_fname", "handle"} \cup IF tx.pc = "alloc" THEN {"key"} \cup TmpKinds(tx.dir) ELSE {}

EntKinds(e) ==
  {"entry", "key"} \cup (IF e.state THEN {"region_state"} ELSE {}) \cup TmpKinds(e.dir)

\* What an entry has once its load is over: the name too if its image is a copy.
NameKinds(e) == IF e.dir # 0 /\ e.lib \notin Bare THEN {"stable_fname"} ELSE {}
OverKinds(e) == EntKinds(e) \cup {"handle"} \cup NameKinds(e)

\* A load that lost its copy has none, and no xy_install to run.
TxFits(tx) ==
  /\ tx.ptr = PtrAt(tx)
  /\ tx.pc \in {"copy", "write"} => tx.dir = 0
  /\ tx.pc = "write" => tx.try <= 3
  /\ tx.main => tx.dir = 0 /\ tx.pc \notin {"copy", "write", "install"}

Last1(s) == s[Len(s)]
Named(s) == {s[i].k : i \in 1..Len(s)}

\* Loads have names of their own; only the innermost is not inside xy_install.
Nested(s) ==
  /\ \A i, j \in 1..Len(s) : s[i].k = s[j].k => i = j
  /\ \A i \in 1..Len(s) : TxFits(s[i]) /\ (i < Len(s) => s[i].pc = "install")

\* A load has an entry from Alloc on, with the load below it as its loader.
EntryFits(w, tx, below) ==
  /\ tx.pc \in Late <=> tx.k \in DOMAIN w.ent
  /\ tx.pc \in Late =>
       /\ w.ent[tx.k].lib = tx.lib /\ w.ent[tx.k].dir = tx.dir
       /\ w.ent[tx.k].parent = below
       /\ tx.pc \in {"publish", "bind", "claim"} => ~w.ent[tx.k].state
Below(s, i) == IF i = 1 THEN 0 ELSE s[i - 1].k
Entered(w, s) == \A i \in 1..Len(s) : EntryFits(w, s[i], Below(s, i))

\* Everything that is there is in the hands of its load or its entry.
InHand(w, tx) ==
  Slice(w.live, tx.k) =
    TxKinds(tx) \cup (IF tx.k \in DOMAIN w.ent THEN EntKinds(w.ent[tx.k]) ELSE {})
Account(w, s) ==
  /\ \A i \in 1..Len(s) : InHand(w, s[i])
  /\ \A k \in DOMAIN w.ent : k \notin Named(s) => Slice(w.live, k) = OverKinds(w.ent[k])
  /\ \A k \in Loads : k \notin DOMAIN w.ent /\ k \notin Named(s) => Slice(w.live, k) = {}

\* Map and list find the entries, but for one on its way into them.
Pending(s, k, pcs) == s # <<>> /\ Last1(s).k = k /\ Last1(s).pc \in pcs
Findable(w, s) ==
  /\ \A l \in Libs : w.mod_hd[l] # 0 =>
       w.mod_hd[l] \in DOMAIN w.ent /\ w.ent[w.mod_hd[l]].lib = l
  /\ \A k \in DOMAIN w.ent : Pending(s, k, {"publish"}) \/ w.mod_hd[w.ent[k].lib] = k
  /\ \A k \in Loads :
       k \in w.mods <=> k \in DOMAIN w.ent /\ ~Pending(s, k, {"publish", "bind", "claim"})

\* The world without anything of load k.
Less(w, k) ==
  [live |-> Minus(w.live, Kinds, k), ent |-> [i \in DOMAIN w.ent \ {k} |-> w.ent[i]],
   mod_hd |-> [l \in Libs |-> IF w.mod_hd[l] = k THEN 0 ELSE w.mod_hd[l]], mods |-> w.mods \ {k}]

\* What the innermost load found stays until it uses it; what was there when it
\* began is still there, and beside it only what is named after the load.
OnTop(w, tx) ==
  /\ tx.pc \in Early => /\ tx.found = w.mod_hd[tx.lib]
                        /\ tx.found # 0 => w.ent[tx.found].refs < MaxRefs
  /\ tx.pc \in {"alloc", "publish"} => w.mod_hd[tx.lib] = 0
  /\ tx.pc # "install" => tx.before = Less(w, tx.k)

Fits(w, s) ==
  /\ w \in Worlds /\ s \in Seq(Tx)
  /\ Nested(s) /\ Entered(w, s) /\ Account(w, s) /\ Findable(w, s)
  /\ s # <<>> => OnTop(w, Last1(s))

\* What has been kept and lost.
HistoryOK == kept \subseteq Libs /\ lost \subseteq {"name", "file"}

TxnConsistent ==
  Fits(World, txs) /\ twice = FALSE /\ reloading \in BOOLEAN /\ HistoryOK

\* A library that was opened itself, by a load that is over, has a name in its
\* context, if it has one.
ContextsNamed ==
  \A k \in DOMAIN ent \ Named(txs) :
    ent[k].dir = 0 /\ ent[k].lib \notin Bare => ent[k].lib \in kept

-----------------------------------------------------------------------------
(* Sets of things. *)

\* The three directories copy_to_tmp tries.
LEMMA DirsFacts ==
  /\ Len(Dirs) = 3 /\ Dirs[1] = "beside" /\ Dirs[2] = "/tmp" /\ Dirs[3] = "./tmp"
  /\ \A d \in 1..3 : Dirs[d] \in {"beside", "/tmp", "./tmp"}
BY DEF Dirs

\* What a load takes up is added to its own things and to no other's.
LEMMA TakeUp ==
  ASSUME NEW L, NEW C, C \subseteq Kinds, NEW k
  PROVE  /\ Slice(Plus(L, C, k), k) = Slice(L, k) \cup C
         /\ \A j : j # k => Slice(Plus(L, C, k), j) = Slice(L, j)
         /\ Minus(Plus(L, C, k), Kinds, k) = Minus(L, Kinds, k)
<1>1. \A c, j : <<c, j>> \in Of(C, k) <=> c \in C /\ j = k
  BY DEF Of
<1>2. Slice(Plus(L, C, k), k) = Slice(L, k) \cup C
  BY <1>1 DEF Slice, Plus
<1>3. \A j : j # k => Slice(Plus(L, C, k), j) = Slice(L, j)
  BY <1>1 DEF Slice, Plus
<1>4. Of(C, k) \subseteq Of(Kinds, k)
  BY DEF Of
<1>5. Minus(Plus(L, C, k), Kinds, k) = Minus(L, Kinds, k)
  BY <1>4 DEF Plus, Minus
<1> QED BY <1>2, <1>3, <1>5

\* What a load gives back is taken from its own things and from no other's.
LEMMA GiveBack ==
  ASSUME NEW L, NEW C, C \subseteq Kinds, NEW k
  PROVE  /\ Slice(Minus(L, C, k), k) = Slice(L, k) \ C
         /\ \A j : j # k => Slice(Minus(L, C, k), j) = Slice(L, j)
         /\ Minus(Minus(L, C, k), Kinds, k) = Minus(L, Kinds, k)
<1>1. \A c, j : <<c, j>> \in Of(C, k) <=> c \in C /\ j = k
  BY DEF Of
<1>2. Slice(Minus(L, C, k), k) = Slice(L, k) \ C
  BY <1>1 DEF Slice, Minus
<1>3. \A j : j # k => Slice(Minus(L, C, k), j) = Slice(L, j)
  BY <1>1 DEF Slice, Minus
<1>4. Of(C, k) \subseteq Of(Kinds, k)
  BY DEF Of
<1>5. Minus(Minus(L, C, k), Kinds, k) = Minus(L, Kinds, k)
  BY <1>4 DEF Minus
<1> QED BY <1>2, <1>3, <1>5

\* A load has the things it gives back.
LEMMA HasThem ==
  ASSUME NEW L, NEW C, C \subseteq Kinds, NEW k, C \subseteq Slice(L, k)
  PROVE  Of(C, k) \subseteq L
BY DEF Of, Slice

\* Taking everything of a load away leaves nothing of it.
LEMMA AllOfIt ==
  ASSUME NEW L \in SUBSET Things, NEW C \in SUBSET Kinds, NEW k \in Loads, Slice(L, k) \subseteq C
  PROVE  Minus(L, C, k) = Minus(L, Kinds, k)
<1>1. \A x \in L : x \in Of(Kinds, k) => x \in Of(C, k)
  BY DEF Of, Slice, Things
<1>2. Of(C, k) \subseteq Of(Kinds, k)
  BY DEF Of
<1> QED BY <1>1, <1>2 DEF Minus

\* One thing, two things and none.
LEMMA OfFacts ==
  ASSUME NEW k
  PROVE  /\ \A a : {<<a, k>>} = Of({a}, k)
         /\ \A a, b : {<<a, k>>, <<b, k>>} = Of({a, b}, k)
         /\ Of({}, k) = {}
BY DEF Of

\* The things of two sets of kinds.
LEMMA OfUnion ==
  ASSUME NEW A, NEW B, NEW k
  PROVE  Of(A \cup B, k) = Of(A, k) \cup Of(B, k)
BY DEF Of

\* What entries and loads have is of the kinds in the account.
LEMMA KindsFacts ==
  /\ \A d \in 0..3 : TmpKinds(d) \subseteq Kinds
  /\ \A e \in Entry : EntKinds(e) \subseteq Kinds
  /\ \A tx \in Tx : TxFits(tx) => TxKinds(tx) \subseteq Kinds
<1>1. \A d \in 1..3 : Dirs[d] \in Kinds
  BY DirsFacts DEF Kinds
<1>2. ASSUME NEW d \in 0..3 PROVE TmpKinds(d) \subseteq Kinds
  BY <1>1 DEF TmpKinds, Kinds
<1>3. \A e \in Entry : EntKinds(e) \subseteq Kinds
  BY <1>2 DEF EntKinds, Entry, Kinds
<1>4. ASSUME NEW tx \in Tx, TxFits(tx) PROVE TxKinds(tx) \subseteq Kinds
  <2>1. tx.dir \in 0..3 /\ TmpKinds(tx.dir) \subseteq Kinds
    BY <1>2 DEF Tx
  <2>2. tx.pc = "write" => Dirs[tx.try] \in Kinds
    BY <1>1, <1>4 DEF Tx, TxFits
  <2>3. {"key", "load_path", "handle", "stable_fname"} \subseteq Kinds
    BY DEF Kinds
  <2> QED BY <2>1, <2>2, <2>3 DEF TxKinds
<1> QED BY <1>2, <1>3, <1>4

-----------------------------------------------------------------------------
(* What loads and entries give back. *)

OwnedKinds(f, d) ==
  IF f \in {"key", "stable_key"} THEN {"key"}
  ELSE IF f = "tmp_load_path" THEN {Dirs[d], f} ELSE {f}

\* What a single pointer owns.
LEMMA OwnedIs ==
  ASSUME NEW f, NEW k, NEW d
  PROVE  Owned(f, k, d) = Of(OwnedKinds(f, d), k)
<1>1. CASE f \in {"key", "stable_key"}
  BY <1>1, OfFacts DEF Owned, OwnedKinds
<1>2. CASE f = "tmp_load_path"
  BY <1>2, OfFacts DEF Owned, OwnedKinds
<1>3. CASE f \notin {"key", "stable_key"} /\ f # "tmp_load_path"
  BY <1>3, OfFacts DEF Owned, OwnedKinds
<1> QED BY <1>1, <1>2, <1>3

\* Before it writes a copy and after, a load has in hand what it points to.
GivesBack(tx) == IF tx.pc = "write" THEN {"key", "load_path"} ELSE TxKinds(tx)

\* What the pointers of a load own together, at each of its places.
LEMMA OwnedByIs ==
  ASSUME NEW tx \in Tx, TxFits(tx), tx.pc \in Late <=> tx.k \in DOMAIN ent
  PROVE  OwnedBy(tx) = Of(GivesBack(tx), tx.k)
<1> DEFINE F == tx.ptr \ IF Allocated(tx.k) THEN {"stable_key"} ELSE {}
           k == tx.k
           d == tx.dir
           C == UNION {OwnedKinds(f, d) : f \in F}
<1>1. OwnedBy(tx) = UNION {Owned(f, k, d) : f \in F}
  BY DEF OwnedBy
<1>2. \A f : Owned(f, k, d) = Of(OwnedKinds(f, d), k)
  BY OwnedIs
<1>3. F = PtrAt(tx) \ IF tx.pc \in Late THEN {"stable_key"} ELSE {}
  BY DEF Allocated, TxFits
<1> HIDE DEF F, k, d
<1>4. UNION {Owned(f, k, d) : f \in F} = Of(C, k)
  <2>1. \A x : x \in UNION {Owned(f, k, d) : f \in F} <=> \E f \in F : x \in Of(OwnedKinds(f, d), k)
    BY <1>2
  <2>2. \A f, x : x \in Of(OwnedKinds(f, d), k) <=> \E c \in OwnedKinds(f, d) : x = <<c, k>>
    BY DEF Of
  <2>3. \A x : x \in Of(C, k) <=> \E c \in C : x = <<c, k>>
    BY DEF Of
  <2>4. \A c : c \in C <=> \E f \in F : c \in OwnedKinds(f, d)
    OBVIOUS
  <2> HIDE DEF C
  <2>5. \A x : x \in UNION {Owned(f, k, d) : f \in F} <=> x \in Of(C, k)
    BY <2>1, <2>2, <2>3, <2>4
  <2> QED BY <2>5
<1>5. \A c : c \in C <=> \E f \in F : c \in OwnedKinds(f, d)
  OBVIOUS
<1> HIDE DEF C
<1>6. C = GivesBack(tx)
  <2>0. tx.pc \in {"copy", "write", "open", "name", "alloc", "publish", "bind", "claim", "run", "install"}
    BY DEF Tx, Early, Late
  <2>a. /\ OwnedKinds("key", d) = {"key"} /\ OwnedKinds("stable_key", d) = {"key"}
        /\ OwnedKinds("load_path", d) = {"load_path"} /\ OwnedKinds("handle", d) = {"handle"}
        /\ OwnedKinds("stable_fname", d) = {"stable_fname"}
        /\ OwnedKinds("tmp_load_path", d) = {"tmp_load_path", Dirs[d]}
    BY DEF OwnedKinds
  <2>b. d = tx.dir
    BY DEF d
  <2>1. CASE tx.pc \in {"copy", "write"}
    <3>1. F = {"key", "load_path"}
      BY <1>3, <2>1 DEF PtrAt, Late
    <3> QED BY <1>5, <2>1, <2>a, <3>1 DEF GivesBack, TxKinds
  <2>2. CASE tx.pc = "open"
    <3>1. F = {"key", "load_path"} \cup TmpPtr(d)
      BY <1>3, <2>2, <2>b DEF PtrAt, Late
    <3> QED BY <1>5, <2>2, <2>a, <2>b, <3>1 DEF GivesBack, TxKinds, TmpPtr, TmpKinds
  <2>3. CASE tx.pc = "name"
    <3>1. F = {"key", "load_path", "handle"} \cup TmpPtr(d)
      BY <1>3, <2>3, <2>b DEF PtrAt, Late
    <3> QED BY <1>5, <2>3, <2>a, <2>b, <3>1 DEF GivesBack, TxKinds, TmpPtr, TmpKinds
  <2>4. CASE tx.pc = "alloc"
    <3>1. F = {"stable_key", "stable_fname", "handle"} \cup TmpPtr(d)
      BY <1>3, <2>4, <2>b DEF PtrAt, Late
    <3> QED BY <1>5, <2>4, <2>a, <2>b, <3>1 DEF GivesBack, TxKinds, TmpPtr, TmpKinds
  <2>5. CASE tx.pc \in Late
    <3>1. F = {"stable_fname", "handle"}
      BY <1>3, <2>5 DEF PtrAt, Late
    <3> QED BY <1>5, <2>5, <2>a, <3>1 DEF GivesBack, TxKinds, Late
  <2> QED BY <2>0, <2>1, <2>2, <2>3, <2>4, <2>5 DEF Late
<1> QED BY <1>1, <1>4, <1>6 DEF k

\* What an entry owns without its handle, and with it.
LEMMA PartsIs ==
  ASSUME NEW k, ent[k] \in Entry
  PROVE  /\ Parts(k) = Of(EntKinds(ent[k]), k)
         /\ Whole(k) = Of(EntKinds(ent[k]) \cup {"handle"}, k)
<1>1. {<<"entry", k>>, <<"key", k>>} = Of({"entry", "key"}, k)
  BY OfFacts
<1>2. (IF ent[k].state THEN {<<"region_state", k>>} ELSE {}) = Of(IF ent[k].state THEN {"region_state"} ELSE {}, k)
  BY OfFacts
<1>3. (IF ent[k].dir = 0 THEN {} ELSE Owned("tmp_load_path", k, ent[k].dir)) = Of(TmpKinds(ent[k].dir), k)
  <2>1. Owned("tmp_load_path", k, ent[k].dir) = Of({"tmp_load_path", Dirs[ent[k].dir]}, k)
    BY OwnedIs DEF OwnedKinds
  <2> QED BY <2>1, OfFacts DEF TmpKinds
<1> DEFINE a == {"entry", "key"}
           b == IF ent[k].state THEN {"region_state"} ELSE {}
           c == TmpKinds(ent[k].dir)
<1>4. Parts(k) = (Of(a, k) \cup Of(b, k)) \cup Of(c, k)
  BY <1>1, <1>2, <1>3 DEF Parts
<1>5. EntKinds(ent[k]) = (a \cup b) \cup c
  BY DEF EntKinds
<1> HIDE DEF a, b, c
<1>6. Parts(k) = Of(EntKinds(ent[k]), k)
  <2> DEFINE E == EntKinds(ent[k])
  <2>1. E = (a \cup b) \cup c
    BY <1>5
  <2>3. (Of(a, k) \cup Of(b, k)) \cup Of(c, k) = Of((a \cup b) \cup c, k)
    <3> DEFINE ab == a \cup b
    <3>1. Of(ab, k) = Of(a, k) \cup Of(b, k)
      BY OfUnion
    <3> HIDE DEF ab
    <3>2. Of(ab \cup c, k) = Of(ab, k) \cup Of(c, k)
      BY OfUnion
    <3>3. (Of(a, k) \cup Of(b, k)) \cup Of(c, k) = Of(ab \cup c, k)
      BY <3>1, <3>2
    <3> QED BY <3>3 DEF ab
  <2> HIDE DEF E
  <2>4. Parts(k) = Of(E, k)
    BY <1>4, <2>1, <2>3
  <2> QED BY <2>4 DEF E
<1>7. Whole(k) = Of(EntKinds(ent[k]) \cup {"handle"}, k)
  <2> DEFINE E == EntKinds(ent[k])
  <2> HIDE DEF E
  <2>1. Of(E, k) \cup Of({"handle"}, k) = Of(E \cup {"handle"}, k)
    BY OfUnion
  <2>2. {<<"handle", k>>} = Of({"handle"}, k)
    BY OfFacts, Zenon
  <2> QED BY <1>6, <2>1, <2>2 DEF Whole, E
<1> QED BY <1>6, <1>7

\* What an entry has when its load is over.
HasNow(k) == Whole(k) \cup IF InCopy(k) THEN {NameOf(k)} ELSE {}
LEMMA OverIs ==
  ASSUME NEW k, ent[k] \in Entry
  PROVE  HasNow(k) = Of(OverKinds(ent[k]), k)
<1> DEFINE E == EntKinds(ent[k]) \cup {"handle"}
           N == NameKinds(ent[k])
<1>1. Whole(k) = Of(E, k)
  BY PartsIs
<1>2. (IF InCopy(k) THEN {NameOf(k)} ELSE {}) = Of(N, k)
  <2>1. {<<"stable_fname", k>>} = Of({"stable_fname"}, k) /\ Of({}, k) = {}
    BY DEF Of
  <2> QED BY <2>1 DEF InCopy, NameOf, NameKinds
<1>3. OverKinds(ent[k]) = E \cup N
  BY DEF OverKinds
<1> HIDE DEF E, N
<1>4. Of(E \cup N, k) = Of(E, k) \cup Of(N, k)
  BY OfUnion
<1> QED BY <1>1, <1>2, <1>3, <1>4 DEF HasNow

\* Of what an entry owns nothing is a name, or the handle.
LEMMA NotNamed ==
  ASSUME NEW e \in Entry
  PROVE  "stable_fname" \notin EntKinds(e) /\ "handle" \notin EntKinds(e)
BY DirsFacts DEF EntKinds, TmpKinds, Entry

\* What a load holds, a file it is writing included.
LEMMA HeldByLoadIs ==
  ASSUME NEW tx \in Tx, TxFits(tx), tx.pc \in Late <=> tx.k \in DOMAIN ent
  PROVE  HeldByLoad(tx) = Of(TxKinds(tx), tx.k)
<1>1. OwnedBy(tx) = Of(GivesBack(tx), tx.k)
  BY OwnedByIs
<1>2. CASE tx.pc = "write"
  <2>1. TxKinds(tx) = {"key", "load_path"} \cup {Dirs[tx.try]} /\ GivesBack(tx) = {"key", "load_path"}
    BY <1>2 DEF TxKinds, GivesBack
  <2>2. HeldByLoad(tx) = Of({"key", "load_path"}, tx.k) \cup Of({Dirs[tx.try]}, tx.k)
    BY <1>1, <1>2, <2>1, OfFacts DEF HeldByLoad
  <2> QED BY <2>1, <2>2, OfUnion
<1>3. CASE tx.pc # "write"
  BY <1>1, <1>3 DEF HeldByLoad, GivesBack
<1> QED BY <1>2, <1>3

-----------------------------------------------------------------------------
(* What the invariant says. *)

\* An entry table has entries under names of loads.
LEMMA EntMapFacts ==
  ASSUME NEW E \in EntMap
  PROVE  DOMAIN E \subseteq Loads /\ \A k \in DOMAIN E : E[k] \in Entry
BY DEF EntMap

\* Names of loads are positive numbers: 0 stands for none.
LEMMA LoadsFacts ==
  /\ Cardinality(Libs) \in Nat /\ MaxNest \in Nat \ {0} /\ MaxRefs \in Nat \ {0}
  /\ Loads \subseteq Nat \ {0} /\ 0 \notin Loads
<1>1. Cardinality(Libs) \in Nat /\ 2 * Cardinality(Libs) \in Nat
  <2>1. Cardinality(Libs) \in Nat
    BY TxnAssumption, FS_CardinalityType
  <2> QED BY <2>1
<1>2. MaxNest \in Nat \ {0} /\ MaxRefs \in Nat \ {0}
  BY TxnAssumption
<1> QED BY <1>1, <1>2 DEF Loads

\* The parts of the current world.
LEMMA WorldFacts ==
  ASSUME TxnConsistent
  PROVE  /\ World.live = live /\ World.ent = ent /\ World.mod_hd = mod_hd /\ World.mods = mods
         /\ live \subseteq Things /\ ent \in EntMap /\ mod_hd \in [Libs -> {0} \cup Loads]
         /\ mods \subseteq Loads /\ txs \in Seq(Tx)
         /\ DOMAIN ent \subseteq Loads /\ \A k \in DOMAIN ent : ent[k] \in Entry
<1>1. World.live = live /\ World.ent = ent /\ World.mod_hd = mod_hd /\ World.mods = mods
  BY DEF World
<1>2. World \in Worlds /\ txs \in Seq(Tx)
  BY DEF TxnConsistent, Fits
<1>3. live \subseteq Things /\ ent \in EntMap /\ mod_hd \in [Libs -> {0} \cup Loads] /\ mods \subseteq Loads
  BY <1>1, <1>2 DEF Worlds
<1> QED BY <1>1, <1>2, <1>3, EntMapFacts

\* The loads on the stack and their names.
LEMMA NamesFacts ==
  ASSUME NEW s \in Seq(Tx)
  PROVE  /\ \A i \in 1..Len(s) : s[i] \in Tx /\ s[i] \in ToSet(s)
         /\ \A tx \in ToSet(s) : \E i \in 1..Len(s) : s[i] = tx
         /\ {tx.k : tx \in ToSet(s)} = Named(s)
<1>1. \A i \in 1..Len(s) : s[i] \in Tx
  OBVIOUS
<1>2. \A tx : tx \in ToSet(s) <=> \E i \in 1..Len(s) : s[i] = tx
  BY DEF ToSet
<1>3. {tx.k : tx \in ToSet(s)} = Named(s)
  BY <1>2 DEF Named
<1> QED BY <1>1, <1>2, <1>3

\* A load in progress and its entry.
LEMMA LoadFacts ==
  ASSUME TxnConsistent, NEW i \in 1..Len(txs)
  PROVE  /\ txs[i] \in Tx /\ TxFits(txs[i]) /\ (txs[i].pc \in Late <=> txs[i].k \in DOMAIN ent)
         /\ InHand(World, txs[i]) /\ EntryFits(World, txs[i], Below(txs, i))
         /\ TxKinds(txs[i]) \subseteq Slice(live, txs[i].k)
<1>1. txs[i] \in Tx
  BY WorldFacts
<1>2. TxFits(txs[i]) /\ InHand(World, txs[i]) /\ EntryFits(World, txs[i], Below(txs, i))
  BY DEF TxnConsistent, Fits, Nested, Account, Entered
<1>3. txs[i].pc \in Late <=> txs[i].k \in DOMAIN ent
  BY <1>2, WorldFacts DEF EntryFits
<1>4. TxKinds(txs[i]) \subseteq Slice(live, txs[i].k)
  BY <1>2, WorldFacts DEF InHand
<1> QED BY <1>1, <1>2, <1>3, <1>4

\* The invariant implies the type invariant.
LEMMA TxnTyped ==
  ASSUME TxnConsistent
  PROVE  TypeOK
<1>1. /\ live \subseteq Things /\ ent \in EntMap /\ mod_hd \in [Libs -> {0} \cup Loads]
      /\ mods \subseteq Loads /\ txs \in Seq(Tx)
      /\ DOMAIN ent \subseteq Loads /\ \A k \in DOMAIN ent : ent[k] \in Entry
  BY WorldFacts
<1>2. \A tx \in ToSet(txs) : tx.k \in Loads /\ tx.ptr \subseteq Fields
  <2>1. \A tx \in Tx : tx.k \in Loads /\ tx.ptr \subseteq Fields
    BY DEF Tx
  <2> QED BY <1>1, <2>1, NamesFacts
<1>3. \A k \in DOMAIN ent : ent[k] \in
       [lib : Libs, dir : 0 .. Len(Dirs), refs : 1 .. MaxRefs,
        parent : {0} \cup Loads, state : BOOLEAN]
  BY <1>1, DirsFacts DEF Entry
<1>4. {reloading, twice} \subseteq BOOLEAN /\ kept \subseteq Libs
  BY DEF TxnConsistent, HistoryOK
<1> QED BY <1>1, <1>2, <1>3, <1>4 DEF TypeOK

\* The invariant implies that everything has one holder.
LEMMA TxnHeldOnce ==
  ASSUME TxnConsistent
  PROVE  EachHeldOnce
<1>w. /\ World.live = live /\ World.ent = ent /\ live \subseteq Things /\ txs \in Seq(Tx)
      /\ DOMAIN ent \subseteq Loads /\ \A k \in DOMAIN ent : ent[k] \in Entry
  BY WorldFacts
<1>a. Account(World, txs)
  BY DEF TxnConsistent, Fits
<1>p. \A k \in DOMAIN ent : /\ Parts(k) = Of(EntKinds(ent[k]), k)
                            /\ HasNow(k) = Of(OverKinds(ent[k]), k)
  BY <1>w, PartsIs, OverIs
<1>l. \A i \in 1..Len(txs) : HeldByLoad(txs[i]) = Of(TxKinds(txs[i]), txs[i].k)
  BY LoadFacts, HeldByLoadIs
<1>n. \A k : (\E tx \in ToSet(txs) : tx.k = k) <=> k \in Named(txs)
  BY <1>w, NamesFacts DEF Named
<1>h. \A k \in DOMAIN ent : HeldByEntry(k) = IF k \in Named(txs) THEN Parts(k) ELSE HasNow(k)
  BY <1>n DEF HeldByEntry, HasNow
<1> DEFINE H == {HeldByEntry(k) : k \in DOMAIN ent} \cup {HeldByLoad(tx) : tx \in ToSet(txs)}
<1>1. ASSUME NEW x \in live PROVE \E h \in H : x \in h
  <2>1. PICK c \in Kinds, k \in Loads : x = <<c, k>>
    BY <1>w DEF Things
  <2>2. c \in Slice(live, k)
    BY <2>1 DEF Slice
  <2>3. CASE k \in Named(txs)
    <3>1. PICK i \in 1..Len(txs) : txs[i].k = k
      BY <2>3 DEF Named
    <3>2. Slice(live, k) =
            TxKinds(txs[i]) \cup (IF k \in DOMAIN ent THEN EntKinds(ent[k]) ELSE {})
      BY <1>a, <1>w, <3>1 DEF Account, InHand
    <3>3. CASE c \in TxKinds(txs[i])
      <4>1. x \in HeldByLoad(txs[i]) /\ txs[i] \in ToSet(txs)
        BY <1>l, <1>w, <2>1, <3>1, <3>3, NamesFacts DEF Of
      <4> QED BY <4>1
    <3>4. CASE k \in DOMAIN ent /\ c \in EntKinds(ent[k])
      <4>1. x \in HeldByEntry(k)
        BY <1>h, <1>p, <2>1, <2>3, <3>4 DEF Of
      <4> QED BY <3>4, <4>1
    <3> QED BY <2>2, <3>2, <3>3, <3>4
  <2>4. CASE k \notin Named(txs)
    <3>1. k \in DOMAIN ent /\ Slice(live, k) = OverKinds(ent[k])
      BY <1>a, <1>w, <2>2, <2>4 DEF Account
    <3>2. x \in HeldByEntry(k)
      BY <1>h, <1>p, <2>1, <2>2, <2>4, <3>1 DEF Of
    <3> QED BY <3>1, <3>2
  <2> QED BY <2>3, <2>4
<1>2. ASSUME NEW k \in DOMAIN ent PROVE HeldByEntry(k) \subseteq live
  <2>1. CASE k \in Named(txs)
    <3>1. PICK i \in 1..Len(txs) : txs[i].k = k
      BY <2>1 DEF Named
    <3>2. EntKinds(ent[k]) \subseteq Slice(live, k)
      BY <1>a, <1>w, <3>1 DEF Account, InHand
    <3> QED BY <1>h, <1>p, <2>1, <3>2 DEF Of, Slice
  <2>2. CASE k \notin Named(txs)
    <3>1. OverKinds(ent[k]) = Slice(live, k)
      BY <1>a, <1>w, <2>2 DEF Account
    <3> QED BY <1>h, <1>p, <2>2, <3>1 DEF Of, Slice
  <2> QED BY <2>1, <2>2
<1>3. ASSUME NEW tx \in ToSet(txs) PROVE HeldByLoad(tx) \subseteq live
  <2>1. PICK i \in 1..Len(txs) : txs[i] = tx
    BY <1>w, NamesFacts
  <2>2. TxKinds(tx) \subseteq Slice(live, tx.k) /\ HeldByLoad(tx) = Of(TxKinds(tx), tx.k)
    BY <1>l, <2>1, LoadFacts
  <2> QED BY <2>2 DEF Of, Slice
<1>4. live = UNION H
  BY <1>1, <1>2, <1>3
<1>5. ASSUME NEW tx \in ToSet(txs)
      PROVE  /\ ~({"key", "stable_key"} \subseteq tx.ptr)
             /\ Allocated(tx.k) => OwnedBy(tx) \cap Parts(tx.k) = {}
  <2>1. PICK i \in 1..Len(txs) : txs[i] = tx
    BY <1>w, NamesFacts
  <2>2. tx \in Tx /\ TxFits(tx) /\ (tx.pc \in Late <=> tx.k \in DOMAIN ent)
    BY <2>1, LoadFacts
  <2>3. ~({"key", "stable_key"} \subseteq tx.ptr)
    BY <2>2 DEF TxFits, PtrAt, TmpPtr
  <2>4. ASSUME Allocated(tx.k) PROVE OwnedBy(tx) \cap Parts(tx.k) = {}
    <3>1. tx.pc \in Late /\ tx.k \in DOMAIN ent
      BY <2>2, <2>4 DEF Allocated
    <3>2. OwnedBy(tx) = Of({"stable_fname", "handle"}, tx.k)
      BY <2>2, <3>1, OwnedByIs DEF GivesBack, TxKinds, Late
    <3>3. Parts(tx.k) = Of(EntKinds(ent[tx.k]), tx.k)
      BY <1>p, <3>1
    <3>4. ent[tx.k] \in Entry
      BY <1>w, <3>1
    <3>5. "stable_fname" \notin EntKinds(ent[tx.k]) /\ "handle" \notin EntKinds(ent[tx.k])
      BY <3>4, NotNamed
    <3> QED BY <3>2, <3>3, <3>5 DEF Of
  <2> QED BY <2>3, <2>4
<1> QED BY <1>4, <1>5 DEF EachHeldOnce, TxnConsistent, HistoryOK

\* The invariant implies that map and list find whole entries.
LEMMA TxnLookup ==
  ASSUME TxnConsistent, ContextsNamed
  PROVE  LookupFindsLive
<1>w. /\ World.live = live /\ World.ent = ent /\ World.mod_hd = mod_hd /\ World.mods = mods
      /\ live \subseteq Things /\ txs \in Seq(Tx) /\ mods \subseteq Loads
      /\ DOMAIN ent \subseteq Loads /\ \A k \in DOMAIN ent : ent[k] \in Entry
  BY WorldFacts
<1>f. Findable(World, txs) /\ Account(World, txs)
  BY DEF TxnConsistent, Fits
<1>1. ASSUME NEW k \in DOMAIN ent PROVE Whole(k) \subseteq live
  <2>1. EntKinds(ent[k]) \cup {"handle"} \subseteq Slice(live, k)
    <3>1. CASE k \in Named(txs)
      <4>1. PICK i \in 1..Len(txs) : txs[i].k = k
        BY <3>1 DEF Named
      <4>2. "handle" \in TxKinds(txs[i])
        BY <4>1, LoadFacts DEF TxKinds, Late
      <4> QED BY <1>f, <1>w, <4>1, <4>2 DEF Account, InHand
    <3>2. CASE k \notin Named(txs)
      BY <1>f, <1>w, <3>2 DEF Account, OverKinds
    <3> QED BY <3>1, <3>2
  <2>2. Whole(k) = Of(EntKinds(ent[k]) \cup {"handle"}, k)
    BY <1>w, PartsIs
  <2> QED BY <2>1, <2>2 DEF Of, Slice
<1>2. ASSUME NEW k \in ({mod_hd[l] : l \in Libs} \ {0}) \cup mods PROVE k \in DOMAIN ent
  BY <1>f, <1>w, <1>2 DEF Findable
<1>3. ASSUME NEW k \in DOMAIN ent, \A tx \in ToSet(txs) : tx.k # k
      PROVE  /\ k \in mods /\ mod_hd[ent[k].lib] = k
             /\ Reached(k) => NameOf(k) \in live \/ ent[k].lib \in kept
  <2>1. \A P : ~Pending(txs, k, P)
    <3> SUFFICES ASSUME txs # <<>> PROVE Last1(txs).k # k
      BY DEF Pending
    <3>1. Len(txs) \in 1..Len(txs)
      BY <1>w
    <3> QED BY <1>3, <1>w, <3>1, NamesFacts DEF Last1
  <2>2. k \in mods /\ mod_hd[ent[k].lib] = k
    BY <1>f, <1>w, <2>1 DEF Findable
  <2>3. k \notin Named(txs)
    BY <1>3, <1>w, NamesFacts DEF Named
  <2>4. CASE ent[k].dir = 0 /\ Reached(k)
    <3> QED BY <2>2, <2>3, <2>4 DEF ContextsNamed, Reached
  <2>5. CASE ent[k].dir # 0 /\ Reached(k)
    <3>1. "stable_fname" \in Slice(live, k)
      BY <1>f, <1>w, <2>3, <2>5 DEF Account, OverKinds, NameKinds, Reached
    <3> QED BY <2>2, <3>1 DEF Slice, NameOf
  <2> QED BY <2>2, <2>4, <2>5
<1> QED BY <1>1, <1>2, <1>3 DEF LookupFindsLive, Allocated

-----------------------------------------------------------------------------
(* One step of the innermost load. *)

\* The world v is w but for what is named after load k.
SameEntry(e, f) == e.lib = f.lib /\ e.dir = f.dir /\ e.parent = f.parent /\ e.state = f.state
Apart(v, w, k) ==
  \A j \in Loads : j # k =>
    /\ j \in DOMAIN v.ent <=> j \in DOMAIN w.ent
    /\ j \in DOMAIN w.ent => SameEntry(v.ent[j], w.ent[j])
    /\ Slice(v.live, j) = Slice(w.live, j)

\* The account of a load that is not k is what it was.
LEMMA ApartFacts ==
  ASSUME NEW v \in Worlds, NEW w \in Worlds, NEW k, Apart(v, w, k),
         NEW j \in Loads, j # k
  PROVE  /\ Slice(v.live, j) = Slice(w.live, j) /\ (j \in DOMAIN v.ent <=> j \in DOMAIN w.ent)
         /\ j \in DOMAIN w.ent => /\ EntKinds(v.ent[j]) = EntKinds(w.ent[j])
                                  /\ OverKinds(v.ent[j]) = OverKinds(w.ent[j])
         /\ \A tx \in Tx : tx.k = j =>
              /\ InHand(w, tx) => InHand(v, tx)
              /\ \A b : EntryFits(w, tx, b) => EntryFits(v, tx, b)
<1>1. /\ Slice(v.live, j) = Slice(w.live, j) /\ (j \in DOMAIN v.ent <=> j \in DOMAIN w.ent)
      /\ j \in DOMAIN w.ent => SameEntry(v.ent[j], w.ent[j])
  BY DEF Apart
<1>2. j \in DOMAIN w.ent => /\ EntKinds(v.ent[j]) = EntKinds(w.ent[j])
                            /\ OverKinds(v.ent[j]) = OverKinds(w.ent[j])
  BY <1>1 DEF SameEntry, EntKinds, OverKinds, NameKinds
<1>3. ASSUME NEW tx \in Tx, tx.k = j, InHand(w, tx) PROVE InHand(v, tx)
  BY <1>1, <1>2, <1>3 DEF InHand
<1>4. ASSUME NEW tx \in Tx, tx.k = j, NEW b, EntryFits(w, tx, b) PROVE EntryFits(v, tx, b)
  BY <1>1, <1>4 DEF EntryFits, SameEntry
<1> QED BY <1>1, <1>2, <1>3, <1>4

\* The innermost load is at another place, the world changed for it only.
LEMMA Moved ==
  ASSUME NEW w, NEW s, Fits(w, s), s # <<>>, NEW v \in Worlds, NEW tx \in Tx,
         tx.k = Last1(s).k, Apart(v, w, tx.k), TxFits(tx),
         EntryFits(v, tx, Below(s, Len(s))), InHand(v, tx),
         Findable(v, Append(Front(s), tx)), OnTop(v, tx)
  PROVE  Fits(v, Append(Front(s), tx)) /\ Named(Append(Front(s), tx)) = Named(s)
<1> DEFINE p == Append(Front(s), tx)
           n == Len(s)
<1>0. w \in Worlds /\ s \in Seq(Tx) /\ Nested(s) /\ Entered(w, s) /\ Account(w, s)
  BY DEF Fits
<1>1. /\ n \in Nat \ {0} /\ p \in Seq(Tx) /\ Len(p) = n /\ p[n] = tx
      /\ \A i \in 1..n-1 : p[i] = s[i]
  BY <1>0, FrameFacts
<1>k. \A i \in 1..n : p[i].k = s[i].k
  BY <1>1 DEF Last1
<1>f. Findable(v, p) /\ OnTop(v, tx)
  OBVIOUS
<1>n. Len(s) = n
  OBVIOUS
<1>b. EntryFits(v, tx, Below(s, n))
  OBVIOUS
<1> HIDE DEF p, n
<1>2. Named(p) = Named(s)
  BY <1>1, <1>k, <1>n DEF Named
<1>s. \A i \in 1..n : s[i] \in Tx /\ s[i].k \in Loads
  <2>1. \A i \in 1..n : s[i] \in Tx
    BY <1>0, <1>n
  <2>2. \A t \in Tx : t.k \in Loads
    BY DEF Tx
  <2> QED BY <2>1, <2>2
<1>o. \A i \in 1..n-1 : s[i].k # tx.k
  <2> TAKE i \in 1..n-1
  <2>1. i \in 1..n /\ n \in 1..n /\ i # n
    BY <1>1
  <2> QED BY <1>0, <1>n, <2>1 DEF Nested, Last1
<1>3. Nested(p)
  <2>1. \A i, j \in 1..n : s[i].k = s[j].k => i = j
    BY <1>0, <1>n DEF Nested
  <2>2. ASSUME NEW i \in 1..n PROVE TxFits(p[i]) /\ (i < n => p[i].pc = "install")
    <3>1. CASE i = n
      BY <1>1, <3>1
    <3>2. CASE i # n
      <4>1. i \in 1..n-1 /\ i < n
        BY <1>1, <3>2
      <4> QED BY <1>0, <1>1, <1>n, <4>1 DEF Nested
    <3> QED BY <3>1, <3>2
  <2> QED BY <1>1, <1>k, <2>1, <2>2 DEF Nested
<1>4. Entered(v, p)
  <2> SUFFICES ASSUME NEW i \in 1..n PROVE EntryFits(v, p[i], Below(p, i))
    BY <1>1 DEF Entered
  <2>1. Below(p, i) = Below(s, i)
    <3>1. CASE i = 1
      BY <3>1 DEF Below
    <3>2. CASE i # 1
      <4>1. i - 1 \in 1..n
        BY <1>1, <3>2
      <4> QED BY <1>k, <3>2, <4>1 DEF Below
    <3> QED BY <3>1, <3>2
  <2>2. CASE i = n
    BY <1>1, <1>b, <2>1, <2>2
  <2>3. CASE i # n
    <3>1. i \in 1..n-1
      BY <1>1, <2>3
    <3>2. EntryFits(w, s[i], Below(s, i))
      BY <1>0, <1>n DEF Entered
    <3> HIDE DEF Below
    <3>3. EntryFits(v, s[i], Below(s, i))
      BY <1>0, <1>o, <1>s, <3>1, <3>2, ApartFacts
    <3> QED BY <1>1, <2>1, <3>1, <3>3
  <2> QED BY <2>2, <2>3
<1>5. \A i \in 1..n : InHand(v, p[i])
  <2> TAKE i \in 1..n
  <2>2. CASE i = n
    BY <1>1, <2>2
  <2>3. CASE i # n
    <3>1. i \in 1..n-1
      BY <1>1, <2>3
    <3>2. InHand(w, s[i])
      BY <1>0, <1>n DEF Account
    <3>3. InHand(v, s[i])
      BY <1>0, <1>o, <1>s, <3>1, <3>2, ApartFacts
    <3> QED BY <1>1, <3>1, <3>3
  <2> QED BY <2>2, <2>3
<1>6. tx.k \in Named(p)
  BY <1>1 DEF Named
<1>7. Account(v, p)
  <2>1. ASSUME NEW k \in DOMAIN v.ent, k \notin Named(p)
        PROVE  Slice(v.live, k) = OverKinds(v.ent[k])
    <3>1. k \in Loads /\ k # tx.k
      BY <1>6, <2>1, EntMapFacts DEF Worlds
    <3>2. /\ Slice(v.live, k) = Slice(w.live, k) /\ k \in DOMAIN w.ent
          /\ OverKinds(v.ent[k]) = OverKinds(w.ent[k])
      BY <1>0, <2>1, <3>1, ApartFacts
    <3> QED BY <1>0, <1>2, <2>1, <3>2 DEF Account
  <2>2. ASSUME NEW k \in Loads, k \notin DOMAIN v.ent, k \notin Named(p) PROVE Slice(v.live, k) = {}
    <3>1. k # tx.k
      BY <1>6, <2>2
    <3>2. Slice(v.live, k) = Slice(w.live, k) /\ k \notin DOMAIN w.ent
      BY <1>0, <2>2, <3>1, ApartFacts
    <3> QED BY <1>0, <1>2, <2>2, <3>2 DEF Account
  <2> QED BY <1>1, <1>5, <2>1, <2>2 DEF Account
<1>8. OnTop(v, Last1(p))
  BY <1>1, <1>f DEF Last1
<1> QED BY <1>1, <1>2, <1>3, <1>4, <1>7, <1>8, <1>f DEF Fits, p

\* The innermost load, up to its entry, acquires or gives back things and
\* leaves the tables alone.
LEMMA MovedEarly ==
  ASSUME NEW w, NEW s, Fits(w, s), s # <<>>, NEW v \in Worlds, NEW tx \in Tx,
         tx.k = Last1(s).k, tx.lib = Last1(s).lib, tx.found = Last1(s).found,
         tx.before = Last1(s).before,
         v.ent = w.ent, v.mod_hd = w.mod_hd, v.mods = w.mods,
         \A j : j # tx.k => Slice(v.live, j) = Slice(w.live, j),
         Minus(v.live, Kinds, tx.k) = Minus(w.live, Kinds, tx.k),
         Last1(s).pc \in Early, tx.pc \in Early \cup {"alloc"},
         tx.pc = "alloc" => tx.found = 0,
         TxFits(tx), Slice(v.live, tx.k) = TxKinds(tx)
  PROVE  Fits(v, Append(Front(s), tx)) /\ Named(Append(Front(s), tx)) = Named(s)
<1> DEFINE p == Append(Front(s), tx)
           t == Last1(s)
           n == Len(s)
<1>0. w \in Worlds /\ s \in Seq(Tx) /\ Nested(s) /\ Entered(w, s) /\ Account(w, s) /\ Findable(w, s)
  BY DEF Fits
<1>1. /\ n \in Nat \ {0} /\ p \in Seq(Tx) /\ Len(p) = n /\ p[n] = tx /\ t \in Tx
  BY <1>0, FrameFacts DEF Last1
<1>2. p # <<>> /\ Last1(p) = tx
  BY <1>1 DEF Last1
<1>3. t.pc \notin Late /\ tx.pc \notin Late
  BY DEF Early, Late
<1>4. tx.k \notin DOMAIN w.ent
  <2>1. EntryFits(w, s[n], Below(s, n))
    BY <1>0, <1>1 DEF Entered
  <2> QED BY <1>3, <2>1 DEF EntryFits, Last1
<1>5. EntryFits(v, tx, Below(s, Len(s)))
  BY <1>3, <1>4 DEF EntryFits
<1>6. InHand(v, tx)
  BY <1>4 DEF InHand
<1>7. \A k : /\ ~Pending(p, k, {"publish"}) /\ ~Pending(p, k, {"publish", "bind", "claim"})
             /\ ~Pending(s, k, {"publish"}) /\ ~Pending(s, k, {"publish", "bind", "claim"})
  BY <1>2, <1>3 DEF Pending, Late
<1>8. Findable(v, p)
  BY <1>0, <1>7 DEF Findable
<1>9. Less(v, tx.k) = Less(w, tx.k)
  BY DEF Less
<1>10. OnTop(v, tx)
  <2>1. OnTop(w, t)
    BY DEF Fits
  <2>2. /\ tx.found = w.mod_hd[tx.lib] /\ (tx.found # 0 => w.ent[tx.found].refs < MaxRefs)
        /\ tx.before = Less(w, tx.k)
    BY <2>1 DEF OnTop, Early
  <2> QED BY <1>9, <2>2 DEF OnTop, Early
<1>11. Apart(v, w, tx.k)
  BY DEF Apart, SameEntry
<1> QED BY <1>0, <1>5, <1>6, <1>8, <1>10, <1>11, Moved

\* The innermost load.
LEMMA TopFacts ==
  ASSUME TxnConsistent, txs # <<>>
  PROVE  /\ Top = Last1(txs) /\ Top \in Tx /\ Top.k \in Loads /\ TxFits(Top)
         /\ InHand(World, Top) /\ EntryFits(World, Top, Below(txs, Len(txs))) /\ OnTop(World, Top)
         /\ (Top.pc \in Late <=> Top.k \in DOMAIN ent)
         /\ Len(txs) \in Nat \ {0} /\ Loader = Below(txs, Len(txs))
<1>1. txs \in Seq(Tx) /\ Len(txs) \in Nat \ {0} /\ Len(txs) \in 1..Len(txs)
  BY WorldFacts
<1>2. Top = Last1(txs)
  BY DEF Top, Last1
<1>3. OnTop(World, Top)
  BY <1>2 DEF TxnConsistent, Fits
<1>4. /\ Top \in Tx /\ TxFits(Top) /\ InHand(World, Top)
      /\ EntryFits(World, Top, Below(txs, Len(txs))) /\ (Top.pc \in Late <=> Top.k \in DOMAIN ent)
  BY <1>1, LoadFacts DEF Top
<1>5. Top.k \in Loads
  BY <1>4 DEF Tx
<1>6. Loader = Below(txs, Len(txs))
  BY <1>1 DEF Loader, Below
<1> QED BY <1>1, <1>2, <1>3, <1>4, <1>5, <1>6

\* What load k takes up or gives back leaves a world.
LEMMA LiveTyped ==
  ASSUME NEW L \in SUBSET Things, NEW C \in SUBSET Kinds, NEW k \in Loads
  PROVE  Plus(L, C, k) \in SUBSET Things /\ Minus(L, C, k) \in SUBSET Things
BY DEF Of, Things, Plus, Minus

\* Nothing is kept or lost.
LEMMA SameNames ==
  ASSUME TxnConsistent, UNCHANGED names
  PROVE  HistoryOK'
BY DEF TxnConsistent, HistoryOK, names

\* The steps of a load up to its entry that take up C and give back B.
LEMMA EarlyStep ==
  ASSUME TxnConsistent, txs # <<>>, Top.pc \in Early,
         NEW C \in SUBSET Kinds, NEW B \in SUBSET Kinds,
         live' = Minus(Plus(live, C, Top.k), B, Top.k), UNCHANGED tables,
         twice' = FALSE, HistoryOK', UNCHANGED reloading,
         NEW tx \in Tx, txs' = Append(Front(txs), tx),
         tx.k = Top.k, tx.lib = Top.lib, tx.found = Top.found, tx.before = Top.before,
         tx.pc \in Early \cup {"alloc"}, tx.pc = "alloc" => tx.found = 0,
         TxFits(tx), TxKinds(tx) = (TxKinds(Top) \cup C) \ B
  PROVE  TxnConsistent'
<1> DEFINE v == World'
           k == Top.k
           L == Plus(live, C, k)
<1>1. v.live = live' /\ v.ent = ent' /\ v.mod_hd = mod_hd' /\ v.mods = mods'
  BY DEF World
<1>2. v = [live |-> live', ent |-> ent', mod_hd |-> mod_hd', mods |-> mods']
  BY DEF World
<1>3. /\ World.live = live /\ World.ent = ent /\ World.mod_hd = mod_hd /\ World.mods = mods
      /\ live \in SUBSET Things /\ ent \in EntMap /\ mod_hd \in [Libs -> {0} \cup Loads]
      /\ mods \in SUBSET Loads
  BY WorldFacts
<1>4. Top = Last1(txs) /\ k \in Loads /\ k \notin DOMAIN ent /\ InHand(World, Top)
  BY TopFacts DEF Early, Late
<1>5. Slice(live, k) = TxKinds(Top)
  BY <1>3, <1>4 DEF InHand
<1>6. Fits(World, txs)
  BY DEF TxnConsistent
<1>7. live' = Minus(L, B, k) /\ tx.k = k
  OBVIOUS
<1>8. ent' = ent /\ mod_hd' = mod_hd /\ mods' = mods
  BY DEF tables
<1> HIDE DEF v, k
<1>a. L \in SUBSET Things
  BY <1>3, <1>4, LiveTyped
<1>9. /\ Slice(L, k) = Slice(live, k) \cup C
      /\ (\A j : j # k => Slice(L, j) = Slice(live, j))
      /\ Minus(L, Kinds, k) = Minus(live, Kinds, k)
  BY TakeUp DEF L
<1> HIDE DEF L
<1>b. Minus(L, B, k) \in SUBSET Things
  BY <1>4, <1>a, LiveTyped
<1>10. /\ Slice(Minus(L, B, k), k) = Slice(L, k) \ B
       /\ (\A j : j # k => Slice(Minus(L, B, k), j) = Slice(L, j))
       /\ Minus(Minus(L, B, k), Kinds, k) = Minus(L, Kinds, k)
  <2>1. B \subseteq Kinds
    OBVIOUS
  <2> QED BY ONLY <2>1, GiveBack
<1>11. /\ live' \in SUBSET Things /\ Slice(live', k) = TxKinds(tx)
       /\ (\A j : j # k => Slice(live', j) = Slice(live, j))
       /\ Minus(live', Kinds, k) = Minus(live, Kinds, k)
  BY <1>5, <1>7, <1>9, <1>10, <1>b
<1>12. v \in Worlds
  BY <1>2, <1>3, <1>8, <1>11 DEF Worlds
<1>13. Fits(v, Append(Front(txs), tx))
  BY <1>1, <1>3, <1>4, <1>6, <1>7, <1>8, <1>11, <1>12, MovedEarly
<1>14. Fits(v, txs')
  BY <1>13
<1> QED BY <1>14 DEF TxnConsistent, v

\* Nothing taken up or given back; one thing given back.
LEMMA TakenIs ==
  ASSUME NEW L, NEW k
  PROVE  /\ L = Minus(Plus(L, {}, k), {}, k)
         /\ \A a : L \ {<<a, k>>} = Minus(Plus(L, {}, k), {a}, k)
<1>1. \A a : Of({a}, k) = {<<a, k>>}
  BY OfFacts
<1>2. Of({}, k) = {}
  BY OfFacts
<1> QED BY <1>1, <1>2 DEF Plus, Minus

\* The file of a copy is created: only the load has it.
LEMMA CopyBeginFits ==
  ASSUME TxnConsistent, CopyBegin
  PROVE  TxnConsistent'
<1> DEFINE tx == [Top EXCEPT !.pc = "write"]
           c == Dirs[Top.try]
<1>1. txs # <<>> /\ Top.pc = "copy" /\ Top.try <= 3
  BY DirsFacts DEF CopyBegin, At
<1>2. Top \in Tx /\ TxFits(Top)
  BY <1>1, TopFacts
<1>3. Top.try \in 1..3 /\ c \in {"beside", "/tmp", "./tmp"}
  BY <1>1, <1>2, DirsFacts DEF Tx
<1>4. live' = Minus(Plus(live, {c}, Top.k), {}, Top.k) /\ twice' = FALSE
  <2>1. live' = live \cup {<<c, Top.k>>}
    BY DEF CopyBegin, Acquire
  <2> HIDE DEF c
  <2>a. Of({c}, Top.k) = {<<c, Top.k>>} /\ Of({}, Top.k) = {}
    BY DEF Of
  <2>2. live' = Minus(Plus(live, {c}, Top.k), {}, Top.k)
    BY <2>1, <2>a DEF Plus, Minus
  <2> QED BY <2>2 DEF CopyBegin, Acquire, TxnConsistent
<1>5. /\ txs' = Append(Front(txs), tx) /\ UNCHANGED reloading /\ UNCHANGED tables
      /\ HistoryOK'
  BY SameNames DEF CopyBegin, GoOn
<1>6. /\ tx \in Tx /\ tx.k = Top.k /\ tx.lib = Top.lib /\ tx.found = Top.found
      /\ tx.before = Top.before /\ tx.main = Top.main /\ tx.pc = "write" /\ tx.try = Top.try
      /\ tx.dir = Top.dir /\ tx.ptr = Top.ptr
  BY <1>2 DEF Tx, Early
<1> HIDE DEF tx
<1>7. TxFits(tx)
  BY <1>1, <1>2, <1>6, DirsFacts DEF TxFits, PtrAt
<1>8. TxKinds(tx) = (TxKinds(Top) \cup {c}) \ {}
  BY <1>1, <1>6 DEF TxKinds
<1>9. {c} \in SUBSET Kinds /\ {} \in SUBSET Kinds
  BY <1>3 DEF Kinds
<1>10. Top.pc \in Early /\ tx.pc \in Early
  BY <1>1, <1>6 DEF Early
<1> HIDE DEF c
<1> QED BY <1>1, <1>4, <1>5, <1>6, <1>7, <1>8, <1>9, <1>10, EarlyStep

\* No file is created: the load has what it had.
LEMMA CopyMissedFits ==
  ASSUME TxnConsistent, CopyMissed
  PROVE  TxnConsistent'
<1> DEFINE tx == [Top EXCEPT !.try = Top.try + 1]
<1>1. txs # <<>> /\ Top.pc = "copy" /\ Top.try <= 3
  BY DirsFacts DEF CopyMissed, At
<1>2. Top \in Tx /\ TxFits(Top)
  BY <1>1, TopFacts
<1>3. Top.try + 1 \in 1..4
  BY <1>1, <1>2 DEF Tx
<1>4. live' = Minus(Plus(live, {}, Top.k), {}, Top.k) /\ twice' = FALSE
  <2>1. live' = live /\ twice' = twice
    BY DEF CopyMissed
  <2> QED BY <2>1, TakenIs DEF TxnConsistent
<1>5. /\ txs' = Append(Front(txs), tx) /\ UNCHANGED reloading /\ UNCHANGED tables
      /\ HistoryOK'
  BY SameNames DEF CopyMissed, GoOn
<1>6. /\ tx \in Tx /\ tx.k = Top.k /\ tx.lib = Top.lib /\ tx.found = Top.found
      /\ tx.before = Top.before /\ tx.main = Top.main /\ tx.pc = "copy" /\ tx.dir = Top.dir /\ tx.ptr = Top.ptr
  BY <1>1, <1>2, <1>3 DEF Tx
<1> HIDE DEF tx
<1>7. TxFits(tx)
  BY <1>1, <1>2, <1>6 DEF TxFits, PtrAt
<1>8. TxKinds(tx) = (TxKinds(Top) \cup {}) \ {}
  BY <1>1, <1>6 DEF TxKinds
<1>9. {} \in SUBSET Kinds
  OBVIOUS
<1>10. Top.pc \in Early /\ tx.pc \in Early
  BY <1>1, <1>6 DEF Early
<1> QED BY <1>1, <1>4, <1>5, <1>6, <1>7, <1>8, <1>9, <1>10, EarlyStep

\* The file that could not be filled is removed again.
LEMMA CopyFailedFits ==
  ASSUME TxnConsistent, CopyFailed
  PROVE  TxnConsistent'
<1> DEFINE tx == [Top EXCEPT !.pc = "copy", !.try = Top.try + 1]
           c == Dirs[Top.try]
<1>1. txs # <<>> /\ Top.pc = "write"
  BY DEF CopyFailed, At
<1>2. Top \in Tx /\ TxFits(Top)
  BY <1>1, TopFacts
<1>3. Top.try \in 1..3 /\ Top.try + 1 \in 1..4 /\ c \in {"beside", "/tmp", "./tmp"}
  BY <1>1, <1>2, DirsFacts DEF Tx, TxFits
<1>t. TxKinds(Top) = {"key", "load_path", c}
  BY <1>1 DEF TxKinds
<1>c. {c} \subseteq Kinds
  BY <1>3 DEF Kinds
<1>k. Top.k \notin DOMAIN ent /\ InHand(World, Top) /\ World.live = live /\ World.ent = ent
  BY <1>1, TopFacts, WorldFacts DEF Late
<1>4. live' = Minus(Plus(live, {}, Top.k), {c}, Top.k) /\ twice' = FALSE
  <2>1. live' = live \ {<<c, Top.k>>} /\ twice' = (twice \/ ~({<<c, Top.k>>} \subseteq live))
    BY DEF CopyFailed, Release
  <2>2. {c} \subseteq Slice(live, Top.k)
    BY <1>k, <1>t DEF InHand
  <2> HIDE DEF c
  <2>3. live' = Minus(Plus(live, {}, Top.k), {c}, Top.k)
    BY <2>1, TakenIs
  <2>4. Of({c}, Top.k) \subseteq live
    BY <1>c, <2>2, HasThem
  <2>5. {<<c, Top.k>>} \subseteq live
    BY <2>4 DEF Of
  <2> QED BY <2>1, <2>3, <2>5 DEF TxnConsistent
<1>5. /\ txs' = Append(Front(txs), tx) /\ UNCHANGED reloading /\ UNCHANGED tables
      /\ HistoryOK'
  BY SameNames DEF CopyFailed, GoOn
<1>6. /\ tx \in Tx /\ tx.k = Top.k /\ tx.lib = Top.lib /\ tx.found = Top.found
      /\ tx.before = Top.before /\ tx.main = Top.main /\ tx.pc = "copy" /\ tx.dir = Top.dir /\ tx.ptr = Top.ptr
  BY <1>1, <1>2, <1>3 DEF Tx, Early
<1> HIDE DEF tx
<1>7. TxFits(tx)
  BY <1>1, <1>2, <1>6 DEF TxFits, PtrAt
<1>8. TxKinds(tx) = (TxKinds(Top) \cup {}) \ {c}
  BY <1>3, <1>6, <1>t DEF TxKinds
<1>9. {} \in SUBSET Kinds /\ {c} \in SUBSET Kinds
  BY <1>c
<1>10. Top.pc \in Early /\ tx.pc \in Early
  BY <1>1, <1>6 DEF Early
<1> HIDE DEF c
<1> QED BY <1>1, <1>4, <1>5, <1>6, <1>7, <1>8, <1>9, <1>10, EarlyStep

\* The copy gets its name, and the load both.
LEMMA CopyDoneFits ==
  ASSUME TxnConsistent, CopyDone
  PROVE  TxnConsistent'
<1> DEFINE tx == [Top EXCEPT !.pc = "open", !.dir = Top.try, !.ptr = Top.ptr \cup {"tmp_load_path"}]
           c == "tmp_load_path"
<1>1. txs # <<>> /\ Top.pc = "write"
  BY DEF CopyDone, At
<1>2. Top \in Tx /\ TxFits(Top)
  BY <1>1, TopFacts
<1>3. Top.try \in 1..3 /\ Top.ptr \cup {"tmp_load_path"} \subseteq Fields
  BY <1>1, <1>2 DEF Tx, TxFits, Fields
<1>4. live' = Minus(Plus(live, {c}, Top.k), {}, Top.k) /\ twice' = FALSE
  <2>1. live' = live \cup {<<c, Top.k>>} /\ twice' = twice
    BY DEF CopyDone, Acquire
  <2> HIDE DEF c
  <2>a. Of({c}, Top.k) = {<<c, Top.k>>} /\ Of({}, Top.k) = {}
    BY DEF Of
  <2>2. live' = Minus(Plus(live, {c}, Top.k), {}, Top.k)
    BY <2>1, <2>a DEF Plus, Minus
  <2> QED BY <2>1, <2>2 DEF TxnConsistent
<1>5. /\ txs' = Append(Front(txs), tx) /\ UNCHANGED reloading /\ UNCHANGED tables
      /\ HistoryOK'
  BY SameNames DEF CopyDone, GoOn
<1>6. /\ tx \in Tx /\ tx.k = Top.k /\ tx.lib = Top.lib /\ tx.found = Top.found
      /\ tx.before = Top.before /\ tx.main = Top.main /\ tx.pc = "open" /\ tx.dir = Top.try
      /\ tx.ptr = Top.ptr \cup {"tmp_load_path"}
  <2> DEFINE P == Top.ptr \cup {"tmp_load_path"}
  <2>1. P \subseteq Fields /\ Top.try \in 0..3
    BY <1>3
  <2>2. tx = [Top EXCEPT !.pc = "open", !.dir = Top.try, !.ptr = P]
    OBVIOUS
  <2> HIDE DEF P, tx
  <2>3. /\ tx \in Tx /\ tx.k = Top.k /\ tx.lib = Top.lib /\ tx.found = Top.found
        /\ tx.before = Top.before /\ tx.main = Top.main /\ tx.pc = "open" /\ tx.dir = Top.try /\ tx.ptr = P
    BY <1>2, <2>1, <2>2 DEF Tx, Early
  <2> QED BY <2>3 DEF P
<1> HIDE DEF tx
<1>7. TxFits(tx)
  BY <1>1, <1>2, <1>3, <1>6 DEF TxFits, PtrAt, TmpPtr
<1>8. TxKinds(tx) = (TxKinds(Top) \cup {c}) \ {}
  BY <1>1, <1>3, <1>6 DEF TxKinds, TmpKinds
<1>9. {} \in SUBSET Kinds /\ {c} \in SUBSET Kinds
  BY DEF Kinds
<1>10. Top.pc \in Early /\ tx.pc \in Early
  BY <1>1, <1>6 DEF Early
<1> HIDE DEF c
<1> QED BY <1>1, <1>4, <1>5, <1>6, <1>7, <1>8, <1>9, <1>10, EarlyStep

\* The copy that gets no name is lost; dlopen will be given none.
LEMMA CopyUnnamedFits ==
  ASSUME TxnConsistent, CopyUnnamed
  PROVE  TxnConsistent'
<1> DEFINE tx == [Top EXCEPT !.pc = "open", !.main = TRUE]
           c == Dirs[Top.try]
<1>1. txs # <<>> /\ Top.pc = "write"
  BY DEF CopyUnnamed, At
<1>2. Top \in Tx /\ TxFits(Top)
  BY <1>1, TopFacts
<1>3. Top.try \in 1..3 /\ c \in {"beside", "/tmp", "./tmp"}
  BY <1>1, <1>2, DirsFacts DEF Tx, TxFits
<1>t. TxKinds(Top) = {"key", "load_path", c}
  BY <1>1 DEF TxKinds
<1>c. {c} \subseteq Kinds
  BY <1>3 DEF Kinds
<1>4. live' = Minus(Plus(live, {}, Top.k), {c}, Top.k) /\ twice' = FALSE
  <2>1. live' = live \ {<<c, Top.k>>} /\ twice' = twice
    BY DEF CopyUnnamed
  <2> HIDE DEF c
  <2> QED BY <2>1, TakenIs DEF TxnConsistent
<1>5. txs' = Append(Front(txs), tx) /\ UNCHANGED reloading /\ UNCHANGED tables
  BY DEF CopyUnnamed, GoOn
<1>l. HistoryOK'
  BY DEF CopyUnnamed, TxnConsistent, HistoryOK
<1>6. /\ tx \in Tx /\ tx.k = Top.k /\ tx.lib = Top.lib /\ tx.found = Top.found
      /\ tx.before = Top.before /\ tx.pc = "open" /\ tx.dir = Top.dir /\ tx.ptr = Top.ptr
  BY <1>1, <1>2 DEF Tx, Early
<1> HIDE DEF tx
<1>7. TxFits(tx)
  BY <1>1, <1>2, <1>6 DEF TxFits, PtrAt, TmpPtr
<1>8. TxKinds(tx) = (TxKinds(Top) \cup {}) \ {c}
  BY <1>1, <1>2, <1>3, <1>6, <1>t DEF TxKinds, TmpKinds, TxFits
<1>9. {} \in SUBSET Kinds /\ {c} \in SUBSET Kinds
  BY <1>c
<1>10. Top.pc \in Early /\ tx.pc \in Early
  BY <1>1, <1>6 DEF Early
<1> HIDE DEF c
<1> QED BY <1>1, <1>4, <1>5, <1>6, <1>7, <1>8, <1>9, <1>10, <1>l, EarlyStep

\* No copy is made: there is none to give back.
LEMMA CopyGivenUpFits ==
  ASSUME TxnConsistent, CopyGivenUp
  PROVE  TxnConsistent'
<1> DEFINE tx == [Top EXCEPT !.pc = "open"]
<1>1. txs # <<>> /\ Top.pc = "copy"
  BY DEF CopyGivenUp, At
<1>2. Top \in Tx /\ TxFits(Top)
  BY <1>1, TopFacts
<1>4. live' = Minus(Plus(live, {}, Top.k), {}, Top.k) /\ twice' = FALSE
  <2>1. live' = live /\ twice' = twice
    BY DEF CopyGivenUp
  <2> QED BY <2>1, TakenIs DEF TxnConsistent
<1>5. /\ txs' = Append(Front(txs), tx) /\ UNCHANGED reloading /\ UNCHANGED tables
      /\ HistoryOK'
  BY SameNames DEF CopyGivenUp, GoOn
<1>6. /\ tx \in Tx /\ tx.k = Top.k /\ tx.lib = Top.lib /\ tx.found = Top.found
      /\ tx.before = Top.before /\ tx.main = Top.main /\ tx.pc = "open" /\ tx.dir = Top.dir /\ tx.ptr = Top.ptr
  BY <1>1, <1>2 DEF Tx, Early
<1> HIDE DEF tx
<1>7. TxFits(tx)
  BY <1>1, <1>2, <1>6 DEF TxFits, PtrAt, TmpPtr
<1>8. TxKinds(tx) = (TxKinds(Top) \cup {}) \ {}
  BY <1>1, <1>2, <1>6 DEF TxKinds, TmpKinds, TxFits
<1>9. {} \in SUBSET Kinds
  OBVIOUS
<1>10. Top.pc \in Early /\ tx.pc \in Early
  BY <1>1, <1>6 DEF Early
<1> QED BY <1>1, <1>4, <1>5, <1>6, <1>7, <1>8, <1>9, <1>10, EarlyStep

\* dlopen succeeds: the load has the handle.
LEMMA OpenFits ==
  ASSUME TxnConsistent, Open
  PROVE  TxnConsistent'
<1> DEFINE tx == [Top EXCEPT !.pc = "name", !.ptr = Top.ptr \cup {"handle"}]
           c == "handle"
<1>1. txs # <<>> /\ Top.pc = "open"
  BY DEF Open, At
<1>2. Top \in Tx /\ TxFits(Top)
  BY <1>1, TopFacts
<1>3. Top.ptr \cup {"handle"} \subseteq Fields
  BY <1>2 DEF Tx, Fields
<1>4. live' = Minus(Plus(live, {c}, Top.k), {}, Top.k) /\ twice' = FALSE
  <2>1. live' = live \cup {<<c, Top.k>>} /\ twice' = twice
    BY DEF Open, Acquire
  <2> HIDE DEF c
  <2>a. Of({c}, Top.k) = {<<c, Top.k>>} /\ Of({}, Top.k) = {}
    BY DEF Of
  <2>2. live' = Minus(Plus(live, {c}, Top.k), {}, Top.k)
    BY <2>1, <2>a DEF Plus, Minus
  <2> QED BY <2>1, <2>2 DEF TxnConsistent
<1>5. /\ txs' = Append(Front(txs), tx) /\ UNCHANGED reloading /\ UNCHANGED tables
      /\ HistoryOK'
  BY SameNames DEF Open, GoOn
<1>6. /\ tx \in Tx /\ tx.k = Top.k /\ tx.lib = Top.lib /\ tx.found = Top.found
      /\ tx.before = Top.before /\ tx.main = Top.main /\ tx.pc = "name" /\ tx.dir = Top.dir
      /\ tx.ptr = Top.ptr \cup {"handle"}
  BY <1>1, <1>2, <1>3 DEF Tx, Early
<1> HIDE DEF tx
<1>7. TxFits(tx)
  BY <1>1, <1>2, <1>6 DEF TxFits, PtrAt
<1>8. TxKinds(tx) = (TxKinds(Top) \cup {c}) \ {}
  BY <1>1, <1>6 DEF TxKinds
<1>9. {} \in SUBSET Kinds /\ {c} \in SUBSET Kinds
  BY DEF Kinds
<1>10. Top.pc \in Early /\ tx.pc \in Early
  BY <1>1, <1>6 DEF Early
<1> HIDE DEF c
<1> QED BY <1>1, <1>4, <1>5, <1>6, <1>7, <1>8, <1>9, <1>10, EarlyStep

\* The name is copied, key and path change hands.
LEMMA NameFits ==
  ASSUME TxnConsistent, Name
  PROVE  TxnConsistent'
<1> DEFINE P == (Top.ptr \ {"key", "load_path"}) \cup {"stable_key", "stable_fname"}
           tx == [Top EXCEPT !.pc = "alloc", !.ptr = P]
           c == "stable_fname"
           b == "load_path"
<1>1. txs # <<>> /\ Top.pc = "name" /\ Top.found = 0
  BY DEF Name, At
<1>2. Top \in Tx /\ TxFits(Top)
  BY <1>1, TopFacts
<1>3. P \subseteq Fields
  BY <1>2 DEF Tx, Fields
<1>4. live' = Minus(Plus(live, {c}, Top.k), {b}, Top.k) /\ twice' = FALSE
  <2>1. live' = (live \cup {<<c, Top.k>>}) \ {<<b, Top.k>>} /\ twice' = twice
    BY DEF Name
  <2> HIDE DEF c, b
  <2>a. Of({c}, Top.k) = {<<c, Top.k>>} /\ Of({b}, Top.k) = {<<b, Top.k>>}
    BY DEF Of
  <2>2. live' = Minus(Plus(live, {c}, Top.k), {b}, Top.k)
    BY <2>1, <2>a DEF Plus, Minus
  <2> QED BY <2>1, <2>2 DEF TxnConsistent
<1>5. /\ txs' = Append(Front(txs), tx) /\ UNCHANGED reloading /\ UNCHANGED tables
      /\ HistoryOK'
  BY SameNames DEF Name, GoOn
<1>p. P = (Top.ptr \ {"key", "load_path"}) \cup {"stable_key", "stable_fname"}
  OBVIOUS
<1> HIDE DEF P
<1>6. /\ tx \in Tx /\ tx.k = Top.k /\ tx.lib = Top.lib /\ tx.found = Top.found
      /\ tx.before = Top.before /\ tx.main = Top.main /\ tx.pc = "alloc" /\ tx.dir = Top.dir /\ tx.ptr = P
  BY <1>1, <1>2, <1>3 DEF Tx
<1> HIDE DEF tx
<1>7. TxFits(tx)
  <2>1. Top.ptr = {"key", "load_path", "handle"} \cup TmpPtr(Top.dir)
    BY <1>1, <1>2 DEF TxFits, PtrAt
  <2>2. P = {"stable_key", "stable_fname", "handle"} \cup TmpPtr(Top.dir)
    BY <1>p, <2>1 DEF TmpPtr
  <2> QED BY <1>1, <1>2, <1>6, <2>2 DEF TxFits, PtrAt
<1>8. TxKinds(tx) = (TxKinds(Top) \cup {c}) \ {b}
  <2>1. Top.dir \in 0..3
    BY <1>2 DEF Tx
  <2>2. b \notin TmpKinds(Top.dir)
    BY <2>1, DirsFacts DEF TmpKinds
  <2> QED BY <1>1, <1>6, <2>2 DEF TxKinds
<1>9. {b} \in SUBSET Kinds /\ {c} \in SUBSET Kinds
  BY DEF Kinds
<1>10. Top.pc \in Early /\ tx.pc \in Early \cup {"alloc"}
  BY <1>1, <1>6 DEF Early
<1> HIDE DEF c, b
<1> QED BY <1>1, <1>4, <1>5, <1>6, <1>7, <1>8, <1>9, <1>10, EarlyStep

-----------------------------------------------------------------------------
(* From the entry to xy_install. *)

\* A load that is on its way into map and list is the innermost one.
LEMMA PendingIs ==
  ASSUME TxnConsistent, txs # <<>>, NEW tx \in Tx, tx.k = Top.k
  PROVE  \A j, P : /\ Pending(txs, j, P) <=> j = Top.k /\ Top.pc \in P
                   /\ Pending(Append(Front(txs), tx), j, P) <=> j = Top.k /\ tx.pc \in P
<1> DEFINE p == Append(Front(txs), tx)
<1>1. txs \in Seq(Tx) /\ Top = Last1(txs)
  BY WorldFacts, TopFacts
<1>2. Len(p) = Len(txs) /\ Len(txs) \in Nat \ {0} /\ p[Len(txs)] = tx /\ p \in Seq(Tx)
  BY <1>1, FrameFacts
<1>3. p # <<>> /\ Last1(p) = tx
  BY <1>2 DEF Last1
<1> HIDE DEF p
<1>4. \A j, P : /\ Pending(txs, j, P) <=> j = Top.k /\ Top.pc \in P
                /\ Pending(p, j, P) <=> j = Top.k /\ tx.pc \in P
  BY <1>1, <1>3 DEF Pending
<1> QED BY <1>4 DEF p

\* The innermost load goes on.
LEMMA StepFits ==
  ASSUME TxnConsistent, txs # <<>>, NEW tx \in Tx, txs' = Append(Front(txs), tx), tx.k = Top.k,
         World' \in Worlds, Apart(World', World, Top.k), TxFits(tx), EntryFits(World', tx, Loader),
         InHand(World', tx), Findable(World', Append(Front(txs), tx)), OnTop(World', tx),
         twice' = FALSE, reloading' \in BOOLEAN, HistoryOK'
  PROVE  TxnConsistent'
<1> DEFINE v == World'
<1>1. Fits(World, txs) /\ Top = Last1(txs) /\ Loader = Below(txs, Len(txs))
  BY TopFacts DEF TxnConsistent
<1>2. /\ v \in Worlds /\ Apart(v, World, tx.k) /\ EntryFits(v, tx, Below(txs, Len(txs)))
      /\ InHand(v, tx) /\ Findable(v, Append(Front(txs), tx)) /\ OnTop(v, tx)
  BY <1>1
<1> HIDE DEF v
<1>3. Fits(v, Append(Front(txs), tx))
  BY <1>1, <1>2, Moved
<1> QED BY <1>3 DEF TxnConsistent, v

\* The entry takes over key and copy from the load.
LEMMA AllocFits ==
  ASSUME TxnConsistent, Alloc
  PROVE  TxnConsistent'
<1> DEFINE k == Top.k
           P == Top.ptr \ {"tmp_load_path"}
           tx == [Top EXCEPT !.pc = "publish", !.ptr = P]
           v == World'
           e == Fresh(Top)
<1>1. txs # <<>> /\ Top.pc = "alloc"
  BY DEF Alloc, At
<1>2. /\ Top \in Tx /\ TxFits(Top) /\ k \in Loads /\ k \notin DOMAIN ent
      /\ InHand(World, Top) /\ OnTop(World, Top) /\ Findable(World, txs)
  BY <1>1, TopFacts DEF Late, TxnConsistent, Fits
<1>3. /\ World.live = live /\ World.ent = ent /\ World.mod_hd = mod_hd /\ World.mods = mods
      /\ live \in SUBSET Things /\ ent \in EntMap /\ mod_hd \in [Libs -> {0} \cup Loads]
      /\ mods \in SUBSET Loads
      /\ DOMAIN ent \subseteq Loads /\ \A j \in DOMAIN ent : ent[j] \in Entry
  BY WorldFacts
<1>4. /\ live' = live \cup {<<"entry", k>>} /\ twice' = FALSE
      /\ ent' = [j \in DOMAIN ent \cup {k} |-> IF j = k THEN e ELSE ent[j]]
      /\ mod_hd' = mod_hd /\ mods' = mods /\ txs' = Append(Front(txs), tx) /\ reloading' = reloading
  BY DEF Alloc, Acquire, GoOn, TxnConsistent
<1>5. v.live = live' /\ v.ent = ent' /\ v.mod_hd = mod_hd' /\ v.mods = mods'
  BY DEF World
<1>6. v = [live |-> live', ent |-> ent', mod_hd |-> mod_hd', mods |-> mods']
  BY DEF World
<1>7. P \subseteq Fields /\ P = {"stable_key", "stable_fname", "handle"}
  BY <1>1, <1>2 DEF Tx, Fields, TxFits, PtrAt, TmpPtr
<1>t. /\ tx.k = k /\ tx.lib = Top.lib /\ tx.main = Top.main /\ tx.pc = "publish" /\ tx.ptr = P /\ tx.dir = Top.dir
      /\ tx.before = Top.before /\ tx \in Tx
  <2> HIDE DEF P
  <2> QED BY <1>2, <1>7 DEF Tx, Late
<1>e. /\ e.lib = Top.lib /\ e.dir = Top.dir /\ e.parent = Loader /\ e.state = FALSE /\ e \in Entry
  <2>1. Loader \in {0} \cup Loads
    <3>1. \A i \in 1..Len(txs) : txs[i].k \in Loads
      <4>1. \A i \in 1..Len(txs) : txs[i] \in Tx
        BY WorldFacts
      <4> QED BY <4>1 DEF Tx
    <3>2. Len(txs) \in Nat \ {0}
      BY <1>1, TopFacts
    <3>3. Len(txs) # 1 => Len(txs) - 1 \in 1..Len(txs)
      BY <3>2
    <3> QED BY <3>1, <3>3 DEF Loader
  <2>2. 1 \in 1..MaxRefs
    BY LoadsFacts
  <2> QED BY <1>2, <2>1, <2>2 DEF Fresh, Tx, Entry
<1> HIDE DEF k, P, tx, v, e
<1>8. /\ DOMAIN ent' = DOMAIN ent \cup {k} /\ ent'[k] = e
      /\ \A j \in DOMAIN ent : j # k /\ ent'[j] = ent[j]
  BY <1>2, <1>4
<1>9. ent' \in EntMap
  <2>1. DOMAIN ent' \subseteq Loads /\ \A j \in DOMAIN ent' : ent'[j] \in Entry
    BY <1>2, <1>3, <1>8, <1>e
  <2>2. ent' \in [DOMAIN ent' -> Entry]
    BY <1>4, <1>8, <2>1
  <2> QED BY <2>1, <2>2 DEF EntMap
<1>10. /\ live' = Plus(live, {"entry"}, k) /\ live' \in SUBSET Things
       /\ Slice(live', k) = Slice(live, k) \cup {"entry"}
       /\ (\A j : j # k => Slice(live', j) = Slice(live, j))
       /\ Minus(live', Kinds, k) = Minus(live, Kinds, k)
  <2>1. live' = Plus(live, {"entry"}, k)
    BY <1>4 DEF Plus, Of
  <2>2. {"entry"} \subseteq Kinds
    BY DEF Kinds
  <2>3. /\ Slice(Plus(live, {"entry"}, k), k) = Slice(live, k) \cup {"entry"}
        /\ (\A j : j # k => Slice(Plus(live, {"entry"}, k), j) = Slice(live, j))
        /\ Minus(Plus(live, {"entry"}, k), Kinds, k) = Minus(live, Kinds, k)
    BY <2>2, TakeUp
  <2>4. live' \in SUBSET Things
    BY <1>2, <1>3, <2>1, <2>2, LiveTyped DEF k
  <2> QED BY <2>1, <2>3, <2>4
<1>11. v \in Worlds
  BY <1>3, <1>4, <1>6, <1>9, <1>10 DEF Worlds
<1>12. Apart(v, World, k)
  BY <1>3, <1>5, <1>8, <1>10 DEF Apart, SameEntry
<1>13. TxFits(tx)
  BY <1>1, <1>2, <1>7, <1>t DEF TxFits, PtrAt
<1>14. EntryFits(v, tx, Loader)
  BY <1>5, <1>8, <1>e, <1>t DEF EntryFits, Late
<1>15. InHand(v, tx)
  <2>1. Slice(live, k) = {"stable_fname", "handle"} \cup ({"key"} \cup TmpKinds(Top.dir))
    BY <1>1, <1>2, <1>3 DEF InHand, TxKinds, k
  <2>2. TxKinds(tx) = {"stable_fname", "handle"}
    BY <1>t DEF TxKinds
  <2>3. EntKinds(e) = {"entry", "key"} \cup TmpKinds(Top.dir)
    BY <1>e DEF EntKinds
  <2>4. Slice(v.live, k) = TxKinds(tx) \cup EntKinds(v.ent[k]) /\ k \in DOMAIN v.ent
    BY <1>5, <1>8, <1>10, <2>1, <2>2, <2>3
  <2> QED BY <1>t, <2>4 DEF InHand
<1>16. Findable(v, Append(Front(txs), tx))
  <2>1. \A j, Q : /\ Pending(txs, j, Q) <=> j = k /\ "alloc" \in Q
                  /\ Pending(Append(Front(txs), tx), j, Q) <=> j = k /\ "publish" \in Q
    <3>1. tx.k = Top.k
      BY <1>t DEF k
    <3>2. \A j, Q : /\ Pending(txs, j, Q) <=> j = Top.k /\ Top.pc \in Q
                    /\ Pending(Append(Front(txs), tx), j, Q) <=> j = Top.k /\ tx.pc \in Q
      BY <1>1, <1>t, <3>1, PendingIs
    <3> QED BY <1>1, <1>t, <3>2 DEF k
  <2>2. \A j \in Loads : j \in mods <=> j \in DOMAIN ent
    BY <1>2, <1>3, <2>1 DEF Findable
  <2>3. \A j \in DOMAIN ent : mod_hd[ent[j].lib] = j
    BY <1>2, <1>3, <2>1 DEF Findable
  <2>4. \A l \in Libs : mod_hd[l] # 0 => mod_hd[l] \in DOMAIN ent /\ ent[mod_hd[l]].lib = l
    BY <1>2, <1>3 DEF Findable
  <2>5. \A l \in Libs : v.mod_hd[l] # 0 => v.mod_hd[l] \in DOMAIN v.ent /\ v.ent[v.mod_hd[l]].lib = l
    BY <1>4, <1>5, <1>8, <2>4
  <2>6. \A j \in DOMAIN v.ent : Pending(Append(Front(txs), tx), j, {"publish"}) \/ v.mod_hd[v.ent[j].lib] = j
    BY <1>4, <1>5, <1>8, <2>1, <2>3
  <2>7. \A j \in Loads : j \in v.mods <=> 
          j \in DOMAIN v.ent /\ ~Pending(Append(Front(txs), tx), j, {"publish", "bind", "claim"})
    BY <1>4, <1>5, <1>8, <2>1, <2>2
  <2> QED BY <2>5, <2>6, <2>7 DEF Findable
<1>17. OnTop(v, tx)
  <2>1. mod_hd[Top.lib] = 0 /\ Top.before = Less(World, k)
    BY <1>1, <1>2, <1>3 DEF OnTop, k
  <2>2. [i \in DOMAIN v.ent \ {k} |-> v.ent[i]] = [i \in DOMAIN World.ent \ {k} |-> World.ent[i]]
    BY <1>3, <1>5, <1>8
  <2>3. Less(v, k) = Less(World, k)
    <3>1. Minus(v.live, Kinds, k) = Minus(World.live, Kinds, k)
      BY <1>3, <1>5, <1>10
    <3>2. v.mod_hd = World.mod_hd /\ v.mods = World.mods
      BY <1>3, <1>4, <1>5
    <3> HIDE DEF v, k
    <3> QED BY <2>2, <3>1, <3>2 DEF Less
  <2> QED BY <1>4, <1>5, <1>t, <2>1, <2>3 DEF OnTop, Early
<1>18. reloading' \in BOOLEAN /\ HistoryOK'
  BY <1>4, SameNames DEF Alloc, TxnConsistent
<1> QED BY <1>1, <1>4, <1>t, <1>11, <1>12, <1>13, <1>14, <1>15, <1>16, <1>17, <1>18, StepFits DEF v, k

\* The map finds the entry, and no other of that library.
LEMMA PublishFits ==
  ASSUME TxnConsistent, Publish
  PROVE  TxnConsistent'
<1> DEFINE k == Top.k
           l0 == Top.lib
           tx == [Top EXCEPT !.pc = "bind"]
           v == World'
<1>1. txs # <<>> /\ Top.pc = "publish"
  BY DEF Publish, At
<1>2. /\ Top \in Tx /\ TxFits(Top) /\ k \in Loads /\ k \in DOMAIN ent /\ l0 \in Libs
      /\ InHand(World, Top) /\ OnTop(World, Top) /\ Findable(World, txs)
      /\ EntryFits(World, Top, Loader)
  BY <1>1, TopFacts DEF Late, TxnConsistent, Fits, Tx
<1>3. /\ World.live = live /\ World.ent = ent /\ World.mod_hd = mod_hd /\ World.mods = mods
      /\ live \in SUBSET Things /\ ent \in EntMap /\ mod_hd \in [Libs -> {0} \cup Loads]
      /\ mods \in SUBSET Loads
      /\ DOMAIN ent \subseteq Loads /\ \A j \in DOMAIN ent : ent[j] \in Entry
  BY WorldFacts
<1>4. /\ live' = live /\ twice' = FALSE /\ ent' = ent /\ mods' = mods
      /\ mod_hd' = [mod_hd EXCEPT ![l0] = k]
      /\ txs' = Append(Front(txs), tx) /\ reloading' = reloading
  BY DEF Publish, GoOn, TxnConsistent
<1>5. v.live = live' /\ v.ent = ent' /\ v.mod_hd = mod_hd' /\ v.mods = mods'
  BY DEF World
<1>6. v = [live |-> live', ent |-> ent', mod_hd |-> mod_hd', mods |-> mods']
  BY DEF World
<1>t. /\ tx.k = k /\ tx.lib = l0 /\ tx.main = Top.main /\ tx.pc = "bind" /\ tx.ptr = Top.ptr /\ tx.dir = Top.dir
      /\ tx.before = Top.before /\ tx \in Tx
  BY <1>2 DEF Tx, Late
<1>e. ent[k].lib = l0 /\ ent[k].dir = Top.dir /\ ent[k].parent = Loader /\ ~ent[k].state
  BY <1>1, <1>2, <1>3 DEF EntryFits, Late
<1>o. mod_hd[l0] = 0 /\ Top.before = Less(World, k)
  BY <1>1, <1>2, <1>3 DEF OnTop
<1> HIDE DEF k, l0, tx, v
<1>m. /\ mod_hd' \in [Libs -> {0} \cup Loads] /\ mod_hd'[l0] = k
      /\ \A l \in Libs : l # l0 => mod_hd'[l] = mod_hd[l]
  BY <1>2, <1>3, <1>4 DEF k, l0
<1>11. v \in Worlds
  BY <1>3, <1>4, <1>6, <1>m DEF Worlds
<1>12. Apart(v, World, k)
  BY <1>3, <1>4, <1>5 DEF Apart, SameEntry
<1>13. TxFits(tx)
  BY <1>1, <1>2, <1>t DEF TxFits, PtrAt
<1>14. EntryFits(v, tx, Loader)
  BY <1>2, <1>4, <1>5, <1>e, <1>t DEF EntryFits, Late, k
<1>15. InHand(v, tx)
  <2>1. TxKinds(tx) = TxKinds(Top)
    BY <1>1, <1>t DEF TxKinds
  <2> QED BY <1>2, <1>3, <1>4, <1>5, <1>t, <2>1 DEF InHand, k
<1>16. Findable(v, Append(Front(txs), tx))
  <2>1. \A j, Q : /\ Pending(txs, j, Q) <=> j = k /\ "publish" \in Q
                  /\ Pending(Append(Front(txs), tx), j, Q) <=> j = k /\ "bind" \in Q
    <3>1. tx.k = Top.k
      BY <1>t DEF k
    <3>2. \A j, Q : /\ Pending(txs, j, Q) <=> j = Top.k /\ Top.pc \in Q
                    /\ Pending(Append(Front(txs), tx), j, Q) <=> j = Top.k /\ tx.pc \in Q
      BY <1>1, <1>t, <3>1, PendingIs
    <3> QED BY <1>1, <1>t, <3>2 DEF k
  <2>2. \A j \in Loads : j \in mods <=> j \in DOMAIN ent /\ j # k
    BY <1>2, <1>3, <2>1 DEF Findable
  <2>3. \A j \in DOMAIN ent : j # k => mod_hd[ent[j].lib] = j
    BY <1>2, <1>3, <2>1 DEF Findable
  <2>4. \A l \in Libs : mod_hd[l] # 0 => mod_hd[l] \in DOMAIN ent /\ ent[mod_hd[l]].lib = l
    BY <1>2, <1>3 DEF Findable
  <2>5. \A l \in Libs : v.mod_hd[l] # 0 => v.mod_hd[l] \in DOMAIN v.ent /\ v.ent[v.mod_hd[l]].lib = l
    <3> TAKE l \in Libs
    <3>1. CASE l = l0
      BY <1>2, <1>4, <1>5, <1>e, <1>m, <3>1 DEF k
    <3>2. CASE l # l0
      BY <1>4, <1>5, <1>m, <2>4, <3>2
    <3> QED BY <3>1, <3>2
  <2>6. \A j \in DOMAIN v.ent : v.mod_hd[v.ent[j].lib] = j
    <3> SUFFICES ASSUME NEW j \in DOMAIN ent PROVE mod_hd'[ent[j].lib] = j
      BY <1>4, <1>5
    <3>1. CASE j = k
      BY <1>e, <1>m, <3>1
    <3>2. CASE j # k
      <4>1. mod_hd[ent[j].lib] = j /\ j # 0
        BY <1>3, <2>3, <3>2, LoadsFacts
      <4>2. ent[j].lib \in Libs /\ ent[j].lib # l0
        BY <1>3, <1>o, <4>1 DEF Entry
      <4> QED BY <1>m, <4>1, <4>2
    <3> QED BY <3>1, <3>2
  <2>7. \A j \in Loads : j \in v.mods <=> 
          j \in DOMAIN v.ent /\ ~Pending(Append(Front(txs), tx), j, {"publish", "bind", "claim"})
    BY <1>4, <1>5, <2>1, <2>2
  <2> QED BY <2>5, <2>6, <2>7 DEF Findable
<1>17. OnTop(v, tx)
  <2>2. [l \in Libs |-> IF v.mod_hd[l] = k THEN 0 ELSE v.mod_hd[l]]
          = [l \in Libs |-> IF World.mod_hd[l] = k THEN 0 ELSE World.mod_hd[l]]
    BY <1>3, <1>5, <1>m, <1>o
  <2>3. Less(v, k) = Less(World, k)
    BY <1>3, <1>4, <1>5, <2>2 DEF Less
  <2> QED BY <1>t, <1>o, <2>3 DEF OnTop, Early
<1>18. reloading' \in BOOLEAN /\ HistoryOK'
  BY <1>4, SameNames DEF Publish, TxnConsistent
<1> QED BY <1>1, <1>4, <1>t, <1>11, <1>12, <1>13, <1>14, <1>15, <1>16, <1>17, <1>18, StepFits DEF v, k

\* The context points to the load's name; the tables are what they were.
LEMMA BindFits ==
  ASSUME TxnConsistent, Bind
  PROVE  TxnConsistent'
<1> DEFINE k == Top.k
           tx == [Top EXCEPT !.pc = "claim"]
           v == World'
<1>1. txs # <<>> /\ Top.pc = "bind"
  BY DEF Bind, At
<1>2. /\ Top \in Tx /\ TxFits(Top) /\ InHand(World, Top) /\ Findable(World, txs)
      /\ EntryFits(World, Top, Loader) /\ OnTop(World, Top) /\ World \in Worlds
  BY <1>1, TopFacts DEF TxnConsistent, Fits
<1>4. /\ txs' = Append(Front(txs), tx) /\ reloading' = reloading /\ twice' = twice
      /\ live' = live /\ ent' = ent /\ mod_hd' = mod_hd /\ mods' = mods
  BY DEF Bind, GoOn, tables
<1>5. v = World
  BY <1>4 DEF World
<1>6. twice' = FALSE /\ reloading' \in BOOLEAN /\ HistoryOK'
  BY <1>4 DEF TxnConsistent, HistoryOK, Bind, names
<1>t. /\ tx.k = k /\ tx.main = Top.main /\ tx.pc = "claim" /\ tx.ptr = Top.ptr
      /\ tx.dir = Top.dir /\ tx.lib = Top.lib /\ tx.before = Top.before /\ tx \in Tx
  BY <1>2 DEF Tx, Late
<1> HIDE DEF tx, v
<1>12. Apart(v, World, k)
  BY <1>5 DEF Apart, SameEntry
<1>13. TxFits(tx)
  BY <1>1, <1>2, <1>t DEF TxFits, PtrAt
<1>14. EntryFits(v, tx, Loader)
  BY <1>1, <1>2, <1>5, <1>t DEF EntryFits, Late
<1>15. InHand(v, tx)
  <2>1. TxKinds(tx) = TxKinds(Top)
    BY <1>1, <1>t DEF TxKinds
  <2> QED BY <1>2, <1>5, <1>t, <2>1 DEF InHand
<1>16. Findable(v, Append(Front(txs), tx))
  <2>1. \A j, Q : /\ Pending(txs, j, Q) <=> j = k /\ "bind" \in Q
                  /\ Pending(Append(Front(txs), tx), j, Q) <=> j = k /\ "claim" \in Q
    <3>2. \A j, Q : /\ Pending(txs, j, Q) <=> j = Top.k /\ Top.pc \in Q
                    /\ Pending(Append(Front(txs), tx), j, Q) <=> j = Top.k /\ tx.pc \in Q
      BY <1>1, <1>t, PendingIs
    <3> QED BY <1>1, <1>t, <3>2
  <2> QED BY <1>2, <1>5, <2>1 DEF Findable
<1>17. OnTop(v, tx)
  BY <1>1, <1>2, <1>5, <1>t DEF OnTop, Early
<1> QED BY <1>1, <1>2, <1>4, <1>5, <1>6, <1>t, <1>12, <1>13, <1>14, <1>15, <1>16, <1>17, StepFits DEF v

\* The list has the entry, the entry its region state.
LEMMA EnlistFits ==
  ASSUME TxnConsistent, Enlist
  PROVE  TxnConsistent'
<1> DEFINE k == Top.k
           tx == [Top EXCEPT !.pc = "run"]
           v == World'
<1>1. txs # <<>> /\ Top.pc = "claim"
  BY DEF Enlist, At
<1>2. /\ Top \in Tx /\ TxFits(Top) /\ k \in Loads /\ k \in DOMAIN ent
      /\ InHand(World, Top) /\ OnTop(World, Top) /\ Findable(World, txs)
      /\ EntryFits(World, Top, Loader)
  BY <1>1, TopFacts DEF Late, TxnConsistent, Fits
<1>3. /\ World.live = live /\ World.ent = ent /\ World.mod_hd = mod_hd /\ World.mods = mods
      /\ live \in SUBSET Things /\ ent \in EntMap /\ mod_hd \in [Libs -> {0} \cup Loads]
      /\ mods \in SUBSET Loads
      /\ DOMAIN ent \subseteq Loads /\ \A j \in DOMAIN ent : ent[j] \in Entry
  BY WorldFacts
<1>b. PICK s \in {FALSE, Top.lib \in Stateful /\ ~Top.main} :
        /\ Acquire(IF s THEN {<<"region_state", Top.k>>} ELSE {})
        /\ ent' = [ent EXCEPT ![Top.k].state = s]
        /\ mods' = mods \cup {Top.k}
        /\ GoOn([Top EXCEPT !.pc = "run"])
        /\ UNCHANGED <<mod_hd, names>>
  BY Zenon DEF Enlist
<1>s. s \in BOOLEAN
  <2> DEFINE b == Top.lib \in Stateful /\ ~Top.main
  <2>1. b = TRUE \/ b = FALSE
    OBVIOUS
  <2> HIDE DEF b
  <2>2. s \in {FALSE, b}
    BY <1>b DEF b
  <2> QED BY <2>1, <2>2
<1>c.   /\ live' = live \cup (IF s THEN {<<"region_state", k>>} ELSE {})
        /\ ent' = [ent EXCEPT ![k].state = s] /\ mods' = mods \cup {k}
        /\ mod_hd' = mod_hd /\ twice' = twice
        /\ txs' = Append(Front(txs), tx) /\ reloading' = reloading
  BY <1>b, <1>s DEF Acquire, GoOn
<1>4. twice' = FALSE /\ reloading' \in BOOLEAN /\ HistoryOK'
  BY <1>b, <1>c, SameNames DEF TxnConsistent
<1>5. v.live = live' /\ v.ent = ent' /\ v.mod_hd = mod_hd' /\ v.mods = mods'
  BY DEF World
<1>6. v = [live |-> live', ent |-> ent', mod_hd |-> mod_hd', mods |-> mods']
  BY DEF World
<1>t. /\ tx.k = k /\ tx.main = Top.main /\ tx.pc = "run" /\ tx.ptr = Top.ptr /\ tx.dir = Top.dir /\ tx.lib = Top.lib
      /\ tx.before = Top.before /\ tx \in Tx
  BY <1>2 DEF Tx, Late
<1>e. /\ ent[k].lib = Top.lib /\ ent[k].dir = Top.dir /\ ent[k].parent = Loader /\ ~ent[k].state
      /\ Top.before = Less(World, k)
  BY <1>1, <1>2, <1>3 DEF EntryFits, Late, OnTop
<1> DEFINE C == IF s THEN {"region_state"} ELSE {}
<1>C. C = (IF s THEN {"region_state"} ELSE {})
  OBVIOUS
<1>l. live' = Plus(live, C, k)
  <2>1. Of({}, k) = {} /\ Of({"region_state"}, k) = {<<"region_state", k>>}
    BY DEF Of
  <2>2. Of(C, k) = IF s THEN {<<"region_state", k>>} ELSE {}
    BY <2>1, <1>C
  <2> QED BY <1>c, <2>2 DEF Plus
<1> HIDE DEF k, tx, v, C
<1>8. /\ DOMAIN ent' = DOMAIN ent /\ \A j \in DOMAIN ent : j # k => ent'[j] = ent[j]
      /\ ent'[k].lib = ent[k].lib /\ ent'[k].dir = ent[k].dir /\ ent'[k].refs = ent[k].refs
      /\ ent'[k].parent = ent[k].parent /\ ent'[k].state = s
      /\ ent'[k] \in Entry
  <2>1. ent[k] \in Entry
    BY <1>2, <1>3 DEF k
  <2>2. /\ DOMAIN ent' = DOMAIN ent /\ \A j \in DOMAIN ent : j # k => ent'[j] = ent[j]
        /\ ent'[k] = [ent[k] EXCEPT !.state = s]
    BY <1>2, <1>c DEF k
  <2> DEFINE e == ent[k]
             f == [e EXCEPT !.state = s]
  <2> HIDE DEF e
  <2>3. e \in Entry
    BY <2>1 DEF e
  <2>4. /\ f.lib = e.lib /\ f.dir = e.dir /\ f.refs = e.refs /\ f.parent = e.parent
        /\ f.state = s /\ f \in Entry
    BY <1>s, <2>3 DEF Entry
  <2>5. ent'[k] = f
    BY <2>2 DEF e
  <2> HIDE DEF f
  <2> QED BY <2>2, <2>4, <2>5 DEF e
<1>9. ent' \in EntMap
  <2>1. DOMAIN ent' \subseteq Loads /\ \A j \in DOMAIN ent' : ent'[j] \in Entry
    BY <1>3, <1>8
  <2>0. ent \in [DOMAIN ent -> Entry]
    BY <1>3 DEF EntMap
  <2>2. ent' \in [DOMAIN ent' -> Entry]
    BY <1>c, <1>8, <2>0, <2>1
  <2> QED BY <2>1, <2>2 DEF EntMap
<1>10. /\ live' \in SUBSET Things /\ Slice(live', k) = Slice(live, k) \cup C
       /\ (\A j : j # k => Slice(live', j) = Slice(live, j))
       /\ Minus(live', Kinds, k) = Minus(live, Kinds, k)
  <2>2. C \subseteq Kinds
    BY <1>C DEF Kinds
  <2>3. /\ Slice(Plus(live, C, k), k) = Slice(live, k) \cup C
        /\ (\A j : j # k => Slice(Plus(live, C, k), j) = Slice(live, j))
        /\ Minus(Plus(live, C, k), Kinds, k) = Minus(live, Kinds, k)
    BY <2>2, TakeUp
  <2>4. live' \in SUBSET Things
    BY <1>2, <1>3, <1>l, <2>2, LiveTyped DEF k
  <2> QED BY <1>l, <2>3, <2>4
<1>11. v \in Worlds
  <2>1. mods' \in SUBSET Loads
    BY <1>2, <1>3, <1>c DEF k
  <2> QED BY <1>3, <1>c, <1>6, <1>9, <1>10, <2>1 DEF Worlds
<1>12. Apart(v, World, k)
  BY <1>3, <1>5, <1>8, <1>10 DEF Apart, SameEntry
<1>13. TxFits(tx)
  BY <1>1, <1>2, <1>t DEF TxFits, PtrAt
<1>14. EntryFits(v, tx, Loader)
  BY <1>2, <1>5, <1>8, <1>e, <1>t DEF EntryFits, Late, k
<1>15. InHand(v, tx)
  <2>1. TxKinds(tx) = TxKinds(Top)
    BY <1>1, <1>t DEF TxKinds
  <2>2. EntKinds(ent'[k]) = EntKinds(ent[k]) \cup C
    BY <1>8, <1>e, <1>C DEF EntKinds
  <2>3. Slice(live, k) = TxKinds(Top) \cup EntKinds(ent[k])
    BY <1>2, <1>3 DEF InHand, k
  <2>4. Slice(live', k) = TxKinds(tx) \cup EntKinds(ent'[k]) /\ k \in DOMAIN ent'
    BY <1>2, <1>8, <1>10, <2>1, <2>2, <2>3 DEF k
  <2> QED BY <1>5, <1>t, <2>4 DEF InHand
<1>16. Findable(v, Append(Front(txs), tx))
  <2>1. \A j, Q : /\ Pending(txs, j, Q) <=> j = k /\ "claim" \in Q
                  /\ Pending(Append(Front(txs), tx), j, Q) <=> j = k /\ "run" \in Q
    <3>1. tx.k = Top.k
      BY <1>t DEF k
    <3>2. \A j, Q : /\ Pending(txs, j, Q) <=> j = Top.k /\ Top.pc \in Q
                    /\ Pending(Append(Front(txs), tx), j, Q) <=> j = Top.k /\ tx.pc \in Q
      BY <1>1, <1>t, <3>1, PendingIs
    <3> QED BY <1>1, <1>t, <3>2 DEF k
  <2>2. \A j \in Loads : j \in mods <=> j \in DOMAIN ent /\ j # k
    BY <1>2, <1>3, <2>1 DEF Findable
  <2>3. \A j \in DOMAIN ent : mod_hd[ent[j].lib] = j
    BY <1>2, <1>3, <2>1 DEF Findable
  <2>4. \A l \in Libs : mod_hd[l] # 0 => mod_hd[l] \in DOMAIN ent /\ ent[mod_hd[l]].lib = l
    BY <1>2, <1>3 DEF Findable
  <2>l. \A j \in DOMAIN ent : ent'[j].lib = ent[j].lib
    BY <1>8
  <2>5. \A l \in Libs : v.mod_hd[l] # 0 => v.mod_hd[l] \in DOMAIN v.ent /\ v.ent[v.mod_hd[l]].lib = l
    BY <1>c, <1>5, <1>8, <2>4, <2>l
  <2>6. \A j \in DOMAIN v.ent : v.mod_hd[v.ent[j].lib] = j
    BY <1>c, <1>5, <1>8, <2>3, <2>l
  <2>7. \A j \in Loads : j \in v.mods <=> 
          j \in DOMAIN v.ent /\ ~Pending(Append(Front(txs), tx), j, {"publish", "bind", "claim"})
    BY <1>2, <1>c, <1>5, <1>8, <2>1, <2>2 DEF k
  <2> QED BY <2>5, <2>6, <2>7 DEF Findable
<1>17. OnTop(v, tx)
  <2>2. [i \in DOMAIN v.ent \ {k} |-> v.ent[i]] = [i \in DOMAIN World.ent \ {k} |-> World.ent[i]]
    BY <1>3, <1>5, <1>8
  <2>3. v.mods \ {k} = World.mods \ {k}
    BY <1>3, <1>5, <1>c
  <2>4. Less(v, k) = Less(World, k)
    <3>1. Minus(v.live, Kinds, k) = Minus(World.live, Kinds, k)
      BY <1>3, <1>5, <1>10
    <3>2. v.mod_hd = World.mod_hd
      BY <1>3, <1>5, <1>c
    <3> HIDE DEF v, k
    <3> QED BY <2>2, <2>3, <3>1, <3>2 DEF Less
  <2> QED BY <1>e, <1>t, <2>4 DEF OnTop, Early
<1> QED BY <1>1, <1>4, <1>c, <1>t, <1>11, <1>12, <1>13, <1>14, <1>15, <1>16, <1>17, StepFits DEF v, k

\* xy_install is entered: other loads may begin on top.
LEMMA InstallFits ==
  ASSUME TxnConsistent, Install
  PROVE  TxnConsistent'
<1> DEFINE k == Top.k
           tx == [Top EXCEPT !.pc = "install"]
           v == World'
<1>1. txs # <<>> /\ Top.pc = "run"
  BY DEF Install, At
<1>2. /\ Top \in Tx /\ TxFits(Top) /\ InHand(World, Top) /\ Findable(World, txs)
      /\ EntryFits(World, Top, Loader) /\ World \in Worlds
  BY <1>1, TopFacts DEF TxnConsistent, Fits
<1>4. /\ txs' = Append(Front(txs), tx) /\ reloading' = reloading /\ twice' = twice
      /\ live' = live /\ ent' = ent /\ mod_hd' = mod_hd /\ mods' = mods
  BY DEF Install, GoOn, tables
<1>5. v = World
  BY <1>4 DEF World
<1>6. twice' = FALSE /\ reloading' \in BOOLEAN /\ HistoryOK' /\ ~Top.main
  BY <1>4, SameNames DEF TxnConsistent, Install
<1>t. /\ tx.k = k /\ tx.main = Top.main /\ tx.pc = "install" /\ tx.ptr = Top.ptr /\ tx.dir = Top.dir /\ tx.lib = Top.lib
      /\ tx \in Tx
  BY <1>2 DEF Tx, Late
<1> HIDE DEF tx, v
<1>12. Apart(v, World, k)
  BY <1>5 DEF Apart, SameEntry
<1>13. TxFits(tx)
  BY <1>1, <1>2, <1>6, <1>t DEF TxFits, PtrAt
<1>14. EntryFits(v, tx, Loader)
  BY <1>1, <1>2, <1>5, <1>t DEF EntryFits, Late
<1>15. InHand(v, tx)
  <2>1. TxKinds(tx) = TxKinds(Top)
    BY <1>1, <1>t DEF TxKinds
  <2> QED BY <1>2, <1>5, <1>t, <2>1 DEF InHand
<1>16. Findable(v, Append(Front(txs), tx))
  <2>1. \A j, Q : /\ Pending(txs, j, Q) <=> j = k /\ "run" \in Q
                  /\ Pending(Append(Front(txs), tx), j, Q) <=> j = k /\ "install" \in Q
    <3>2. \A j, Q : /\ Pending(txs, j, Q) <=> j = Top.k /\ Top.pc \in Q
                    /\ Pending(Append(Front(txs), tx), j, Q) <=> j = Top.k /\ tx.pc \in Q
      BY <1>1, <1>t, PendingIs
    <3> QED BY <1>1, <1>t, <3>2
  <2> QED BY <1>2, <1>5, <2>1 DEF Findable
<1>17. OnTop(v, tx)
  BY <1>t DEF OnTop, Early
<1> QED BY <1>1, <1>2, <1>4, <1>5, <1>6, <1>t, <1>12, <1>13, <1>14, <1>15, <1>16, <1>17, StepFits DEF v

-----------------------------------------------------------------------------
(* The end of a load. *)

\* The innermost load ends; its entry, if it has one, is whole and can be found.
LEMMA Ended ==
  ASSUME NEW w, NEW s, Fits(w, s), s # <<>>, NEW v \in Worlds, NEW k, k = Last1(s).k,
         Apart(v, w, k),
         k \in DOMAIN v.ent => Slice(v.live, k) = OverKinds(v.ent[k]),
         k \notin DOMAIN v.ent => Slice(v.live, k) = {},
         Findable(v, <<>>)
  PROVE  Fits(v, Front(s))
<1> DEFINE p == Front(s)
           n == Len(s)
<1>0. w \in Worlds /\ s \in Seq(Tx) /\ Nested(s) /\ Entered(w, s) /\ Account(w, s)
  BY DEF Fits
<1>t. s[n] \in Tx
  BY <1>0
<1>1. /\ n \in Nat \ {0} /\ p \in Seq(Tx) /\ Len(p) = n - 1 /\ \A i \in 1..n-1 : p[i] = s[i]
  BY <1>0, <1>t, FrameFacts
<1>n. Len(s) = n /\ s[n].k = k
  BY DEF Last1
<1> HIDE DEF p, n
<1>s. \A i \in 1..n : s[i] \in Tx /\ s[i].k \in Loads
  <2>1. \A i \in 1..n : s[i] \in Tx
    BY <1>0, <1>n
  <2>2. \A t \in Tx : t.k \in Loads
    BY DEF Tx
  <2> QED BY <2>1, <2>2
<1>i. \A i \in 1..n-1 : i \in 1..n /\ i # n /\ i < n /\ n \in 1..n
  BY <1>1
<1>o. \A i \in 1..n-1 : s[i].k # k /\ s[i].pc = "install" /\ TxFits(s[i])
  BY <1>0, <1>i, <1>n DEF Nested
<1>2. Named(p) = Named(s) \ {k}
  <2>1. \A j : j \in Named(s) <=> \E i \in 1..n : s[i].k = j
    BY <1>n DEF Named
  <2>2. \A j : j \in Named(p) <=> \E i \in 1..n-1 : s[i].k = j
    BY <1>1 DEF Named
  <2>3. \A i \in 1..n : i = n \/ i \in 1..n-1
    BY <1>1
  <2>4. \A j : j \in Named(p) <=> j \in Named(s) /\ j # k
    BY <1>i, <1>n, <1>o, <2>1, <2>2, <2>3
  <2> QED BY <2>4
<1>3. Nested(p)
  <2>1. \A i, j \in 1..n : s[i].k = s[j].k => i = j
    BY <1>0, <1>n DEF Nested
  <2> QED BY <1>1, <1>i, <1>o, <2>1 DEF Nested
<1>4. Entered(v, p)
  <2> SUFFICES ASSUME NEW i \in 1..n-1 PROVE EntryFits(v, p[i], Below(p, i))
    BY <1>1 DEF Entered
  <2>1. Below(p, i) = Below(s, i)
    <3>1. CASE i = 1
      BY <3>1 DEF Below
    <3>2. CASE i # 1
      <4>1. i - 1 \in 1..n-1
        BY <1>1, <3>2
      <4> QED BY <1>1, <3>2, <4>1 DEF Below
    <3> QED BY <3>1, <3>2
  <2>2. EntryFits(w, s[i], Below(s, i))
    BY <1>0, <1>i, <1>n DEF Entered
  <2>3. EntryFits(v, s[i], Below(s, i))
    BY <1>0, <1>i, <1>o, <1>s, <2>2, ApartFacts
  <2> QED BY <1>1, <2>1, <2>3
<1>5. \A i \in 1..n-1 : InHand(v, p[i])
  <2> TAKE i \in 1..n-1
  <2>2. InHand(w, s[i])
    BY <1>0, <1>i, <1>n DEF Account
  <2>3. InHand(v, s[i])
    BY <1>0, <1>i, <1>o, <1>s, <2>2, ApartFacts
  <2> QED BY <1>1, <2>3
<1>7. Account(v, p)
  <2>1. ASSUME NEW j \in DOMAIN v.ent, j \notin Named(p)
        PROVE  Slice(v.live, j) = OverKinds(v.ent[j])
    <3>1. CASE j # k
      <4>1. j \in Loads /\ j \notin Named(s)
        BY <1>2, <2>1, <3>1, EntMapFacts DEF Worlds
      <4>2. /\ Slice(v.live, j) = Slice(w.live, j) /\ j \in DOMAIN w.ent
            /\ OverKinds(v.ent[j]) = OverKinds(w.ent[j])
        BY <1>0, <2>1, <3>1, <4>1, ApartFacts
      <4> QED BY <1>0, <4>1, <4>2 DEF Account
    <3> QED BY <3>1
  <2>2. ASSUME NEW j \in Loads, j \notin DOMAIN v.ent, j \notin Named(p) PROVE Slice(v.live, j) = {}
    <3>1. CASE j # k
      <4>1. j \notin Named(s)
        BY <1>2, <2>2, <3>1
      <4>2. Slice(v.live, j) = Slice(w.live, j) /\ j \notin DOMAIN w.ent
        BY <1>0, <2>2, <3>1, ApartFacts
      <4> QED BY <1>0, <4>1, <4>2 DEF Account
    <3> QED BY <2>2, <3>1
  <2> QED BY <1>1, <1>5, <2>1, <2>2 DEF Account
<1>8. p # <<>> => Last1(p).pc = "install"
  <2> SUFFICES ASSUME p # <<>> PROVE p[n - 1].pc = "install"
    BY <1>1 DEF Last1
  <2>1. n - 1 \in 1..n-1
    BY <1>1
  <2> QED BY <1>1, <1>o, <2>1
<1>9. Findable(v, p)
  <2>1. \A j : /\ ~Pending(p, j, {"publish"}) /\ ~Pending(p, j, {"publish", "bind", "claim"})
               /\ ~Pending(<<>>, j, {"publish"}) /\ ~Pending(<<>>, j, {"publish", "bind", "claim"})
    BY <1>8 DEF Pending
  <2> QED BY <2>1 DEF Findable
<1>10. p # <<>> => OnTop(v, Last1(p))
  BY <1>8 DEF OnTop, Early
<1> QED BY <1>1, <1>3, <1>4, <1>7, <1>9, <1>10 DEF Fits, p

\* A load that leaves nothing of it behind.
LEMMA LessFits ==
  ASSUME NEW w, NEW s, Fits(w, s), s # <<>>, NEW k, k = Last1(s).k
  PROVE  Fits(Less(w, k), Front(s))
<1> DEFINE v == Less(w, k)
<1>0. w \in Worlds /\ s \in Seq(Tx) /\ Findable(w, s)
  BY DEF Fits
<1>1. /\ w.live \in SUBSET Things /\ w.ent \in EntMap /\ w.mod_hd \in [Libs -> {0} \cup Loads]
      /\ w.mods \in SUBSET Loads /\ DOMAIN w.ent \subseteq Loads
      /\ \A j \in DOMAIN w.ent : w.ent[j] \in Entry
  BY <1>0, EntMapFacts DEF Worlds
<1>2. k \in Loads
  <2>1. s[Len(s)] \in Tx
    BY <1>0
  <2> QED BY <2>1 DEF Last1, Tx
<1>3. /\ v.live = Minus(w.live, Kinds, k) /\ v.mods = w.mods \ {k}
      /\ DOMAIN v.ent = DOMAIN w.ent \ {k} /\ (\A j \in DOMAIN v.ent : v.ent[j] = w.ent[j])
      /\ (\A l \in Libs : v.mod_hd[l] = IF w.mod_hd[l] = k THEN 0 ELSE w.mod_hd[l])
  BY DEF Less
<1>4. v.live \in SUBSET Things
  <2>1. Kinds \in SUBSET Kinds
    OBVIOUS
  <2>2. Minus(w.live, Kinds, k) \in SUBSET Things
    BY <1>1, <1>2, <2>1, LiveTyped
  <2> QED BY <1>3, <2>2
<1>5. v.ent \in EntMap
  <2> DEFINE E == [i \in DOMAIN w.ent \ {k} |-> w.ent[i]]
  <2>1. DOMAIN E \subseteq Loads /\ E \in [DOMAIN E -> Entry]
    BY <1>1
  <2>2. v.ent = E
    BY DEF Less
  <2> HIDE DEF E
  <2> QED BY <2>1, <2>2 DEF EntMap
<1>6. v.mod_hd \in [Libs -> {0} \cup Loads] /\ v.mods \in SUBSET Loads
  BY <1>1 DEF Less
<1>7. v \in Worlds
  BY <1>4, <1>5, <1>6 DEF Worlds, Less
<1> HIDE DEF v
<1>8. Slice(v.live, k) = {} /\ \A j : j # k => Slice(v.live, j) = Slice(w.live, j)
  <2>1. /\ Slice(Minus(w.live, Kinds, k), k) = Slice(w.live, k) \ Kinds
        /\ \A j : j # k => Slice(Minus(w.live, Kinds, k), j) = Slice(w.live, j)
    BY GiveBack
  <2>2. Slice(w.live, k) \subseteq Kinds
    BY DEF Slice
  <2> QED BY <1>3, <2>1, <2>2
<1>9. Apart(v, w, k)
  BY <1>3, <1>8 DEF Apart, SameEntry
<1>10. Findable(v, <<>>)
  <2>1. \A j, P : /\ ~Pending(<<>>, j, P) 
                  /\ j # k => ~Pending(s, j, P)
    BY DEF Pending
  <2>2. \A l \in Libs : v.mod_hd[l] # 0 => v.mod_hd[l] \in DOMAIN v.ent /\ v.ent[v.mod_hd[l]].lib = l
    <3> SUFFICES ASSUME NEW l \in Libs, v.mod_hd[l] # 0
                 PROVE  v.mod_hd[l] \in DOMAIN v.ent /\ v.ent[v.mod_hd[l]].lib = l
      OBVIOUS
    <3>1. v.mod_hd[l] = w.mod_hd[l] /\ w.mod_hd[l] # k /\ w.mod_hd[l] # 0
      BY <1>3
    <3> QED BY <1>0, <1>3, <3>1 DEF Findable
  <2>3. \A j \in DOMAIN v.ent : v.mod_hd[v.ent[j].lib] = j
    <3> TAKE j \in DOMAIN v.ent
    <3>1. j \in DOMAIN w.ent /\ j # k /\ v.ent[j] = w.ent[j] /\ w.ent[j].lib \in Libs
      BY <1>1, <1>3 DEF Entry
    <3>2. w.mod_hd[w.ent[j].lib] = j
      BY <1>0, <2>1, <3>1 DEF Findable
    <3> QED BY <1>3, <3>1, <3>2
  <2>4. \A j \in Loads : j \in v.mods <=> j \in DOMAIN v.ent
    BY <1>0, <1>3, <2>1 DEF Findable
  <2> QED BY <2>1, <2>2, <2>3, <2>4 DEF Findable
<1>11. k \notin DOMAIN v.ent
  BY <1>3
<1>12. Fits(v, Front(s))
  BY <1>7, <1>8, <1>9, <1>10, <1>11, Ended
<1> QED BY <1>12 DEF v

\* A load gives back all there is of it.
LEMMA AllGivenBack ==
  ASSUME NEW L \in SUBSET Things, NEW C, C \subseteq Kinds, NEW k \in Loads, Slice(L, k) = C
  PROVE  L \ Of(C, k) = Minus(L, Kinds, k) /\ Of(C, k) \subseteq L
<1>1. Minus(L, C, k) = Minus(L, Kinds, k)
  BY AllOfIt
<1>2. Of(C, k) \subseteq L
  BY HasThem
<1> QED BY <1>1, <1>2 DEF Minus

\* A load without an entry that gives back what it owns leaves nothing behind.
LEMMA EarlyEnd ==
  ASSUME TxnConsistent, txs # <<>>, Top.pc \in {"open", "name"}
  PROVE  /\ Less(World, Top.k) = [live |-> live \ OwnedBy(Top), ent |-> ent, mod_hd |-> mod_hd, mods |-> mods]
         /\ OwnedBy(Top) \subseteq live /\ Top.before = Less(World, Top.k)
<1> DEFINE k == Top.k
<1>2. /\ Top \in Tx /\ TxFits(Top) /\ k \in Loads /\ k \notin DOMAIN ent /\ Top = Last1(txs)
      /\ InHand(World, Top) /\ OnTop(World, Top) /\ Findable(World, txs)
      /\ (Top.pc \in Late <=> Top.k \in DOMAIN ent)
  BY TopFacts DEF Late, TxnConsistent, Fits
<1>3. /\ World.live = live /\ World.ent = ent /\ World.mod_hd = mod_hd /\ World.mods = mods
      /\ live \in SUBSET Things /\ ent \in EntMap /\ mod_hd \in [Libs -> {0} \cup Loads]
      /\ mods \in SUBSET Loads
  BY WorldFacts
<1>5. OwnedBy(Top) = Of(TxKinds(Top), k)
  BY <1>2, OwnedByIs DEF GivesBack
<1>6. Slice(live, k) = TxKinds(Top) /\ TxKinds(Top) \subseteq Kinds
  BY <1>2, <1>3, KindsFacts DEF InHand
<1>7. live \ OwnedBy(Top) = Minus(live, Kinds, k) /\ OwnedBy(Top) \subseteq live
  <2> DEFINE C == TxKinds(Top)
  <2>1. OwnedBy(Top) = Of(C, k) /\ Slice(live, k) = C /\ C \subseteq Kinds
    BY <1>5, <1>6
  <2>0. k \in Loads /\ live \in SUBSET Things
    BY <1>2, <1>3
  <2> HIDE DEF C, k
  <2>2. live \ Of(C, k) = Minus(live, Kinds, k) /\ Of(C, k) \subseteq live
    BY <2>0, <2>1, AllGivenBack
  <2> QED BY <2>1, <2>2
<1>8. ent = [i \in DOMAIN ent \ {k} |-> ent[i]]
  <2>1. DOMAIN ent \ {k} = DOMAIN ent
    BY <1>2
  <2>2. ent = [i \in DOMAIN ent |-> ent[i]]
    BY <1>3 DEF EntMap
  <2> QED BY <2>1, <2>2
<1>9. \A l \in Libs : mod_hd[l] # k
  BY <1>2, <1>3, LoadsFacts DEF Findable
<1>10. mod_hd = [l \in Libs |-> IF mod_hd[l] = k THEN 0 ELSE mod_hd[l]]
  BY <1>3, <1>9
<1>11. k \notin mods
  BY <1>2, <1>3 DEF Findable
<1>12. mods = mods \ {k}
  BY <1>11
<1>13. Top.before = Less(World, k)
  BY <1>2 DEF OnTop
<1>14. Less(World, k) =
         [live |-> Minus(live, Kinds, k), ent |-> [i \in DOMAIN ent \ {k} |-> ent[i]],
          mod_hd |-> [l \in Libs |-> IF mod_hd[l] = k THEN 0 ELSE mod_hd[l]], mods |-> mods \ {k}]
  BY <1>3 DEF Less
<1>15. Less(World, k) =
         [live |-> live \ OwnedBy(Top), ent |-> ent, mod_hd |-> mod_hd, mods |-> mods]
  <2> DEFINE E == [i \in DOMAIN ent \ {k} |-> ent[i]]
             M == [l \in Libs |-> IF mod_hd[l] = k THEN 0 ELSE mod_hd[l]]
             R == mods \ {k}
             L == Minus(live, Kinds, k)
             N == live \ OwnedBy(Top)
  <2>1. E = ent /\ M = mod_hd /\ R = mods /\ L = N
    BY <1>7, <1>8, <1>10, <1>12
  <2>2. Less(World, k) = [live |-> L, ent |-> E, mod_hd |-> M, mods |-> R]
    BY <1>14
  <2> HIDE DEF E, M, R, L, N
  <2>3. Less(World, k) = [live |-> N, ent |-> ent, mod_hd |-> mod_hd, mods |-> mods]
    BY <2>1, <2>2
  <2> QED BY <2>3 DEF N
<1> QED BY <1>7, <1>13, <1>15

\* dlopen fails: the world is the one before the load.
LEMMA OpenFailedFits ==
  ASSUME TxnConsistent, OpenFailed
  PROVE  TxnConsistent' /\ World' = Top.before
<1>1. txs # <<>> /\ Top.pc = "open"
  BY DEF OpenFailed, At
<1>2. Fits(World, txs) /\ Top = Last1(txs)
  BY <1>1, TopFacts DEF TxnConsistent
<1>3. /\ Less(World, Top.k) = [live |-> live \ OwnedBy(Top), ent |-> ent, mod_hd |-> mod_hd, mods |-> mods]
      /\ OwnedBy(Top) \subseteq live /\ Top.before = Less(World, Top.k)
  BY <1>1, EarlyEnd
<1>4. /\ live' = live \ OwnedBy(Top) /\ twice' = (twice \/ ~(OwnedBy(Top) \subseteq live))
      /\ ent' = ent /\ mod_hd' = mod_hd /\ mods' = mods
      /\ txs' = Front(txs) /\ reloading' = (reloading /\ ~Top.reload)
  BY DEF OpenFailed, Release, Finish, tables
<1>5. twice' = FALSE /\ reloading' \in BOOLEAN /\ HistoryOK'
  BY <1>3, <1>4, SameNames DEF TxnConsistent, OpenFailed
<1>6. World' = Less(World, Top.k)
  BY <1>3, <1>4 DEF World
<1>7. Fits(Less(World, Top.k), Front(txs))
  BY <1>1, <1>2, LessFits
<1> QED BY <1>3, <1>4, <1>5, <1>6, <1>7 DEF TxnConsistent

\* The entry found has one more reference; nothing else is new.
LEMMA ReuseFits ==
  ASSUME TxnConsistent, Reuse
  PROVE  /\ TxnConsistent' /\ Top.found # 0
         /\ World' = [Top.before EXCEPT !.ent[Top.found].refs = @ + 1]
<1> DEFINE k == Top.k
           f == Top.found
           u == Less(World, k)
           v == World'
<1>1. txs # <<>> /\ Top.pc = "name" /\ f # 0
  BY DEF Reuse, At
<1>2. /\ Fits(World, txs) /\ Top = Last1(txs) /\ Findable(World, txs) /\ OnTop(World, Top)
      /\ Top \in Tx /\ k \notin DOMAIN ent
  BY <1>1, TopFacts DEF TxnConsistent, Fits, Late
<1>3. /\ u = [live |-> live \ OwnedBy(Top), ent |-> ent, mod_hd |-> mod_hd, mods |-> mods]
      /\ OwnedBy(Top) \subseteq live /\ Top.before = u
  BY <1>1, EarlyEnd
<1>4. /\ live' = live \ OwnedBy(Top) /\ twice' = (twice \/ ~(OwnedBy(Top) \subseteq live))
      /\ ent' = [ent EXCEPT ![f].refs = ent[f].refs + 1] /\ mod_hd' = mod_hd /\ mods' = mods
      /\ txs' = Front(txs) /\ reloading' = (reloading /\ ~Top.reload)
  BY DEF Reuse, Release, Finish
<1>5. twice' = FALSE /\ reloading' \in BOOLEAN /\ HistoryOK'
  BY <1>3, <1>4, SameNames DEF TxnConsistent, Reuse
<1>w. /\ World.live = live /\ World.ent = ent /\ World.mod_hd = mod_hd /\ World.mods = mods
      /\ live \in SUBSET Things /\ ent \in EntMap /\ mod_hd \in [Libs -> {0} \cup Loads]
      /\ mods \in SUBSET Loads
      /\ DOMAIN ent \subseteq Loads /\ \A j \in DOMAIN ent : ent[j] \in Entry
  BY WorldFacts
<1>f. f \in DOMAIN ent /\ ent[f] \in Entry /\ ent[f].refs < MaxRefs
  <2>1. f = mod_hd[Top.lib] /\ ent[f].refs < MaxRefs /\ Top.lib \in Libs
    BY <1>1, <1>2, <1>w DEF OnTop, Early, Tx
  <2> QED BY <1>1, <1>2, <1>w, <2>1 DEF Findable
<1>v. v.live = live' /\ v.ent = ent' /\ v.mod_hd = mod_hd' /\ v.mods = mods'
  BY DEF World
<1>vv. v = [live |-> live', ent |-> ent', mod_hd |-> mod_hd', mods |-> mods']
  BY DEF World
<1>6. v = [Top.before EXCEPT !.ent[f].refs = @ + 1]
  <2>1. Top.before = [live |-> live \ OwnedBy(Top), ent |-> ent, mod_hd |-> mod_hd, mods |-> mods]
    BY <1>3
  <2> HIDE DEF v, f
  <2> QED BY <1>4, <1>vv, <2>1
<1> HIDE DEF k, f, u, v
<1>7. /\ DOMAIN ent' = DOMAIN ent /\ (\A j \in DOMAIN ent : j # f => ent'[j] = ent[j])
      /\ ent'[f] = [ent[f] EXCEPT !.refs = ent[f].refs + 1]
  BY <1>4, <1>f
<1>8. ent'[f] \in Entry /\ SameEntry(ent'[f], ent[f])
  <2> DEFINE e == ent[f]
             g == [e EXCEPT !.refs = e.refs + 1]
  <2>1. e \in Entry /\ e.refs < MaxRefs
    BY <1>f
  <2>2. ent'[f] = g
    BY <1>7
  <2> HIDE DEF e
  <2>3. e.refs + 1 \in 1..MaxRefs
    BY <2>1, LoadsFacts DEF Entry
  <2>4. g \in Entry /\ SameEntry(g, e)
    BY <2>1, <2>3 DEF Entry, SameEntry
  <2> HIDE DEF g
  <2> QED BY <2>2, <2>4 DEF e
<1>9. ent' \in EntMap
  <2>0. ent \in [DOMAIN ent -> Entry]
    BY <1>w DEF EntMap
  <2>1. DOMAIN ent' \subseteq Loads /\ \A j \in DOMAIN ent' : ent'[j] \in Entry
    BY <1>7, <1>8, <1>w
  <2>2. ent' \in [DOMAIN ent' -> Entry]
    BY <1>4, <1>7, <2>0, <2>1
  <2> QED BY <2>1, <2>2 DEF EntMap
<1>10. Fits(u, Front(txs))
  BY <1>1, <1>2, LessFits DEF u, k
<1>11. v \in Worlds
  <2>1. live' \in SUBSET Things
    BY <1>4, <1>w
  <2> QED BY <1>4, <1>9, <1>vv, <1>w, <2>1 DEF Worlds
<1>12. Slice(live', k) = {} /\ \A j : j # k => Slice(live', j) = Slice(live, j)
  <2>1. live' = Minus(live, Kinds, k)
    BY <1>3, <1>4, <1>w DEF u, Less
  <2>2. /\ Slice(Minus(live, Kinds, k), k) = Slice(live, k) \ Kinds
        /\ \A j : j # k => Slice(Minus(live, Kinds, k), j) = Slice(live, j)
    BY GiveBack
  <2>3. Slice(live, k) \subseteq Kinds
    BY DEF Slice
  <2> QED BY <2>1, <2>2, <2>3
<1>13. \A j \in DOMAIN ent : SameEntry(ent'[j], ent[j])
  BY <1>7, <1>8 DEF SameEntry
<1>14. Apart(v, World, k)
  BY <1>7, <1>12, <1>13, <1>v, <1>w DEF Apart
<1>15. Findable(v, <<>>)
  <2>1. \A j, P : ~Pending(<<>>, j, P)
    BY DEF Pending
  <2>2. \A j : ~Pending(txs, j, {"publish"}) /\ ~Pending(txs, j, {"publish", "bind", "claim"})
    BY <1>1, <1>2 DEF Pending
  <2>3. \A j \in DOMAIN ent : ent'[j].lib = ent[j].lib
    BY <1>13 DEF SameEntry
  <2> QED BY <1>2, <1>4, <1>7, <1>v, <1>w, <2>1, <2>2, <2>3 DEF Findable
<1>16. Fits(v, Front(txs))
  BY <1>1, <1>2, <1>7, <1>11, <1>12, <1>14, <1>15, <1>v, Ended DEF k
<1>17. Fits(World', txs')
  BY <1>4, <1>16 DEF v
<1> QED BY <1>1, <1>5, <1>6, <1>17 DEF TxnConsistent, v, f

\* A load that is given up leaves the world before it.
LEMMA AbortFits ==
  ASSUME TxnConsistent, Abort
  PROVE  TxnConsistent' /\ World' = Top.before
<1> DEFINE k == Top.k
           C == TxKinds(Top) \cup (IF k \in DOMAIN ent THEN EntKinds(ent[k]) ELSE {})
           R == OwnedBy(Top) \cup (IF Allocated(k) THEN Parts(k) ELSE {})
<1>1. txs # <<>> /\ Top.pc \in {"name", "alloc", "claim", "run"}
  BY DEF Abort, At
<1>2. /\ Top \in Tx /\ TxFits(Top) /\ k \in Loads /\ Top = Last1(txs)
      /\ InHand(World, Top) /\ OnTop(World, Top) /\ Fits(World, txs)
      /\ (Top.pc \in Late <=> Top.k \in DOMAIN ent)
  BY <1>1, TopFacts DEF TxnConsistent, Fits
<1>3. /\ World.live = live /\ World.ent = ent /\ World.mod_hd = mod_hd /\ World.mods = mods
      /\ live \in SUBSET Things /\ \A j \in DOMAIN ent : ent[j] \in Entry
  BY WorldFacts
<1>4. /\ live' = live \ R /\ twice' = (twice \/ ~(R \subseteq live))
      /\ ent' = [i \in DOMAIN ent \ {k} |-> ent[i]]
      /\ mod_hd' = [l \in Libs |-> IF mod_hd[l] = k THEN 0 ELSE mod_hd[l]]
      /\ mods' = mods \ {k}
      /\ txs' = Front(txs) /\ reloading' = (reloading /\ ~Top.reload)
  BY DEF Abort, Release, Finish, Unpublished
<1>5. OwnedBy(Top) = Of(TxKinds(Top), k)
  BY <1>1, <1>2, OwnedByIs DEF GivesBack
<1>6. R = Of(C, k)
  <2>1. CASE k \in DOMAIN ent
    <3>1. Parts(k) = Of(EntKinds(ent[k]), k)
      BY <1>3, <2>1, PartsIs
    <3> QED BY <1>5, <2>1, <3>1, OfUnion DEF Allocated
  <2>2. CASE k \notin DOMAIN ent
    BY <1>5, <2>2 DEF Allocated
  <2> QED BY <2>1, <2>2
<1>7. Slice(live, k) = C /\ C \subseteq Kinds
  BY <1>2, <1>3, KindsFacts DEF InHand
<1> HIDE DEF C, R
<1>8. live' = Minus(live, Kinds, k) /\ R \subseteq live
  BY <1>2, <1>3, <1>4, <1>6, <1>7, AllGivenBack
<1>9. twice' = FALSE /\ reloading' \in BOOLEAN /\ HistoryOK'
  BY <1>4, <1>8, SameNames DEF TxnConsistent, Abort
<1>10. World' = Less(World, k)
  BY <1>3, <1>4, <1>8 DEF World, Less
<1>11. Less(World, k) = Top.before
  BY <1>1, <1>2 DEF OnTop
<1>12. Fits(Less(World, k), Front(txs))
  BY <1>1, <1>2, LessFits
<1> QED BY <1>4, <1>9, <1>10, <1>11, <1>12 DEF TxnConsistent

\* The load is over: its entry has the handle, map and list the entry.
LEMMA InstallReturnFits ==
  ASSUME TxnConsistent, InstallReturn
  PROVE  TxnConsistent' /\ mod_hd'[Top.lib] = Top.k /\ Top.k \in mods'
<1> DEFINE k == Top.k
           C == IF Top.lib \in Bare \/ Top.dir = 0 THEN {"stable_fname"} ELSE {}
           v == World'
<1>1. txs # <<>> /\ Top.pc = "install"
  BY DEF InstallReturn, At
<1>2. /\ Top \in Tx /\ TxFits(Top) /\ k \in Loads /\ Top = Last1(txs) /\ k \in DOMAIN ent
      /\ InHand(World, Top) /\ Fits(World, txs) /\ Findable(World, txs)
      /\ EntryFits(World, Top, Loader)
  BY <1>1, TopFacts DEF TxnConsistent, Fits, Late
<1>3. /\ World.live = live /\ World.ent = ent /\ World.mod_hd = mod_hd /\ World.mods = mods
      /\ live \in SUBSET Things /\ ent \in EntMap /\ mod_hd \in [Libs -> {0} \cup Loads]
      /\ mods \in SUBSET Loads
      /\ \A j \in DOMAIN ent : ent[j] \in Entry
  BY WorldFacts
<1>4. /\ live' = live \ Of(C, k) /\ twice' = twice
      /\ ent' = ent /\ mod_hd' = mod_hd /\ mods' = mods
      /\ txs' = Front(txs) /\ reloading' = (reloading /\ ~Top.reload)
  <2>1. Of({"stable_fname"}, k) = {<<"stable_fname", k>>} /\ Of({}, k) = {}
    BY DEF Of
  <2>2. live' = IF Top.lib \in Bare \/ Top.dir = 0 THEN live \ {<<"stable_fname", k>>} ELSE live
    BY DEF InstallReturn, NameOf
  <2>3. live' = live \ Of(C, k)
    BY <2>1, <2>2
  <2> HIDE DEF C
  <2> QED BY <2>3 DEF InstallReturn, Finish, tables
<1>5. Slice(live, k) = {"stable_fname", "handle"} \cup EntKinds(ent[k])
  BY <1>1, <1>2, <1>3 DEF InHand, TxKinds
<1>6. "stable_fname" \notin EntKinds(ent[k])
  BY <1>2, <1>3, NotNamed
<1>7. C \subseteq Kinds
  BY DEF Kinds
<1>e. ent[k].lib = Top.lib /\ ent[k].dir = Top.dir
  BY <1>1, <1>2, <1>3 DEF EntryFits, Late
<1>h. Slice(live, k) \ C = OverKinds(ent[k])
  BY <1>5, <1>6, <1>e DEF OverKinds, NameKinds
<1>n. \A j : ~Pending(txs, j, {"publish"}) /\ ~Pending(txs, j, {"publish", "bind", "claim"})
  BY <1>1, <1>2 DEF Pending
<1>f. Findable(World, <<>>)
  <2>1. \A j, P : ~Pending(<<>>, j, P)
    BY DEF Pending
  <2> QED BY <1>2, <1>n, <2>1 DEF Findable
<1>g. mod_hd[Top.lib] = k /\ k \in mods
  BY <1>2, <1>3, <1>e, <1>n DEF Findable
<1>5v. v.live = live' /\ v.ent = ent' /\ v.mod_hd = mod_hd' /\ v.mods = mods'
  BY DEF World
<1>6v. v = [live |-> live', ent |-> ent', mod_hd |-> mod_hd', mods |-> mods']
  BY DEF World
<1>l. HistoryOK'
  BY <1>2 DEF InstallReturn, TxnConsistent, HistoryOK, Tx
<1> HIDE DEF C, v
<1>8. live' = Minus(live, C, k)
  BY <1>4 DEF Minus
<1>10. /\ Slice(live', k) = Slice(live, k) \ C
       /\ \A j : j # k => Slice(live', j) = Slice(live, j)
  <2>1. /\ Slice(Minus(live, C, k), k) = Slice(live, k) \ C
        /\ \A j : j # k => Slice(Minus(live, C, k), j) = Slice(live, j)
    BY <1>7, GiveBack
  <2> QED BY <1>8, <2>1
<1>11. live' \in SUBSET Things
  BY <1>2, <1>3, <1>7, <1>8, LiveTyped
<1>12. v \in Worlds
  BY <1>3, <1>4, <1>6v, <1>11 DEF Worlds
<1>13. Apart(v, World, k)
  BY <1>3, <1>4, <1>5v, <1>10 DEF Apart, SameEntry
<1>14. Slice(v.live, k) = OverKinds(v.ent[k]) /\ k \in DOMAIN v.ent
  BY <1>2, <1>4, <1>5v, <1>10, <1>h
<1>15. Findable(v, <<>>)
  BY <1>3, <1>4, <1>5v, <1>f DEF Findable
<1>16. Fits(v, Front(txs))
  BY <1>1, <1>2, <1>12, <1>13, <1>14, <1>15, Ended
<1>17. twice' = FALSE /\ reloading' \in BOOLEAN
  BY <1>4 DEF TxnConsistent
<1> QED BY <1>4, <1>16, <1>17, <1>g, <1>l DEF TxnConsistent, v

-----------------------------------------------------------------------------
(* The start of a load. *)

\* A load with a new name begins in world w.
LEMMA Pushed ==
  ASSUME NEW w, NEW s, Fits(w, s), s = <<>> \/ Last1(s).pc = "install",
         NEW k \in Loads, k \notin DOMAIN w.ent, k \notin Named(s),
         NEW tx \in Tx, tx.k = k, tx.pc \in {"copy", "open"}, tx.ptr = {"key", "load_path"},
         tx.dir = 0, tx.main = FALSE, tx.found = w.mod_hd[tx.lib],
         tx.found # 0 => w.ent[tx.found].refs < MaxRefs, tx.before = w,
         NEW v, v = [w EXCEPT !.live = Plus(w.live, {"key", "load_path"}, k)]
  PROVE  Fits(v, Append(s, tx))
<1> DEFINE p == Append(s, tx)
           n == Len(s)
           C == {"key", "load_path"}
<1>0. /\ w \in Worlds /\ s \in Seq(Tx) /\ Nested(s) /\ Entered(w, s) /\ Account(w, s)
      /\ Findable(w, s)
  BY DEF Fits
<1>1. /\ n \in Nat /\ p \in Seq(Tx) /\ Len(p) = n + 1 /\ p[n + 1] = tx
      /\ \A i \in 1..n : p[i] = s[i]
  BY <1>0, FrameFacts
<1>n. Len(s) = n
  OBVIOUS
<1>w. /\ w = [live |-> w.live, ent |-> w.ent, mod_hd |-> w.mod_hd, mods |-> w.mods]
      /\ w.live \in SUBSET Things /\ w.ent \in EntMap /\ w.mod_hd \in [Libs -> {0} \cup Loads]
      /\ w.mods \in SUBSET Loads /\ DOMAIN w.ent \subseteq Loads
      /\ \A j \in DOMAIN w.ent : w.ent[j] \in Entry
  BY <1>0, EntMapFacts DEF Worlds
<1>v. /\ v.live = Plus(w.live, C, k) /\ v.ent = w.ent /\ v.mod_hd = w.mod_hd /\ v.mods = w.mods
      /\ v = [live |-> Plus(w.live, C, k), ent |-> w.ent, mod_hd |-> w.mod_hd, mods |-> w.mods]
  BY <1>w
<1>C. C \subseteq Kinds
  BY DEF Kinds
<1>tk. TxKinds(tx) = C
  BY DEF TxKinds, TmpKinds
<1>tf. TxFits(tx)
  BY DEF TxFits, PtrAt, TmpPtr
<1> HIDE DEF p, n, C
<1>2. \A i \in 1..n+1 : i = n + 1 \/ i \in 1..n
  BY <1>1
<1>l. /\ Slice(v.live, k) = Slice(w.live, k) \cup C
      /\ (\A j : j # k => Slice(v.live, j) = Slice(w.live, j))
      /\ Minus(v.live, Kinds, k) = Minus(w.live, Kinds, k)
      /\ v.live \in SUBSET Things
  <2>1. /\ Slice(Plus(w.live, C, k), k) = Slice(w.live, k) \cup C
        /\ (\A j : j # k => Slice(Plus(w.live, C, k), j) = Slice(w.live, j))
        /\ Minus(Plus(w.live, C, k), Kinds, k) = Minus(w.live, Kinds, k)
    BY ONLY <1>C, TakeUp
  <2>2. Plus(w.live, C, k) \in SUBSET Things
    BY <1>C, <1>w, LiveTyped
  <2> QED BY <1>v, <2>1, <2>2
<1>e. Slice(w.live, k) = {}
  BY <1>0 DEF Account
<1>3. v \in Worlds
  BY <1>l, <1>v, <1>w DEF Worlds
<1>4. Named(p) = Named(s) \cup {k}
  <2>1. \A j : j \in Named(s) <=> \E i \in 1..n : s[i].k = j
    BY <1>n DEF Named
  <2>2. \A j : j \in Named(p) <=> \E i \in 1..n+1 : p[i].k = j
    BY <1>1 DEF Named
  <2>3. n + 1 \in 1..n+1 /\ \A i \in 1..n : i \in 1..n+1
    BY <1>1
  <2>4. \A j : j \in Named(p) <=> j \in Named(s) \/ j = k
    BY <1>1, <1>2, <2>1, <2>2, <2>3
  <2> QED BY <2>4
<1>5. \A i \in 1..n : s[i].k # k /\ s[i].pc = "install" /\ TxFits(s[i]) /\ s[i] \in Tx
  <2> TAKE i \in 1..n
  <2>1. s[i].k # k
    BY <1>n DEF Named
  <2>2. TxFits(s[i]) /\ s[i] \in Tx
    BY <1>0, <1>n DEF Nested
  <2>3. s[i].pc = "install"
    <3>1. CASE i = n
      BY <1>0, <1>1, <1>n, <3>1 DEF Last1
    <3>2. CASE i # n
      BY <1>0, <1>1, <1>n, <3>2 DEF Nested
    <3> QED BY <3>1, <3>2
  <2> QED BY <2>1, <2>2, <2>3
<1>6. Nested(p)
  <2>1. \A i, j \in 1..n : s[i].k = s[j].k => i = j
    BY <1>0, <1>n DEF Nested
  <2>2. \A i, j \in 1..n+1 : p[i].k = p[j].k => i = j
    <3> TAKE i, j \in 1..n+1
    <3>1. CASE i \in 1..n /\ j \in 1..n
      BY <1>1, <2>1, <3>1
    <3>2. CASE i = n + 1 /\ j \in 1..n
      BY <1>1, <1>5, <3>2
    <3>3. CASE j = n + 1 /\ i \in 1..n
      BY <1>1, <1>5, <3>3
    <3> QED BY <1>2, <3>1, <3>2, <3>3
  <2>3. \A i \in 1..n+1 : TxFits(p[i]) /\ (i < n + 1 => p[i].pc = "install")
    <3> TAKE i \in 1..n+1
    <3>1. CASE i = n + 1
      BY <1>1, <1>tf, <3>1
    <3>2. CASE i \in 1..n
      BY <1>1, <1>5, <3>2
    <3> QED BY <1>2, <3>1, <3>2
  <2> QED BY <1>1, <2>2, <2>3 DEF Nested
<1>7. Entered(v, p)
  <2> SUFFICES ASSUME NEW i \in 1..n+1 PROVE EntryFits(v, p[i], Below(p, i))
    BY <1>1 DEF Entered
  <2>1. CASE i = n + 1
    BY <1>1, <1>v, <2>1 DEF EntryFits, Late
  <2>2. CASE i \in 1..n
    <3>1. Below(p, i) = Below(s, i)
      <4>1. CASE i = 1
        BY <4>1 DEF Below
      <4>2. CASE i # 1
        <5>1. i - 1 \in 1..n
          BY <1>1, <2>2, <4>2
        <5> QED BY <1>1, <4>2, <5>1 DEF Below
      <4> QED BY <4>1, <4>2
    <3>2. EntryFits(w, s[i], Below(s, i))
      BY <1>0, <1>n, <2>2 DEF Entered
    <3> QED BY <1>1, <1>v, <2>2, <3>1, <3>2 DEF EntryFits
  <2> QED BY <1>2, <2>1, <2>2
<1>8. Account(v, p)
  <2>1. ASSUME NEW i \in 1..n+1 PROVE InHand(v, p[i])
    <3>1. CASE i = n + 1
      BY <1>1, <1>e, <1>l, <1>tk, <1>v, <3>1 DEF InHand
    <3>2. CASE i \in 1..n
      <4>1. InHand(w, s[i])
        BY <1>0, <1>n, <3>2 DEF Account
      <4> QED BY <1>1, <1>5, <1>l, <1>v, <3>2, <4>1 DEF InHand
    <3> QED BY <1>2, <3>1, <3>2
  <2>2. ASSUME NEW j \in DOMAIN v.ent, j \notin Named(p)
        PROVE  Slice(v.live, j) = OverKinds(v.ent[j])
    BY <1>0, <1>4, <1>l, <1>v, <2>2 DEF Account
  <2>3. ASSUME NEW j \in Loads, j \notin DOMAIN v.ent, j \notin Named(p) PROVE Slice(v.live, j) = {}
    BY <1>0, <1>4, <1>l, <1>v, <2>3 DEF Account
  <2> QED BY <1>1, <2>1, <2>2, <2>3 DEF Account
<1>9. Last1(p) = tx /\ p # <<>>
  BY <1>1 DEF Last1
<1>10. Findable(v, p)
  <2>1. \A j : /\ ~Pending(p, j, {"publish"}) /\ ~Pending(p, j, {"publish", "bind", "claim"})
               /\ ~Pending(s, j, {"publish"}) /\ ~Pending(s, j, {"publish", "bind", "claim"})
    BY <1>9 DEF Pending
  <2> QED BY <1>0, <1>v, <2>1 DEF Findable
<1>11. Less(v, k) = w
  <2>1. Minus(w.live, Kinds, k) = w.live
    <3>1. \A x \in w.live : x \notin Of(Kinds, k)
      BY <1>e DEF Of, Slice
    <3> QED BY <3>1 DEF Minus
  <2>2. [i \in DOMAIN w.ent \ {k} |-> w.ent[i]] = w.ent
    <3>1. DOMAIN w.ent \ {k} = DOMAIN w.ent
      OBVIOUS
    <3>2. w.ent = [i \in DOMAIN w.ent |-> w.ent[i]]
      BY <1>w DEF EntMap
    <3> QED BY <3>1, <3>2
  <2>3. [i \in Libs |-> IF w.mod_hd[i] = k THEN 0 ELSE w.mod_hd[i]] = w.mod_hd
    <3>1. \A i \in Libs : w.mod_hd[i] # k
      BY <1>0, LoadsFacts DEF Findable
    <3> QED BY <1>w, <3>1
  <2>4. w.mods \ {k} = w.mods
    BY <1>0 DEF Findable
  <2> DEFINE E == [i \in DOMAIN w.ent \ {k} |-> w.ent[i]]
             M == [i \in Libs |-> IF w.mod_hd[i] = k THEN 0 ELSE w.mod_hd[i]]
             R == w.mods \ {k}
             L == Minus(v.live, Kinds, k)
  <2>5. Less(v, k) = [live |-> L, ent |-> E, mod_hd |-> M, mods |-> R]
    BY <1>v DEF Less
  <2>6. L = w.live /\ E = w.ent /\ M = w.mod_hd /\ R = w.mods
    BY <1>l, <2>1, <2>2, <2>3, <2>4
  <2> HIDE DEF E, M, R, L
  <2> QED BY <1>w, <2>5, <2>6
<1>12. OnTop(v, tx)
  BY <1>v, <1>11 DEF OnTop
<1> QED BY <1>1, <1>3, <1>6, <1>7, <1>8, <1>9, <1>10, <1>12 DEF Fits, p

\* The name of a load is one that nothing bears.
LEMMA UnusedFacts ==
  ASSUME NEW w, Unused(w) # {}, txs \in Seq(Tx)
  PROVE  /\ Min(Unused(w)) \in Loads /\ Min(Unused(w)) \notin DOMAIN w.ent
         /\ Min(Unused(w)) \notin Named(txs)
<1> DEFINE U == Unused(w)
<1>1. U \subseteq Nat
  BY LoadsFacts DEF Unused
<1>2. U # {}
  OBVIOUS
<1>3. \A x \in U : x \in Loads /\ x \notin DOMAIN w.ent /\ x \notin Named(txs)
  <2>1. {tx.k : tx \in ToSet(txs)} = Named(txs)
    BY NamesFacts
  <2> QED BY <2>1 DEF Unused
<1> HIDE DEF U
<1>4. \E x \in U : \A y \in U : x <= y
  BY <1>1, <1>2, LeastNat
<1>5. Min(U) \in U
  BY <1>4 DEF Min
<1> QED BY <1>3, <1>5 DEF U

\* module_lookup_from_fname: a load begins in world w.
LEMMA BeginFits ==
  ASSUME NEW w, Fits(w, txs), txs = <<>> \/ Last1(txs).pc = "install",
         NEW l \in Libs, NEW re \in BOOLEAN, reloading \in BOOLEAN, Begin(l, w, re)
  PROVE  /\ Fits(World', txs') /\ reloading' \in BOOLEAN /\ Len(txs') > Len(txs)
         /\ World'.ent = w.ent /\ Named(txs) \subseteq Named(txs')
<1> DEFINE k == Min(Unused(w))
           f == w.mod_hd[l]
           pc == IF reloading' THEN "copy" ELSE "open"
           tx == [k |-> k, lib |-> l, pc |-> pc,
                  ptr |-> {"key", "load_path"}, dir |-> 0, try |-> 1, found |-> f,
                  main |-> FALSE, reload |-> re, before |-> w]
           v == [w EXCEPT !.live = Plus(w.live, {"key", "load_path"}, k)]
<1>0. w \in Worlds /\ txs \in Seq(Tx)
  BY DEF Fits
<1>1. /\ Unused(w) # {} /\ (f # 0 => w.ent[f].refs < MaxRefs)
      /\ reloading' = (reloading \/ re) /\ txs' = Append(txs, tx)
  BY DEF Begin
<1>2. k \in Loads /\ k \notin DOMAIN w.ent /\ k \notin Named(txs)
  BY <1>0, <1>1, UnusedFacts
<1>3. Become(v)
  <2>1. Become([w EXCEPT !.live = w.live \cup {<<"key", k>>, <<"load_path", k>>}])
    BY DEF Begin
  <2> HIDE DEF k
  <2>2. w.live \cup {<<"key", k>>, <<"load_path", k>>} = Plus(w.live, {"key", "load_path"}, k)
    BY DEF Plus, Of
  <2> QED BY <2>1, <2>2
<1>4. World' = v
  <2>1. World' = [live |-> v.live, ent |-> v.ent, mod_hd |-> v.mod_hd, mods |-> v.mods]
    BY <1>3 DEF World, Become
  <2>2. v = [live |-> v.live, ent |-> v.ent, mod_hd |-> v.mod_hd, mods |-> v.mods]
    <3>1. w = [live |-> w.live, ent |-> w.ent, mod_hd |-> w.mod_hd, mods |-> w.mods]
      BY <1>0 DEF Worlds
    <3> HIDE DEF k
    <3> QED BY <3>1
  <2> QED BY <2>1, <2>2
<1>5. pc \in {"copy", "open"}
  OBVIOUS
<1>6. f \in {0} \cup Loads
  BY <1>0 DEF Worlds
<1>7. {"key", "load_path"} \subseteq Fields
  BY DEF Fields
<1> HIDE DEF k, f, pc
<1>8. tx \in Tx
  BY <1>0, <1>2, <1>5, <1>6, <1>7 DEF Tx, Early
<1>9. /\ tx.k = k /\ tx.lib = l /\ tx.pc = pc /\ tx.ptr = {"key", "load_path"} /\ tx.dir = 0
      /\ tx.main = FALSE
      /\ tx.found = f /\ tx.before = w
  OBVIOUS
<1>10. tx.found = w.mod_hd[tx.lib]
  BY DEF f
<1> HIDE DEF tx
<1>11. v = [w EXCEPT !.live = Plus(w.live, {"key", "load_path"}, k)]
  OBVIOUS
<1> HIDE DEF v
<1>12. Fits(v, Append(txs, tx))
  BY <1>1, <1>2, <1>5, <1>8, <1>9, <1>10, <1>11, Pushed
<1>13. /\ Len(Append(txs, tx)) = Len(txs) + 1 /\ Len(txs) \in Nat
       /\ \A i \in 1..Len(txs) : Append(txs, tx)[i] = txs[i] /\ i \in 1..Len(txs) + 1
  BY <1>0, <1>8
<1>14. Named(txs) \subseteq Named(txs')
  BY <1>1, <1>13 DEF Named
<1>15. v.ent = w.ent
  BY DEF v
<1> QED BY <1>1, <1>4, <1>12, <1>13, <1>14, <1>15

-----------------------------------------------------------------------------
(* Unloading. *)

\* Entry j leaves with its loader.
Goes(j) == ent[j].refs = 1 /\ Reached(j)

\* One unfolding of the recursion in Doomed.
DoomStep(k, f, n) ==
  [i \in 0..n |-> IF i = 0 THEN {j \in {k} : ent[j].refs = 1}
                  ELSE f[i-1] \cup {j \in DOMAIN ent : ent[j].parent \in f[i-1] /\ Goes(j)}]

\* The recursion in Doomed has a solution, and Doomed is its last value.
LEMMA DoomedDefined ==
  ASSUME NEW k
  PROVE  \E f : f = DoomStep(k, f, Cardinality(Libs)) /\ Doomed(k) = f[Cardinality(Libs)]
<1> DEFINE Good == {n \in Nat : \E f : f = DoomStep(k, f, n)}
           kids(S) == {j \in DOMAIN ent : ent[j].parent \in S /\ Goes(j)}
           a == {j \in {k} : ent[j].refs = 1}
<1>0. \A f, n : DoomStep(k, f, n) = [i \in 0..n |-> IF i = 0 THEN a ELSE f[i-1] \cup kids(f[i-1])]
  BY DEF DoomStep
<1> HIDE DEF kids, a
<1>1. 0 \in Good
  <2> DEFINE g == [i \in 0..0 |-> a]
  <2>1. g = [i \in 0..0 |-> IF i = 0 THEN a ELSE g[i-1] \cup kids(g[i-1])]
    OBVIOUS
  <2> HIDE DEF g
  <2>2. g = DoomStep(k, g, 0)
    BY <1>0, <2>1
  <2> QED BY <2>2
<1>2. \A n \in Nat : n \in Good => n + 1 \in Good
  <2> SUFFICES ASSUME NEW n \in Nat, NEW f, f = DoomStep(k, f, n)
               PROVE  \E g : g = DoomStep(k, g, n + 1)
    OBVIOUS
  <2> DEFINE new == f[n] \cup kids(f[n])
             g == [i \in 0..n+1 |-> IF i = n + 1 THEN new ELSE f[i]]
  <2>0. f = [i \in 0..n |-> IF i = 0 THEN a ELSE f[i-1] \cup kids(f[i-1])]
    BY <1>0
  <2>1. \A i \in 0..n : f[i] = IF i = 0 THEN a ELSE f[i-1] \cup kids(f[i-1])
    BY <2>0
  <2>2. \A i \in 0..n : g[i] = f[i]
    OBVIOUS
  <2>3. g[n+1] = new /\ DOMAIN g = 0..n+1
    OBVIOUS
  <2>4. \A i \in 0..n+1 : g[i] = IF i = 0 THEN a ELSE g[i-1] \cup kids(g[i-1])
    <3> TAKE i \in 0..n+1
    <3>1. CASE i = n + 1
      <4>1. i # 0 /\ i - 1 = n /\ n \in 0..n
        BY <3>1
      <4>2. g[i-1] = f[n]
        BY <2>2, <4>1
      <4> QED BY <2>3, <3>1, <4>1, <4>2
    <3>2. CASE i = 0
      <4>1. 0 \in 0..n
        OBVIOUS
      <4>2. f[0] = a /\ g[0] = f[0]
        BY <2>1, <2>2, <4>1
      <4> HIDE DEF g, new
      <4> QED BY <3>2, <4>2
    <3>3. CASE i \in 1..n
      <4>1. i \in 0..n /\ i - 1 \in 0..n /\ i # 0
        BY <3>3
      <4>2. g[i] = f[i] /\ g[i-1] = f[i-1]
        BY <2>2, <4>1
      <4> QED BY <2>1, <4>1, <4>2
    <3> QED BY <3>1, <3>2, <3>3
  <2>5. g = [i \in 0..n+1 |-> g[i]]
    OBVIOUS
  <2> HIDE DEF g, new
  <2>6. g = [i \in 0..n+1 |-> IF i = 0 THEN a ELSE g[i-1] \cup kids(g[i-1])]
    BY <2>4, <2>5
  <2>7. g = DoomStep(k, g, n + 1)
    BY <1>0, <2>6
  <2> QED BY <2>7
<1>3. \A n \in Nat : n \in Good
  <2> HIDE DEF Good
  <2> QED BY <1>1, <1>2, SetInduction
<1>4. \E f : f = DoomStep(k, f, Cardinality(Libs))
  BY <1>3, LoadsFacts
<1> DEFINE d == CHOOSE f : f = DoomStep(k, f, Cardinality(Libs))
<1>5. d = DoomStep(k, d, Cardinality(Libs))
  BY <1>4
<1>6. Doomed(k) = d[Cardinality(Libs)]
  BY DEF Doomed, DoomStep, Goes
<1> HIDE DEF d
<1> QED BY <1>5, <1>6

\* Outside of a load's own steps there are no more entries than libraries.
LEMMA EntriesBounded ==
  ASSUME TxnConsistent, Foreign
  PROVE  /\ IsFiniteSet(DOMAIN ent) /\ Cardinality(DOMAIN ent) <= Cardinality(Libs)
         /\ \A j \in DOMAIN ent : mod_hd[ent[j].lib] = j
         /\ \A j \in Loads : j \in mods <=> j \in DOMAIN ent
<1> DEFINE T == DOMAIN ent
           f == [j \in T |-> ent[j].lib]
<1>1. \A j : ~Pending(txs, j, {"publish"}) /\ ~Pending(txs, j, {"publish", "bind", "claim"})
  BY DEF Pending, Foreign, At, Top, Last1
<1>2. /\ World.ent = ent /\ World.mod_hd = mod_hd /\ World.mods = mods
      /\ \A j \in T : ent[j] \in Entry
  BY WorldFacts
<1>3. Findable(World, txs)
  BY DEF TxnConsistent, Fits
<1>4. \A j \in T : mod_hd[ent[j].lib] = j /\ ent[j].lib \in Libs
  BY <1>1, <1>2, <1>3 DEF Findable, Entry
<1>5. \A j \in Loads : j \in mods <=> j \in T
  BY <1>1, <1>2, <1>3 DEF Findable
<1> HIDE DEF T
<1>6. f \in Injection(T, Libs)
  BY <1>4 DEF Injection, IsInjective
<1>7. IsFiniteSet(T) /\ Cardinality(T) <= Cardinality(Libs)
  BY <1>6, TxnAssumption, FS_Injection
<1> QED BY <1>4, <1>5, <1>7 DEF T

\* The entries that an unload of k takes along: k if that was the last
\* reference, with every entry it and they loaded that nothing else holds and
\* that has a context; none of them belongs to a load in progress.
LEMMA DoomedFacts ==
  ASSUME TxnConsistent, Foreign, NEW k \in DOMAIN ent, k \notin Named(txs)
  PROVE  /\ Doomed(k) \subseteq DOMAIN ent /\ Doomed(k) \cap Named(txs) = {}
         /\ ent[k].refs = 1 => k \in Doomed(k)
         /\ \A i \in DOMAIN ent : ent[i].parent \in Doomed(k) /\ Goes(i) => i \in Doomed(k)
<1> DEFINE N == Cardinality(Libs)
           T == DOMAIN ent
           kids == [S \in SUBSET T |-> {j \in T : ent[j].parent \in S /\ Goes(j)}]
<1>1. PICK f : f = DoomStep(k, f, N) /\ Doomed(k) = f[N]
  BY DoomedDefined
<1>2. N \in Nat
  BY LoadsFacts
<1>3. f[0] = {j \in {k} : ent[j].refs = 1}
  BY <1>1, <1>2 DEF DoomStep
<1>4. \A n \in 0..N : n < N => f[n+1] = f[n] \cup {j \in T : ent[j].parent \in f[n] /\ Goes(j)}
  <2> SUFFICES ASSUME NEW n \in 0..N, n < N
               PROVE  f[n+1] = f[n] \cup {j \in T : ent[j].parent \in f[n] /\ Goes(j)}
    OBVIOUS
  <2>1. n + 1 \in 0..N /\ n + 1 # 0 /\ (n + 1) - 1 = n
    BY <1>2
  <2>2. \A i \in 0..N : i # 0 => f[i] = f[i-1] \cup {j \in T : ent[j].parent \in f[i-1] /\ Goes(j)}
    BY <1>1 DEF DoomStep
  <2>3. f[n+1] = f[(n+1)-1] \cup {j \in T : ent[j].parent \in f[(n+1)-1] /\ Goes(j)}
    BY <2>1, <2>2
  <2> QED BY <2>1, <2>3
<1>5. /\ IsFiniteSet(T) /\ Cardinality(T) <= N /\ T \subseteq Loads /\ k \in T
  BY EntriesBounded, WorldFacts
<1>6. \A j \in T : j \in Named(txs) => ent[j].parent \notin Loads \/ ent[j].parent \in Named(txs)
  <2> SUFFICES ASSUME NEW j \in T, j \in Named(txs), ent[j].parent \in Loads
               PROVE  ent[j].parent \in Named(txs)
    OBVIOUS
  <2>1. PICK i \in 1..Len(txs) : txs[i].k = j
    BY DEF Named
  <2>2. ent[j].parent = Below(txs, i)
    <3>1. EntryFits(World, txs[i], Below(txs, i)) /\ txs[i].pc \in Late /\ World.ent = ent
      BY <2>1, LoadFacts, WorldFacts
    <3> QED BY <2>1, <3>1 DEF EntryFits
  <2>3. i # 1
    BY <2>2, LoadsFacts DEF Below
  <2>4. i - 1 \in 1..Len(txs)
    <3>1. Len(txs) \in Nat
      BY WorldFacts
    <3> QED BY <2>3, <3>1
  <2> QED BY <2>2, <2>3, <2>4 DEF Below, Named
<1> HIDE DEF T, N
<1>7. \A S \in SUBSET T : kids[S] = {j \in T : ent[j].parent \in S /\ Goes(j)}
  OBVIOUS
<1>8. kids \in [SUBSET T -> SUBSET T] /\ kids[{}] = {}
  OBVIOUS
<1> HIDE DEF kids
<1> DEFINE P(n) == n <= N => f[n] \in SUBSET T /\ f[n] \cap Named(txs) = {} /\ f[0] \subseteq f[n]
           Good == {n \in Nat : P(n)}
<1>9. P(0)
  BY <1>3, <1>5
<1>10. ASSUME NEW n \in Nat, P(n) PROVE P(n + 1)
  <2> SUFFICES ASSUME n + 1 <= N
               PROVE  f[n+1] \in SUBSET T /\ f[n+1] \cap Named(txs) = {} /\ f[0] \subseteq f[n+1]
    OBVIOUS
  <2>1. n \in 0..N /\ n < N /\ n <= N
    BY <1>2
  <2>2. f[n+1] = f[n] \cup {j \in T : ent[j].parent \in f[n] /\ Goes(j)}
    BY <1>4, <2>1
  <2>3. f[n] \in SUBSET T /\ f[n] \cap Named(txs) = {} /\ f[0] \subseteq f[n]
    BY <1>10, <2>1
  <2>4. \A j \in T : ent[j].parent \in f[n] => j \notin Named(txs)
    BY <1>5, <1>6, <2>3
  <2> DEFINE S == f[n]
             U == f[n+1]
  <2> HIDE DEF S, U
  <2>5. U = S \cup {j \in T : ent[j].parent \in S /\ Goes(j)}
    BY <2>2 DEF S, U
  <2>6. S \in SUBSET T /\ S \cap Named(txs) = {} /\ f[0] \subseteq S
    BY <2>3 DEF S
  <2>7. \A j \in T : ent[j].parent \in S => j \notin Named(txs)
    BY <2>4 DEF S
  <2>8. U \in SUBSET T /\ U \cap Named(txs) = {} /\ f[0] \subseteq U
    BY <2>5, <2>6, <2>7
  <2> QED BY <2>8 DEF U
<1> HIDE DEF P
<1>11. 0 \in Good /\ \A n \in Nat : n \in Good => n + 1 \in Good
  BY <1>9, <1>10
<1>12. \A n \in Nat : n \in Good
  <2> HIDE DEF Good
  <2> QED BY <1>11, SetInduction
<1>13. \A n \in 0..N : P(n) /\ n <= N
  BY <1>2, <1>12
<1>14. \A n \in 0..N : f[n] \in SUBSET T /\ f[n] \cap Named(txs) = {} /\ f[0] \subseteq f[n]
  BY <1>13 DEF P
<1>15. \A n \in 0..N : n < N => f[n+1] = f[n] \cup kids[f[n]]
  BY <1>4, <1>7, <1>14
<1>16. kids[f[N]] \subseteq f[N]
  <2>1. \A n \in 0..N : f[n] \in SUBSET T
    BY <1>14
  <2> QED BY <1>2, <1>5, <1>8, <1>15, <2>1, ChainStops
<1>17. N \in 0..N
  BY <1>2
<1> DEFINE D == f[N]
<1>18. D \in SUBSET T /\ D \cap Named(txs) = {} /\ f[0] \subseteq D
  BY <1>14, <1>17
<1>19. {j \in T : ent[j].parent \in D /\ Goes(j)} \subseteq D
  BY <1>7, <1>16, <1>18
<1>20. Doomed(k) = D
  BY <1>1
<1> HIDE DEF D
<1>21. ent[k].refs = 1 => k \in D
  BY <1>3, <1>18
<1> QED BY <1>18, <1>19, <1>20, <1>21 DEF T

\* Of entries that no load is in progress for, everything there is goes: what is
\* freed and the names that only their images have.
LEMMA RidFacts ==
  ASSUME TxnConsistent, NEW D, D \subseteq DOMAIN ent, D \cap Named(txs) = {}
  PROVE  /\ Freed(D) \subseteq live
         /\ \A c, j : <<c, j>> \in Freed(D) \cup Orphaned(D) <=> j \in D /\ c \in Slice(live, j)
<1>w. /\ World.live = live /\ World.ent = ent /\ \A j \in DOMAIN ent : ent[j] \in Entry
  BY WorldFacts
<1>f. Account(World, txs)
  BY DEF TxnConsistent, Fits
<1>1. \A j \in D : HasNow(j) = Of(OverKinds(ent[j]), j) /\ Slice(live, j) = OverKinds(ent[j])
  BY <1>f, <1>w, OverIs DEF Account
<1>2. \A i \in D : \A c, j : <<c, j>> \in HasNow(i) <=> j = i /\ c \in Slice(live, i)
  BY <1>1 DEF Of
<1>3. \A x : x \in Freed(D) \cup Orphaned(D) <=> \E i \in D : x \in HasNow(i)
  BY DEF Freed, Orphaned, HasNow
<1>4. \A c, j : <<c, j>> \in Freed(D) \cup Orphaned(D) <=> j \in D /\ c \in Slice(live, j)
  <2> TAKE c, j
  <2>1. ASSUME <<c, j>> \in Freed(D) \cup Orphaned(D) PROVE j \in D /\ c \in Slice(live, j)
    <3>1. PICK i \in D : <<c, j>> \in HasNow(i)
      BY <1>3, <2>1
    <3> QED BY <1>2, <3>1
  <2>2. ASSUME j \in D, c \in Slice(live, j) PROVE <<c, j>> \in Freed(D) \cup Orphaned(D)
    <3>1. <<c, j>> \in HasNow(j)
      BY <1>2, <2>2
    <3> QED BY <1>3, <2>2, <3>1
  <2> QED BY <2>1, <2>2
<1>5. Freed(D) \subseteq live
  <2> SUFFICES ASSUME NEW j \in D PROVE Whole(j) \subseteq live
    BY DEF Freed
  <2> DEFINE C == OverKinds(ent[j])
  <2>1. Whole(j) \subseteq Of(C, j) /\ C = Slice(live, j)
    BY <1>1 DEF HasNow
  <2>2. Slice(live, j) \subseteq Kinds
    BY DEF Slice
  <2> HIDE DEF C
  <2>3. Of(C, j) \subseteq live
    BY <2>1, <2>2, HasThem
  <2> QED BY <2>1, <2>3
<1> QED BY <1>4, <1>5

\* The world without k and what leaves with it: every load in progress has what
\* it had, and what is freed is there.
LEMMA WithoutFits ==
  ASSUME TxnConsistent, Foreign, NEW k \in DOMAIN ent, k \notin Named(txs)
  PROVE  /\ Fits(Without(k), txs) /\ Freed(Doomed(k)) \subseteq live
         /\ DOMAIN Without(k).ent \subseteq DOMAIN ent
         /\ \A j \in DOMAIN Without(k).ent : SameEntry(Without(k).ent[j], ent[j])
<1> DEFINE D == Doomed(k)
           E == Counted(k, D)
           M == Unpublished(D).mod_hd
           v == Without(k)
           G == Freed(D) \cup Orphaned(D)
<1>1. /\ D \subseteq DOMAIN ent /\ D \cap Named(txs) = {}
      /\ (ent[k].refs = 1 => k \in D)
      /\ \A i \in DOMAIN ent : ent[i].parent \in D /\ Goes(i) => i \in D
  BY DoomedFacts
<1>w. /\ World.live = live /\ World.ent = ent /\ World.mod_hd = mod_hd /\ World.mods = mods
      /\ live \in SUBSET Things /\ ent \in EntMap /\ mod_hd \in [Libs -> {0} \cup Loads]
      /\ mods \in SUBSET Loads /\ txs \in Seq(Tx)
      /\ DOMAIN ent \subseteq Loads /\ \A j \in DOMAIN ent : ent[j] \in Entry
  BY WorldFacts
<1>f. /\ Nested(txs) /\ Entered(World, txs) /\ Account(World, txs) /\ Findable(World, txs)
  BY DEF TxnConsistent, Fits
<1>b. /\ \A j \in DOMAIN ent : mod_hd[ent[j].lib] = j
      /\ \A j \in Loads : j \in mods <=> j \in DOMAIN ent
  BY EntriesBounded
<1>v. /\ v = [live |-> live \ G, ent |-> E, mod_hd |-> M, mods |-> mods \ D]
      /\ v.live = live \ G /\ v.ent = E /\ v.mod_hd = M /\ v.mods = mods \ D
  BY DEF Without, Rid, Unpublished
<1>M. M = [l \in Libs |-> IF mod_hd[l] \in D THEN 0 ELSE mod_hd[l]]
  BY DEF Unpublished
<1>E. E = [i \in DOMAIN ent \ D |->
             [ent[i] EXCEPT !.refs = IF i = k \/ (ent[i].parent \in D /\ Reached(i))
                                     THEN ent[i].refs - 1 ELSE ent[i].refs]]
  BY DEF Counted
<1>8. /\ Freed(D) \subseteq live
      /\ \A c, j : <<c, j>> \in G <=> j \in D /\ c \in Slice(live, j)
  BY <1>1, RidFacts
<1> HIDE DEF D, E, M, v, G
<1>2. ASSUME NEW i \in DOMAIN ent \ D
      PROVE  E[i] \in Entry /\ SameEntry(E[i], ent[i])
  <2> DEFINE e == ent[i]
             c == i = k \/ (e.parent \in D /\ Reached(i))
             r == IF c THEN e.refs - 1 ELSE e.refs
             g == [e EXCEPT !.refs = r]
  <2>1. e \in Entry /\ i \in DOMAIN ent /\ i \notin D
    BY <1>w, <1>2
  <2>2. c => e.refs # 1
    BY <1>1, <1>2 DEF Goes
  <2>3. e.refs \in 1..MaxRefs /\ MaxRefs \in Nat
    BY <2>1, LoadsFacts DEF Entry
  <2>5. E[i] = g
    BY <1>E
  <2> HIDE DEF e, c
  <2>4. r \in 1..MaxRefs
    BY <2>2, <2>3
  <2> HIDE DEF r
  <2>6. g \in Entry /\ SameEntry(g, e)
    BY <2>1, <2>4 DEF Entry, SameEntry
  <2> HIDE DEF g
  <2> QED BY <2>5, <2>6 DEF e
<1>3. DOMAIN E = DOMAIN ent \ D
  BY <1>E
<1>4. E \in EntMap
  <2>1. DOMAIN E \subseteq Loads /\ \A j \in DOMAIN E : E[j] \in Entry
    BY <1>2, <1>3, <1>w
  <2>2. E = [i \in DOMAIN E |-> E[i]]
    BY <1>E
  <2>3. E \in [DOMAIN E -> Entry]
    BY <2>1, <2>2
  <2> QED BY <2>1, <2>3 DEF EntMap
<1>5. M \in [Libs -> {0} \cup Loads]
  BY <1>M, <1>w
<1>6. v \in Worlds
  <2>1. live \ G \in SUBSET Things /\ mods \ D \in SUBSET Loads
    BY <1>w
  <2> QED BY <1>4, <1>5, <1>v, <2>1 DEF Worlds
<1>10. \A j : Slice(v.live, j) = IF j \in D THEN {} ELSE Slice(live, j)
  <2> TAKE j
  <2>1. \A c : c \in Slice(v.live, j) <=> c \in Kinds /\ <<c, j>> \in live /\ <<c, j>> \notin G
    BY <1>v DEF Slice
  <2>2. \A c : c \in Slice(live, j) <=> c \in Kinds /\ <<c, j>> \in live
    BY DEF Slice
  <2> QED BY <1>8, <2>1, <2>2
<1>11. \A j \in DOMAIN ent \ D : /\ EntKinds(v.ent[j]) = EntKinds(ent[j])
                                /\ OverKinds(v.ent[j]) = OverKinds(ent[j])
  BY <1>2, <1>v DEF EntKinds, OverKinds, NameKinds, SameEntry
<1>n. \A i \in 1..Len(txs) : txs[i].k \in Named(txs) /\ txs[i].k \notin D /\ txs[i].k # k
  BY <1>1 DEF Named
<1>12. Entered(v, txs)
  <2> SUFFICES ASSUME NEW i \in 1..Len(txs) PROVE EntryFits(v, txs[i], Below(txs, i))
    BY DEF Entered
  <2> DEFINE b == Below(txs, i)
             t == txs[i]
  <2>1. EntryFits(World, t, b)
    BY <1>f DEF Entered
  <2>3. t.k \notin D
    BY <1>n
  <2> HIDE DEF b, t
  <2>4. EntryFits(v, t, b)
    <3>1. t.k \in DOMAIN v.ent <=> t.k \in DOMAIN ent
      BY <1>3, <1>v, <2>3
    <3>2. t.pc \in Late <=> t.k \in DOMAIN ent
      BY <1>w, <2>1 DEF EntryFits
    <3>3. t.k \in DOMAIN ent => SameEntry(v.ent[t.k], ent[t.k])
      BY <1>2, <1>v, <2>3
    <3> QED BY <1>w, <2>1, <3>1, <3>2, <3>3 DEF EntryFits, SameEntry
  <2> QED BY <2>4 DEF b, t
<1>13. Account(v, txs)
  <2>1. ASSUME NEW i \in 1..Len(txs) PROVE InHand(v, txs[i])
    <3> DEFINE j == txs[i].k
    <3>1. Slice(live, j) = TxKinds(txs[i]) \cup (IF j \in DOMAIN ent THEN EntKinds(ent[j]) ELSE {})
      BY <1>f, <1>w DEF Account, InHand
    <3>2. Slice(v.live, j) = Slice(live, j)
      BY <1>10, <1>n
    <3>3. j \in DOMAIN v.ent <=> j \in DOMAIN ent
      BY <1>3, <1>n, <1>v
    <3>4. j \in DOMAIN ent => EntKinds(v.ent[j]) = EntKinds(ent[j])
      BY <1>11, <1>n
    <3> QED BY <3>1, <3>2, <3>3, <3>4 DEF InHand
  <2>2. ASSUME NEW j \in DOMAIN v.ent, j \notin Named(txs)
        PROVE  Slice(v.live, j) = OverKinds(v.ent[j])
    <3>1. j \in DOMAIN ent \ D
      BY <1>3, <1>v
    <3>2. Slice(live, j) = OverKinds(ent[j])
      BY <1>f, <1>w, <2>2, <3>1 DEF Account
    <3> QED BY <1>10, <1>11, <3>1, <3>2
  <2>3. ASSUME NEW j \in Loads, j \notin DOMAIN v.ent, j \notin Named(txs) PROVE Slice(v.live, j) = {}
    <3>1. CASE j \in D
      BY <1>10, <3>1
    <3>2. CASE j \notin D
      <4>1. j \notin DOMAIN ent
        BY <1>3, <1>v, <2>3, <3>2
      <4> QED BY <1>10, <1>f, <1>w, <2>3, <3>2, <4>1 DEF Account
    <3> QED BY <3>1, <3>2
  <2> QED BY <2>1, <2>2, <2>3 DEF Account
<1>t. txs # <<>> => Last1(txs).pc = "install"
  BY DEF Foreign, At, Top, Last1
<1>14. Findable(v, txs)
  <2>1. \A j : ~Pending(txs, j, {"publish"}) /\ ~Pending(txs, j, {"publish", "bind", "claim"})
    BY <1>t DEF Pending
  <2>2. \A l \in Libs : mod_hd[l] # 0 => mod_hd[l] \in DOMAIN ent /\ ent[mod_hd[l]].lib = l
    BY <1>f, <1>w DEF Findable
  <2>3. \A l \in Libs : v.mod_hd[l] # 0 => v.mod_hd[l] \in DOMAIN v.ent /\ v.ent[v.mod_hd[l]].lib = l
    <3> SUFFICES ASSUME NEW l \in Libs, v.mod_hd[l] # 0
                 PROVE  v.mod_hd[l] \in DOMAIN v.ent /\ v.ent[v.mod_hd[l]].lib = l
      OBVIOUS
    <3>1. v.mod_hd[l] = mod_hd[l] /\ mod_hd[l] \notin D /\ mod_hd[l] # 0
      BY <1>M, <1>v
    <3>2. mod_hd[l] \in DOMAIN ent \ D /\ ent[mod_hd[l]].lib = l
      BY <2>2, <3>1
    <3> QED BY <1>2, <1>3, <1>v, <3>1, <3>2 DEF SameEntry
  <2>4. \A j \in DOMAIN v.ent : v.mod_hd[v.ent[j].lib] = j
    <3> TAKE j \in DOMAIN v.ent
    <3>1. j \in DOMAIN ent \ D /\ v.ent[j].lib = ent[j].lib /\ ent[j].lib \in Libs
      BY <1>2, <1>3, <1>v, <1>w DEF Entry, SameEntry
    <3>2. mod_hd[ent[j].lib] = j
      BY <1>b, <3>1
    <3> QED BY <1>M, <1>v, <3>1, <3>2
  <2>5. \A j \in Loads : j \in v.mods <=> j \in DOMAIN v.ent
    BY <1>3, <1>b, <1>v
  <2> QED BY <2>1, <2>3, <2>4, <2>5 DEF Findable
<1>15. txs # <<>> => OnTop(v, Last1(txs))
  BY <1>t DEF OnTop, Early
<1>16. DOMAIN v.ent \subseteq DOMAIN ent /\ \A j \in DOMAIN v.ent : SameEntry(v.ent[j], ent[j])
  BY <1>2, <1>3, <1>v
<1> QED BY <1>6, <1>8, <1>12, <1>13, <1>14, <1>15, <1>16, <1>f, <1>w DEF Fits, v, D

\* What foreign code may unload is an entry of no load in progress.
LEMMA UnloadableFacts ==
  ASSUME TxnConsistent, NEW l \in Libs, Unloadable(l)
  PROVE  Foreign /\ mod_hd[l] \in DOMAIN ent /\ mod_hd[l] \notin Named(txs)
<1>1. Findable(World, txs) /\ World.mod_hd = mod_hd /\ World.ent = ent /\ txs \in Seq(Tx)
  BY WorldFacts DEF TxnConsistent, Fits
<1>2. mod_hd[l] \in DOMAIN ent
  BY <1>1 DEF Findable, Unloadable
<1>3. {tx.k : tx \in ToSet(txs)} = Named(txs)
  BY <1>1, NamesFacts
<1> QED BY <1>2, <1>3 DEF Unloadable

\* What freeing entries leaves behind are names.
LEMMA DiscardedFacts ==
  ASSUME TxnConsistent, NEW D, Discarded(D), Freed(D) \subseteq live
  PROVE  twice' = FALSE /\ HistoryOK'
BY DEF TxnConsistent, HistoryOK, Discarded

\* xy_load keeps the invariant.
LEMMA LoadFits ==
  ASSUME TxnConsistent, NEW l \in Libs, xy_load(l)
  PROVE  TxnConsistent' /\ Len(txs') > Len(txs)
<1>1. Begin(l, World, FALSE) /\ twice' = twice /\ (txs = <<>> \/ Last1(txs).pc = "install")
  BY DEF xy_load, Foreign, At, Top, Last1
<1>2. Fits(World, txs) /\ twice = FALSE /\ reloading \in BOOLEAN
  BY DEF TxnConsistent
<1>3. Fits(World', txs') /\ reloading' \in BOOLEAN /\ Len(txs') > Len(txs)
  BY <1>1, <1>2, BeginFits
<1>4. HistoryOK'
  BY SameNames DEF xy_load
<1> QED BY <1>1, <1>2, <1>3, <1>4 DEF TxnConsistent

\* xy_reload keeps the invariant: it begins in the world without the entry.
LEMMA ReloadFits ==
  ASSUME TxnConsistent, NEW l \in Libs, xy_reload(l)
  PROVE  TxnConsistent' /\ Len(txs') > Len(txs)
<1> DEFINE k == mod_hd[l]
           w == Without(k)
<1>1. Unloadable(l) /\ Begin(l, w, TRUE) /\ Discarded(Doomed(k))
  BY DEF xy_reload
<1>2. Foreign /\ k \in DOMAIN ent /\ k \notin Named(txs)
  BY <1>1, UnloadableFacts
<1>3. txs = <<>> \/ Last1(txs).pc = "install"
  BY <1>2 DEF Foreign, At, Top, Last1
<1>4. Fits(w, txs) /\ Freed(Doomed(k)) \subseteq live
  BY <1>2, WithoutFits
<1>5. twice' = FALSE /\ HistoryOK' /\ reloading \in BOOLEAN
  BY <1>1, <1>4, DiscardedFacts DEF TxnConsistent
<1> HIDE DEF k, w
<1>6. Fits(World', txs') /\ reloading' \in BOOLEAN /\ Len(txs') > Len(txs)
  BY <1>1, <1>3, <1>4, <1>5, BeginFits
<1> QED BY <1>5, <1>6 DEF TxnConsistent

\* xy_unload keeps the invariant.
LEMMA UnloadFits ==
  ASSUME TxnConsistent, NEW l \in Libs, xy_unload(l)
  PROVE  TxnConsistent' /\ txs' = txs
<1> DEFINE k == mod_hd[l]
           w == Without(k)
<1>1. Unloadable(l) /\ Become(w) /\ Discarded(Doomed(k)) /\ txs' = txs /\ reloading' = reloading
  BY DEF xy_unload
<1>2. Foreign /\ k \in DOMAIN ent /\ k \notin Named(txs)
  BY <1>1, UnloadableFacts
<1>4. Fits(w, txs) /\ Freed(Doomed(k)) \subseteq live
  BY <1>2, WithoutFits
<1>5. twice' = FALSE /\ HistoryOK' /\ reloading' \in BOOLEAN
  BY <1>1, <1>4, DiscardedFacts DEF TxnConsistent
<1>6. World' = w
  BY <1>1 DEF World, Become, Without, Rid
<1> HIDE DEF w
<1> QED BY <1>1, <1>4, <1>5, <1>6 DEF TxnConsistent

\* The world without any entry and any load.
LEMMA EmptyFits ==
  Fits([live |-> {}, ent |-> <<>>, mod_hd |-> [l \in Libs |-> 0], mods |-> {}], <<>>)
<1> DEFINE M == [l \in Libs |-> 0]
           E == <<>>
           w == [live |-> {}, ent |-> E, mod_hd |-> M, mods |-> {}]
<1>1. DOMAIN E = {} /\ E \in [{} -> Entry]
  OBVIOUS
<1>2. E \in EntMap
  <2>1. {} \in SUBSET Loads
    OBVIOUS
  <2> QED BY <1>1, <2>1 DEF EntMap
<1>3. M \in [Libs -> {0} \cup Loads] /\ \A l \in Libs : M[l] = 0
  OBVIOUS
<1> HIDE DEF M, E
<1>4. w \in Worlds /\ w.live = {} /\ w.ent = E /\ w.mod_hd = M /\ w.mods = {}
  BY <1>2, <1>3 DEF Worlds
<1> HIDE DEF w
<1> DEFINE s == <<>>
<1>5. s \in Seq(Tx) /\ Len(s) = 0 /\ s = <<>> /\ 1..Len(s) = {}
  OBVIOUS
<1> HIDE DEF s
<1>6. Nested(s) /\ Entered(w, s)
  BY <1>5 DEF Nested, Entered
<1>7. Account(w, s)
  <2>1. \A k : Slice({}, k) = {}
    BY DEF Slice
  <2> QED BY <1>1, <1>4, <1>5, <2>1 DEF Account
<1>8. Findable(w, s)
  BY <1>1, <1>3, <1>4 DEF Findable
<1>9. Fits(w, s)
  BY <1>4, <1>5, <1>6, <1>7, <1>8 DEF Fits
<1> QED BY <1>9 DEF w, s, E, M

\* The invariant holds before anything is loaded.
LEMMA TxnInit ==
  ASSUME Init
  PROVE  TxnConsistent
<1>1. World = [live |-> {}, ent |-> <<>>, mod_hd |-> [l \in Libs |-> 0], mods |-> {}] /\ txs = <<>>
  BY DEF Init, World
<1> QED BY <1>1, EmptyFits DEF Init, TxnConsistent, HistoryOK

\* xy_shutdown frees all there is.
LEMMA ShutdownFits ==
  ASSUME TxnConsistent, Shutdown
  PROVE  TxnConsistent' /\ txs' = txs
<1> DEFINE D == {mod_hd[l] : l \in Libs} \ {0}
<1>1. /\ txs = <<>> /\ txs' = txs /\ reloading' = reloading /\ Discarded(D)
      /\ live' = live \ (Freed(D) \cup Orphaned(D)) /\ ent' = <<>>
      /\ mod_hd' = [l \in Libs |-> IF mod_hd[l] \in D THEN 0 ELSE mod_hd[l]]
      /\ mods' = mods \ D
  BY DEF Shutdown, Become, Rid, Unpublished
<1>w. /\ World.live = live /\ World.ent = ent /\ World.mod_hd = mod_hd
      /\ live \in SUBSET Things /\ mod_hd \in [Libs -> {0} \cup Loads]
      /\ DOMAIN ent \subseteq Loads /\ \A j \in DOMAIN ent : ent[j] \in Entry
  BY WorldFacts
<1>2. /\ \A j \in DOMAIN ent : mod_hd[ent[j].lib] = j
  BY <1>1, EntriesBounded DEF Foreign
<1>3. Findable(World, txs) /\ Account(World, txs)
  BY DEF TxnConsistent, Fits
<1>4. D = DOMAIN ent
  <2>1. \A j \in DOMAIN ent : ent[j].lib \in Libs /\ j # 0
    BY <1>w, LoadsFacts DEF Entry
  <2>2. DOMAIN ent \subseteq D
    BY <1>2, <2>1
  <2>3. D \subseteq DOMAIN ent
    BY <1>3, <1>w DEF Findable
  <2> QED BY <2>2, <2>3
<1> HIDE DEF D
<1>n. Named(txs) = {}
  BY <1>1 DEF Named
<1>5. /\ Freed(D) \subseteq live
      /\ \A c, j : <<c, j>> \in Freed(D) \cup Orphaned(D) <=> j \in D /\ c \in Slice(live, j)
  BY <1>4, <1>n, RidFacts
<1>6. ASSUME NEW x \in live PROVE x \in Freed(D) \cup Orphaned(D)
  <2>1. PICK c \in Kinds, k \in Loads : x = <<c, k>>
    BY <1>w DEF Things
  <2>2. c \in Slice(live, k)
    BY <2>1 DEF Slice
  <2>3. k \in DOMAIN ent
    BY <1>3, <1>n, <1>w, <2>2 DEF Account
  <2> QED BY <1>4, <1>5, <2>1, <2>2, <2>3
<1>7. mod_hd' = [l \in Libs |-> 0] /\ mods' = {}
  <2>1. \A l \in Libs : mod_hd[l] \in D \/ mod_hd[l] = 0
    BY <1>3, <1>4, <1>w DEF Findable
  <2>2. mods \subseteq D
    BY <1>3, <1>4, <1>w, WorldFacts DEF Findable
  <2> QED BY <1>1, <2>1, <2>2
<1>9. live' = {} /\ twice' = FALSE /\ HistoryOK' /\ reloading' \in BOOLEAN
  BY <1>1, <1>5, <1>6, DiscardedFacts DEF TxnConsistent
<1>10. World' = [live |-> {}, ent |-> <<>>, mod_hd |-> [l \in Libs |-> 0], mods |-> {}] /\ txs' = <<>>
  BY <1>1, <1>7, <1>9 DEF World
<1> QED BY <1>1, <1>9, <1>10, EmptyFits DEF TxnConsistent

-----------------------------------------------------------------------------
(* Theorems. *)

\* How a load may end in this step.
AllOrNothing ==
  Len(txs') < Len(txs) =>
    \/ mod_hd'[Top.lib] = Top.k /\ Top.k \in mods'
    \/ World' = Top.before
    \/ Top.found # 0 /\ World' = [Top.before EXCEPT !.ent[Top.found].refs = @ + 1]

\* A load that goes on is not over.
LEMMA GoOnKeeps ==
  ASSUME TxnConsistent, NEW pc, At(pc), NEW tx, GoOn(tx)
  PROVE  AllOrNothing
<1>1. txs \in Seq(Tx) /\ txs # <<>> /\ txs' = Append(Front(txs), tx)
  BY WorldFacts DEF At, GoOn
<1>t. txs[Len(txs)] \in Tx
  BY <1>1
<1>2. Len(txs) \in Nat /\ Front(txs) \in Seq(Tx) /\ Len(Front(txs)) = Len(txs) - 1
  BY <1>1, <1>t, FrameFacts
<1>3. Len(txs') = Len(txs)
  BY <1>1, <1>2
<1> QED BY <1>2, <1>3 DEF AllOrNothing

\* Every step keeps the invariant, and a load that it ends ends as a whole.
LEMMA TxnStep ==
  ASSUME TxnConsistent, [Next]_vars
  PROVE  TxnConsistent' /\ AllOrNothing
<1>n. Len(txs) \in Nat
  BY WorldFacts
<1>a. txs' = txs => AllOrNothing
  BY <1>n DEF AllOrNothing
<1>b. Len(txs') > Len(txs) => ~(Len(txs') < Len(txs)) \/ Len(txs') \notin Nat
  BY <1>n
<1>c. TxnConsistent' => Len(txs') \in Nat
  BY DEF TxnConsistent, Fits
<1>d. TxnConsistent' /\ Len(txs') > Len(txs) => AllOrNothing
  BY <1>b, <1>c DEF AllOrNothing
<1>1. ASSUME NEW l \in Libs, xy_load(l) PROVE TxnConsistent' /\ AllOrNothing
  BY <1>1, <1>d, LoadFits
<1>2. ASSUME NEW l \in Libs, xy_unload(l) PROVE TxnConsistent' /\ AllOrNothing
  BY <1>2, <1>a, UnloadFits
<1>3. ASSUME NEW l \in Libs, xy_reload(l) PROVE TxnConsistent' /\ AllOrNothing
  BY <1>3, <1>d, ReloadFits
<1>4. CASE CopyBegin
  BY <1>4, CopyBeginFits, GoOnKeeps DEF CopyBegin
<1>5. CASE CopyMissed
  BY <1>5, CopyMissedFits, GoOnKeeps DEF CopyMissed
<1>6. CASE CopyFailed
  BY <1>6, CopyFailedFits, GoOnKeeps DEF CopyFailed
<1>7. CASE CopyDone
  BY <1>7, CopyDoneFits, GoOnKeeps DEF CopyDone
<1>u. CASE CopyUnnamed
  BY <1>u, CopyUnnamedFits, GoOnKeeps DEF CopyUnnamed
<1>8. CASE CopyGivenUp
  BY <1>8, CopyGivenUpFits, GoOnKeeps DEF CopyGivenUp
<1>9. CASE Open
  BY <1>9, OpenFits, GoOnKeeps DEF Open
<1>10. CASE OpenFailed
  BY <1>10, OpenFailedFits DEF AllOrNothing
<1>11. CASE Reuse
  BY <1>11, ReuseFits DEF AllOrNothing
<1>12. CASE Abort
  BY <1>12, AbortFits DEF AllOrNothing
<1>13. CASE Name
  BY <1>13, NameFits, GoOnKeeps DEF Name
<1>14. CASE Alloc
  BY <1>14, AllocFits, GoOnKeeps DEF Alloc
<1>15. CASE Publish
  BY <1>15, PublishFits, GoOnKeeps DEF Publish
<1>e. CASE Bind
  BY <1>e, BindFits, GoOnKeeps DEF Bind
<1>16. CASE Enlist
  <2>1. AllOrNothing
    BY <1>16, GoOnKeeps DEF Enlist
  <2> QED BY <1>16, <2>1, EnlistFits
<1>17. CASE Install
  BY <1>17, InstallFits, GoOnKeeps DEF Install
<1>18. CASE InstallReturn
  BY <1>18, InstallReturnFits DEF AllOrNothing
<1>19. CASE Shutdown
  BY <1>19, <1>a, ShutdownFits
<1>20. CASE UNCHANGED vars
  <2>1. /\ txs' = txs /\ World' = World /\ twice' = twice /\ reloading' = reloading
        /\ HistoryOK'
    BY <1>20, SameNames DEF vars, World, names
  <2> QED BY <1>a, <2>1 DEF TxnConsistent
<1> QED BY <1>1, <1>2, <1>3, <1>4, <1>5, <1>6, <1>7, <1>8, <1>9, <1>10, <1>11, <1>12, <1>13,
           <1>14, <1>15, <1>16, <1>17, <1>18, <1>19, <1>20, <1>e, <1>u DEF Next

\* A step keeps the names of contexts if every entry whose load is over after
\* it was such an entry before, of the same library and image, which still has
\* its name, or has one in its context now.
LEMMA NamesGoOn ==
  ASSUME ContextsNamed,
         \A k \in DOMAIN ent' \ Named(txs') :
           \/ /\ k \in DOMAIN ent \ Named(txs)
              /\ ent'[k].lib = ent[k].lib /\ ent'[k].dir = ent[k].dir
              /\ ent[k].lib \in kept => ent[k].lib \in kept'
           \/ ent'[k].dir = 0 /\ ent'[k].lib \notin Bare => ent'[k].lib \in kept'
  PROVE  ContextsNamed'
BY DEF ContextsNamed

\* The loads in progress after a step of the innermost one.
LEMMA NamesAfter ==
  ASSUME TxnConsistent, txs # <<>>
  PROVE  /\ \A tx : tx.k = Top.k => Named(Append(Front(txs), tx)) = Named(txs)
         /\ Named(Front(txs)) = Named(txs) \ {Top.k} /\ Top.k \in Named(txs)
<1> DEFINE n == Len(txs)
           F == Front(txs)
<1>1. txs \in Seq(Tx) /\ n \in Nat \ {0} /\ Nested(txs)
  BY WorldFacts DEF TxnConsistent, Fits
<1>t. txs[n] \in Tx
  BY <1>1
<1>2. F \in Seq(Tx) /\ Len(F) = n - 1 /\ \A i \in 1..n-1 : F[i] = txs[i]
  BY <1>1, <1>t, FrameFacts
<1>3. \A i \in 1..n : i = n \/ i \in 1..n-1
  BY <1>1
<1>4. \A i \in 1..n-1 : i \in 1..n /\ i # n
  BY <1>1
<1>5. n \in 1..n /\ Top = txs[n]
  BY <1>1 DEF Top
<1> HIDE DEF F
<1>6. \A j : j \in Named(F) <=> \E i \in 1..n-1 : txs[i].k = j
  BY <1>2 DEF Named
<1>7. \A j : j \in Named(txs) <=> \E i \in 1..n : txs[i].k = j
  BY DEF Named
<1>8. \A i \in 1..n-1 : txs[i].k # Top.k
  BY <1>1, <1>4, <1>5 DEF Nested
<1>9. Named(F) = Named(txs) \ {Top.k} /\ Top.k \in Named(txs)
  <2>1. \A j : j \in Named(F) <=> j \in Named(txs) /\ j # Top.k
    BY <1>3, <1>4, <1>5, <1>6, <1>7, <1>8
  <2>2. Top.k \in Named(txs)
    BY <1>5, <1>7
  <2> QED BY <2>1, <2>2
<1>10. ASSUME NEW tx, tx.k = Top.k PROVE Named(Append(F, tx)) = Named(txs)
  <2> DEFINE p == Append(F, tx)
  <2>1. Len(p) = n /\ p[n] = tx /\ \A i \in 1..n-1 : p[i] = txs[i]
    BY <1>1, <1>2
  <2> HIDE DEF p
  <2>2. \A j : j \in Named(p) <=> \E i \in 1..n : p[i].k = j
    BY <2>1 DEF Named
  <2>3. \A i \in 1..n : p[i].k = txs[i].k
    BY <1>3, <1>5, <1>10, <2>1
  <2>4. \A j : j \in Named(p) <=> j \in Named(txs)
    BY <1>7, <2>2, <2>3
  <2> QED BY <2>4 DEF p
<1> QED BY <1>9, <1>10 DEF F

\* The load goes on, its entry the only one that changes.
LEMMA NamesOfStep ==
  ASSUME TxnConsistent, ContextsNamed, txs # <<>>, NEW tx, tx.k = Top.k, GoOn(tx),
         \A k \in DOMAIN ent' : k # Top.k =>
           /\ k \in DOMAIN ent /\ ent'[k].lib = ent[k].lib /\ ent'[k].dir = ent[k].dir
           /\ ent[k].lib \in kept => ent[k].lib \in kept'
  PROVE  ContextsNamed'
<1>1. Named(txs') = Named(txs) /\ Top.k \in Named(txs)
  BY NamesAfter DEF GoOn
<1> QED BY <1>1, NamesGoOn

\* The load ends.
LEMMA NamesOfEnd ==
  ASSUME TxnConsistent, ContextsNamed, txs # <<>>, Finish,
         \A k \in DOMAIN ent' : k # Top.k =>
           /\ k \in DOMAIN ent /\ ent'[k].lib = ent[k].lib /\ ent'[k].dir = ent[k].dir
           /\ ent[k].lib \in kept => ent[k].lib \in kept',
         Top.k \in DOMAIN ent' =>
           (ent'[Top.k].dir = 0 /\ ent'[Top.k].lib \notin Bare => ent'[Top.k].lib \in kept')
  PROVE  ContextsNamed'
<1>1. Named(txs') = Named(txs) \ {Top.k}
  BY NamesAfter DEF Finish
<1> QED BY <1>1, NamesGoOn

\* Foreign code loads or unloads: entries leave, none comes.
LEMMA NamesOfForeign ==
  ASSUME ContextsNamed, NEW E, ent' = E, DOMAIN E \subseteq DOMAIN ent,
         \A j \in DOMAIN E : SameEntry(E[j], ent[j]),
         Named(txs) \subseteq Named(txs'), kept' = kept
  PROVE  ContextsNamed'
BY NamesGoOn DEF SameEntry

\* Every step keeps the names of the contexts.
LEMMA NamesStep ==
  ASSUME TxnConsistent, ContextsNamed, [Next]_vars
  PROVE  ContextsNamed'
<1>1. ASSUME NEW l \in Libs, xy_load(l) PROVE ContextsNamed'
  <2>1. Begin(l, World, FALSE) /\ kept' = kept /\ (txs = <<>> \/ Last1(txs).pc = "install")
    BY <1>1 DEF xy_load, names, Foreign, At, Top, Last1
  <2>2. World'.ent = World.ent /\ Named(txs) \subseteq Named(txs')
    BY <2>1, BeginFits DEF TxnConsistent
  <2>3. ent' = ent
    BY <2>2 DEF World
  <2>4. \A j \in DOMAIN ent : SameEntry(ent[j], ent[j])
    BY DEF SameEntry
  <2> QED BY <2>1, <2>2, <2>3, <2>4, NamesOfForeign
<1>2. ASSUME NEW l \in Libs, xy_unload(l) PROVE ContextsNamed'
  <2> DEFINE k == mod_hd[l]
             E == Without(k).ent
  <2>1. Foreign /\ k \in DOMAIN ent /\ k \notin Named(txs)
    BY <1>2, UnloadableFacts DEF xy_unload
  <2>2. DOMAIN E \subseteq DOMAIN ent /\ \A j \in DOMAIN E : SameEntry(E[j], ent[j])
    BY <2>1, WithoutFits
  <2>3. ent' = E /\ txs' = txs /\ kept' = kept
    BY <1>2 DEF xy_unload, Become, Discarded
  <2> HIDE DEF E
  <2> QED BY <2>2, <2>3, NamesOfForeign
<1>3. ASSUME NEW l \in Libs, xy_reload(l) PROVE ContextsNamed'
  <2> DEFINE k == mod_hd[l]
             w == Without(k)
  <2>1. Foreign /\ k \in DOMAIN ent /\ k \notin Named(txs)
    BY <1>3, UnloadableFacts DEF xy_reload
  <2>2. /\ Fits(w, txs) /\ DOMAIN w.ent \subseteq DOMAIN ent
        /\ \A j \in DOMAIN w.ent : SameEntry(w.ent[j], ent[j])
    BY <2>1, WithoutFits
  <2>3. Begin(l, w, TRUE) /\ kept' = kept
    BY <1>3 DEF xy_reload, Discarded
  <2>4. txs = <<>> \/ Last1(txs).pc = "install"
    BY <2>1 DEF Foreign, At, Top, Last1
  <2> HIDE DEF w
  <2>5. World'.ent = w.ent /\ Named(txs) \subseteq Named(txs')
    BY <2>2, <2>3, <2>4, BeginFits DEF TxnConsistent
  <2>6. ent' = w.ent
    BY <2>5 DEF World
  <2> QED BY <2>2, <2>3, <2>5, <2>6, NamesOfForeign
<1>4. CASE CopyBegin
  BY <1>4, NamesOfStep, TopFacts DEF CopyBegin, At, Tx, tables, names
<1>5. CASE CopyMissed
  BY <1>5, NamesOfStep, TopFacts DEF CopyMissed, At, Tx, tables, names
<1>6. CASE CopyFailed
  BY <1>6, NamesOfStep, TopFacts DEF CopyFailed, At, Tx, tables, names
<1>7. CASE CopyUnnamed
  BY <1>7, NamesOfStep, TopFacts DEF CopyUnnamed, At, Tx, tables
<1>8. CASE CopyDone
  BY <1>8, NamesOfStep, TopFacts DEF CopyDone, At, Tx, tables, names
<1>9. CASE CopyGivenUp
  BY <1>9, NamesOfStep, TopFacts DEF CopyGivenUp, At, Tx, tables, names
<1>10. CASE Open
  BY <1>10, NamesOfStep, TopFacts DEF Open, At, Tx, tables, names
<1>11. CASE OpenFailed
  <2>1. Top.k \notin DOMAIN ent
    BY <1>11, TopFacts DEF OpenFailed, At, Late
  <2> QED BY <1>11, <2>1, NamesOfEnd DEF OpenFailed, At, tables, names
<1>12. CASE Reuse
  <2>1. txs # <<>> /\ Top.k \notin DOMAIN ent
    BY <1>12, TopFacts DEF Reuse, At, Late
  <2>2. ent' = [ent EXCEPT ![Top.found].refs = ent[Top.found].refs + 1] /\ kept' = kept /\ Finish
    BY <1>12 DEF Reuse, names
  <2>3. /\ DOMAIN ent' = DOMAIN ent
        /\ \A k \in DOMAIN ent : ent'[k].lib = ent[k].lib /\ ent'[k].dir = ent[k].dir
    <3>1. \A k \in DOMAIN ent : ent[k] \in Entry
      BY WorldFacts
    <3>2. DOMAIN ent' = DOMAIN ent
      BY <2>2
    <3>3. \A k \in DOMAIN ent : ent'[k] = IF k = Top.found THEN [ent[k] EXCEPT !.refs = ent[k].refs + 1]
                                          ELSE ent[k]
      BY <2>2
    <3>4. ASSUME NEW k \in DOMAIN ent PROVE ent'[k].lib = ent[k].lib /\ ent'[k].dir = ent[k].dir
      <4> DEFINE e == ent[k]
      <4>1. e \in Entry /\ (ent'[k] = e \/ ent'[k] = [e EXCEPT !.refs = e.refs + 1])
        BY <3>1, <3>3
      <4> HIDE DEF e
      <4>2. ent'[k].lib = e.lib /\ ent'[k].dir = e.dir
        BY <4>1 DEF Entry
      <4> QED BY <4>2 DEF e
    <3> QED BY <3>2, <3>4
  <2> QED BY <2>1, <2>2, <2>3, NamesOfEnd
<1>13. CASE Abort
  <2>1. txs # <<>> /\ Finish /\ kept' = kept /\ ent' = [i \in DOMAIN ent \ {Top.k} |-> ent[i]]
    BY <1>13 DEF Abort, At, names
  <2> QED BY <2>1, NamesOfEnd
<1>14. CASE Name
  BY <1>14, NamesOfStep, TopFacts DEF Name, At, Tx, tables, names
<1>15. CASE Alloc
  BY <1>15, NamesOfStep, TopFacts DEF Alloc, At, Tx, names
<1>16. CASE Publish
  BY <1>16, NamesOfStep, TopFacts DEF Publish, At, Tx, names
<1>17. CASE Bind
  <2>1. txs # <<>> /\ Top.pc = "bind" /\ ent' = ent /\ GoOn([Top EXCEPT !.pc = "claim"])
    BY <1>17 DEF Bind, At, tables
  <2>2. \A j \in Libs : j # Top.lib /\ j \in kept => j \in kept'
    BY <1>17 DEF Bind, names
  <2>3. ASSUME NEW k \in DOMAIN ent, k # Top.k PROVE ent[k].lib \in Libs /\ ent[k].lib # Top.lib
    <3>1. World.ent = ent /\ World.mod_hd = mod_hd /\ \A j \in DOMAIN ent : ent[j] \in Entry
      BY WorldFacts
    <3>2. Top.k \in DOMAIN ent /\ ent[Top.k].lib = Top.lib /\ Top = Last1(txs)
      BY <2>1, <3>1, TopFacts DEF EntryFits, Late
    <3>3. \A j \in DOMAIN ent : mod_hd[ent[j].lib] = j
      BY <2>1, <3>1, <3>2 DEF TxnConsistent, Fits, Findable, Pending
    <3> QED BY <2>3, <3>1, <3>2, <3>3 DEF Entry
  <2>4. [Top EXCEPT !.pc = "claim"].k = Top.k
    BY <2>1, TopFacts DEF Tx
  <2> QED BY <2>1, <2>2, <2>3, <2>4, NamesOfStep
<1>18. CASE Enlist
  <2>1. PICK s : ent' = [ent EXCEPT ![Top.k].state = s] /\ GoOn([Top EXCEPT !.pc = "run"])
    BY <1>18 DEF Enlist
  <2>2. [Top EXCEPT !.pc = "run"].k = Top.k
    BY <1>18, TopFacts DEF Tx, Enlist, At
  <2>3. kept' = kept /\ txs # <<>>
    BY <1>18 DEF Enlist, At, names
  <2> QED BY <2>1, <2>2, <2>3, NamesOfStep
<1>19. CASE Install
  BY <1>19, NamesOfStep, TopFacts DEF Install, At, Tx, tables, names
<1>20. CASE InstallReturn
  <2>1. txs # <<>> /\ Top.pc = "install" /\ Finish /\ ent' = ent
    BY <1>20 DEF InstallReturn, At, tables
  <2>2. ~Top.main /\ ent[Top.k].lib = Top.lib /\ ent[Top.k].dir = Top.dir
    BY <2>1, TopFacts, WorldFacts DEF TxFits, EntryFits, Late
  <2>3. kept \subseteq kept' /\ (Top.dir = 0 /\ Top.lib \notin Bare => Top.lib \in kept')
    BY <1>20, <2>2 DEF InstallReturn, BindsAgain
  <2> QED BY <2>1, <2>2, <2>3, NamesOfEnd
<1>21. CASE Shutdown
  <2>1. DOMAIN ent' = {}
    BY <1>21 DEF Shutdown, Become, Rid
  <2> QED BY <2>1 DEF ContextsNamed
<1>22. CASE UNCHANGED vars
  BY <1>22 DEF vars, ContextsNamed
<1> QED BY <1>1, <1>2, <1>3, <1>4, <1>5, <1>6, <1>7, <1>8, <1>9, <1>10, <1>11, <1>12, <1>13, <1>14,
           <1>15, <1>16, <1>17, <1>18, <1>19, <1>20, <1>21, <1>22 DEF Next

\* Every load in progress has in hand exactly what it acquired and not passed
\* on, every entry the rest, the image of a copy and the context of a library
\* their names, and nothing else is allocated, in every state that loads,
\* unloads, reloads and their failures reach.
THEOREM TxnAlways == Spec => [](TxnConsistent /\ ContextsNamed)
<1>1. Init => TxnConsistent /\ ContextsNamed
  <2>1. Init => ContextsNamed
    BY DEF Init, ContextsNamed
  <2> QED BY <2>1, TxnInit
<1>2. TxnConsistent /\ ContextsNamed /\ [Next]_vars => TxnConsistent' /\ ContextsNamed'
  BY TxnStep, NamesStep
<1> QED BY <1>1, <1>2, PTL DEF Spec

\* Every entry that is there has at least one reference, at most MaxRefs.
THEOREM TxnTypeCorrect == Spec => []TypeOK
<1>1. TxnConsistent => TypeOK
  BY TxnTyped
<1> QED BY <1>1, TxnAlways, PTL

\* Nothing is freed twice, and whatever is allocated, open or on disk has a
\* holder, whichever step of whichever load fails; what loses its last holder
\* is a load's name that a context had, or a copy whose name could not be
\* allocated, and nothing else (mod_load_abort, module_free_entry, copy_one,
\* mod_load_bind_xy).
THEOREM AlwaysHeldOnce == Spec => []EachHeldOnce
<1>1. TxnConsistent => EachHeldOnce
  BY TxnHeldOnce
<1> QED BY <1>1, TxnAlways, PTL

\* Map and list never lead to an entry that is not whole, and they lead to
\* every entry whose load is over, its context to a name of it
\* (mod_load_publish_entry, mod_load_bind_xy, _mod_unload).
THEOREM LookupAlwaysFindsLive == Spec => []LookupFindsLive
<1>1. TxnConsistent /\ ContextsNamed => LookupFindsLive
  BY TxnLookup
<1> QED BY <1>1, TxnAlways, PTL

\* A load takes effect as a whole or leaves everything as it was (_mod_load).
THEOREM LoadsAllOrNothing == Spec => LoadAllOrNothing
<1>1. TxnConsistent /\ [Next]_vars => [AllOrNothing]_vars
  BY TxnStep
<1>2. Spec => [][AllOrNothing]_vars
  BY <1>1, TxnAlways, PTL DEF Spec
<1> QED BY <1>2 DEF LoadAllOrNothing, AllOrNothing
=============================================================================
