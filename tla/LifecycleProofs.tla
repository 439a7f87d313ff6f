-------------------------- MODULE LifecycleProofs ---------------------------
(***************************************************************************)
(* The module lifecycle for every number of regions, libraries, memory     *)
(* cells, references and nested pieces of foreign code. Lists, entries,    *)
(* the reach of a cascade and where a reload puts its module need no       *)
(* assumption on how the library is used; contexts need that a library is  *)
(* in one region at a time; that nothing freed is read, that loads of the  *)
(* host are honoured and that calls run every listener need the switches   *)
(* of the passing runs.                                                    *)
(***************************************************************************)
EXTENDS Lifecycle, SeqLemmas

-----------------------------------------------------------------------------
(* The inductive invariant. Its parts are stated of any heap E, M, region  *)
(* set L, contexts X, frames fs and slots sl, since a reload passes through *)
(* a state between its unload and its load.                                *)

Context == [id : Regions, at : Regions]
Binding == [region : Regions, named : BOOLEAN]
Slot == Cells \cup {Dangling}

Entry ==
  [path : Paths, img : Paths \cup Cells, region : Regions, refs : 1..MaxRefs,
   parent : Cells \cup {NULL}, stale : BOOLEAN, shared : BOOLEAN]

Frame ==
  [kind : {"scope", "install", "body"}, e : Ptr, saved : Context,
   loading : Cells \cup {NULL}, reload : Paths \cup {NULL}, after : Ptr,
   at : Regions \cup {NULL}, n : Nat, i : Nat, changed : BOOLEAN,
   was : Seq(Slot), seen : Seq(Slot)]

\* The regions below each region of L.
Trees(L, A) == [n \in L |-> {x \in L : n \in A[x]}]

\* Child lists K and ancestor sets A describe one finite tree.
TreeFits(L, A, K) ==
  /\ L \subseteq Regions /\ Root \in L /\ IsFiniteSet(L)
  /\ A \in [Regions -> SUBSET Regions] /\ K \in [Regions -> Seq(Regions)]
  /\ \A x \in L : x \in A[x] /\ A[x] \subseteq L
  /\ \A x \in Regions \ L : K[x] = <<>>
  /\ IsForest(L, K, Trees(L, A)) /\ Covers(L, K, Trees(L, A))
  /\ \A n \in L : \A i, j \in DOMAIN K[n] :
       i # j => Trees(L, A)[K[n][i]] \cap Trees(L, A)[K[n][j]] = {}

\* Entries are in live regions; their image is their library or a copy of
\* their own; one that was taken twice says so, and one whose loader left was.
EntriesFit(E, L) ==
  /\ E \in [Cells -> Entry \cup {Free}]
  /\ \A c \in Cells : E[c] # Free =>
       /\ E[c].region \in L /\ E[c].img \in {c, E[c].path}
       /\ E[c].refs > 1 => E[c].shared
       /\ E[c].stale => E[c].shared \/ E[c].path \in Bare

\* The list of a region holds its entries, each once, and no path twice.
ListsFit(E, M) ==
  /\ M \in [Regions -> Seq(Cells)]
  /\ \A r \in Regions : IsInjective(M[r])
  /\ \A r \in Regions, c \in Cells : c \in ToSet(M[r]) <=> E[c] # Free /\ E[c].region = r
  /\ \A c, d \in Cells : /\ E[c] # Free /\ E[d] # Free
                         /\ E[c].path = E[d].path /\ E[c].region = E[d].region
                         => c = d

\* What a piece of foreign code and the library below it rely on: its module
\* is there unless it is known to be gone, and the entry a reload remembers is
\* on the list the module will go back to, and not the module itself.
FrameFits(E, L, f) ==
  /\ f.saved.id \in L /\ f.saved.at \in L
  /\ f.e \in Cells => E[f.e] # Free
  /\ f.kind = "scope" => f.e = NULL
  /\ f.kind = "install" => f.e \in Cells
  /\ f.kind = "body" => /\ f.e \in Slot /\ f.at \in L /\ 1 <= f.i /\ f.i <= f.n
                        /\ f.reload = NULL
  /\ f.reload # NULL /\ f.after \in Cells =>
       E[f.after] # Free /\ E[f.after].region = f.saved.id /\ E[f.after].path # f.reload

FramesFit(E, L, fs) ==
  fs \in Seq(Frame) /\ \A i \in 1..Len(fs) : FrameFits(E, L, fs[i])

\* Slots hold listeners that are there, or are known to be gone; a call in
\* progress finds as many as it counted.
SlotsFit(E, sl, fs) ==
  /\ sl \in [Regions -> Seq(Slot)]
  /\ \A r \in Regions : \A c \in ToSet(sl[r]) :
       c \in Cells => E[c] # Free /\ E[c].path \notin Bare
  /\ \A i \in 1..Len(fs) : fs[i].kind = "body" => fs[i].n <= Len(sl[fs[i].at])

\* The module being loaded, and those that are again when an xy_install
\* returns, are modules whose xy_install runs further out.
LoadingFits(fs, ld) ==
  /\ ld # NULL => \E i \in 1..Len(fs) : fs[i].kind = "install" /\ fs[i].e = ld
  /\ \A i \in 1..Len(fs) : fs[i].kind = "install" /\ fs[i].loading # NULL =>
       \E j \in 1..i-1 : fs[j].kind = "install" /\ fs[j].e = fs[i].loading

ContextsTyped(X, L) ==
  X \in [Paths \cup Cells -> Binding] /\ \A m \in Paths \cup Cells : X[m].region \in L

\* What holds whatever foreign code does.
Sound ==
  /\ TreeFits(live, anc, kids) /\ gate \in [Regions -> BOOLEAN]
  /\ EntriesFit(ent, live) /\ ListsFit(ent, mods) /\ FramesFit(ent, live, frames)
  /\ SlotsFit(ent, slots, frames) /\ LoadingFits(frames, loading)
  /\ ContextsTyped(ctx, live)
  /\ cur \in Context /\ cur.id \in live /\ cur.at \in live
  /\ loading \in Cells \cup {NULL} /\ reloading \in BOOLEAN /\ bad \in BOOLEAN

-----------------------------------------------------------------------------
(* One region for each library. *)

\* No library is loaded twice, and the context of an entry's image is bound to
\* that entry.
Bound(E, X) ==
  /\ \A c, d \in Cells : E[c] # Free /\ E[d] # Free /\ E[c].path = E[d].path => c = d
  /\ \A c \in Cells : E[c] # Free /\ E[c].path \notin Bare =>
       X[E[c].img] = [region |-> E[c].region, named |-> TRUE]

\* The context frame i runs in, or will run in when it is on top again.
At(fs, c, i) == IF i = Len(fs) THEN c ELSE fs[i + 1].saved

\* Contexts are pairs of one region; a module's code runs in its own region;
\* a body that needed no switch returns to where it was called.
Nesting(E, fs, c) ==
  /\ c.id = c.at
  /\ \A i \in 1..Len(fs) :
       /\ fs[i].saved.id = fs[i].saved.at
       /\ fs[i].e \in Cells => At(fs, c, i).id = E[fs[i].e].region
       /\ fs[i].kind = "body" /\ ~fs[i].changed => At(fs, c, i) = fs[i].saved

Placed == Bound(ent, ctx) /\ Nesting(ent, frames, cur)

-----------------------------------------------------------------------------
(* References, order, reloads and calls, when only the host unloads and     *)
(* reloads; each theorem names what else it needs.                         *)

\* Whether the module that loaded c is still there, as a number.
LoaderCount(E, c) == IF E[c].parent \in Cells /\ E[E[c].parent] # Free THEN 1 ELSE 0

\* The references the host and the loader have are counted apart.
HeldFits(E, h) ==
  /\ h \in [Paths -> [Regions -> Nat]]
  /\ \A p \in Paths, r \in Regions : h[p][r] > 0 =>
       \E c \in Cells : E[c] # Free /\ E[c].path = p /\ E[c].region = r
  /\ \A c \in Cells : E[c] # Free =>
       h[E[c].path][E[c].region] + LoaderCount(E, c) <= E[c].refs

\* Ranks of entries: loaders come before what they load, and lists are in
\* order.
Ranks(E, M, rank) ==
  /\ \A c \in Cells : E[c] # Free /\ E[c].parent \in Cells /\ E[E[c].parent] # Free =>
       rank[E[c].parent] < rank[c]
  /\ \A r \in Regions : \A i, j \in 1..Len(M[r]) : i < j => rank[M[r][i]] < rank[M[r][j]]

Ordered(E, M) == \E n \in Nat : \E rank \in [Cells -> 0..n] : Ranks(E, M, rank)

\* The reload that frame f goes on with: its module has no loader; in the list s
\* the entry that it remembers is the k-th, what was behind the old module and
\* the new one come later, and what was before it does not.
ReloadFits(E, s, f) ==
  /\ E[f.e].path = f.reload /\ E[f.e].parent = NULL
  /\ f.e \notin ToSet(f.seen)
  /\ \A x \in ToSet(f.was) \cup ToSet(f.seen) : x \in Cells => E[x] # Free
  /\ \E k \in 0..Len(s) :
       /\ k = 0 => f.after = NULL
       /\ k # 0 => f.after = s[k]
       /\ \A j \in 1..k : s[j] \notin ToSet(f.seen) /\ s[j] # f.e
       /\ \A j \in k+1..Len(s) : s[j] \notin ToSet(f.was)

\* A reload was begun by the host, so that there is one at most.
ReloadsFit(E, M, fs) ==
  \A i \in 1..Len(fs) : fs[i].kind = "install" /\ fs[i].reload # NULL =>
    /\ \A j \in 1..i-1 : fs[j].kind = "scope"
    /\ ReloadFits(E, M[fs[i].saved.id], fs[i])

\* A call from region r is in progress.
InCall(fs, r) == \E i \in 1..Len(fs) : fs[i].kind = "body" /\ fs[i].at = r

\* Slots are kept for calls in progress only, and none of their modules goes.
SlotsInUse(sl, fs) ==
  \A r \in Regions :
    /\ Dangling \notin ToSet(sl[r])
    /\ sl[r] # <<>> => InCall(fs, r)

\* All of this.
Steady(E, M, fs, sl) == Ordered(E, M) /\ ReloadsFit(E, M, fs) /\ SlotsInUse(sl, fs)

\* The listeners of each region.
Heard == [r \in Regions |-> Listeners(r)]

\* The call of frame f walks the listeners l, which are in the slots s, and has
\* run f.i of them.
CallFits(f, l, s) ==
  /\ f.was = l /\ f.n = Len(l) /\ Len(f.seen) = f.i
  /\ \A k \in 1..f.n : s[k] = l[k]
  /\ \A k \in 1..f.i : f.seen[k] = l[k]

\* Calls in progress walk the listeners ls there are; no module is being loaded
\* on top of one.
CallsFit(fs, sl, ls) ==
  \A i \in 1..Len(fs) : fs[i].kind = "body" =>
    /\ \A j \in i..Len(fs) : fs[j].kind # "install"
    /\ CallFits(fs[i], ls[fs[i].at], sl[fs[i].at])

-----------------------------------------------------------------------------
(* The tree. *)

\* A tree of one region.
LEMMA LoneRoot ==
  ASSUME NEW A, NEW K, A = [r \in Regions |-> IF r = Root THEN {Root} ELSE {}],
         K = [r \in Regions |-> <<>>]
  PROVE  TreeFits({Root}, A, K)
<1> DEFINE B == Trees({Root}, A)
<1>0. Root \in Regions
  BY SetAssumption
<1>1. B = [n \in {Root} |-> {Root}]
  <2>1. \A n \in {Root} : {x \in {Root} : n \in A[x]} = {Root}
    BY <1>0
  <2> QED BY <2>1 DEF Trees
<1>2. /\ IsFiniteSet({Root}) /\ A \in [Regions -> SUBSET Regions]
      /\ K \in [Regions -> Seq(Regions)] /\ A[Root] = {Root} /\ DOMAIN K[Root] = {}
  BY <1>0, FS_Singleton
<1> HIDE DEF B
<1>3. IsForest({Root}, K, B)
  BY <1>1, <1>2 DEF IsForest
<1>4. Covers({Root}, K, B)
  <2>1. B[Root] = {Root}
    BY <1>1
  <2>2. UNION {B[K[Root][i]] : i \in DOMAIN K[Root]} = {}
    BY <1>2
  <2>3. B[Root] = {Root} \cup UNION {B[K[Root][i]] : i \in DOMAIN K[Root]}
    BY <2>1, <2>2
  <2> QED BY <2>3 DEF Covers
<1>5. \A n \in {Root} : \A i, j \in DOMAIN K[n] : i # j => B[K[n][i]] \cap B[K[n][j]] = {}
  BY <1>2
<1>6. \A x \in Regions \ {Root} : K[x] = <<>>
  OBVIOUS
<1> QED BY <1>0, <1>2, <1>3, <1>4, <1>5, <1>6 DEF TreeFits, B

\* A new region r becomes the first child of q (_xy_claim_for_load).
LEMMA TreeGrows ==
  ASSUME NEW L, NEW A, NEW K, TreeFits(L, A, K), NEW q \in L, NEW r \in Regions \ L,
         NEW A1, A1 = [A EXCEPT ![r] = A[q] \cup {r}],
         NEW K1, K1 = [K EXCEPT ![q] = <<r>> \o K[q]]
  PROVE  TreeFits(L \cup {r}, A1, K1)
<1> DEFINE B == Trees(L, A)
           L1 == L \cup {r}
           B1 == Trees(L1, A1)
<1>0. /\ L \subseteq Regions /\ Root \in L /\ IsFiniteSet(L) /\ q \in Regions /\ q # r
      /\ A \in [Regions -> SUBSET Regions] /\ K \in [Regions -> Seq(Regions)]
      /\ \A x \in L : x \in A[x] /\ A[x] \subseteq L
      /\ \A x \in Regions \ L : K[x] = <<>>
      /\ IsForest(L, K, B) /\ Covers(L, K, B)
      /\ \A n \in L : \A i, j \in DOMAIN K[n] : i # j => B[K[n][i]] \cap B[K[n][j]] = {}
  BY DEF TreeFits
<1>1. /\ A1 \in [Regions -> SUBSET Regions] /\ A1[r] = A[q] \cup {r}
      /\ \A x \in L : A1[x] = A[x]
  BY <1>0
<1>2. /\ K1[q] \in Seq(Regions) /\ Len(K1[q]) = Len(K[q]) + 1 /\ K1[q][1] = r
      /\ \A i \in 1..Len(K[q]) : K1[q][i + 1] = K[q][i]
  <2> DEFINE k == K[q]
  <2>1. k \in Seq(Regions)
    BY <1>0
  <2>2. K1[q] = <<r>> \o k
    BY <1>0
  <2> HIDE DEF k
  <2>3. <<r>> \o k \in Seq(Regions) /\ Len(<<r>> \o k) = Len(k) + 1 /\ (<<r>> \o k)[1] = r
        /\ \A i \in 1..Len(k) : (<<r>> \o k)[i + 1] = k[i]
    BY <2>1
  <2> QED BY <2>2, <2>3 DEF k
<1>3. /\ K1 \in [Regions -> Seq(Regions)]
      /\ \A x \in Regions : x # q => K1[x] = K[x]
  <2>1. <<r>> \o K[q] \in Seq(Regions)
    BY <1>0
  <2> QED BY <1>0, <2>1
<1>4. \A n \in L : \A x : x \in B[n] <=> x \in L /\ n \in A[x]
  BY DEF Trees
<1>5. \A n \in L : \A x : x \in B1[n] <=> x \in B[n] \/ (x = r /\ q \in B[n])
  <2> TAKE n \in L
  <2>1. \A x : x \in B1[n] <=> x \in L1 /\ n \in A1[x]
    BY DEF Trees
  <2> HIDE DEF B1, B
  <2> QED BY <1>0, <1>1, <1>4, <2>1
<1>6. \A x : x \in B1[r] <=> x = r
  <2>1. \A x : x \in B1[r] <=> x \in L1 /\ r \in A1[x]
    BY DEF Trees
  <2> HIDE DEF B1, B
  <2> QED BY <1>0, <1>1, <2>1
<1> HIDE DEF B, B1
<1>f. /\ \A n \in L : n \in B[n] /\ B[n] \subseteq L
      /\ \A n \in L : \A i \in DOMAIN K[n] : K[n][i] \in B[n] \ {n}
      /\ \A n \in L : \A x \in B[n] \ {n} : B[x] \subseteq B[n] \ {n}
  BY <1>0 DEF IsForest
<1>c. \A n \in L : B[n] = {n} \cup UNION {B[K[n][i]] : i \in DOMAIN K[n]}
  BY <1>0 DEF Covers
<1>d. /\ \A n \in L : n # q => DOMAIN K1[n] = DOMAIN K[n] /\ K1[n] = K[n]
      /\ DOMAIN K[q] = 1..Len(K[q]) /\ DOMAIN K1[q] = 1..Len(K[q])+1 /\ Len(K[q]) \in Nat
      /\ DOMAIN K1[r] = {}
  <2>1. K[q] \in Seq(Regions) /\ K1[q] \in Seq(Regions)
    BY <1>0, <1>2
  <2>2. K1[r] = <<>>
    BY <1>0, <1>3
  <2> QED BY <1>0, <1>2, <1>3, <2>1, <2>2
<1>7. IsFiniteSet(L1)
  BY <1>0, FS_AddElement
<1>8. \A n \in L1 : n \in B1[n] /\ B1[n] \subseteq L1 /\ IsFiniteSet(B1[n])
  <2> TAKE n \in L1
  <2>1. n \in B1[n] /\ B1[n] \subseteq L1
    BY <1>5, <1>6, <1>f
  <2> QED BY <1>7, <2>1, FS_Subset
\* The children of n are its old ones, and r if n is q.
<1>9. \A n \in L : \A i \in DOMAIN K1[n] :
        \/ n = q /\ i = 1 /\ K1[n][i] = r
        \/ n = q /\ i > 1 /\ i - 1 \in DOMAIN K[n] /\ K1[n][i] = K[n][i-1]
        \/ n # q /\ i \in DOMAIN K[n] /\ K1[n][i] = K[n][i]
  <2> TAKE n \in L
  <2> TAKE i \in DOMAIN K1[n]
  <2>1. CASE n # q
    BY <1>d, <2>1
  <2>2. CASE n = q /\ i = 1
    BY <1>2, <2>2
  <2>3. CASE n = q /\ i # 1
    <3>1. i - 1 \in 1..Len(K[q]) /\ i > 1 /\ (i - 1) + 1 = i
      BY <1>d, <2>3
    <3>2. K1[q][(i-1)+1] = K[q][i-1]
      BY <1>2, <3>1
    <3> QED BY <1>d, <2>3, <3>1, <3>2
  <2> QED BY <2>1, <2>2, <2>3
<1>10. \A n \in L : \A i \in DOMAIN K[n] : \E j \in DOMAIN K1[n] : K1[n][j] = K[n][i]
  <2> TAKE n \in L
  <2> TAKE i \in DOMAIN K[n]
  <2>1. CASE n # q
    BY <1>d, <2>1
  <2>2. CASE n = q
    <3>1. i + 1 \in DOMAIN K1[q] /\ K1[q][i+1] = K[q][i]
      BY <1>2, <1>d, <2>2
    <3> QED BY <2>2, <3>1
  <2> QED BY <2>1, <2>2
<1>11. IsForest(L1, K1, B1)
  <2>1. \A n \in L1 : \A i \in DOMAIN K1[n] : K1[n][i] \in B1[n] \ {n}
    <3> SUFFICES ASSUME NEW n \in L1, NEW i \in DOMAIN K1[n] PROVE K1[n][i] \in B1[n] \ {n}
      OBVIOUS
    <3>1. n \in L
      BY <1>d
    <3>2. (K1[n][i] = r /\ n = q) \/ \E j \in DOMAIN K[n] : K1[n][i] = K[n][j]
      BY <1>9, <3>1
    <3> QED BY <1>0, <1>5, <1>f, <3>1, <3>2
  <2>2. \A n \in L1 : \A x \in B1[n] \ {n} : B1[x] \subseteq B1[n] \ {n}
    <3> SUFFICES ASSUME NEW n \in L1, NEW x \in B1[n] \ {n}, NEW y \in B1[x]
                 PROVE  y \in B1[n] \ {n}
      OBVIOUS
    <3>1. n \in L
      BY <1>6
    <3>2. CASE x = r
      BY <1>6, <3>1, <3>2
    <3>3. CASE x # r
      <4>1. x \in B[n] \ {n} /\ x \in L /\ B[x] \subseteq B[n] \ {n}
        BY <1>5, <1>f, <3>1, <3>3
      <4>2. y \in B[x] \/ (y = r /\ q \in B[x])
        BY <1>5, <4>1
      <4> QED BY <1>5, <3>1, <4>1, <4>2
    <3> QED BY <3>2, <3>3
  <2> QED BY <1>8, <2>1, <2>2 DEF IsForest
<1>12. Covers(L1, K1, B1)
  <2> SUFFICES ASSUME NEW n \in L1
               PROVE  B1[n] = {n} \cup UNION {B1[K1[n][i]] : i \in DOMAIN K1[n]}
    BY DEF Covers
  <2>1. ASSUME NEW x \in B1[n], x # n
        PROVE  \E i \in DOMAIN K1[n] : x \in B1[K1[n][i]]
    <3>1. n \in L
      BY <1>6, <2>1
    <3>2. CASE x \in B[n]
      <4>1. PICK i \in DOMAIN K[n] : x \in B[K[n][i]]
        BY <1>c, <2>1, <3>1, <3>2
      <4>2. PICK j \in DOMAIN K1[n] : K1[n][j] = K[n][i]
        BY <1>10, <3>1
      <4>3. K[n][i] \in L
        BY <1>f, <3>1
      <4> QED BY <1>5, <4>1, <4>2, <4>3
    <3>3. CASE x = r /\ n = q
      <4>1. 1 \in DOMAIN K1[n] /\ K1[n][1] = r
        BY <1>2, <1>d, <3>3
      <4> QED BY <1>6, <3>3, <4>1
    <3>4. CASE x = r /\ n # q /\ q \in B[n]
      <4>1. PICK i \in DOMAIN K[n] : q \in B[K[n][i]]
        BY <1>c, <3>1, <3>4
      <4>2. PICK j \in DOMAIN K1[n] : K1[n][j] = K[n][i]
        BY <1>10, <3>1
      <4>3. K[n][i] \in L
        BY <1>f, <3>1
      <4> QED BY <1>5, <3>4, <4>1, <4>2, <4>3
    <3> QED BY <1>5, <2>1, <3>1, <3>2, <3>3, <3>4
  <2>2. \A i \in DOMAIN K1[n] : B1[K1[n][i]] \subseteq B1[n]
    BY <1>11 DEF IsForest
  <2> QED BY <1>8, <2>1, <2>2
<1>13. ASSUME NEW n \in L1, NEW i \in DOMAIN K1[n], NEW j \in DOMAIN K1[n], i # j
       PROVE  B1[K1[n][i]] \cap B1[K1[n][j]] = {}
  <2> SUFFICES ASSUME NEW x, x \in B1[K1[n][i]], x \in B1[K1[n][j]] PROVE FALSE
    OBVIOUS
  <2>0. n \in L
    BY <1>d, <1>13
  <2>2. CASE n # q
    <3>1. i \in DOMAIN K[n] /\ j \in DOMAIN K[n] /\ K1[n][i] = K[n][i] /\ K1[n][j] = K[n][j]
      BY <1>d, <2>0, <2>2
    <3>2. K[n][i] \in L /\ K[n][j] \in L
      BY <1>f, <2>0, <3>1
    <3>3. B[K[n][i]] \cap B[K[n][j]] = {}
      BY <1>0, <1>13, <2>0, <3>1
    <3> QED BY <1>5, <3>1, <3>2, <3>3
  <2>3. CASE n = q
    <3>1. \A k \in DOMAIN K[n] : K[n][k] \in L /\ q \notin B[K[n][k]] /\ r \notin B1[K[n][k]]
      <4> TAKE k \in DOMAIN K[n]
      <4>1. K[n][k] \in L /\ B[K[n][k]] \subseteq B[n] \ {n}
        BY <1>f, <2>0
      <4> QED BY <1>5, <1>f, <2>3, <4>1
    <3>2. CASE i = 1
      <4>1. K1[n][i] = r /\ j > 1 /\ j - 1 \in DOMAIN K[n] /\ K1[n][j] = K[n][j-1]
        BY <1>9, <1>13, <2>0, <2>3, <3>2
      <4> QED BY <1>6, <3>1, <4>1
    <3>3. CASE j = 1
      <4>1. K1[n][j] = r /\ i > 1 /\ i - 1 \in DOMAIN K[n] /\ K1[n][i] = K[n][i-1]
        BY <1>9, <1>13, <2>0, <2>3, <3>3
      <4> QED BY <1>6, <3>1, <4>1
    <3>4. CASE i # 1 /\ j # 1
      <4>1. /\ i - 1 \in DOMAIN K[n] /\ K1[n][i] = K[n][i-1]
            /\ j - 1 \in DOMAIN K[n] /\ K1[n][j] = K[n][j-1] /\ i > 1 /\ j > 1
        BY <1>9, <2>0, <2>3, <3>4
      <4>2. i - 1 # j - 1
        BY <1>13, <1>d, <2>3
      <4>3. B[K[n][i-1]] \cap B[K[n][j-1]] = {}
        BY <1>0, <2>0, <4>1, <4>2
      <4>4. x \in B[K[n][i-1]] /\ x \in B[K[n][j-1]]
        BY <1>5, <3>1, <4>1
      <4> QED BY <4>3, <4>4
    <3> QED BY <3>2, <3>3, <3>4
  <2> QED BY <2>2, <2>3
<1>14. \A x \in L1 : x \in A1[x] /\ A1[x] \subseteq L1
  BY <1>0, <1>1
<1>15. \A x \in Regions \ L1 : K1[x] = <<>>
  BY <1>0, <1>3
<1>16. L1 \subseteq Regions /\ Root \in L1
  BY <1>0
<1> QED BY <1>1, <1>3, <1>7, <1>11, <1>12, <1>13, <1>14, <1>15, <1>16 DEF TreeFits, B1

-----------------------------------------------------------------------------
(* Entries and lookups. *)

\* An entry is not the mark of a free cell.
LEMMA EntryNotFree == \A x \in Entry : x # Free
<1> SUFFICES ASSUME NEW x \in Entry PROVE x # Free
  OBVIOUS
<1>1. x.path \in Paths
  BY DEF Entry
<1>2. Free.path = NULL
  BY DEF Free
<1> QED BY <1>1, <1>2, SetAssumption

\* Cells hold entries or are free.
LEMMA CellFacts ==
  ASSUME NEW E \in [Cells -> Entry \cup {Free}], NEW c \in Cells
  PROVE  E[c] # Free <=> E[c] \in Entry
BY EntryNotFree

\* A lookup finds the one entry of the path in the region, or there is none.
LEMMA LookupFacts ==
  ASSUME EntriesFit(ent, live), ListsFit(ent, mods), NEW p \in Paths, NEW r \in Regions
  PROVE  \/ /\ lookup(p, r) = NULL
            /\ \A c \in Cells : ~(ent[c] # Free /\ ent[c].path = p /\ ent[c].region = r)
         \/ /\ lookup(p, r) \in Cells /\ lookup(p, r) # NULL
            /\ ent[lookup(p, r)] \in Entry /\ ent[lookup(p, r)] # Free
            /\ ent[lookup(p, r)].path = p /\ ent[lookup(p, r)].region = r
            /\ lookup(p, r) \in ToSet(mods[r])
<1> DEFINE found == {c \in ToSet(mods[r]) : ent[c].path = p}
<1>1. mods[r] \in Seq(Cells)
  BY DEF ListsFit
<1>2. ToSet(mods[r]) \subseteq Cells
  BY <1>1 DEF ToSet
<1>3. \A c \in Cells : c \in ToSet(mods[r]) <=> ent[c] # Free /\ ent[c].region = r
  BY DEF ListsFit
<1>4. \A c : c \in found <=> c \in Cells /\ ent[c] # Free /\ ent[c].region = r /\ ent[c].path = p
  BY <1>2, <1>3
<1>5. CASE found = {}
  BY <1>4, <1>5 DEF lookup
<1>6. CASE found # {}
  <2>1. lookup(p, r) \in found
    BY <1>6 DEF lookup
  <2> HIDE DEF found
  <2>2. lookup(p, r) \in Cells /\ ent[lookup(p, r)] # Free
    BY <1>4, <2>1
  <2>3. ent[lookup(p, r)] \in Entry
    BY <2>2, CellFacts DEF EntriesFit
  <2> QED BY <1>3, <1>4, <2>1, <2>2, <2>3, SetAssumption
<1> QED BY <1>5, <1>6

-----------------------------------------------------------------------------
(* Cascades. *)

\* One unfolding of the recursion in Doomed.
DoomStep(e, f, n) ==
  [i \in 0..n |-> IF i = 0 THEN {e}
                  ELSE f[i-1] \cup {m \in Loaded : /\ ent[m].parent \in f[i-1]
                                                   /\ ent[m].refs = 1 /\ Listens(m)}]

\* The recursion in Doomed has a solution, and Doomed is its last value.
LEMMA DoomedDefined ==
  ASSUME NEW e
  PROVE  \E f : f = DoomStep(e, f, Cardinality(Cells)) /\ Doomed(e) = f[Cardinality(Cells)]
<1> DEFINE Good == {n \in Nat : \E f : f = DoomStep(e, f, n)}
           got(S) == {m \in Loaded : ent[m].parent \in S /\ ent[m].refs = 1 /\ Listens(m)}
<1>0. \A f, n : DoomStep(e, f, n) = [i \in 0..n |-> IF i = 0 THEN {e} ELSE f[i-1] \cup got(f[i-1])]
  BY DEF DoomStep
<1> HIDE DEF got
<1>1. 0 \in Good
  <2> DEFINE g == [i \in 0..0 |-> {e}]
  <2>1. g = [i \in 0..0 |-> IF i = 0 THEN {e} ELSE g[i-1] \cup got(g[i-1])]
    OBVIOUS
  <2> HIDE DEF g
  <2>2. g = DoomStep(e, g, 0)
    BY <1>0, <2>1
  <2> QED BY <2>2
<1>2. \A n \in Nat : n \in Good => n + 1 \in Good
  <2> SUFFICES ASSUME NEW n \in Nat, NEW f, f = DoomStep(e, f, n)
               PROVE  \E g : g = DoomStep(e, g, n + 1)
    OBVIOUS
  <2> DEFINE new == f[n] \cup got(f[n])
             g == [i \in 0..n+1 |-> IF i = n + 1 THEN new ELSE f[i]]
  <2>0. f = [i \in 0..n |-> IF i = 0 THEN {e} ELSE f[i-1] \cup got(f[i-1])]
    BY <1>0
  <2>1. \A i \in 0..n : f[i] = IF i = 0 THEN {e} ELSE f[i-1] \cup got(f[i-1])
    BY <2>0
  <2>2. \A i \in 0..n : g[i] = f[i]
    OBVIOUS
  <2>3. g[n+1] = new /\ DOMAIN g = 0..n+1
    OBVIOUS
  <2>4. \A i \in 0..n+1 : g[i] = IF i = 0 THEN {e} ELSE g[i-1] \cup got(g[i-1])
    <3> TAKE i \in 0..n+1
    <3>1. CASE i = n + 1
      <4>1. i # 0 /\ i - 1 = n /\ n \in 0..n
        BY <3>1
      <4>2. g[i-1] = f[n]
        BY <2>2, <4>1
      <4> QED BY <2>3, <3>1, <4>1, <4>2
    <3>2. CASE i = 0
      <4>1. 0 \in 0..n
        OBVIOUS
      <4>2. f[0] = {e} /\ g[0] = f[0]
        BY <2>1, <2>2, <4>1
      <4> HIDE DEF g, new
      <4> QED BY <3>2, <4>2
    <3>3. CASE i \in 1..n
      <4>1. i \in 0..n /\ i - 1 \in 0..n /\ i # 0
        BY <3>3
      <4>2. g[i] = f[i] /\ g[i-1] = f[i-1]
        BY <2>2, <4>1
      <4> QED BY <2>1, <4>1, <4>2
    <3> QED BY <3>1, <3>2, <3>3
  <2>5. g = [i \in 0..n+1 |-> g[i]]
    OBVIOUS
  <2> HIDE DEF g, new
  <2>6. g = [i \in 0..n+1 |-> IF i = 0 THEN {e} ELSE g[i-1] \cup got(g[i-1])]
    BY <2>4, <2>5
  <2>7. g = DoomStep(e, g, n + 1)
    BY <1>0, <2>6
  <2> QED BY <2>7
<1>3. \A n \in Nat : n \in Good
  <2> HIDE DEF Good
  <2> QED BY <1>1, <1>2, SetInduction
<1>4. Cardinality(Cells) \in Nat
  BY SetAssumption, FS_CardinalityType
<1>5. \E f : f = DoomStep(e, f, Cardinality(Cells))
  BY <1>3, <1>4
<1> DEFINE d == CHOOSE f : f = DoomStep(e, f, Cardinality(Cells))
<1>6. d = DoomStep(e, d, Cardinality(Cells))
  BY <1>5
<1>7. Doomed(e) = d[Cardinality(Cells)]
  BY DEF Doomed, DoomStep
<1> HIDE DEF d
<1> QED BY <1>6, <1>7

\* A cascade stays inside whatever holds the entry it starts from and every
\* entry it could go on to; and it goes on to all of these.
LEMMA DoomedFacts ==
  ASSUME NEW e \in Loaded
  PROVE  /\ e \in Doomed(e) /\ Doomed(e) \subseteq Loaded
         /\ \A m \in Loaded : ent[m].parent \in Doomed(e) /\ ent[m].refs = 1 /\ Listens(m)
              => m \in Doomed(e)
         /\ \A m \in Doomed(e) : m # e =>
              ent[m].parent \in Doomed(e) /\ ent[m].refs = 1 /\ Listens(m)
         /\ \A S : /\ e \in S
                   /\ \A m \in Loaded : /\ ent[m].parent \in S \cap Loaded
                                        /\ ent[m].refs = 1 /\ Listens(m)
                                        => m \in S
                   => Doomed(e) \subseteq S
<1> DEFINE N == Cardinality(Cells)
           T == Loaded
           got == [S \in SUBSET T |->
                     {m \in T : ent[m].parent \in S /\ ent[m].refs = 1 /\ Listens(m)}]
<1>1. PICK f : f = DoomStep(e, f, N) /\ Doomed(e) = f[N]
  BY DoomedDefined
<1>2. N \in Nat
  BY SetAssumption, FS_CardinalityType
<1>3. f[0] = {e}
  BY <1>1, <1>2 DEF DoomStep
<1>4. \A n \in 0..N : n < N => f[n+1] =
        f[n] \cup {m \in T : ent[m].parent \in f[n] /\ ent[m].refs = 1 /\ Listens(m)}
  <2> SUFFICES ASSUME NEW n \in 0..N, n < N
               PROVE  f[n+1] =
                 f[n] \cup {m \in T : ent[m].parent \in f[n] /\ ent[m].refs = 1 /\ Listens(m)}
    OBVIOUS
  <2>1. n + 1 \in 0..N /\ n + 1 # 0 /\ (n + 1) - 1 = n
    BY <1>2
  <2>2. \A i \in 0..N : i # 0 => f[i] =
          f[i-1] \cup {m \in T : ent[m].parent \in f[i-1] /\ ent[m].refs = 1 /\ Listens(m)}
    <3> DEFINE F == DoomStep(e, f, N)
    <3>1. \A i \in 0..N : i # 0 => F[i] =
            f[i-1] \cup {m \in T : ent[m].parent \in f[i-1] /\ ent[m].refs = 1 /\ Listens(m)}
      BY DEF DoomStep
    <3> HIDE DEF F
    <3>2. \A i \in 0..N : f[i] = F[i]
      BY <1>1 DEF F
    <3> QED BY <3>1, <3>2
  <2>3. f[n+1] =
          f[(n+1)-1] \cup {m \in T : ent[m].parent \in f[(n+1)-1] /\ ent[m].refs = 1 /\ Listens(m)}
    BY <2>1, <2>2
  <2> QED BY <2>1, <2>3
<1>5. IsFiniteSet(T) /\ Cardinality(T) <= N
  BY SetAssumption, FS_Subset DEF Loaded
<1>6. e \in T
  OBVIOUS
<1> HIDE DEF T, N
<1>7. \A S \in SUBSET T : got[S] = {m \in T : ent[m].parent \in S /\ ent[m].refs = 1 /\ Listens(m)}
  OBVIOUS
<1>8. got \in [SUBSET T -> SUBSET T] /\ got[{}] = {}
  OBVIOUS
<1> HIDE DEF got
<1> DEFINE Q(U) == /\ U \in SUBSET T /\ e \in U
                   /\ \A m \in U : m # e => ent[m].parent \in U /\ ent[m].refs = 1 /\ Listens(m)
                   /\ \A S : /\ e \in S
                             /\ \A m \in T : /\ ent[m].parent \in S \cap T
                                             /\ ent[m].refs = 1 /\ Listens(m)
                                             => m \in S
                             => U \subseteq S
           P(n) == n <= N => Q(f[n])
           Good == {n \in Nat : P(n)}
<1>9. P(0)
  BY <1>3, <1>6
<1>10. ASSUME NEW n \in Nat, P(n) PROVE P(n + 1)
  <2> SUFFICES ASSUME n + 1 <= N PROVE Q(f[n+1])
    OBVIOUS
  <2>1. n \in 0..N /\ n < N /\ n <= N
    BY <1>2
  <2> DEFINE W == f[n]
             U == f[n+1]
  <2>2. U = W \cup {m \in T : ent[m].parent \in W /\ ent[m].refs = 1 /\ Listens(m)}
    BY <1>4, <2>1
  <2>3. Q(W)
    BY <1>10, <2>1
  <2> HIDE DEF W, U
  <2>4. Q(U)
    BY <2>2, <2>3
  <2> QED BY <2>4 DEF U
<1>11. \A n \in Nat : n \in Good
  <2> HIDE DEF P
  <2>1. 0 \in Good /\ \A n \in Nat : n \in Good => n + 1 \in Good
    BY <1>9, <1>10
  <2> HIDE DEF Good
  <2> QED BY <2>1, SetInduction
<1>12. \A n \in 0..N : Q(f[n])
  <2> SUFFICES ASSUME NEW n \in 0..N PROVE Q(f[n])
    OBVIOUS
  <2>1. n \in Good /\ n <= N
    BY <1>2, <1>11
  <2> HIDE DEF Q
  <2> QED BY <2>1
<1>13. \A n \in 0..N : f[n] \in SUBSET T
  BY <1>12
<1>14. \A n \in 0..N : n < N => f[n+1] = f[n] \cup got[f[n]]
  BY <1>4, <1>7, <1>13
<1>15. got[f[N]] \subseteq f[N]
  BY <1>2, <1>5, <1>8, <1>13, <1>14, ChainStops
<1>16. N \in 0..N
  BY <1>2
<1> DEFINE D == f[N]
<1>17. Q(D)
  BY <1>12, <1>16
<1>18. {m \in T : ent[m].parent \in D /\ ent[m].refs = 1 /\ Listens(m)} \subseteq D
  BY <1>7, <1>15, <1>17
<1>19. Doomed(e) = D
  BY <1>1
<1> HIDE DEF D
<1>20. \A m \in T : ent[m].parent \in D /\ ent[m].refs = 1 /\ Listens(m) => m \in D
  BY <1>18
<1> QED BY <1>17, <1>19, <1>20 DEF T

-----------------------------------------------------------------------------
(* Freeing entries. *)

\* Entries outside D are in E what they were, but for their counts.
Kept(E, D) ==
  \A c \in Cells \ D : ent[c] # Free =>
    /\ E[c] # Free /\ E[c].path = ent[c].path /\ E[c].region = ent[c].region
    /\ E[c].img = ent[c].img /\ E[c].parent = ent[c].parent

\* D is closed under the cascade, so that whatever loses a reference to an
\* entry of D has another.
Closed(D) ==
  /\ D \subseteq Loaded
  /\ \A m \in Loaded : ent[m].parent \in D /\ ent[m].refs = 1 /\ Listens(m) => m \in D

\* The entries that are left when D goes.
LEMMA WithoutEntries ==
  ASSUME EntriesFit(ent, live), NEW D, Closed(D)
  PROVE  LET E == Without(D).ent
         IN  /\ \A c \in Cells : E[c] # Free <=> ent[c] # Free /\ c \notin D
             /\ \A c \in Cells : E[c] # Free =>
                  /\ E[c] \in Entry
                  /\ E[c].path = ent[c].path /\ E[c].region = ent[c].region
                  /\ E[c].img = ent[c].img /\ E[c].parent = ent[c].parent
                  /\ E[c].shared = ent[c].shared
                  /\ E[c].refs = IF ent[c].parent \in D /\ Listens(c)
                                 THEN ent[c].refs - 1 ELSE ent[c].refs
             /\ EntriesFit(E, live) /\ Kept(E, D)
<1> DEFINE E == Without(D).ent
           Lost(c) == [ent[c] EXCEPT !.refs = IF Listens(c) THEN @ - 1 ELSE @, !.stale = TRUE]
           Row(c) == CASE c \in D -> Free
                       [] c \notin D /\ ent[c] # Free /\ ent[c].parent \in D -> Lost(c)
                       [] OTHER -> ent[c]
<1>1. E = [c \in Cells |-> Row(c)]
  BY DEF Without
<1>2. /\ ent \in [Cells -> Entry \cup {Free}] /\ MaxRefs \in Nat
      /\ \A c \in Cells : ent[c] # Free <=> ent[c] \in Entry
      /\ \A c \in Cells : ent[c] # Free =>
           /\ ent[c].region \in live /\ ent[c].img \in {c, ent[c].path}
           /\ ent[c].refs > 1 => ent[c].shared
           /\ ent[c].stale => ent[c].shared \/ ent[c].path \in Bare
  BY CellFacts, SetAssumption DEF EntriesFit
<1>3. ASSUME NEW c \in Cells
      PROVE  /\ c \in D => E[c] = Free
             /\ c \notin D /\ ent[c] # Free /\ ent[c].parent \in D => E[c] = Lost(c)
             /\ c \notin D /\ ~(ent[c] # Free /\ ent[c].parent \in D) => E[c] = ent[c]
  <2>1. E[c] = Row(c)
    BY <1>1
  <2> HIDE DEF E, Lost
  <2>2. CASE c \in D
    BY <2>1, <2>2
  <2>3. CASE c \notin D /\ ent[c] # Free /\ ent[c].parent \in D
    BY <2>1, <2>3
  <2>4. CASE c \notin D /\ ~(ent[c] # Free /\ ent[c].parent \in D)
    BY <2>1, <2>4
  <2> QED BY <2>2, <2>3, <2>4
<1>4. ASSUME NEW c \in Cells, c \notin D, ent[c] # Free, ent[c].parent \in D
      PROVE  /\ Lost(c) \in Entry
             /\ Lost(c).path = ent[c].path /\ Lost(c).region = ent[c].region
             /\ Lost(c).img = ent[c].img /\ Lost(c).parent = ent[c].parent
             /\ Lost(c).shared = ent[c].shared
             /\ Lost(c).refs = IF Listens(c) THEN ent[c].refs - 1 ELSE ent[c].refs
             /\ Lost(c).refs > 1 => ent[c].shared
             /\ ent[c].shared \/ ent[c].path \in Bare
  <2> DEFINE x == ent[c]
             n == IF Listens(c) THEN x.refs - 1 ELSE x.refs
  <2>1. x \in Entry /\ (x.refs > 1 => x.shared)
    BY <1>2, <1>4
  <2>2. x.refs \in 1..MaxRefs
    BY <2>1 DEF Entry
  <2>3. Listens(c) => x.refs # 1
    BY <1>4 DEF Closed, Loaded
  <2>4. Lost(c) = [x EXCEPT !.refs = n, !.stale = TRUE]
    OBVIOUS
  <2>5. x.path \in Bare \/ Listens(c)
    BY DEF Listens
  <2> HIDE DEF x, Lost
  <2>6. n \in 1..MaxRefs /\ (Listens(c) => x.refs > 1) /\ (n > 1 => x.refs > 1)
    BY <1>2, <2>2, <2>3
  <2> HIDE DEF n
  <2>7. /\ Lost(c) \in Entry /\ Lost(c).path = x.path /\ Lost(c).region = x.region
        /\ Lost(c).img = x.img /\ Lost(c).parent = x.parent /\ Lost(c).shared = x.shared
        /\ Lost(c).refs = n
    BY <2>1, <2>4, <2>6 DEF Entry
  <2> QED BY <2>1, <2>5, <2>6, <2>7 DEF x, n
<1> HIDE DEF Lost
<1>5. \A c \in Cells : E[c] # Free <=> ent[c] # Free /\ c \notin D
  <2> TAKE c \in Cells
  <2>1. CASE c \notin D /\ ent[c] # Free /\ ent[c].parent \in D
    BY <1>3, <1>4, <2>1, EntryNotFree
  <2>2. CASE ~(c \notin D /\ ent[c] # Free /\ ent[c].parent \in D)
    BY <1>3, <2>2
  <2> QED BY <2>1, <2>2
<1>6. ASSUME NEW c \in Cells, E[c] # Free
      PROVE  /\ E[c] \in Entry
             /\ E[c].path = ent[c].path /\ E[c].region = ent[c].region
             /\ E[c].img = ent[c].img /\ E[c].parent = ent[c].parent
             /\ E[c].shared = ent[c].shared
             /\ E[c].refs = IF ent[c].parent \in D /\ Listens(c)
                            THEN ent[c].refs - 1 ELSE ent[c].refs
             /\ E[c].refs > 1 => ent[c].shared
             /\ E[c].stale => ent[c].shared \/ ent[c].path \in Bare
  <2>1. c \notin D /\ ent[c] # Free
    BY <1>5, <1>6
  <2>2. CASE ent[c].parent \in D
    <3>1. E[c] = Lost(c)
      BY <1>3, <2>1, <2>2
    <3> QED BY <1>4, <2>1, <2>2, <3>1
  <2>3. CASE ent[c].parent \notin D
    <3>1. E[c] = ent[c]
      BY <1>3, <2>1, <2>3
    <3> QED BY <1>2, <2>1, <2>3, <3>1
  <2> QED BY <2>2, <2>3
<1>7. E = [c \in Cells |-> E[c]]
  BY <1>1
<1> HIDE DEF E
<1>8. E \in [Cells -> Entry \cup {Free}]
  BY <1>6, <1>7
<1>9. EntriesFit(E, live)
  BY <1>2, <1>5, <1>6, <1>8 DEF EntriesFit
<1>10. Kept(E, D)
  BY <1>5, <1>6 DEF Kept
<1> QED BY <1>5, <1>6, <1>9, <1>10 DEF E

\* The lists when D is gone.
LEMMA WithoutLists ==
  ASSUME EntriesFit(ent, live), ListsFit(ent, mods), NEW D, Closed(D)
  PROVE  ListsFit(Without(D).ent, Without(D).mods)
<1> DEFINE E == Without(D).ent
           M == Without(D).mods
<1>1. /\ \A c \in Cells : E[c] # Free <=> ent[c] # Free /\ c \notin D
      /\ \A c \in Cells : E[c] # Free =>
           E[c].path = ent[c].path /\ E[c].region = ent[c].region
  BY WithoutEntries
<1>2. M = [r \in Regions |-> Only(mods[r], Cells \ D)]
  BY DEF Without
<1> HIDE DEF E, M
<1>3. ASSUME NEW r \in Regions
      PROVE  /\ M[r] \in Seq(Cells) /\ IsInjective(M[r])
             /\ ToSet(M[r]) = ToSet(mods[r]) \cap (Cells \ D)
  <2>1. mods[r] \in Seq(Cells) /\ IsInjective(mods[r])
    BY DEF ListsFit
  <2>2. M[r] = Only(mods[r], Cells \ D)
    BY <1>2
  <2> QED BY <2>1, <2>2, OnlyFacts
<1>4. M \in [Regions -> Seq(Cells)]
  <2>1. M = [r \in Regions |-> M[r]]
    BY <1>2
  <2> QED BY <1>3, <2>1
<1>5. \A r \in Regions, c \in Cells : c \in ToSet(M[r]) <=> E[c] # Free /\ E[c].region = r
  BY <1>1, <1>3 DEF ListsFit
<1>6. \A c, d \in Cells : /\ E[c] # Free /\ E[d] # Free
                          /\ E[c].path = E[d].path /\ E[c].region = E[d].region
                          => c = d
  BY <1>1 DEF ListsFit
<1> QED BY <1>3, <1>4, <1>5, <1>6 DEF ListsFit, E, M

\* A sequence of pointers when the cells D are freed.
LEMMA ScrubFacts ==
  ASSUME NEW s \in Seq(Slot), NEW D
  PROVE  /\ Scrub(s, D) \in Seq(Slot) /\ Len(Scrub(s, D)) = Len(s)
         /\ \A i \in 1..Len(s) : Scrub(s, D)[i] = After(s[i], D)
         /\ \A x \in ToSet(Scrub(s, D)) : x = Dangling \/ (x \in ToSet(s) /\ x \notin D)
<1>1. DOMAIN s = 1..Len(s) /\ Len(s) \in Nat /\ \A i \in 1..Len(s) : s[i] \in Slot
  OBVIOUS
<1>2. \A i \in 1..Len(s) : After(s[i], D) \in Slot
  BY <1>1 DEF After, Slot
<1>3. Scrub(s, D) = [i \in 1..Len(s) |-> After(s[i], D)]
  BY <1>1 DEF Scrub
<1>4. Scrub(s, D) \in Seq(Slot) /\ Len(Scrub(s, D)) = Len(s)
  BY <1>1, <1>2, <1>3
<1>5. \A i \in 1..Len(s) : Scrub(s, D)[i] = After(s[i], D)
  BY <1>3
<1>6. \A x \in ToSet(Scrub(s, D)) : x = Dangling \/ (x \in ToSet(s) /\ x \notin D)
  <2> SUFFICES ASSUME NEW x \in ToSet(Scrub(s, D))
               PROVE  x = Dangling \/ (x \in ToSet(s) /\ x \notin D)
    OBVIOUS
  <2>1. PICK i \in 1..Len(s) : x = After(s[i], D)
    BY <1>3 DEF ToSet
  <2>2. s[i] \in ToSet(s)
    BY <1>1 DEF ToSet
  <2> QED BY <2>1, <2>2 DEF After
<1> QED BY <1>4, <1>5, <1>6

\* The frames when the cells D are freed.
LEMMA FramesAfterFacts ==
  ASSUME frames \in Seq(Frame), NEW D
  PROVE  /\ FramesAfter(D) \in Seq(Frame) /\ Len(FramesAfter(D)) = Len(frames)
         /\ \A i \in 1..Len(frames) :
              LET f == frames[i]
                  g == FramesAfter(D)[i]
              IN  /\ g \in Frame
                  /\ g.kind = f.kind /\ g.saved = f.saved /\ g.loading = f.loading
                  /\ g.reload = f.reload /\ g.at = f.at /\ g.n = f.n /\ g.i = f.i
                  /\ g.changed = f.changed
                  /\ g.e = After(f.e, D) /\ g.after = After(f.after, D)
                  /\ g.was = Scrub(f.was, D) /\ g.seen = Scrub(f.seen, D)
<1> DEFINE G(f) == [f EXCEPT !.e = After(@, D), !.after = After(@, D),
                             !.was = Scrub(@, D), !.seen = Scrub(@, D)]
<1>1. ASSUME NEW f \in Frame
      PROVE  /\ G(f) \in Frame
             /\ G(f).kind = f.kind /\ G(f).saved = f.saved /\ G(f).loading = f.loading
             /\ G(f).reload = f.reload /\ G(f).at = f.at /\ G(f).n = f.n /\ G(f).i = f.i
             /\ G(f).changed = f.changed
             /\ G(f).e = After(f.e, D) /\ G(f).after = After(f.after, D)
             /\ G(f).was = Scrub(f.was, D) /\ G(f).seen = Scrub(f.seen, D)
  <2>1. f.e \in Ptr /\ f.after \in Ptr /\ f.was \in Seq(Slot) /\ f.seen \in Seq(Slot)
    BY DEF Frame
  <2>2. After(f.e, D) \in Ptr /\ After(f.after, D) \in Ptr
    BY <2>1 DEF After, Ptr
  <2>3. Scrub(f.was, D) \in Seq(Slot) /\ Scrub(f.seen, D) \in Seq(Slot)
    BY <2>1, ScrubFacts
  <2> DEFINE e1 == After(f.e, D)
             a1 == After(f.after, D)
             w1 == Scrub(f.was, D)
             s1 == Scrub(f.seen, D)
             g == G(f)
  <2>4. g = [f EXCEPT !.e = e1, !.after = a1, !.was = w1, !.seen = s1]
    OBVIOUS
  <2>5. e1 \in Ptr /\ a1 \in Ptr /\ w1 \in Seq(Slot) /\ s1 \in Seq(Slot)
    BY <2>2, <2>3
  <2> HIDE DEF e1, a1, w1, s1, g
  <2>6. g \in Frame
    BY <2>4, <2>5 DEF Frame
  <2>7. /\ g.kind = f.kind /\ g.saved = f.saved /\ g.loading = f.loading
        /\ g.reload = f.reload /\ g.at = f.at /\ g.n = f.n /\ g.i = f.i
        /\ g.changed = f.changed
    BY <2>4 DEF Frame
  <2>8. g.e = e1 /\ g.after = a1 /\ g.was = w1 /\ g.seen = s1
    BY <2>4 DEF Frame
  <2> QED BY <2>6, <2>7, <2>8 DEF e1, a1, w1, s1, g
<1>2. DOMAIN frames = 1..Len(frames) /\ Len(frames) \in Nat
      /\ \A i \in 1..Len(frames) : frames[i] \in Frame
  OBVIOUS
<1>3. FramesAfter(D) = [i \in 1..Len(frames) |-> G(frames[i])]
  BY <1>2 DEF FramesAfter
<1> HIDE DEF G
<1>4. FramesAfter(D) \in Seq(Frame) /\ Len(FramesAfter(D)) = Len(frames)
  BY <1>1, <1>2, <1>3
<1>5. \A i \in 1..Len(frames) : FramesAfter(D)[i] = G(frames[i])
  BY <1>3
<1> QED BY <1>1, <1>2, <1>4, <1>5

\* Frames, slots and contexts fit when the cells D are freed and what is left
\* is E.
LEMMA FreedFits ==
  ASSUME Sound, NEW E, NEW D, Kept(E, D), Freeable(D), D \subseteq Cells
  PROVE  /\ FramesFit(E, live, FramesAfter(D)) /\ LoadingFits(FramesAfter(D), loading)
         /\ SlotsFit(E, SlotsAfter(D), FramesAfter(D)) /\ ContextsTyped(CtxAfter(D), live)
<1> DEFINE fs == FramesAfter(D)
<1>0. Dangling \notin Cells /\ NULL \notin Cells /\ NULL # Dangling
  BY SetAssumption
<1>1. /\ frames \in Seq(Frame) /\ Len(frames) \in Nat
      /\ \A i \in 1..Len(frames) : frames[i] \in Frame /\ FrameFits(ent, live, frames[i])
  BY DEF Sound, FramesFit
<1>2. /\ fs \in Seq(Frame) /\ Len(fs) = Len(frames)
      /\ \A i \in 1..Len(frames) :
           LET f == frames[i]
               g == fs[i]
           IN  /\ g \in Frame
               /\ g.kind = f.kind /\ g.saved = f.saved /\ g.loading = f.loading
               /\ g.reload = f.reload /\ g.at = f.at /\ g.n = f.n /\ g.i = f.i
               /\ g.changed = f.changed
               /\ g.e = After(f.e, D) /\ g.after = After(f.after, D)
               /\ g.was = Scrub(f.was, D) /\ g.seen = Scrub(f.seen, D)
  BY <1>1, FramesAfterFacts
<1>3. \A i \in 1..Len(frames) : frames[i].kind = "install" => frames[i].e \notin D
  BY <1>1 DEF Freeable
<1> HIDE DEF fs
<1>4. FramesFit(E, live, fs)
  <2> SUFFICES ASSUME NEW i \in 1..Len(frames) PROVE FrameFits(E, live, fs[i])
    BY <1>2 DEF FramesFit
  <2> DEFINE f == frames[i]
             g == fs[i]
  <2>1. /\ f \in Frame /\ FrameFits(ent, live, f) /\ g.kind = f.kind /\ g.saved = f.saved
        /\ g.reload = f.reload /\ g.at = f.at /\ g.n = f.n /\ g.i = f.i
        /\ g.e = After(f.e, D) /\ g.after = After(f.after, D)
        /\ (f.kind = "install" => f.e \notin D)
    BY <1>1, <1>2, <1>3
  <2> HIDE DEF f, g
  <2>2. /\ g.e \in Cells => g.e = f.e /\ f.e \notin D
        /\ g.after \in Cells => g.after = f.after /\ f.after \notin D
        /\ (f.kind = "install" => g.e = f.e) /\ (f.e = NULL => g.e = NULL)
        /\ (f.e \in Slot => g.e \in Slot)
    BY <1>0, <2>1 DEF After, Slot
  <2>3. FrameFits(E, live, g)
    BY <2>1, <2>2 DEF FrameFits, Kept
  <2> QED BY <2>3 DEF g
<1>5. LoadingFits(fs, loading)
  <2>1. \A i \in 1..Len(frames) : /\ fs[i].kind = frames[i].kind
                                  /\ fs[i].loading = frames[i].loading
                                  /\ fs[i].kind = "install" => fs[i].e = frames[i].e
    BY <1>2, <1>3 DEF After
  <2>2. loading # NULL => \E i \in 1..Len(fs) : fs[i].kind = "install" /\ fs[i].e = loading
    BY <1>2, <2>1 DEF Sound, LoadingFits
  <2>3. ASSUME NEW i \in 1..Len(fs), fs[i].kind = "install", fs[i].loading # NULL
        PROVE  \E j \in 1..i-1 : fs[j].kind = "install" /\ fs[j].e = fs[i].loading
    <3>1. PICK j \in 1..i-1 : frames[j].kind = "install" /\ frames[j].e = frames[i].loading
      BY <1>2, <2>1, <2>3 DEF Sound, LoadingFits
    <3>2. j \in 1..Len(frames)
      BY <1>1, <1>2
    <3> QED BY <1>2, <2>1, <3>1, <3>2
  <2> QED BY <2>2, <2>3 DEF LoadingFits
<1>6. SlotsFit(E, SlotsAfter(D), fs)
  <2> DEFINE sl == SlotsAfter(D)
  <2>1. /\ slots \in [Regions -> Seq(Slot)]
        /\ \A r \in Regions : \A c \in ToSet(slots[r]) :
             c \in Cells => ent[c] # Free /\ ent[c].path \notin Bare
        /\ \A i \in 1..Len(frames) : frames[i].kind = "body" => frames[i].n <= Len(slots[frames[i].at])
    BY DEF Sound, SlotsFit
  <2>2. \A r \in Regions : sl[r] = Scrub(slots[r], D)
    BY DEF SlotsAfter
  <2>3. \A r \in Regions : /\ sl[r] \in Seq(Slot) /\ Len(sl[r]) = Len(slots[r])
                           /\ \A x \in ToSet(sl[r]) :
                                x = Dangling \/ (x \in ToSet(slots[r]) /\ x \notin D)
    BY <2>1, <2>2, ScrubFacts
  <2>4. sl = [r \in Regions |-> sl[r]]
    BY DEF SlotsAfter
  <2> HIDE DEF sl
  <2>5. sl \in [Regions -> Seq(Slot)]
    BY <2>3, <2>4
  <2>6. \A r \in Regions : \A c \in ToSet(sl[r]) : c \in Cells => E[c] # Free /\ E[c].path \notin Bare
    BY <1>0, <2>1, <2>3 DEF Kept
  <2>7. \A i \in 1..Len(fs) : fs[i].kind = "body" => fs[i].n <= Len(sl[fs[i].at])
    <3> SUFFICES ASSUME NEW i \in 1..Len(frames), frames[i].kind = "body"
                 PROVE  fs[i].n <= Len(sl[fs[i].at])
      BY <1>2
    <3>1. frames[i].at \in Regions
      BY <1>1 DEF FrameFits, Sound, TreeFits
    <3> QED BY <1>2, <2>1, <2>3, <3>1
  <2> QED BY <2>5, <2>6, <2>7 DEF SlotsFit, sl
<1>7. ContextsTyped(CtxAfter(D), live)
  <2>1. ctx \in [Paths \cup Cells -> Binding] /\ \A m \in Paths \cup Cells : ctx[m].region \in live
    BY DEF Sound, ContextsTyped
  <2>2. Unbound \in Binding /\ Unbound.region \in live
    BY SetAssumption DEF Unbound, Binding, Sound, TreeFits
  <2>3. CtxAfter(D) = [m \in Paths \cup Cells |-> IF Refers(m, D) THEN ctx[m] ELSE Unbound]
    BY <2>1 DEF CtxAfter
  <2> QED BY <2>1, <2>2, <2>3 DEF ContextsTyped
<1> QED BY <1>4, <1>5, <1>6, <1>7 DEF fs

\* The state after an unload of e, whether it frees anything or only counts.
LEMMA UnloadedFits ==
  ASSUME Sound, NEW e \in Loaded, Freeable(Dropped(e))
  PROVE  LET E == Unloaded(e).ent
             D == Dropped(e)
         IN  /\ EntriesFit(E, live) /\ ListsFit(E, Unloaded(e).mods)
             /\ FramesFit(E, live, FramesAfter(D)) /\ LoadingFits(FramesAfter(D), loading)
             /\ SlotsFit(E, SlotsAfter(D), FramesAfter(D)) /\ ContextsTyped(CtxAfter(D), live)
             /\ Kept(E, D) /\ D \subseteq Cells
             /\ \A c \in Cells : E[c] # Free <=> ent[c] # Free /\ c \notin D
<1> DEFINE E == Unloaded(e).ent
           M == Unloaded(e).mods
           D == Dropped(e)
<1>0. EntriesFit(ent, live) /\ ListsFit(ent, mods) /\ e \in Cells /\ ent[e] # Free
  BY DEF Sound, Loaded
<1>1. ent \in [Cells -> Entry \cup {Free}] /\ ent[e] \in Entry
  BY <1>0, CellFacts DEF EntriesFit
<1>2. ent[e].refs \in 1..MaxRefs /\ MaxRefs \in Nat
  BY <1>1, SetAssumption DEF Entry
<1>3. CASE ent[e].refs > 1
  <2> DEFINE x == [ent[e] EXCEPT !.refs = @ - 1]
  <2>1. E = [ent EXCEPT ![e] = x] /\ M = mods /\ D = {}
    BY <1>1, <1>3 DEF Unloaded, Dropped, Heap
  <2>2. /\ x \in Entry /\ x.path = ent[e].path /\ x.region = ent[e].region
        /\ x.img = ent[e].img /\ x.parent = ent[e].parent /\ x.shared = ent[e].shared
        /\ x.stale = ent[e].stale /\ x.refs = ent[e].refs - 1
    <3>1. ent[e].refs - 1 \in 1..MaxRefs
      BY <1>2, <1>3
    <3> QED BY <1>1, <3>1 DEF Entry
  <2>3. x # Free /\ (x.refs > 1 => ent[e].refs > 1)
    BY <1>2, <2>2, EntryNotFree
  <2> HIDE DEF E, M, D, x
  <2>4. /\ E \in [Cells -> Entry \cup {Free}] /\ E[e] = x
        /\ \A c \in Cells : c # e => E[c] = ent[c]
    BY <1>0, <1>1, <2>1, <2>2
  <2>5. Kept(E, D) /\ \A c \in Cells : E[c] # Free <=> ent[c] # Free
    BY <1>0, <2>2, <2>3, <2>4 DEF Kept
  <2>6. EntriesFit(E, live)
    <3> SUFFICES ASSUME NEW c \in Cells, E[c] # Free
                 PROVE  /\ E[c].region \in live /\ E[c].img \in {c, E[c].path}
                        /\ E[c].refs > 1 => E[c].shared
                        /\ E[c].stale => E[c].shared \/ E[c].path \in Bare
      BY <2>4 DEF EntriesFit
    <3>1. CASE c = e
      BY <1>0, <2>2, <2>3, <2>4, <3>1 DEF EntriesFit
    <3>2. CASE c # e
      BY <1>0, <2>4, <2>5, <3>2 DEF EntriesFit
    <3> QED BY <3>1, <3>2
  <2>7. \A c \in Cells : E[c].path = ent[c].path /\ E[c].region = ent[c].region
    BY <2>2, <2>4
  <2>8. ListsFit(E, M)
    BY <1>0, <2>1, <2>5, <2>7 DEF ListsFit
  <2>9. /\ Freeable(D) /\ D \subseteq Cells
        /\ \A c \in Cells : E[c] # Free <=> ent[c] # Free /\ c \notin D
    BY <2>1, <2>5 DEF D
  <2> QED BY <2>5, <2>6, <2>8, <2>9, FreedFits DEF E, M, D
<1>4. CASE ent[e].refs = 1
  <2>1. E = Without(D).ent /\ M = Without(D).mods /\ D = Doomed(e)
    BY <1>4 DEF Unloaded, Dropped
  <2>2. Closed(D) /\ D \subseteq Loaded
    BY <2>1, DoomedFacts DEF Closed
  <2> HIDE DEF E, M
  <2>3. EntriesFit(E, live) /\ ListsFit(E, M) /\ Kept(E, D)
    BY <1>0, <2>1, <2>2, WithoutEntries, WithoutLists
  <2>4. \A c \in Cells : E[c] # Free <=> ent[c] # Free /\ c \notin D
    BY <1>0, <2>1, <2>2, WithoutEntries
  <2>5. Freeable(D) /\ D \subseteq Cells
    BY <2>2 DEF Loaded
  <2> HIDE DEF D
  <2> QED BY <2>3, <2>4, <2>5, FreedFits DEF E, M, D
<1> QED BY <1>2, <1>3, <1>4

\* Sound is kept by a step that touches only what is named.
LEMMA SoundIs ==
  ASSUME TreeFits(live', anc', kids'), gate' \in [Regions -> BOOLEAN],
         EntriesFit(ent', live'), ListsFit(ent', mods'), FramesFit(ent', live', frames'),
         SlotsFit(ent', slots', frames'), LoadingFits(frames', loading'),
         ContextsTyped(ctx', live'),
         cur' \in Context, cur'.id \in live', cur'.at \in live',
         loading' \in Cells \cup {NULL}, reloading' \in BOOLEAN, bad' \in BOOLEAN
  PROVE  Sound'
BY DEF Sound

-----------------------------------------------------------------------------
(* Loading. *)

\* The tree when a load ends up in the current region or in one it claims.
LEMMA GrownFits ==
  ASSUME Sound, NEW r, r = cur.id \/ r \in Regions \ live, Grown(r)
  PROVE  TreeFits(live', anc', kids') /\ live' = live \cup {r} /\ live \subseteq live' /\ r \in live'
<1>1. TreeFits(live, anc, kids) /\ cur.id \in live
  BY DEF Sound
<1>2. anc \in [Regions -> SUBSET Regions] /\ live \subseteq Regions
  BY <1>1 DEF TreeFits
<1>3. live' = live \cup {r}
  BY DEF Grown
<1>4. CASE r \in live
  <2>1. live' = live /\ anc' = anc /\ kids' = kids
    BY <1>2, <1>3, <1>4 DEF Grown
  <2> QED BY <1>1, <1>3, <2>1
<1>5. CASE r \in Regions \ live
  <2>1. anc' = [anc EXCEPT ![r] = anc[cur.id] \cup {r}]
        /\ kids' = [kids EXCEPT ![cur.id] = <<r>> \o kids[cur.id]]
    BY <1>5 DEF Grown
  <2> QED BY <1>1, <1>3, <1>5, <2>1, TreeGrows
<1> QED BY <1>1, <1>4, <1>5

\* Regions a load can end up in.
LEMMA TargetFacts ==
  ASSUME NEW p, NEW r \in Target(p)
  PROVE  r = cur.id \/ r \in Regions \ live
BY DEF Target

\* What lists and frames say of live regions they say of more regions.
LEMMA MoreRegions ==
  ASSUME NEW E, NEW L, NEW L1, L \subseteq L1
  PROVE  /\ EntriesFit(E, L) => EntriesFit(E, L1)
         /\ \A fs : FramesFit(E, L, fs) => FramesFit(E, L1, fs)
         /\ \A X : ContextsTyped(X, L) => ContextsTyped(X, L1)
<1>1. EntriesFit(E, L) => EntriesFit(E, L1)
  BY DEF EntriesFit
<1>2. \A f : FrameFits(E, L, f) => FrameFits(E, L1, f)
  BY DEF FrameFits
<1>3. \A fs : FramesFit(E, L, fs) => FramesFit(E, L1, fs)
  BY <1>2 DEF FramesFit
<1>4. \A X : ContextsTyped(X, L) => ContextsTyped(X, L1)
  BY DEF ContextsTyped
<1> QED BY <1>1, <1>3, <1>4

\* The entry of a new load: x in the free cell c, last on the list of r.
LEMMA Appended ==
  ASSUME NEW E, NEW M, NEW L, EntriesFit(E, L), ListsFit(E, M), L \subseteq Regions,
         NEW c \in Cells, E[c] = Free, NEW x \in Entry, x.region \in L,
         x.img \in {c, x.path}, x.refs = 1, ~x.stale,
         \A d \in Cells : E[d] # Free /\ E[d].path = x.path => E[d].region # x.region
  PROVE  /\ EntriesFit([E EXCEPT ![c] = x], L)
         /\ ListsFit([E EXCEPT ![c] = x], [M EXCEPT ![x.region] = Append(@, c)])
<1> DEFINE r == x.region
           E1 == [E EXCEPT ![c] = x]
           M1 == [M EXCEPT ![r] = Append(@, c)]
<1>0. E \in [Cells -> Entry \cup {Free}] /\ M \in [Regions -> Seq(Cells)] /\ r \in Regions /\ x # Free
  BY EntryNotFree DEF EntriesFit, ListsFit
<1>1. /\ E1 \in [Cells -> Entry \cup {Free}] /\ E1[c] = x
      /\ \A d \in Cells : d # c => E1[d] = E[d]
  BY <1>0
<1>2. /\ M1[r] = Append(M[r], c) /\ M[r] \in Seq(Cells)
      /\ \A q \in Regions : q # r => M1[q] = M[q]
  BY <1>0
<1>3. /\ M1[r] \in Seq(Cells) /\ ToSet(M1[r]) = ToSet(M[r]) \cup {c} /\ IsInjective(M1[r])
  <2>1. c \notin ToSet(M[r]) /\ IsInjective(M[r])
    BY <1>0 DEF ListsFit
  <2> QED BY <1>2, <2>1, AppendedFacts
<1>4. M1 \in [Regions -> Seq(Cells)]
  BY <1>0, <1>2, <1>3
<1> HIDE DEF E1, M1
<1>5. EntriesFit(E1, L)
  <2> SUFFICES ASSUME NEW d \in Cells, E1[d] # Free
               PROVE  /\ E1[d].region \in L /\ E1[d].img \in {d, E1[d].path}
                      /\ E1[d].refs > 1 => E1[d].shared
                      /\ E1[d].stale => E1[d].shared \/ E1[d].path \in Bare
    BY <1>1 DEF EntriesFit
  <2>1. CASE d = c
    BY <1>1, <2>1
  <2>2. CASE d # c
    BY <1>1, <2>2 DEF EntriesFit
  <2> QED BY <2>1, <2>2
<1>6. \A q \in Regions : IsInjective(M1[q])
  BY <1>2, <1>3 DEF ListsFit
<1>7. \A q \in Regions, d \in Cells : d \in ToSet(M1[q]) <=> E1[d] # Free /\ E1[d].region = q
  <2> TAKE q \in Regions, d \in Cells
  <2>1. d \in ToSet(M[q]) <=> E[d] # Free /\ E[d].region = q
    BY DEF ListsFit
  <2>2. CASE d = c
    BY <1>0, <1>1, <1>2, <1>3, <2>1, <2>2
  <2>3. CASE d # c
    BY <1>1, <1>2, <1>3, <2>1, <2>3
  <2> QED BY <2>2, <2>3
<1>8. \A d, m \in Cells : /\ E1[d] # Free /\ E1[m] # Free
                          /\ E1[d].path = E1[m].path /\ E1[d].region = E1[m].region
                          => d = m
  <2> TAKE d, m \in Cells
  <2>1. E[d] # Free /\ E[m] # Free /\ E[d].path = E[m].path /\ E[d].region = E[m].region => d = m
    BY DEF ListsFit
  <2> QED BY <1>1, <2>1
<1> QED BY <1>4, <1>5, <1>6, <1>7, <1>8 DEF ListsFit, E1, M1

\* What a load of p does up to its xy_install, cell c, region r and image img
\* being the ones it gets.
Begun(p, E, M, cx, fs, hs, f, c, r, img) ==
  /\ E[c] = Free /\ img \in {c, p}
  /\ Recycle \/ ~\E m \in Cells : E[m] # Free /\ E[m].parent = c
  /\ Grown(r)
  /\ ent' = [E EXCEPT ![c] = [path |-> p, img |-> img, region |-> r, refs |-> 1,
                              parent |-> loading, stale |-> FALSE, shared |-> FALSE]]
  /\ mods' = [M EXCEPT ![r] = Append(@, c)]
  /\ ctx' = IF p \in Bare THEN cx ELSE [cx EXCEPT ![img] = [region |-> r, named |-> TRUE]]
  /\ cur' = [id |-> r, at |-> r]
  /\ loading' = c
  /\ frames' = Append(fs, [f EXCEPT !.kind = "install", !.e = c, !.loading = loading])
  /\ held' = Counted(hs, p, r, 1)

\* Begin in these terms.
LEMMA BeginIs ==
  ASSUME NEW p, NEW s, NEW cx, NEW fs, NEW hs, NEW f, Begin(p, s, cx, fs, hs, f)
  PROVE  \E c \in Cells, r \in Target(p), img \in Cells \cup {p} :
           Begun(p, s.ent, s.mods, cx, fs, hs, f, c, r, img)
<1>1. PICK c \in Cells, r \in Target(p), img \in IF reloading' THEN Cells \cup {p} ELSE {p} :
        /\ s.ent[c] = Free /\ img \in {c, p}
        /\ Recycle \/ ~\E m \in Cells : s.ent[m] # Free /\ s.ent[m].parent = c
        /\ Grown(r)
        /\ Become([ent |-> [s.ent EXCEPT ![c] =
                              [path |-> p, img |-> img, region |-> r, refs |-> 1,
                               parent |-> loading, stale |-> FALSE, shared |-> FALSE]],
                   mods |-> [s.mods EXCEPT ![r] = Append(@, c)]])
        /\ ctx' = IF p \in Bare THEN cx ELSE [cx EXCEPT ![img] = [region |-> r, named |-> TRUE]]
        /\ cur' = [id |-> r, at |-> r]
        /\ loading' = c
        /\ frames' = Append(fs, [f EXCEPT !.kind = "install", !.e = c, !.loading = loading])
        /\ held' = Counted(hs, p, r, 1)
  BY DEF Begin
<1>2. Begun(p, s.ent, s.mods, cx, fs, hs, f, c, r, img)
  BY <1>1 DEF Become, Begun
<1> QED BY <1>1, <1>2

\* A load as far as its xy_install, from any state between steps that fits.
LEMMA BeginFits ==
  ASSUME Sound, NEW p \in Paths, NEW s, NEW cx, NEW fs, NEW hs, NEW f,
         Begin(p, s, cx, fs, hs, f),
         EntriesFit(s.ent, live), ListsFit(s.ent, s.mods), FramesFit(s.ent, live, fs),
         SlotsFit(s.ent, slots', fs), LoadingFits(fs, loading), ContextsTyped(cx, live),
         \A c \in Cells : s.ent[c] # Free /\ s.ent[c].path = p => s.ent[c].region # cur.id,
         f \in Frame, f.saved = cur,
         f.reload # NULL /\ f.after \in Cells =>
           /\ s.ent[f.after] # Free /\ s.ent[f.after].region = cur.id
           /\ s.ent[f.after].path # f.reload,
         gate' = gate, reloading' \in BOOLEAN, bad' \in BOOLEAN
  PROVE  Sound'
<1>1. PICK c \in Cells, r \in Target(p), img \in Cells \cup {p} :
        Begun(p, s.ent, s.mods, cx, fs, hs, f, c, r, img)
  BY BeginIs
<1> USE DEF Begun
<1> DEFINE x == [path |-> p, img |-> img, region |-> r, refs |-> 1,
                 parent |-> loading, stale |-> FALSE, shared |-> FALSE]
           g == [f EXCEPT !.kind = "install", !.e = c, !.loading = loading]
           E == s.ent
<1>2. /\ live \subseteq Regions /\ r \in Regions /\ cur.id \in live /\ cur.at \in live
      /\ loading \in Cells \cup {NULL} /\ cur \in Context /\ (r = cur.id \/ r \in Regions \ live)
  BY TargetFacts DEF Sound, TreeFits
<1>3. TreeFits(live', anc', kids') /\ live \subseteq live' /\ r \in live' /\ live' \subseteq Regions
  BY <1>1, <1>2, GrownFits DEF TreeFits
<1>4. EntriesFit(E, live') /\ FramesFit(E, live', fs) /\ ContextsTyped(cx, live')
  BY <1>3, MoreRegions
<1>5. x \in Entry /\ x.region = r /\ x.path = p /\ x.img = img /\ x.refs = 1 /\ ~x.stale
  BY <1>1, <1>2, SetAssumption DEF Entry
<1>6. \A d \in Cells : E[d] # Free /\ E[d].path = x.path => E[d].region # x.region
  BY <1>2, <1>5 DEF EntriesFit
<1>7. ent' = [E EXCEPT ![c] = x] /\ mods' = [s.mods EXCEPT ![x.region] = Append(@, c)]
  BY <1>1, <1>5
<1>8. /\ g \in Frame /\ g.kind = "install" /\ g.e = c /\ g.loading = loading
      /\ g.saved = cur /\ g.reload = f.reload /\ g.after = f.after
  <2>1. c \in Ptr
    BY DEF Ptr
  <2> QED BY <1>2, <2>1 DEF Frame
<1>9. frames' = Append(fs, g)
  BY <1>1
<1> HIDE DEF x, g, E
<1>10. EntriesFit(ent', live') /\ ListsFit(ent', mods')
  <2> DEFINE M == s.mods
  <2>1. /\ EntriesFit(E, live') /\ ListsFit(E, M) /\ E[c] = Free /\ x.region \in live'
        /\ x.img \in {c, x.path} /\ live' \subseteq Regions
    BY <1>1, <1>3, <1>4, <1>5 DEF E
  <2>2. mods' = [M EXCEPT ![x.region] = Append(@, c)]
    BY <1>7
  <2> HIDE DEF M
  <2>3. /\ EntriesFit([E EXCEPT ![c] = x], live')
        /\ ListsFit([E EXCEPT ![c] = x], [M EXCEPT ![x.region] = Append(@, c)])
    BY <1>5, <1>6, <2>1, Appended
  <2> QED BY <1>7, <2>2, <2>3
<1>11. /\ ent'[c] # Free /\ \A d \in Cells : E[d] # Free => d # c /\ ent'[d] = E[d]
  <2>1. E \in [Cells -> Entry \cup {Free}] /\ E[c] = Free
    BY <1>1, <1>4 DEF EntriesFit, E
  <2>2. x # Free
    BY <1>5, EntryNotFree
  <2>3. ent'[c] = x /\ \A d \in Cells : d # c => ent'[d] = E[d]
    BY <1>7, <2>1
  <2> QED BY <2>1, <2>2, <2>3
<1>12. /\ fs \in Seq(Frame) /\ frames' \in Seq(Frame) /\ Len(frames') = Len(fs) + 1
       /\ frames'[Len(fs) + 1] = g /\ Len(fs) \in Nat
       /\ \A i \in 1..Len(fs) : frames'[i] = fs[i]
  BY <1>8, <1>9, FrameFacts DEF FramesFit
<1>13. FramesFit(ent', live', frames')
  <2> SUFFICES ASSUME NEW i \in 1..Len(fs)+1 PROVE FrameFits(ent', live', frames'[i])
    BY <1>12 DEF FramesFit
  <2>1. CASE i = Len(fs) + 1
    <3>1. FrameFits(ent', live', g)
      BY <1>2, <1>3, <1>8, <1>11 DEF FrameFits, E
    <3> QED BY <1>12, <2>1, <3>1
  <2>2. CASE i \in 1..Len(fs)
    <3> DEFINE h == fs[i]
    <3>1. FrameFits(E, live', h) /\ frames'[i] = h
      BY <1>4, <1>12, <2>2 DEF FramesFit
    <3> HIDE DEF h
    <3>2. FrameFits(ent', live', h)
      BY <1>11, <3>1 DEF FrameFits
    <3> QED BY <3>1, <3>2
  <2> QED BY <1>12, <2>1, <2>2
<1>14. SlotsFit(ent', slots', frames')
  <2>1. \A i \in 1..Len(frames') : frames'[i].kind = "body" => frames'[i].n <= Len(slots'[frames'[i].at])
    <3> TAKE i \in 1..Len(frames')
    <3>1. CASE i = Len(fs) + 1
      BY <1>8, <1>12, <3>1
    <3>2. CASE i # Len(fs) + 1
      <4>1. i \in 1..Len(fs) /\ frames'[i] = fs[i]
        BY <1>12, <3>2
      <4> QED BY <4>1 DEF SlotsFit
    <3> QED BY <3>1, <3>2
  <2> QED BY <1>11, <2>1 DEF SlotsFit, E
<1>15. LoadingFits(frames', loading')
  <2>1. loading' = c /\ Len(fs) + 1 \in 1..Len(frames')
    BY <1>1, <1>12
  <2>2. \E i \in 1..Len(frames') : frames'[i].kind = "install" /\ frames'[i].e = loading'
    BY <1>8, <1>12, <2>1
  <2>3. ASSUME NEW i \in 1..Len(frames'), frames'[i].kind = "install", frames'[i].loading # NULL
        PROVE  \E j \in 1..i-1 : frames'[j].kind = "install" /\ frames'[j].e = frames'[i].loading
    <3>1. CASE i = Len(fs) + 1
      <4>1. PICK j \in 1..Len(fs) : fs[j].kind = "install" /\ fs[j].e = loading
        BY <1>8, <1>12, <2>3, <3>1 DEF LoadingFits
      <4>2. j \in 1..i-1 /\ frames'[j] = fs[j] /\ frames'[i].loading = loading
        BY <1>8, <1>12, <3>1
      <4> QED BY <4>1, <4>2
    <3>2. CASE i # Len(fs) + 1
      <4>1. i \in 1..Len(fs) /\ frames'[i] = fs[i]
        BY <1>12, <3>2
      <4>2. PICK j \in 1..i-1 : fs[j].kind = "install" /\ fs[j].e = fs[i].loading
        BY <2>3, <4>1 DEF LoadingFits
      <4>3. j \in 1..Len(fs)
        BY <1>12, <4>1
      <4> QED BY <1>12, <4>1, <4>2, <4>3
    <3> QED BY <3>1, <3>2
  <2> QED BY <2>2, <2>3 DEF LoadingFits
<1>16. ContextsTyped(ctx', live')
  <2>1. img \in Paths \cup Cells
    BY <1>1
  <2>2. [region |-> r, named |-> TRUE] \in Binding
    BY <1>2 DEF Binding
  <2>3. CASE p \in Bare
    BY <1>1, <1>4, <2>3
  <2>4. CASE p \notin Bare
    BY <1>1, <1>3, <1>4, <2>1, <2>2, <2>4 DEF ContextsTyped
  <2> QED BY <2>3, <2>4
<1>17. /\ cur' \in Context /\ cur'.id \in live' /\ cur'.at \in live'
       /\ loading' \in Cells \cup {NULL} /\ gate' \in [Regions -> BOOLEAN]
  BY <1>1, <1>2, <1>3 DEF Context, Sound
<1> QED BY <1>3, <1>10, <1>13, <1>14, <1>15, <1>16, <1>17, SoundIs

\* The entry e of list s goes behind a, or to the head.
LEMMA ReinsertedFacts ==
  ASSUME NEW s \in Seq(Cells), IsInjective(s), NEW e \in ToSet(s), NEW a,
         a = NULL \/ (a \in ToSet(s) /\ a # e)
  PROVE  /\ Reinserted(s, e, a) \in Seq(Cells) /\ IsInjective(Reinserted(s, e, a))
         /\ ToSet(Reinserted(s, e, a)) = ToSet(s)
         /\ \E i \in 1..Len(s) :
              /\ a = NULL => i = 1
              /\ a # NULL => i - 1 \in 1..Len(s)-1 /\ Unlinked(s, e)[i - 1] = a
              /\ Reinserted(s, e, a) = InsertAt(Unlinked(s, e), i, e)
<1> DEFINE rest == Unlinked(s, e)
           i == IF a = NULL THEN 1 ELSE 1 + CHOOSE j \in DOMAIN rest : rest[j] = a
<1>1. /\ rest \in Seq(Cells) /\ Len(rest) = Len(s) - 1 /\ ToSet(rest) = ToSet(s) \ {e}
      /\ IsInjective(rest)
  BY UnlinkedFacts
<1>2. Reinserted(s, e, a) = InsertAt(rest, i, e)
  BY DEF Reinserted
<1> HIDE DEF rest
<1>3. /\ i \in 1..Len(rest)+1
      /\ a # NULL => i - 1 \in 1..Len(rest) /\ rest[i - 1] = a
  <2>0. DOMAIN rest = 1..Len(rest) /\ Len(rest) \in Nat
    BY <1>1
  <2>1. CASE a = NULL
    BY <2>0, <2>1
  <2>2. CASE a # NULL
    <3> DEFINE k == CHOOSE j \in DOMAIN rest : rest[j] = a
    <3>1. a \in ToSet(rest)
      BY <1>1, <2>2
    <3>2. k \in DOMAIN rest /\ rest[k] = a
      BY <3>1 DEF ToSet
    <3>3. i = 1 + k
      BY <2>2
    <3> HIDE DEF k, i
    <3>4. k \in 1..Len(rest)
      BY <2>0, <3>2
    <3>5. i - 1 = k /\ i \in 1..Len(rest)+1
      BY <2>0, <3>3, <3>4
    <3> QED BY <3>2, <3>4, <3>5
  <2> QED BY <2>1, <2>2
<1> HIDE DEF i
<1>4. e \in Cells /\ e \notin ToSet(rest)
  <2>1. ToSet(s) \subseteq Cells
    BY DEF ToSet
  <2> QED BY <1>1, <2>1
<1>5. /\ InsertAt(rest, i, e) \in Seq(Cells) /\ IsInjective(InsertAt(rest, i, e))
      /\ ToSet(InsertAt(rest, i, e)) = ToSet(rest) \cup {e}
  BY <1>1, <1>3, <1>4, InsertedFacts
<1>6. ToSet(rest) \cup {e} = ToSet(s)
  BY <1>1
<1>7. i \in 1..Len(s) /\ (a = NULL => i = 1) /\ (a # NULL => i - 1 \in 1..Len(s)-1 /\ rest[i-1] = a)
  <2>1. a = NULL => i = 1
    BY DEF i
  <2> QED BY <1>1, <1>3, <2>1
<1> QED BY <1>2, <1>5, <1>6, <1>7 DEF rest

-----------------------------------------------------------------------------
(* Calling. *)

\* The listeners of a call in region r: modules of its subtree with a context,
\* each once.
LEMMA ListenersFacts ==
  ASSUME Sound, NEW r \in live
  PROVE  /\ Listeners(r) \in Seq(Cells) /\ IsInjective(Listeners(r))
         /\ \A c \in ToSet(Listeners(r)) : c \in Cells /\ ent[c] # Free /\ ent[c].path \notin Bare
<1> DEFINE B == Trees(live, anc)
           w == Walk(mods, kids, B, r)
           S == {c \in Loaded : Listens(c)}
<1>1. /\ live \subseteq Regions /\ IsForest(live, kids, B) /\ Covers(live, kids, B)
      /\ kids \in [Regions -> Seq(Regions)]
      /\ \A n \in live : \A i, j \in DOMAIN kids[n] :
           i # j => B[kids[n][i]] \cap B[kids[n][j]] = {}
  BY DEF Sound, TreeFits
<1>2. /\ mods \in [Regions -> Seq(Cells)] /\ \A q \in Regions : IsInjective(mods[q])
      /\ \A q \in Regions, c \in Cells : c \in ToSet(mods[q]) <=> ent[c] # Free /\ ent[c].region = q
  BY DEF Sound, ListsFit
<1>3. B[r] = Below(r)
  BY DEF Trees, Below
<1> HIDE DEF B
<1>4. \A n \in live : mods[n] \in Seq(Cells) /\ kids[n] \in Seq(live)
  <2> TAKE n \in live
  <2>1. mods[n] \in Seq(Cells) /\ kids[n] \in Seq(Regions)
    BY <1>1, <1>2
  <2>2. \A i \in 1..Len(kids[n]) : kids[n][i] \in live
    <3>1. DOMAIN kids[n] = 1..Len(kids[n])
      BY <2>1
    <3> QED BY <1>1, <3>1 DEF IsForest
  <2> QED BY <2>1, <2>2
<1>5. ListsApart(live, mods, kids, B)
  <2>1. \A x, y \in live : x # y => ToSet(mods[x]) \cap ToSet(mods[y]) = {}
    <3> SUFFICES ASSUME NEW x \in live, NEW y \in live, x # y, NEW c,
                        c \in ToSet(mods[x]), c \in ToSet(mods[y])
                 PROVE  FALSE
      OBVIOUS
    <3>1. c \in Cells
      BY <1>4 DEF ToSet
    <3>2. x \in Regions /\ y \in Regions
      BY <1>1
    <3>3. ent[c].region = x /\ ent[c].region = y
      BY <1>2, <3>1, <3>2
    <3> QED BY <3>3
  <2>2. \A n \in live : IsInjective(mods[n])
    BY <1>1, <1>2
  <2> QED BY <1>1, <2>1, <2>2 DEF ListsApart
<1>6. w \in Seq(Cells) /\ IsInjective(w)
  BY <1>1, <1>4, <1>5, WalkFacts
<1>7. Listeners(r) = Only(w, S)
  BY <1>3 DEF Listeners, Walk
<1> HIDE DEF w, S
<1>8. Only(w, S) \in Seq(Cells) /\ ToSet(Only(w, S)) = ToSet(w) \cap S /\ IsInjective(Only(w, S))
  BY <1>6, OnlyFacts
<1>9. \A c \in S : c \in Cells /\ ent[c] # Free /\ ent[c].path \notin Bare
  BY DEF S, Loaded, Listens
<1> QED BY <1>7, <1>8, <1>9

\* The frame of a call or a scope that begins.
LEMMA BlankFacts ==
  ASSUME Sound
  PROVE  /\ BlankFrame \in Frame /\ BlankFrame.kind = "scope" /\ BlankFrame.e = NULL
         /\ BlankFrame.saved = cur /\ BlankFrame.loading = NULL /\ BlankFrame.reload = NULL
         /\ BlankFrame.after = NULL /\ BlankFrame.n = 0 /\ BlankFrame.i = 0
         /\ ~BlankFrame.changed /\ BlankFrame.was = <<>> /\ BlankFrame.seen = <<>>
<1>1. cur \in Context /\ NULL \in Ptr /\ <<>> \in Seq(Slot) /\ 0 \in Nat
  BY DEF Sound, Ptr
<1> QED BY <1>1 DEF BlankFrame, Frame

\* The frames below the top one.
LEMMA Popped ==
  ASSUME NEW E, NEW L, NEW sl, NEW fs, NEW ld, FramesFit(E, L, fs), SlotsFit(E, sl, fs),
         LoadingFits(fs, ld), fs # <<>>
  PROVE  /\ FramesFit(E, L, Front(fs)) /\ SlotsFit(E, sl, Front(fs))
         /\ Len(fs) \in Nat \ {0} /\ fs[Len(fs)] \in Frame /\ FrameFits(E, L, fs[Len(fs)])
         /\ Len(Front(fs)) = Len(fs) - 1 /\ \A i \in 1..Len(fs)-1 : Front(fs)[i] = fs[i]
         /\ IF fs[Len(fs)].kind = "install" THEN LoadingFits(Front(fs), fs[Len(fs)].loading)
                                            ELSE LoadingFits(Front(fs), ld)
<1> DEFINE u == Front(fs)
           n == Len(fs)
<1>1. fs \in Seq(Frame) /\ \A i \in 1..Len(fs) : FrameFits(E, L, fs[i])
  BY DEF FramesFit
<1>2. \E f : f \in Frame
  <2>1. fs[1] \in Frame
    BY <1>1
  <2> QED BY <2>1
<1>3. /\ n \in Nat \ {0} /\ fs[n] \in Frame /\ u \in Seq(Frame) /\ Len(u) = n - 1
      /\ \A i \in 1..n-1 : u[i] = fs[i]
  BY <1>1, <1>2, FrameFacts
<1> HIDE DEF u
<1>4. FramesFit(E, L, u) /\ FrameFits(E, L, fs[n])
  BY <1>1, <1>3 DEF FramesFit
<1>5. SlotsFit(E, sl, u)
  BY <1>3 DEF SlotsFit
<1>6. ASSUME NEW i \in 1..n-1, u[i].kind = "install", u[i].loading # NULL
      PROVE  \E j \in 1..i-1 : u[j].kind = "install" /\ u[j].e = u[i].loading
  <2>1. i \in 1..n /\ u[i] = fs[i]
    BY <1>3
  <2>2. PICK j \in 1..i-1 : fs[j].kind = "install" /\ fs[j].e = fs[i].loading
    BY <1>6, <2>1 DEF LoadingFits
  <2>3. j \in 1..n-1
    BY <1>3
  <2> QED BY <1>3, <2>1, <2>2, <2>3
<1>7. CASE fs[n].kind = "install"
  <2>1. fs[n].loading # NULL => \E j \in 1..n-1 : u[j].kind = "install" /\ u[j].e = fs[n].loading
    <3>1. n \in 1..n
      BY <1>3
    <3> QED BY <1>3, <1>7, <3>1 DEF LoadingFits
  <2> QED BY <1>3, <1>4, <1>5, <1>6, <1>7, <2>1 DEF LoadingFits, u
<1>8. CASE fs[n].kind # "install"
  <2>1. ld # NULL => \E j \in 1..n-1 : u[j].kind = "install" /\ u[j].e = ld
    <3> SUFFICES ASSUME ld # NULL PROVE \E j \in 1..n-1 : u[j].kind = "install" /\ u[j].e = ld
      OBVIOUS
    <3>1. PICK j \in 1..n : fs[j].kind = "install" /\ fs[j].e = ld
      BY DEF LoadingFits
    <3>2. j \in 1..n-1
      BY <1>3, <1>8, <3>1
    <3> QED BY <1>3, <3>1, <3>2
  <2> QED BY <1>3, <1>4, <1>5, <1>6, <1>8, <2>1 DEF LoadingFits, u
<1> QED BY <1>7, <1>8

\* A frame other than an xy_install's on top.
LEMMA OnTop ==
  ASSUME NEW E, NEW L, NEW sl, NEW fs, NEW ld, FramesFit(E, L, fs), SlotsFit(E, sl, fs),
         LoadingFits(fs, ld), NEW g \in Frame, FrameFits(E, L, g), g.kind # "install",
         g.kind = "body" => g.n <= Len(sl[g.at])
  PROVE  /\ FramesFit(E, L, Append(fs, g)) /\ SlotsFit(E, sl, Append(fs, g))
         /\ LoadingFits(Append(fs, g), ld)
         /\ Len(Append(fs, g)) = Len(fs) + 1 /\ Append(fs, g)[Len(fs) + 1] = g /\ Len(fs) \in Nat
         /\ \A i \in 1..Len(fs) : Append(fs, g)[i] = fs[i]
<1> DEFINE u == Append(fs, g)
<1>1. /\ fs \in Seq(Frame) /\ u \in Seq(Frame) /\ Len(u) = Len(fs) + 1 /\ Len(fs) \in Nat
      /\ u[Len(fs) + 1] = g /\ \A i \in 1..Len(fs) : u[i] = fs[i]
  BY FrameFacts DEF FramesFit
<1> HIDE DEF u
<1>2. \A i \in 1..Len(u) : i = Len(fs) + 1 \/ i \in 1..Len(fs)
  BY <1>1
<1>3. FramesFit(E, L, u)
  BY <1>1, <1>2 DEF FramesFit
<1>4. SlotsFit(E, sl, u)
  BY <1>1, <1>2 DEF SlotsFit
<1>5. LoadingFits(u, ld)
  <2>1. ld # NULL => \E i \in 1..Len(u) : u[i].kind = "install" /\ u[i].e = ld
    <3> SUFFICES ASSUME ld # NULL PROVE \E i \in 1..Len(u) : u[i].kind = "install" /\ u[i].e = ld
      OBVIOUS
    <3>1. PICK j \in 1..Len(fs) : fs[j].kind = "install" /\ fs[j].e = ld
      BY DEF LoadingFits
    <3>2. j \in 1..Len(u)
      BY <1>1
    <3> QED BY <1>1, <3>1, <3>2
  <2>2. ASSUME NEW i \in 1..Len(u), u[i].kind = "install", u[i].loading # NULL
        PROVE  \E j \in 1..i-1 : u[j].kind = "install" /\ u[j].e = u[i].loading
    <3>1. i \in 1..Len(fs) /\ u[i] = fs[i]
      BY <1>1, <1>2, <2>2
    <3>2. PICK j \in 1..i-1 : fs[j].kind = "install" /\ fs[j].e = fs[i].loading
      BY <2>2, <3>1 DEF LoadingFits
    <3>3. j \in 1..Len(fs)
      BY <1>1, <3>1
    <3> QED BY <1>1, <3>1, <3>2, <3>3
  <2> QED BY <2>1, <2>2 DEF LoadingFits
<1> QED BY <1>1, <1>3, <1>4, <1>5 DEF u

\* The body in slot me begins, called from c0 by a call whose frame f goes on
\* top of "below".
LEMMA RunSlotFits ==
  ASSUME Sound, NEW me \in Cells, ent[me] # Free, NEW c0 \in Context, c0.id \in live,
         c0.at \in live, NEW f \in Frame, f.kind = "body", f.at \in live, f.reload = NULL,
         f.i < f.n, f.saved.id \in live, NEW below, RunSlot(me, c0, f, below),
         FramesFit(ent, live, below), SlotsFit(ent, slots', below),
         LoadingFits(below, loading), f.n <= Len(slots'[f.at])
  PROVE  /\ FramesFit(ent, live, frames') /\ SlotsFit(ent, slots', frames')
         /\ LoadingFits(frames', loading)
         /\ cur' \in Context /\ cur'.id \in live /\ cur'.at \in live /\ bad' = bad
<1> DEFINE to == ctx[ent[me].img].region
           changed == to # f.saved.id
           g == [f EXCEPT !.e = me, !.i = @ + 1, !.changed = changed,
                          !.saved = [id |-> f.saved.id, at |-> c0.at],
                          !.seen = Append(@, me)]
<1>0. me # Dangling /\ live \subseteq Regions
  BY SetAssumption DEF Sound, TreeFits
<1>1. /\ frames' = Append(below, g)
      /\ cur' = IF changed THEN [id |-> to, at |-> ent[me].region] ELSE c0
      /\ bad' = bad
  BY <1>0 DEF RunSlot
<1>2. to \in live /\ ent[me].region \in live
  <2>1. ent[me] \in Entry
    BY CellFacts DEF Sound, EntriesFit
  <2>2. ent[me].img \in Paths \cup Cells
    BY <2>1 DEF Entry
  <2> QED BY <2>2 DEF Sound, ContextsTyped, EntriesFit
<1>3. /\ f.saved \in Context /\ f.i \in Nat /\ f.n \in Nat /\ f.seen \in Seq(Slot)
  BY DEF Frame
<1>4. /\ [id |-> f.saved.id, at |-> c0.at] \in Context /\ Append(f.seen, me) \in Seq(Slot)
      /\ me \in Ptr /\ me \in Slot /\ changed \in BOOLEAN /\ f.i + 1 \in Nat
      /\ 1 <= f.i + 1 /\ f.i + 1 <= f.n
  <2>1. me \in Slot
    BY DEF Slot
  <2> QED BY <1>0, <1>3, <2>1 DEF Context, Ptr
<1>5. /\ g \in Frame /\ g.kind = "body" /\ g.e = me /\ g.i = f.i + 1 /\ g.n = f.n /\ g.at = f.at
      /\ g.reload = NULL /\ g.saved = [id |-> f.saved.id, at |-> c0.at]
  <2> HIDE DEF to, changed
  <2>1. g = [f EXCEPT !.e = me, !.i = f.i + 1, !.changed = changed,
                      !.saved = [id |-> f.saved.id, at |-> c0.at],
                      !.seen = Append(f.seen, me)]
    OBVIOUS
  <2> HIDE DEF g
  <2> QED BY <1>4, <2>1 DEF Frame
<1> HIDE DEF g
<1>6. FrameFits(ent, live, g)
  BY <1>4, <1>5 DEF FrameFits
<1>7. cur' \in Context /\ cur'.id \in live /\ cur'.at \in live
  <2> HIDE DEF to
  <2> QED BY <1>0, <1>1, <1>2 DEF Context
<1> QED BY <1>1, <1>5, <1>6, <1>7, OnTop

-----------------------------------------------------------------------------
(* Every step keeps Sound. *)

\* The runtime with no module and no region but the root.
LEMMA SoundEmpty ==
  ASSUME NEW L, NEW A, NEW K, NEW E, NEW M, NEW sl, NEW X, NEW fs, NEW ld,
         L = {Root}, A = [r \in Regions |-> IF r = Root THEN {Root} ELSE {}],
         K = [r \in Regions |-> <<>>], E = [c \in Cells |-> Free],
         M = [r \in Regions |-> <<>>], sl = [r \in Regions |-> <<>>],
         X = [m \in Paths \cup Cells |-> Unbound], fs = <<>>, ld = NULL
  PROVE  /\ TreeFits(L, A, K) /\ EntriesFit(E, L) /\ ListsFit(E, M) /\ FramesFit(E, L, fs)
         /\ SlotsFit(E, sl, fs) /\ LoadingFits(fs, ld) /\ ContextsTyped(X, L)
<1>0. Root \in Regions /\ <<>> \in Seq(Cells) /\ <<>> \in Seq(Slot) /\ <<>> \in Seq(Frame)
      /\ Len(<<>>) = 0
  BY SetAssumption
<1>1. TreeFits(L, A, K)
  BY LoneRoot
<1>2. EntriesFit(E, L)
  BY DEF EntriesFit
<1>3. IsInjective(<<>>) /\ ToSet(<<>>) = {}
  BY DEF IsInjective, ToSet
<1>4. ListsFit(E, M)
  BY <1>0, <1>3 DEF ListsFit
<1>5. FramesFit(E, L, fs) /\ LoadingFits(fs, ld)
  BY <1>0 DEF FramesFit, LoadingFits
<1>6. SlotsFit(E, sl, fs)
  BY <1>0, <1>3 DEF SlotsFit
<1>7. ContextsTyped(X, L)
  BY <1>0 DEF ContextsTyped, Unbound, Binding
<1> QED BY <1>1, <1>2, <1>4, <1>5, <1>6, <1>7

\* Initially nothing is loaded.
LEMMA SoundInit == Init => Sound
<1> SUFFICES ASSUME Init PROVE Sound
  OBVIOUS
<1>1. /\ TreeFits(live, anc, kids) /\ EntriesFit(ent, live) /\ ListsFit(ent, mods)
      /\ FramesFit(ent, live, frames) /\ SlotsFit(ent, slots, frames)
      /\ LoadingFits(frames, loading) /\ ContextsTyped(ctx, live)
  BY SoundEmpty DEF Init
<1>2. /\ gate \in [Regions -> BOOLEAN] /\ cur \in Context /\ cur.id \in live /\ cur.at \in live
      /\ loading \in Cells \cup {NULL} /\ reloading \in BOOLEAN /\ bad \in BOOLEAN
  BY SetAssumption DEF Init, Context
<1> QED BY <1>1, <1>2 DEF Sound

\* xy_shutdown frees every entry and every region but the root.
LEMMA SoundShutdown ==
  ASSUME Sound, Shutdown
  PROVE  Sound'
<1>1. loading = NULL
  <2>1. Len(frames) = 0
    BY DEF Shutdown
  <2> QED BY <2>1 DEF Sound, LoadingFits
<1>2. ctx' = [m \in Paths \cup Cells |-> Unbound]
  BY DEF Shutdown, Sound, ContextsTyped
<1>3. /\ TreeFits(live', anc', kids') /\ EntriesFit(ent', live') /\ ListsFit(ent', mods')
      /\ FramesFit(ent', live', frames') /\ SlotsFit(ent', slots', frames')
      /\ LoadingFits(frames', loading') /\ ContextsTyped(ctx', live')
  <2>1. frames' = <<>> /\ loading' = NULL
    BY <1>1 DEF Shutdown
  <2> QED BY <1>2, <2>1, SoundEmpty DEF Shutdown
<1>4. /\ gate' \in [Regions -> BOOLEAN] /\ cur' \in Context /\ cur'.id \in live'
      /\ cur'.at \in live'
      /\ loading' \in Cells \cup {NULL} /\ reloading' \in BOOLEAN /\ bad' \in BOOLEAN
  BY SetAssumption DEF Shutdown, Context, Sound
<1> QED BY <1>3, <1>4, SoundIs

\* A failed load leaves at most a name behind.
LEMMA BoundInVain ==
  ASSUME ContextsTyped(ctx, live), NEW L, live \subseteq L, NEW p \in Paths,
         NEW r \in L, L \subseteq Regions, BindInVain(p, r)
  PROVE  ContextsTyped(ctx', L)
<1>1. ContextsTyped(ctx, L)
  BY MoreRegions
<1>2. [region |-> r, named |-> FALSE] \in Binding
  BY DEF Binding
<1>3. CASE ctx' = ctx
  BY <1>1, <1>3
<1>4. CASE ctx' = [ctx EXCEPT ![p] = [region |-> r, named |-> FALSE]]
  BY <1>1, <1>2, <1>4 DEF ContextsTyped
<1> QED BY <1>3, <1>4 DEF BindInVain

\* xy_load of a module that is there.
LEMMA SoundReuse ==
  ASSUME Sound, NEW p \in Paths, LoadReuse(p)
  PROVE  Sound'
<1> DEFINE e == lookup(p, cur.id)
           x == [ent[e] EXCEPT !.refs = ent[e].refs + 1, !.shared = TRUE]
<1>1. /\ e \in Cells /\ ent[e] \in Entry /\ ent[e] # Free /\ ent[e].refs < MaxRefs
      /\ UNCHANGED <<regVars, gate, mods, slots, ctx, cur, loading, reloading, frames, bad>>
  <2>1. cur.id \in Regions
    BY DEF Sound, TreeFits
  <2> QED BY <2>1, LookupFacts DEF LoadReuse, Sound
<1>2. ent' = [ent EXCEPT ![e] = x]
  BY <1>1 DEF LoadReuse, Sound, EntriesFit, Entry
<1> HIDE DEF e
<1>3. /\ x \in Entry /\ x.path = ent[e].path /\ x.region = ent[e].region
      /\ x.img = ent[e].img /\ x.parent = ent[e].parent /\ x.shared
      /\ x.stale = ent[e].stale
  <2>1. ent[e].refs \in 1..MaxRefs /\ MaxRefs \in Nat
    BY <1>1, SetAssumption DEF Entry
  <2>2. ent[e].refs + 1 \in 1..MaxRefs
    BY <1>1, <2>1
  <2> QED BY <1>1, <2>2 DEF Entry
<1>4. x # Free
  BY <1>3, EntryNotFree
<1> HIDE DEF x
<1>5. ent \in [Cells -> Entry \cup {Free}]
  BY DEF Sound, EntriesFit
<1>6. /\ ent' \in [Cells -> Entry \cup {Free}] /\ ent'[e] = x
      /\ \A c \in Cells : c # e => ent'[c] = ent[c]
  BY <1>1, <1>2, <1>3, <1>5
<1>7. \A c \in Cells : /\ ent'[c] # Free <=> ent[c] # Free
                       /\ ent'[c].path = ent[c].path /\ ent'[c].region = ent[c].region
  BY <1>1, <1>3, <1>4, <1>6
<1>8. EntriesFit(ent', live)
  <2> SUFFICES ASSUME NEW c \in Cells, ent'[c] # Free
               PROVE  /\ ent'[c].region \in live /\ ent'[c].img \in {c, ent'[c].path}
                      /\ ent'[c].refs > 1 => ent'[c].shared
                      /\ ent'[c].stale => ent'[c].shared \/ ent'[c].path \in Bare
    BY <1>6 DEF EntriesFit
  <2>1. CASE c = e
    BY <1>1, <1>3, <1>6, <2>1 DEF Sound, EntriesFit
  <2>2. CASE c # e
    BY <1>6, <2>2 DEF Sound, EntriesFit
  <2> QED BY <2>1, <2>2
<1>9. ListsFit(ent', mods)
  BY <1>7 DEF Sound, ListsFit
<1>10. FramesFit(ent', live, frames)
  <2>1. ASSUME NEW f, FrameFits(ent, live, f) PROVE FrameFits(ent', live, f)
    BY <1>7, <2>1 DEF FrameFits
  <2> QED BY <2>1 DEF Sound, FramesFit
<1>11. SlotsFit(ent', slots, frames)
  BY <1>7 DEF Sound, SlotsFit
<1>12. /\ TreeFits(live, anc, kids) /\ gate \in [Regions -> BOOLEAN] /\ LoadingFits(frames, loading)
       /\ ContextsTyped(ctx, live) /\ cur \in Context /\ cur.id \in live /\ cur.at \in live
       /\ loading \in Cells \cup {NULL} /\ reloading \in BOOLEAN /\ bad \in BOOLEAN
  BY DEF Sound
<1> QED BY <1>1, <1>8, <1>9, <1>10, <1>11, <1>12, SoundIs DEF regVars

\* A load that is turned down at the gate of its region.
LEMMA SoundRefused ==
  ASSUME Sound, NEW p \in Paths, LoadRefused(p)
  PROVE  Sound'
<1>1. /\ BindInVain(p, cur.id)
      /\ UNCHANGED <<regVars, gate, heap, cur, loading, reloading, frames, held, bad>>
  BY DEF LoadRefused
<1>2. cur.id \in live /\ live \subseteq Regions /\ ContextsTyped(ctx, live)
  BY DEF Sound, TreeFits
<1>3. ContextsTyped(ctx', live)
  BY <1>1, <1>2, BoundInVain
<1> QED BY <1>1, <1>3 DEF Sound, regVars, heap

\* A load of a library without xy_install, with its region claimed.
LEMMA SoundNoInstall ==
  ASSUME Sound, NEW p \in Paths, LoadNoInstall(p)
  PROVE  Sound'
<1>1. PICK r \in Target(p) : Grown(r) /\ BindInVain(p, r)
  BY DEF LoadNoInstall
<1>2. UNCHANGED <<gate, heap, cur, loading, reloading, frames, held, bad>>
  BY DEF LoadNoInstall
<1>3. /\ TreeFits(live', anc', kids') /\ live \subseteq live' /\ r \in live' /\ live' \subseteq Regions
  BY <1>1, TargetFacts, GrownFits DEF TreeFits
<1>4. ContextsTyped(ctx', live')
  BY <1>1, <1>3, BoundInVain DEF Sound
<1>5. EntriesFit(ent, live') /\ FramesFit(ent, live', frames)
  BY <1>3, MoreRegions DEF Sound
<1> QED BY <1>2, <1>3, <1>4, <1>5 DEF Sound, heap

\* A load as far as its xy_install.
LEMMA SoundLoad ==
  ASSUME Sound, NEW p \in Paths, LoadBegin(p)
  PROVE  Sound'
<1>1. /\ lookup(p, cur.id) = NULL /\ Begin(p, Heap, ctx, frames, held, BlankFrame)
      /\ UNCHANGED <<reloading, gate, slots, bad>>
  BY DEF LoadBegin
<1>2. Heap.ent = ent /\ Heap.mods = mods
  BY DEF Heap
<1>3. cur.id \in Regions
  BY DEF Sound, TreeFits
<1>4. \A c \in Cells : ent[c] # Free /\ ent[c].path = p => ent[c].region # cur.id
  BY <1>1, <1>3, LookupFacts, SetAssumption DEF Sound
<1>5. BlankFrame \in Frame /\ BlankFrame.saved = cur /\ BlankFrame.reload = NULL
  BY BlankFacts
<1> DEFINE s == Heap
<1>6. /\ EntriesFit(s.ent, live) /\ ListsFit(s.ent, s.mods) /\ FramesFit(s.ent, live, frames)
      /\ SlotsFit(s.ent, slots', frames) /\ LoadingFits(frames, loading) /\ ContextsTyped(ctx, live)
      /\ reloading' \in BOOLEAN /\ bad' \in BOOLEAN /\ gate' = gate
      /\ \A c \in Cells : s.ent[c] # Free /\ s.ent[c].path = p => s.ent[c].region # cur.id
  BY <1>1, <1>2, <1>4 DEF Sound
<1> HIDE DEF s
<1>7. Begin(p, s, ctx, frames, held, BlankFrame)
  BY <1>1 DEF s
<1> QED BY <1>5, <1>6, <1>7, BeginFits

\* An unload in the current region finds an entry.
LEMMA UnloadIs ==
  ASSUME Sound, NEW p \in Paths, NEW e, e = lookup(p, cur.id), e # NULL
  PROVE  /\ e \in Loaded /\ e \in Cells /\ ent[e] \in Entry /\ ent[e] # Free
         /\ ent[e].path = p /\ ent[e].region = cur.id /\ e \in ToSet(mods[cur.id])
         /\ cur.id \in Regions
<1>1. cur.id \in Regions
  BY DEF Sound, TreeFits
<1> QED BY <1>1, LookupFacts DEF Sound, Loaded

\* xy_unload, or the first half of a reload that fails.
LEMMA SoundUnload ==
  ASSUME Sound, NEW p \in Paths, _mod_unload(p), reloading' \in BOOLEAN
  PROVE  Sound'
<1> DEFINE e == lookup(p, cur.id)
           D == Dropped(e)
           s == Unloaded(e)
<1>1. /\ e # NULL /\ Freeable(D) /\ Become(s) /\ ctx' = CtxAfter(D)
      /\ frames' = FramesAfter(D) /\ slots' = SlotsAfter(D) /\ bad' = NameRead(D)
      /\ UNCHANGED <<regVars, gate, cur, loading>>
  BY DEF _mod_unload
<1>2. e \in Loaded
  BY <1>1, UnloadIs
<1> HIDE DEF e
<1>3. ent' = s.ent /\ mods' = s.mods
  BY <1>1 DEF Become
<1>4. /\ EntriesFit(s.ent, live) /\ ListsFit(s.ent, s.mods)
      /\ FramesFit(s.ent, live, frames') /\ LoadingFits(frames', loading)
      /\ SlotsFit(s.ent, slots', frames') /\ ContextsTyped(ctx', live)
  BY <1>1, <1>2, UnloadedFits
<1>5. bad' \in BOOLEAN
  BY <1>1 DEF NameRead
<1> HIDE DEF D, s
<1>6. UNCHANGED <<live, anc, kids, gate, cur, loading>>
  BY <1>1 DEF regVars
<1>7. /\ TreeFits(live, anc, kids) /\ gate \in [Regions -> BOOLEAN]
      /\ cur \in Context /\ cur.id \in live /\ cur.at \in live /\ loading \in Cells \cup {NULL}
  BY DEF Sound
<1> QED BY <1>3, <1>4, <1>5, <1>6, <1>7, SoundIs

\* The entry before e on its list.
LEMMA PredecessorFacts ==
  ASSUME EntriesFit(ent, live), ListsFit(ent, mods), live \subseteq Regions, NEW e \in Loaded
  PROVE  LET s == mods[ent[e].region]
             i == CHOOSE j \in DOMAIN s : s[j] = e
         IN  /\ s \in Seq(Cells) /\ IsInjective(s) /\ i \in 1..Len(s) /\ s[i] = e
             /\ DOMAIN s = 1..Len(s) /\ Len(s) \in Nat
             /\ i = 1 => Predecessor(e) = NULL
             /\ i # 1 => /\ i - 1 \in 1..Len(s) /\ Predecessor(e) = s[i-1]
                         /\ Predecessor(e) \in Cells /\ Predecessor(e) # e
                         /\ ent[Predecessor(e)] # Free
                         /\ ent[Predecessor(e)].region = ent[e].region
                         /\ ent[Predecessor(e)].path # ent[e].path
<1> DEFINE r == ent[e].region
           s == mods[r]
           i == CHOOSE j \in DOMAIN s : s[j] = e
<1>1. e \in Cells /\ ent[e] # Free /\ r \in Regions
  BY DEF Loaded, EntriesFit
<1>2. s \in Seq(Cells) /\ IsInjective(s) /\ e \in ToSet(s)
  BY <1>1 DEF ListsFit
<1>3. i \in DOMAIN s /\ s[i] = e
  BY <1>2 DEF ToSet
<1>4. DOMAIN s = 1..Len(s) /\ Len(s) \in Nat
  BY <1>2
<1>5. Predecessor(e) = IF i = 1 THEN NULL ELSE s[i-1]
  BY DEF Predecessor
<1> HIDE DEF s, i
<1>6. ASSUME i # 1
      PROVE  /\ i - 1 \in 1..Len(s) /\ s[i-1] \in Cells /\ s[i-1] # e
             /\ ent[s[i-1]] # Free /\ ent[s[i-1]].region = r /\ ent[s[i-1]].path # ent[e].path
  <2>1. i - 1 \in 1..Len(s)
    BY <1>3, <1>4, <1>6
  <2>2. s[i-1] \in Cells /\ s[i-1] \in ToSet(s)
    BY <1>2, <1>4, <2>1 DEF ToSet
  <2>3. s[i-1] # e
    <3>1. i - 1 # i
      BY <1>3, <1>4
    <3> QED BY <1>2, <1>3, <1>4, <2>1, <3>1 DEF IsInjective
  <2>4. ent[s[i-1]] # Free /\ ent[s[i-1]].region = r
    BY <1>1, <2>2 DEF ListsFit, s
  <2> QED BY <1>1, <2>1, <2>2, <2>3, <2>4 DEF ListsFit
<1> QED BY <1>2, <1>3, <1>4, <1>5, <1>6 DEF s, i

\* The state between the two halves of xy_reload.
LEMMA ReloadHalfway ==
  ASSUME Sound, NEW p \in Paths, NEW e, e = lookup(p, cur.id), e # NULL, ent[e].refs = 1,
         NEW D, D = Doomed(e), Freeable(D)
  PROVE  LET E == Without(D).ent
         IN  /\ EntriesFit(E, live) /\ ListsFit(E, Without(D).mods)
             /\ FramesFit(E, live, FramesAfter(D)) /\ LoadingFits(FramesAfter(D), loading)
             /\ SlotsFit(E, SlotsAfter(D), FramesAfter(D)) /\ ContextsTyped(CtxAfter(D), live)
             /\ Kept(E, D) /\ Closed(D) /\ D \subseteq Cells
             /\ \A c \in Cells : E[c] # Free <=> ent[c] # Free /\ c \notin D
             /\ \A c \in Cells : E[c] # Free /\ E[c].path = p => E[c].region # cur.id
             /\ After(Predecessor(e), D) \in Cells =>
                  LET a == After(Predecessor(e), D)
                  IN  /\ a = Predecessor(e) /\ a \notin D
                      /\ E[a] # Free /\ E[a].region = cur.id /\ E[a].path # p
             /\ After(Predecessor(e), D) \in Ptr
<1> DEFINE E == Without(D).ent
           a == After(Predecessor(e), D)
<1>0. Dangling \notin Cells /\ NULL \notin Cells
  BY SetAssumption
<1>1. /\ e \in Loaded /\ e \in Cells /\ ent[e] # Free /\ ent[e].path = p /\ ent[e].region = cur.id
      /\ EntriesFit(ent, live) /\ ListsFit(ent, mods) /\ live \subseteq Regions
  BY UnloadIs DEF Sound, TreeFits
<1>2. Closed(D) /\ e \in D /\ D \subseteq Cells
  BY <1>1, DoomedFacts DEF Closed, Loaded
<1>3. /\ \A c \in Cells : E[c] # Free <=> ent[c] # Free /\ c \notin D
      /\ \A c \in Cells : E[c] # Free =>
           E[c].path = ent[c].path /\ E[c].region = ent[c].region
      /\ EntriesFit(E, live) /\ Kept(E, D) /\ ListsFit(E, Without(D).mods)
  BY <1>1, <1>2, WithoutEntries, WithoutLists
<1>4. /\ FramesFit(E, live, FramesAfter(D)) /\ LoadingFits(FramesAfter(D), loading)
      /\ SlotsFit(E, SlotsAfter(D), FramesAfter(D)) /\ ContextsTyped(CtxAfter(D), live)
  BY <1>2, <1>3, FreedFits
<1> HIDE DEF E
<1>5. \A c \in Cells : E[c] # Free /\ E[c].path = p => E[c].region # cur.id
  BY <1>1, <1>2, <1>3 DEF ListsFit
<1>6. \/ Predecessor(e) = NULL
      \/ /\ Predecessor(e) \in Cells /\ ent[Predecessor(e)] # Free
         /\ ent[Predecessor(e)].region = ent[e].region
         /\ ent[Predecessor(e)].path # ent[e].path
  BY <1>1, PredecessorFacts
<1>7. a \in Ptr /\ (a \in Cells => a = Predecessor(e) /\ a \notin D)
  BY <1>0, <1>6 DEF After, Ptr
<1>8. a \in Cells => E[a] # Free /\ E[a].region = cur.id /\ E[a].path # p
  BY <1>0, <1>1, <1>3, <1>6, <1>7
<1> QED BY <1>2, <1>3, <1>4, <1>5, <1>7, <1>8 DEF E

\* What the reload of e, of path p, remembers while the cells D are freed.
Remembered(p, e, D) ==
  LET s == mods[cur.id]
      i == CHOOSE j \in DOMAIN s : s[j] = e
  IN  [BlankFrame EXCEPT !.reload = p, !.after = After(Predecessor(e), D),
                         !.was = Scrub(SubSeq(s, 1, i - 1), D),
                         !.seen = Scrub(SubSeq(s, i + 1, Len(s)), D)]

\* It is a frame, with the list as it was before and behind e.
LEMMA RememberedFacts ==
  ASSUME Sound, NEW p \in Paths, NEW e, e = lookup(p, cur.id), e # NULL, NEW D,
         After(Predecessor(e), D) \in Ptr
  PROVE  LET f == Remembered(p, e, D)
             s == mods[cur.id]
         IN  /\ f \in Frame /\ f.saved = cur /\ f.reload = p /\ f.after = After(Predecessor(e), D)
             /\ \E i \in 1..Len(s) :
                  /\ s[i] = e /\ Predecessor(e) = IF i = 1 THEN NULL ELSE s[i-1]
                  /\ f.was = Scrub(SubSeq(s, 1, i - 1), D)
                  /\ f.seen = Scrub(SubSeq(s, i + 1, Len(s)), D)
<1> DEFINE s == mods[cur.id]
           i == CHOOSE j \in DOMAIN s : s[j] = e
           before == SubSeq(s, 1, i - 1)
           behind == SubSeq(s, i + 1, Len(s))
           a == After(Predecessor(e), D)
           w == Scrub(before, D)
           b == Scrub(behind, D)
           f == [BlankFrame EXCEPT !.reload = p, !.after = a, !.was = w, !.seen = b]
<1>1. s \in Seq(Cells) /\ e \in ToSet(s) /\ ent[e].region = cur.id
  BY UnloadIs DEF Sound, ListsFit
<1>2. i \in 1..Len(s) /\ s[i] = e
  <2>1. \E j \in DOMAIN s : s[j] = e
    BY <1>1 DEF ToSet
  <2>2. i \in DOMAIN s /\ s[i] = e
    BY <2>1
  <2> QED BY <1>1, <2>2
<1>3. Predecessor(e) = IF i = 1 THEN NULL ELSE s[i-1]
  BY <1>1 DEF Predecessor
<1>4. Remembered(p, e, D) = f
  BY DEF Remembered
<1> HIDE DEF i, s
<1>5. before \in Seq(Slot) /\ behind \in Seq(Slot)
  <2>1. s \in Seq(Slot) /\ Len(s) \in Nat
    BY <1>1 DEF Slot
  <2> QED BY <1>2, <2>1
<1> HIDE DEF before, behind, a
<1>6. w \in Seq(Slot) /\ b \in Seq(Slot)
  BY <1>5, ScrubFacts
<1> HIDE DEF w, b
<1>7. a \in Ptr
  BY DEF a
<1>8. /\ f \in Frame /\ f.saved = cur /\ f.reload = p /\ f.after = a /\ f.was = w /\ f.seen = b
  BY <1>6, <1>7, BlankFacts DEF Frame
<1> HIDE DEF f
<1>9. \E k \in 1..Len(s) :
        /\ s[k] = e /\ Predecessor(e) = IF k = 1 THEN NULL ELSE s[k-1]
        /\ w = Scrub(SubSeq(s, 1, k - 1), D) /\ b = Scrub(SubSeq(s, k + 1, Len(s)), D)
  BY <1>2, <1>3 DEF w, b, before, behind
<1> QED BY <1>4, <1>8, <1>9 DEF a, s

\* A reload, in terms of the entry, the cells it frees and the state between
\* its two halves.
LEMMA ReloadIs ==
  ASSUME Sound, NEW p \in Paths, ReloadBegin(p)
  PROVE  \E e \in Loaded, D \in SUBSET Cells :
           /\ e = lookup(p, cur.id) /\ e # NULL /\ ent[e].refs = 1 /\ D = Doomed(e) /\ e \in D
           /\ ent[e].path = p /\ ent[e].region = cur.id /\ Freeable(D) /\ MayUnload /\ MayLoad
           /\ Begin(p, Without(D), CtxAfter(D), FramesAfter(D), Counted(held, p, cur.id, -1),
                    Remembered(p, e, D))
           /\ reloading' = TRUE /\ slots' = SlotsAfter(D) /\ bad' = NameRead(D) /\ gate' = gate
           /\ last' = NoResult
<1> DEFINE e == lookup(p, cur.id)
           D == Doomed(e)
<1>1. /\ e # NULL /\ ent[e].refs = 1 /\ Freeable(D) /\ reloading' = TRUE /\ MayUnload /\ MayLoad
      /\ Begin(p, Without(D), CtxAfter(D), FramesAfter(D), Counted(held, p, cur.id, -1),
               Remembered(p, e, D))
      /\ slots' = SlotsAfter(D) /\ bad' = NameRead(D) /\ gate' = gate /\ last' = NoResult
  BY DEF ReloadBegin, Remembered
<1>2. e \in Loaded /\ ent[e].path = p /\ ent[e].region = cur.id
  BY <1>1, UnloadIs
<1>3. e \in D /\ D \subseteq Cells
  BY <1>2, DoomedFacts DEF Loaded
<1> HIDE DEF e, D
<1>4. e = lookup(p, cur.id) /\ D = Doomed(e)
  BY DEF e, D
<1> QED BY <1>1, <1>2, <1>3, <1>4

\* A reload as far as the new image's xy_install.
LEMMA SoundReload ==
  ASSUME Sound, NEW p \in Paths, ReloadBegin(p)
  PROVE  Sound'
<1>1. PICK e \in Loaded, D \in SUBSET Cells :
        /\ e = lookup(p, cur.id) /\ e # NULL /\ ent[e].refs = 1 /\ D = Doomed(e) /\ Freeable(D)
        /\ Begin(p, Without(D), CtxAfter(D), FramesAfter(D), Counted(held, p, cur.id, -1),
                 Remembered(p, e, D))
        /\ reloading' = TRUE /\ slots' = SlotsAfter(D) /\ bad' = NameRead(D) /\ gate' = gate
  BY ReloadIs
<1> DEFINE a == After(Predecessor(e), D)
           f == Remembered(p, e, D)
           s == Without(D)
           E == s.ent
<1>2. /\ EntriesFit(E, live) /\ ListsFit(E, s.mods)
      /\ FramesFit(E, live, FramesAfter(D)) /\ LoadingFits(FramesAfter(D), loading)
      /\ SlotsFit(E, SlotsAfter(D), FramesAfter(D)) /\ ContextsTyped(CtxAfter(D), live)
      /\ \A c \in Cells : E[c] # Free /\ E[c].path = p => E[c].region # cur.id
      /\ a \in Cells => E[a] # Free /\ E[a].region = cur.id /\ E[a].path # p
      /\ a \in Ptr
  BY <1>1, ReloadHalfway
<1>3. f \in Frame /\ f.saved = cur /\ f.reload = p /\ f.after = a
  BY <1>1, <1>2, RememberedFacts
<1> HIDE DEF a, f, s
<1>4. bad' \in BOOLEAN
  BY <1>1 DEF NameRead
<1>5. Begin(p, s, CtxAfter(D), FramesAfter(D), Counted(held, p, cur.id, -1), f)
  BY <1>1 DEF f, s
<1> QED BY <1>1, <1>2, <1>3, <1>4, <1>5, BeginFits

\* A list with the same entries, each once.
LEMMA ListReplaced ==
  ASSUME NEW E, NEW M, ListsFit(E, M), NEW r \in Regions, NEW s \in Seq(Cells),
         IsInjective(s), ToSet(s) = ToSet(M[r])
  PROVE  ListsFit(E, [M EXCEPT ![r] = s])
<1> DEFINE M1 == [M EXCEPT ![r] = s]
<1>1. M \in [Regions -> Seq(Cells)]
  BY DEF ListsFit
<1>2. M1 \in [Regions -> Seq(Cells)] /\ M1[r] = s /\ \A q \in Regions : q # r => M1[q] = M[q]
  BY <1>1
<1> HIDE DEF M1
<1>3. \A q \in Regions : IsInjective(M1[q]) /\ ToSet(M1[q]) = ToSet(M[q])
  BY <1>2 DEF ListsFit
<1> QED BY <1>2, <1>3 DEF ListsFit, M1

\* An xy_install returns, with the module of a reload moved or not.
LEMMA SoundInstallReturn ==
  ASSUME Sound, InstallReturn
  PROVE  Sound'
<1> DEFINE f == Top
           e == IF f.reload = NULL THEN NULL ELSE lookup(f.reload, f.saved.id)
<1>1. /\ frames # <<>> /\ f.kind = "install" /\ frames' = Front(frames) /\ cur' = f.saved
      /\ loading' = f.loading /\ reloading' = (reloading /\ f.reload = NULL)
      /\ bad' = (e # NULL /\ f.after = Dangling)
      /\ \/ /\ e # NULL /\ f.after # Dangling
            /\ mods' = [mods EXCEPT ![f.saved.id] = Reinserted(@, e, f.after)]
         \/ mods' = mods
      /\ UNCHANGED <<regVars, gate, ent, slots, ctx, held>>
  BY DEF InstallReturn
<1>2. /\ FramesFit(ent, live, frames') /\ SlotsFit(ent, slots, frames')
      /\ f \in Frame /\ FrameFits(ent, live, f) /\ LoadingFits(frames', loading')
  <2>1. f = frames[Len(frames)]
    BY DEF Top
  <2> HIDE DEF f
  <2> QED BY <1>1, <2>1, Popped DEF Sound
<1>3. /\ f.saved \in Context /\ f.saved.id \in live /\ f.saved.at \in live
      /\ f.loading \in Cells \cup {NULL} /\ f.reload \in Paths \cup {NULL} /\ f.after \in Ptr
      /\ live \subseteq Regions
  BY <1>2 DEF Frame, FrameFits, Sound, TreeFits
<1> HIDE DEF f
<1>4. ListsFit(ent, mods')
  <2>1. CASE mods' = mods
    BY <2>1 DEF Sound
  <2>2. CASE /\ e # NULL /\ f.after # Dangling
             /\ mods' = [mods EXCEPT ![f.saved.id] = Reinserted(@, e, f.after)]
    <3> DEFINE r == f.saved.id
               p == f.reload
               s == mods[r]
               a == f.after
    <3>1. p \in Paths /\ r \in Regions /\ e = lookup(p, r)
      BY <1>3, <2>2
    <3>2. EntriesFit(ent, live) /\ ListsFit(ent, mods) /\ NULL \notin Paths
      BY SetAssumption DEF Sound
    <3>3. e \in Cells /\ e \in ToSet(s) /\ ent[e].path = p
      BY <2>2, <3>1, <3>2, LookupFacts
    <3>4. s \in Seq(Cells) /\ IsInjective(s)
      BY <3>1, <3>2 DEF ListsFit
    <3>5. a = NULL \/ (a \in ToSet(s) /\ a # e)
      <4>1. a = NULL \/ a \in Cells
        BY <1>3, <2>2 DEF Ptr
      <4>2. a \in Cells => ent[a] # Free /\ ent[a].region = r /\ ent[a].path # p
        BY <1>2, <3>1, <3>2 DEF FrameFits
      <4> QED BY <3>1, <3>2, <3>3, <4>1, <4>2 DEF ListsFit
    <3>6. mods' = [mods EXCEPT ![r] = Reinserted(s, e, a)]
      BY <2>2, <3>1, <3>2 DEF ListsFit
    <3> HIDE DEF e, s, r, a
    <3>7. Reinserted(s, e, a) \in Seq(Cells) /\ IsInjective(Reinserted(s, e, a))
          /\ ToSet(Reinserted(s, e, a)) = ToSet(s)
      <4>1. e \in ToSet(s)
        BY <3>3
      <4> QED BY <3>4, <3>5, <4>1, ReinsertedFacts
    <3> QED BY <3>1, <3>2, <3>6, <3>7, ListReplaced DEF s
  <2> QED BY <1>1, <2>1, <2>2
<1>5. UNCHANGED <<live, anc, kids, gate, ent, slots, ctx>>
  BY <1>1 DEF regVars
<1>6. /\ TreeFits(live, anc, kids) /\ gate \in [Regions -> BOOLEAN] /\ EntriesFit(ent, live)
      /\ ContextsTyped(ctx, live)
  BY DEF Sound
<1>7. reloading' \in BOOLEAN /\ bad' \in BOOLEAN
  BY <1>1 DEF Sound
<1> QED BY <1>1, <1>2, <1>3, <1>4, <1>5, <1>6, <1>7, SoundIs

\* A reload of a module with other references.
LEMMA SoundReloadShared ==
  ASSUME Sound, NEW p, ReloadShared(p)
  PROVE  Sound'
BY DEF Sound, ReloadShared, regVars, heap

\* xy_require_claim.
LEMMA SoundRequireClaim ==
  ASSUME Sound, NEW on \in BOOLEAN, RequireClaim(on)
  PROVE  Sound'
BY DEF Sound, RequireClaim, regVars, heap

\* xy_with_region.
LEMMA SoundWithRegion ==
  ASSUME Sound, NEW r \in live, WithRegion(r)
  PROVE  Sound'
<1>1. /\ frames' = Append(frames, BlankFrame) /\ cur' = [id |-> r, at |-> r]
      /\ UNCHANGED <<live, anc, kids, gate, ent, mods, slots, ctx, loading, reloading, bad>>
  BY DEF WithRegion, regVars, heap
<1>2. /\ BlankFrame \in Frame /\ BlankFrame.kind = "scope" /\ BlankFrame.e = NULL
      /\ BlankFrame.saved = cur /\ BlankFrame.reload = NULL
  BY BlankFacts
<1>3. FrameFits(ent, live, BlankFrame)
  BY <1>2, SetAssumption DEF Sound, FrameFits
<1> DEFINE g == BlankFrame
<1> HIDE DEF g
<1>4. /\ FramesFit(ent, live, frames') /\ SlotsFit(ent, slots, frames')
      /\ LoadingFits(frames', loading)
  <2>1. g \in Frame /\ g.kind = "scope" /\ FrameFits(ent, live, g) /\ frames' = Append(frames, g)
    BY <1>1, <1>2, <1>3 DEF g
  <2> QED BY <2>1, OnTop DEF Sound
<1>5. cur' \in Context /\ cur'.id \in live /\ cur'.at \in live
  BY <1>1 DEF Sound, TreeFits, Context
<1> QED BY <1>1, <1>4, <1>5 DEF Sound

\* The function given to xy_with_region returns.
LEMMA SoundScopeReturn ==
  ASSUME Sound, ScopeReturn
  PROVE  Sound'
<1> DEFINE f == Top
<1>1. /\ frames # <<>> /\ f.kind = "scope" /\ frames' = Front(frames) /\ cur' = f.saved
      /\ UNCHANGED <<live, anc, kids, gate, ent, mods, slots, ctx, loading, reloading, bad>>
  BY DEF ScopeReturn, regVars, heap
<1>2. /\ FramesFit(ent, live, frames') /\ SlotsFit(ent, slots, frames')
      /\ f \in Frame /\ FrameFits(ent, live, f) /\ LoadingFits(frames', loading)
  <2>1. f = frames[Len(frames)]
    BY DEF Top
  <2> HIDE DEF f
  <2> QED BY <1>1, <2>1, Popped DEF Sound
<1>3. f.saved \in Context /\ f.saved.id \in live /\ f.saved.at \in live
  BY <1>2 DEF Frame, FrameFits
<1> HIDE DEF f
<1> QED BY <1>1, <1>2, <1>3 DEF Sound

\* The elements of a sequence.
LEMMA SequenceElements ==
  ASSUME NEW S, NEW s \in Seq(S)
  PROVE  /\ DOMAIN s = 1..Len(s) /\ Len(s) \in Nat /\ ToSet(s) \subseteq S
         /\ \A i \in 1..Len(s) : s[i] \in ToSet(s) /\ s[i] \in S
         /\ \A x \in ToSet(s) : \E i \in 1..Len(s) : s[i] = x
         /\ s # <<>> => Len(s) # 0
<1>1. DOMAIN s = 1..Len(s) /\ Len(s) \in Nat /\ \A i \in 1..Len(s) : s[i] \in S
  OBVIOUS
<1>2. s # <<>> => Len(s) # 0
  OBVIOUS
<1> QED BY <1>1, <1>2 DEF ToSet

\* A rebuild keeps every slot a call in progress counts on.
LEMMA RebuiltFacts ==
  ASSUME NEW old \in Seq(Slot), NEW new \in Seq(Slot)
  PROVE  /\ Rebuilt(old, new) \in Seq(Slot)
         /\ Len(new) <= Len(Rebuilt(old, new)) /\ Len(old) <= Len(Rebuilt(old, new))
         /\ \A x \in ToSet(Rebuilt(old, new)) : x \in ToSet(new) \/ x \in ToSet(old)
         /\ \A i \in 1..Len(new) : Rebuilt(old, new)[i] = new[i]
<1> DEFINE m == Len(new)
           n == Len(old)
           t == SubSeq(old, m + 1, n)
           u == new \o t
<1>1. m \in Nat /\ n \in Nat
  OBVIOUS
<1>2. /\ t \in Seq(Slot) /\ Len(t) = (IF m + 1 <= n THEN n - m ELSE 0)
      /\ \A i \in 1..Len(t) : t[i] = old[m + i] /\ m + i \in 1..n
  <2>1. CASE m + 1 <= n
    BY <1>1, <2>1
  <2>2. CASE ~(m + 1 <= n)
    BY <1>1, <2>2
  <2> QED BY <2>1, <2>2
<1> HIDE DEF t
<1>3. /\ u \in Seq(Slot) /\ Len(u) = m + Len(t) /\ Len(t) \in Nat
      /\ \A i \in 1..m : u[i] = new[i]
      /\ \A i \in m+1..Len(u) : u[i] = t[i - m] /\ i - m \in 1..Len(t)
  BY <1>1, <1>2
<1> HIDE DEF u
<1>4. ASSUME NEW x \in ToSet(u) PROVE x \in ToSet(new) \/ x \in ToSet(old)
  <2>1. PICK i \in 1..Len(u) : u[i] = x
    BY <1>3, SequenceElements
  <2>2. CASE i \in 1..m
    BY <1>3, <2>1, <2>2, SequenceElements
  <2>3. CASE i \in m+1..Len(u)
    <3>1. x = old[m + (i - m)] /\ m + (i - m) \in 1..n
      BY <1>2, <1>3, <2>1, <2>3
    <3> QED BY <3>1, SequenceElements
  <2> QED BY <1>1, <1>3, <2>1, <2>2, <2>3
<1>5. Rebuilt(old, new) = u
  BY DEF Rebuilt, u, t
<1> QED BY <1>1, <1>2, <1>3, <1>4, <1>5

\* xy_call as far as the first body.
LEMMA SoundCall ==
  ASSUME Sound, Call
  PROVE  Sound'
<1> DEFINE r == cur.at
           new == Listeners(r)
           f == [BlankFrame EXCEPT !.kind = "body", !.at = r, !.n = Len(new), !.was = new]
<1>1. UNCHANGED <<live, anc, kids, gate, ent, mods, ctx, loading, reloading>>
  BY DEF Call, regVars
<1>2. CASE new = <<>>
  BY <1>1, <1>2 DEF Call, Sound
<1>3. CASE new # <<>>
  <2>1. /\ slots' = [slots EXCEPT ![r] = Rebuilt(slots[r], new)]
        /\ RunSlot(new[1], cur, f, frames)
    BY <1>3 DEF Call, Sound, SlotsFit
  <2>2. r \in live /\ r \in Regions /\ cur \in Context /\ cur.id \in live
    BY DEF Sound, TreeFits
  <2>3. /\ new \in Seq(Cells)
        /\ \A c \in ToSet(new) : c \in Cells /\ ent[c] # Free /\ ent[c].path \notin Bare
    BY <2>2, ListenersFacts
  <2> HIDE DEF new, r
  <2>4. new \in Seq(Slot) /\ Len(new) \in Nat \ {0} /\ new[1] \in ToSet(new)
    <3>1. Len(new) \in Nat /\ Len(new) # 0
      BY <1>3, <2>3, SequenceElements
    <3>2. new \in Seq(Slot) /\ new[1] \in ToSet(new)
      BY <2>3, <3>1, SequenceElements DEF Slot
    <3> QED BY <3>1, <3>2
  <2>5. /\ f \in Frame /\ f.kind = "body" /\ f.at = r /\ f.reload = NULL /\ f.i = 0
        /\ f.n = Len(new) /\ f.saved = cur
    BY <2>2, <2>4, BlankFacts DEF Frame
  <2> DEFINE u == Rebuilt(slots[r], new)
  <2>6. slots \in [Regions -> Seq(Slot)]
    BY DEF Sound, SlotsFit
  <2>7. /\ u \in Seq(Slot) /\ Len(new) <= Len(u) /\ Len(slots[r]) <= Len(u)
        /\ \A x \in ToSet(u) : x \in ToSet(new) \/ x \in ToSet(slots[r])
    BY <2>2, <2>4, <2>6, RebuiltFacts
  <2> HIDE DEF u
  <2>8. /\ slots' \in [Regions -> Seq(Slot)] /\ slots'[r] = u
        /\ \A q \in Regions : q # r => slots'[q] = slots[q]
    BY <2>1, <2>2, <2>6, <2>7 DEF u
  <2>9. SlotsFit(ent, slots', frames)
    <3>1. ASSUME NEW q \in Regions, NEW c \in ToSet(slots'[q]), c \in Cells
          PROVE  ent[c] # Free /\ ent[c].path \notin Bare
      <4>1. c \in ToSet(slots[q]) \/ c \in ToSet(new)
        BY <2>2, <2>7, <2>8
      <4> QED BY <2>3, <3>1, <4>1 DEF Sound, SlotsFit
    <3>2. ASSUME NEW i \in 1..Len(frames), frames[i].kind = "body"
          PROVE  frames[i].n <= Len(slots'[frames[i].at])
      <4>1. frames[i] \in Frame /\ frames[i].at \in live /\ live \subseteq Regions
        BY <3>2 DEF Sound, FramesFit, FrameFits, TreeFits
      <4>2. frames[i].n <= Len(slots[frames[i].at]) /\ frames[i].n \in Nat
        BY <3>2, <4>1 DEF Sound, SlotsFit, Frame
      <4>3. Len(slots[frames[i].at]) \in Nat /\ Len(u) \in Nat
        BY <2>6, <2>7, <4>1
      <4> QED BY <2>7, <2>8, <4>1, <4>2, <4>3
    <3> QED BY <2>8, <3>1, <3>2 DEF SlotsFit
  <2> DEFINE me == new[1]
  <2>10. me \in Cells /\ ent[me] # Free
    BY <2>3, <2>4
  <2>11. RunSlot(me, cur, f, frames) /\ f.n <= Len(slots'[f.at]) /\ f.i < f.n
    BY <2>1, <2>4, <2>5, <2>7, <2>8
  <2>12. cur.at \in live /\ FramesFit(ent, live, frames) /\ LoadingFits(frames, loading)
    BY DEF Sound
  <2> HIDE DEF f, me
  <2>13. /\ FramesFit(ent, live, frames') /\ SlotsFit(ent, slots', frames')
         /\ LoadingFits(frames', loading)
         /\ cur' \in Context /\ cur'.id \in live /\ cur'.at \in live /\ bad' = bad
    BY <2>2, <2>5, <2>9, <2>10, <2>11, <2>12, RunSlotFits
  <2> QED BY <1>1, <2>13 DEF Sound
<1> QED BY <1>2, <1>3

\* A hook body returns: the next one begins, or the call ends.
LEMMA SoundBodyReturn ==
  ASSUME Sound, BodyReturn
  PROVE  Sound'
<1> DEFINE f == Top
           c0 == IF f.changed THEN f.saved ELSE cur
           u == Front(frames)
<1>1. /\ frames # <<>> /\ f.kind = "body"
      /\ UNCHANGED <<live, anc, kids, gate, ent, mods, ctx, loading, reloading>>
  BY DEF BodyReturn, regVars
<1>2. /\ FramesFit(ent, live, u) /\ SlotsFit(ent, slots, u) /\ Len(frames) \in Nat \ {0}
      /\ f \in Frame /\ FrameFits(ent, live, f) /\ LoadingFits(u, loading)
      /\ f = frames[Len(frames)]
  <2>1. f = frames[Len(frames)]
    BY DEF Top
  <2> HIDE DEF f, u
  <2>2. LoadingFits(Front(frames), loading)
    BY <1>1, <2>1, Popped DEF Sound
  <2> QED BY <1>1, <2>1, <2>2, Popped DEF Sound, u
<1>3. /\ f.saved \in Context /\ f.saved.id \in live /\ f.saved.at \in live
      /\ f.at \in live /\ f.i \in Nat /\ f.n \in Nat /\ 1 <= f.i /\ f.reload = NULL
      /\ live \subseteq Regions
  BY <1>1, <1>2 DEF Frame, FrameFits, Sound, TreeFits
<1>4. c0 \in Context /\ c0.id \in live /\ c0.at \in live
  BY <1>3 DEF Sound
<1>5. slots \in [Regions -> Seq(Slot)] /\ f.n <= Len(slots[f.at])
  BY <1>1, <1>2 DEF Sound, SlotsFit
<1>6. CASE f.i < f.n
  <2> DEFINE me == slots[f.at][f.i + 1]
  <2>1. RunSlot(me, c0, f, u) /\ slots' = slots
    BY <1>6 DEF BodyReturn
  <2>2. me \in ToSet(slots[f.at]) /\ me \in Slot
    <3>1. slots[f.at] \in Seq(Slot) /\ f.i + 1 \in 1..Len(slots[f.at])
      BY <1>3, <1>5, <1>6
    <3> QED BY <3>1, SequenceElements
  <2> HIDE DEF me, f, c0, u
  <2>3. CASE me = Dangling
    <3>1. bad' = TRUE /\ frames' = frames /\ cur' = cur
      BY <2>1, <2>3 DEF RunSlot
    <3> QED BY <1>1, <2>1, <3>1 DEF Sound
  <2>4. CASE me \in Cells
    <3>1. ent[me] # Free
      BY <1>3, <2>2, <2>4 DEF Sound, SlotsFit
    <3>2. /\ FramesFit(ent, live, frames') /\ SlotsFit(ent, slots', frames')
          /\ LoadingFits(frames', loading)
          /\ cur' \in Context /\ cur'.id \in live /\ cur'.at \in live /\ bad' = bad
      BY <1>1, <1>2, <1>3, <1>4, <1>5, <1>6, <2>1, <2>4, <3>1, RunSlotFits
    <3> QED BY <1>1, <3>2 DEF Sound
  <2> QED BY <2>2, <2>3, <2>4 DEF Slot
<1>7. CASE ~(f.i < f.n)
  <2>1. /\ frames' = u /\ cur' = c0 /\ bad' = bad
        /\ slots' = IF \E g \in ToSet(u) : g.kind = "body" /\ g.at = f.at
                    THEN slots ELSE [slots EXCEPT ![f.at] = <<>>]
    BY <1>7 DEF BodyReturn
  <2>2. u \in Seq(Frame)
    BY <1>2 DEF FramesFit
  <2> HIDE DEF f, c0, u
  <2>3. SlotsFit(ent, slots', u)
    <3>1. CASE slots' = slots
      BY <1>2, <3>1
    <3>2. CASE /\ slots' = [slots EXCEPT ![f.at] = <<>>]
               /\ ~\E g \in ToSet(u) : g.kind = "body" /\ g.at = f.at
      <4>1. /\ slots' \in [Regions -> Seq(Slot)] /\ slots'[f.at] = <<>>
            /\ \A q \in Regions : q # f.at => slots'[q] = slots[q]
        BY <1>3, <1>5, <3>2
      <4>2. ToSet(<<>>) = {}
        BY DEF ToSet
      <4>3. \A q \in Regions : \A c \in ToSet(slots'[q]) :
              c \in Cells => ent[c] # Free /\ ent[c].path \notin Bare
        BY <1>2, <4>1, <4>2 DEF SlotsFit
      <4>4. ASSUME NEW i \in 1..Len(u), u[i].kind = "body"
            PROVE  u[i].n <= Len(slots'[u[i].at])
        <5>1. u[i] \in ToSet(u)
          BY <2>2, SequenceElements
        <5>2. u[i].at # f.at
          BY <3>2, <4>4, <5>1
        <5>3. u[i].at \in Regions
          BY <1>2, <1>3, <4>4 DEF FramesFit, FrameFits
        <5> QED BY <1>2, <4>1, <4>4, <5>2, <5>3 DEF SlotsFit
      <4> QED BY <4>1, <4>3, <4>4 DEF SlotsFit
    <3> QED BY <2>1, <3>1, <3>2
  <2> QED BY <1>1, <1>2, <1>4, <2>1, <2>3 DEF Sound
<1> QED BY <1>6, <1>7

\* Whatever a step is, Sound is kept.
LEMMA SoundNext ==
  ASSUME Sound, [Next]_vars
  PROVE  Sound'
<1>1. CASE UNCHANGED vars
  BY <1>1 DEF vars, Sound
<1>2. ASSUME NEW p \in Paths,
             \/ LoadReuse(p) \/ LoadRefused(p) \/ LoadNoInstall(p) \/ LoadBegin(p)
             \/ Unload(p) \/ ReloadBegin(p) \/ ReloadShared(p) \/ ReloadLost(p)
      PROVE  Sound'
  <2>1. reloading \in BOOLEAN
    BY DEF Sound
  <2>2. CASE Unload(p) \/ ReloadLost(p)
    BY <2>1, <2>2, SoundUnload DEF Unload, ReloadLost
  <2> QED BY <1>2, <2>2, SoundReuse, SoundRefused, SoundNoInstall, SoundLoad, SoundReload,
             SoundReloadShared
<1>3. CASE InstallReturn \/ Call \/ BodyReturn \/ ScopeReturn \/ Shutdown
  BY <1>3, SoundInstallReturn, SoundCall, SoundBodyReturn, SoundScopeReturn, SoundShutdown
<1>4. ASSUME NEW r \in live, WithRegion(r) PROVE Sound'
  BY <1>4, SoundWithRegion
<1>5. ASSUME NEW on \in BOOLEAN, RequireClaim(on) PROVE Sound'
  BY <1>5, SoundRequireClaim
<1> QED BY <1>1, <1>2, <1>3, <1>4, <1>5 DEF Next

-----------------------------------------------------------------------------
(* What holds however the library is used. *)

\* The inductive invariant holds in every reachable state, whatever the
\* libraries are, whatever foreign code calls, and whatever the allocator does.
THEOREM SoundAlways == Spec => []Sound
<1> QED BY SoundInit, SoundNext, PTL DEF Spec

\* The type invariant of entries, contexts and frames.
THEOREM TypeCorrect == Spec => []TypeOK
<1>1. Sound => TypeOK
  <2> SUFFICES ASSUME Sound PROVE TypeOK
    OBVIOUS
  <2>1. /\ Root \in live /\ live \subseteq Regions /\ anc \in [Regions -> SUBSET Regions]
        /\ gate \in [Regions -> BOOLEAN] /\ cur \in [id : live, at : live]
        /\ loading \in Cells \cup {NULL} /\ {reloading, bad} \subseteq BOOLEAN
    BY DEF Sound, TreeFits, Context
  <2>2. ASSUME NEW c \in Loaded
        PROVE  /\ ent[c].path \in Paths /\ ent[c].region \in live
               /\ ent[c].refs \in 1..MaxRefs /\ ent[c].parent \in Cells \cup {NULL}
    <3>1. c \in Cells /\ ent[c] # Free /\ EntriesFit(ent, live)
      BY DEF Loaded, Sound
    <3>2. ent[c] \in Entry
      BY <3>1, CellFacts DEF EntriesFit
    <3> QED BY <3>1, <3>2 DEF Entry, EntriesFit
  <2>3. ASSUME NEW i \in DOMAIN frames PROVE frames[i].saved \in [id : live, at : live]
    <3>1. frames \in Seq(Frame) /\ i \in 1..Len(frames)
      BY DEF Sound, FramesFit
    <3>2. frames[i] \in Frame /\ FrameFits(ent, live, frames[i])
      BY <3>1 DEF Sound, FramesFit
    <3>3. frames[i].saved \in Context /\ frames[i].saved.id \in live /\ frames[i].saved.at \in live
      BY <3>2 DEF Frame, FrameFits
    <3> QED BY <3>3 DEF Context
  <2> QED BY <2>1, <2>2, <2>3 DEF TypeOK
<1> QED BY <1>1, SoundAlways, PTL

\* Region lists and allocated entries match, whatever cascades, interrupted
\* reloads and failed loads there have been.
THEOREM ListsAlwaysMatch == Spec => []ListsMatchEntries
<1>1. Sound => ListsMatchEntries
  <2> SUFFICES ASSUME Sound PROVE ListsMatchEntries
    OBVIOUS
  <2>0. ListsFit(ent, mods) /\ EntriesFit(ent, live) /\ live \subseteq Regions
    BY DEF Sound, TreeFits
  <2>1. ASSUME NEW r \in live
        PROVE  /\ IsInjective(mods[r]) /\ ToSet(mods[r]) \subseteq Cells
               /\ \A c \in Cells : c \in ToSet(mods[r]) <=> ent[c] # Free /\ ent[c].region = r
    <3>1. r \in Regions /\ mods[r] \in Seq(Cells)
      BY <2>0 DEF ListsFit
    <3> QED BY <2>0, <3>1, SequenceElements DEF ListsFit
  <2>2. Loaded = UNION {ToSet(mods[r]) : r \in live}
    <3>1. ASSUME NEW c \in Loaded PROVE \E r \in live : c \in ToSet(mods[r])
      BY <2>0, <2>1 DEF EntriesFit, Loaded
    <3>2. ASSUME NEW r \in live, NEW c \in ToSet(mods[r]) PROVE c \in Loaded
      BY <2>1 DEF Loaded
    <3> QED BY <3>1, <3>2
  <2>3. \A r \in live : \A c \in ToSet(mods[r]) : ent[c].region = r
    BY <2>1
  <2>4. \A r \in live : \A c, d \in ToSet(mods[r]) : ent[c].path = ent[d].path => c = d
    BY <2>0, <2>1 DEF ListsFit
  <2> QED BY <2>1, <2>2, <2>3, <2>4 DEF ListsMatchEntries
<1> QED BY <1>1, SoundAlways, PTL

\* A cascade leaves nobody behind: a module outlives its loader only if it was
\* loaded more than once or has no context.
THEOREM CascadesComplete == Spec => []CascadeComplete
<1>1. Sound => CascadeComplete
  BY DEF Sound, EntriesFit, CascadeComplete, Loaded, Listens
<1> QED BY <1>1, SoundAlways, PTL

-----------------------------------------------------------------------------
(* Contexts, when a library is in one region at a time. *)

\* A piece of foreign code begins in context c1, called from c.
LEMMA NestingPush ==
  ASSUME NEW E, NEW fs \in Seq(Frame), NEW c, NEW c1, NEW g \in Frame, Nesting(E, fs, c),
         g.saved = c, c1.id = c1.at, g.e \in Cells => c1.id = E[g.e].region,
         g.kind = "body" /\ ~g.changed => c1 = c
  PROVE  Nesting(E, Append(fs, g), c1)
<1> DEFINE u == Append(fs, g)
<1>1. /\ u \in Seq(Frame) /\ Len(u) = Len(fs) + 1 /\ Len(fs) \in Nat
      /\ u[Len(fs) + 1] = g /\ \A i \in 1..Len(fs) : u[i] = fs[i]
  BY FrameFacts
<1> HIDE DEF u
<1>2. ASSUME NEW i \in 1..Len(u)
      PROVE  /\ u[i].saved.id = u[i].saved.at
             /\ u[i].e \in Cells => At(u, c1, i).id = E[u[i].e].region
             /\ u[i].kind = "body" /\ ~u[i].changed => At(u, c1, i) = u[i].saved
  <2>1. CASE i = Len(fs) + 1
    <3>1. At(u, c1, i) = c1 /\ u[i] = g
      BY <1>1, <2>1 DEF At
    <3> QED BY <3>1 DEF Nesting
  <2>2. CASE i \in 1..Len(fs)
    <3>1. u[i] = fs[i]
      BY <1>1, <2>2
    <3>2. At(u, c1, i) = At(fs, c, i)
      <4>1. i # Len(u) /\ At(u, c1, i) = u[i + 1].saved
        BY <1>1, <2>2 DEF At
      <4>2. CASE i = Len(fs)
        BY <1>1, <4>1, <4>2 DEF At
      <4>3. CASE i # Len(fs)
        <5>1. i + 1 \in 1..Len(fs)
          BY <1>1, <2>2, <4>3
        <5> QED BY <1>1, <4>1, <4>3, <5>1 DEF At
      <4> QED BY <4>2, <4>3
    <3> QED BY <2>2, <3>1, <3>2 DEF Nesting
  <2> QED BY <1>1, <2>1, <2>2
<1> QED BY <1>2 DEF Nesting, u

\* A piece of foreign code returns.
LEMMA NestingPop ==
  ASSUME NEW E, NEW fs \in Seq(Frame), NEW c, Nesting(E, fs, c), fs # <<>>
  PROVE  Nesting(E, Front(fs), fs[Len(fs)].saved)
<1> DEFINE u == Front(fs)
           n == Len(fs)
           c1 == fs[n].saved
<1>0. n \in Nat \ {0} /\ \E f : f \in Frame
  <2>1. n \in Nat /\ n # 0
    BY SequenceElements
  <2>2. fs[1] \in Frame
    BY <2>1
  <2> QED BY <2>1, <2>2
<1>1. /\ fs[n] \in Frame /\ u \in Seq(Frame) /\ Len(u) = n - 1
      /\ \A i \in 1..n-1 : u[i] = fs[i]
  BY <1>0, FrameFacts
<1> HIDE DEF u
<1>2. ASSUME NEW i \in 1..n-1
      PROVE  /\ u[i].saved.id = u[i].saved.at
             /\ u[i].e \in Cells => At(u, c1, i).id = E[u[i].e].region
             /\ u[i].kind = "body" /\ ~u[i].changed => At(u, c1, i) = u[i].saved
  <2>1. u[i] = fs[i] /\ i \in 1..n /\ i # n
    BY <1>0, <1>1
  <2>2. At(u, c1, i) = fs[i + 1].saved
    <3>1. CASE i = n - 1
      BY <1>0, <1>1, <3>1 DEF At
    <3>2. CASE i # n - 1
      <4>1. i + 1 \in 1..n-1
        BY <1>0, <3>2
      <4> QED BY <1>0, <1>1, <3>2, <4>1 DEF At
    <3> QED BY <3>1, <3>2
  <2>3. At(fs, c, i) = fs[i + 1].saved
    BY <2>1 DEF At
  <2> QED BY <2>1, <2>2, <2>3 DEF Nesting
<1>3. c1.id = c1.at
  BY <1>0 DEF Nesting
<1> QED BY <1>1, <1>2, <1>3 DEF Nesting, u

\* Frames and entries change, but not where code runs.
LEMMA NestingSame ==
  ASSUME NEW E, NEW E1, NEW fs \in Seq(Frame), NEW gs \in Seq(Frame), NEW c, Nesting(E, fs, c),
         Len(gs) = Len(fs),
         \A i \in 1..Len(fs) :
           /\ gs[i].saved = fs[i].saved /\ gs[i].kind = fs[i].kind /\ gs[i].changed = fs[i].changed
           /\ gs[i].e \in Cells => gs[i].e = fs[i].e /\ E1[gs[i].e].region = E[fs[i].e].region
  PROVE  Nesting(E1, gs, c)
<1>0. Len(fs) \in Nat
  OBVIOUS
<1>1. \A i \in 1..Len(fs) : At(gs, c, i) = At(fs, c, i)
  <2> TAKE i \in 1..Len(fs)
  <2>1. CASE i = Len(fs)
    BY <2>1 DEF At
  <2>2. CASE i # Len(fs)
    <3>1. i + 1 \in 1..Len(fs)
      BY <1>0, <2>2
    <3> QED BY <2>2, <3>1 DEF At
  <2> QED BY <2>1, <2>2
<1> QED BY <1>1 DEF Nesting

\* In the image of an entry there is no other entry.
LEMMA OwnImage ==
  ASSUME NEW E, NEW L, EntriesFit(E, L), NEW X, Bound(E, X), NEW c \in Cells, NEW d \in Cells,
         E[c] # Free, E[d] # Free, E[c].img = E[d].img
  PROVE  c = d
<1>1. E[c].img \in {c, E[c].path} /\ E[d].img \in {d, E[d].path}
  BY DEF EntriesFit
<1>2. E[c].path \in Paths /\ E[d].path \in Paths
  <2>1. E[c] \in Entry /\ E[d] \in Entry
    BY CellFacts DEF EntriesFit
  <2> QED BY <2>1 DEF Entry
<1>3. Cells \cap Paths = {}
  BY SetAssumption
<1> QED BY <1>1, <1>2, <1>3 DEF Bound

\* A library that is not loaded is bound in vain without consequence.
LEMMA InVain ==
  ASSUME Sound, NEW p \in Paths, NEW r, BindInVain(p, r), \A c \in Loaded : ent[c].path # p
  PROVE  ctx' = ctx
<1>1. ASSUME NEW c \in Loaded PROVE ent[c].img # p
  <2>1. c \in Cells /\ ent[c].img \in {c, ent[c].path} /\ ent[c].path # p
    BY DEF Sound, EntriesFit, Loaded
  <2> QED BY <2>1, SetAssumption
<1>2. ~Refers(p, {})
  BY <1>1 DEF Refers
<1> QED BY <1>2 DEF BindInVain

\* A library that is nowhere else is loaded as far as its xy_install.
LEMMA PlacedBegin ==
  ASSUME Sound, NEW p \in Paths, NEW s, NEW cx, NEW fs, NEW hs, NEW f,
         Begin(p, s, cx, fs, hs, f), EntriesFit(s.ent, live), FramesFit(s.ent, live, fs),
         ContextsTyped(cx, live), Bound(s.ent, cx), Nesting(s.ent, fs, cur),
         \A c \in Cells : s.ent[c] # Free => s.ent[c].path # p,
         f \in Frame, f.saved = cur
  PROVE  Placed'
<1>1. PICK c \in Cells, r \in Target(p), img \in Cells \cup {p} :
        Begun(p, s.ent, s.mods, cx, fs, hs, f, c, r, img)
  BY BeginIs
<1> USE DEF Begun
<1> DEFINE x == [path |-> p, img |-> img, region |-> r, refs |-> 1,
                 parent |-> loading, stale |-> FALSE, shared |-> FALSE]
           g == [f EXCEPT !.kind = "install", !.e = c, !.loading = loading]
           E == s.ent
<1>2. /\ E \in [Cells -> Entry \cup {Free}] /\ E[c] = Free /\ cx \in [Paths \cup Cells -> Binding]
      /\ img \in {c, p} /\ img \in Paths \cup Cells /\ Cells \cap Paths = {}
  BY <1>1, SetAssumption DEF EntriesFit, ContextsTyped
<1>3. /\ ent' = [E EXCEPT ![c] = x] /\ cur' = [id |-> r, at |-> r] /\ frames' = Append(fs, g)
      /\ ctx' = IF p \in Bare THEN cx ELSE [cx EXCEPT ![img] = [region |-> r, named |-> TRUE]]
  BY <1>1
<1>4. x.path = p /\ x.img = img /\ x.region = r
  OBVIOUS
<1>5. /\ g \in Frame /\ g.kind = "install" /\ g.e = c /\ g.saved = cur
  <2>1. c \in Ptr /\ loading \in Cells \cup {NULL}
    BY DEF Ptr, Sound
  <2> QED BY <2>1 DEF Frame
<1> HIDE DEF g, x, E
<1>6. ent'[c] = x /\ \A d \in Cells : d # c => ent'[d] = E[d]
  BY <1>2, <1>3
<1>7. ASSUME NEW d \in Cells, E[d] # Free
      PROVE  /\ d # c /\ E[d].path # p /\ E[d].img # img /\ E[d].img \in Paths \cup Cells
             /\ ctx'[E[d].img] = cx[E[d].img]
  <2>1. d # c /\ E[d].path # p
    BY <1>2, <1>7 DEF E
  <2>2. E[d].img \in {d, E[d].path} /\ E[d].path \in Paths
    <3>1. E[d] \in Entry
      BY <1>2, <1>7, CellFacts
    <3> QED BY <1>7, <3>1 DEF EntriesFit, Entry, E
  <2>3. E[d].img # img /\ E[d].img \in Paths \cup Cells
    BY <1>2, <2>1, <2>2
  <2> QED BY <1>2, <1>3, <2>1, <2>3
<1>8. Bound(ent', ctx')
  <2>1. ASSUME NEW a \in Cells, NEW b \in Cells, ent'[a] # Free, ent'[b] # Free,
               ent'[a].path = ent'[b].path
        PROVE  a = b
    <3>1. CASE a = c \/ b = c
      BY <1>4, <1>6, <1>7, <2>1, <3>1
    <3>2. CASE a # c /\ b # c
      BY <1>6, <2>1, <3>2 DEF Bound, E
    <3> QED BY <3>1, <3>2
  <2>2. ASSUME NEW d \in Cells, ent'[d] # Free, ent'[d].path \notin Bare
        PROVE  ctx'[ent'[d].img] = [region |-> ent'[d].region, named |-> TRUE]
    <3>1. CASE d = c
      BY <1>2, <1>3, <1>4, <1>6, <2>2, <3>1
    <3>2. CASE d # c
      BY <1>6, <1>7, <2>2, <3>2 DEF Bound, E
    <3> QED BY <3>1, <3>2
  <2> QED BY <2>1, <2>2 DEF Bound
<1>9. fs \in Seq(Frame) /\ \A i \in 1..Len(fs) : fs[i].e \in Cells => E[fs[i].e] # Free
  BY DEF FramesFit, FrameFits, E
<1>10. Nesting(ent', fs, cur)
  <2>1. \A i \in 1..Len(fs) : fs[i].e \in Cells => ent'[fs[i].e].region = E[fs[i].e].region
    BY <1>6, <1>7, <1>9
  <2>2. Nesting(E, fs, cur)
    BY DEF E
  <2> QED BY <1>9, <2>1, <2>2, NestingSame
<1>11. Nesting(ent', Append(fs, g), cur')
  <2>1. cur'.id = cur'.at /\ cur'.id = r /\ ent'[g.e].region = r
    BY <1>3, <1>4, <1>5, <1>6
  <2> QED BY <1>5, <1>9, <1>10, <2>1, NestingPush
<1> QED BY <1>3, <1>8, <1>11 DEF Placed

\* Entries that are left keep their contexts when the cells D are freed.
LEMMA PlacedFreed ==
  ASSUME Sound, Placed, NEW D \in SUBSET Cells, NEW E,
         \A c \in Cells : E[c] # Free <=> ent[c] # Free /\ c \notin D,
         \A c \in Cells : E[c] # Free =>
           E[c].path = ent[c].path /\ E[c].img = ent[c].img /\ E[c].region = ent[c].region
  PROVE  Bound(E, CtxAfter(D)) /\ Nesting(E, FramesAfter(D), cur)
<1>0. /\ frames \in Seq(Frame) /\ ctx \in [Paths \cup Cells -> Binding] /\ EntriesFit(ent, live)
      /\ \A i \in 1..Len(frames) : frames[i].e \in Cells => ent[frames[i].e] # Free
      /\ Dangling \notin Cells
  BY SetAssumption DEF Sound, FramesFit, FrameFits, ContextsTyped
<1>1. Bound(E, CtxAfter(D))
  <2>1. ASSUME NEW c \in Cells, E[c] # Free, E[c].path \notin Bare
        PROVE  CtxAfter(D)[E[c].img] = [region |-> E[c].region, named |-> TRUE]
    <3>1. c \in Loaded \ D /\ ent[c].img = E[c].img
      BY <2>1 DEF Loaded
    <3>2. Refers(ent[c].img, D)
      BY <3>1 DEF Refers
    <3>3. ent[c].img \in DOMAIN ctx
      <4>1. ent[c] \in Entry
        BY <1>0, <3>1, CellFacts DEF EntriesFit, Loaded
      <4> QED BY <1>0, <4>1 DEF Entry
    <3>4. CtxAfter(D)[ent[c].img] = ctx[ent[c].img]
      BY <3>2, <3>3 DEF CtxAfter
    <3> QED BY <2>1, <3>1, <3>4 DEF Placed, Bound
  <2> QED BY <2>1 DEF Placed, Bound
<1>2. Nesting(E, FramesAfter(D), cur)
  <2> DEFINE gs == FramesAfter(D)
  <2>1. /\ gs \in Seq(Frame) /\ Len(gs) = Len(frames)
        /\ \A i \in 1..Len(frames) :
             /\ gs[i].saved = frames[i].saved /\ gs[i].kind = frames[i].kind
             /\ gs[i].changed = frames[i].changed /\ gs[i].e = After(frames[i].e, D)
    BY <1>0, FramesAfterFacts
  <2> HIDE DEF gs
  <2>2. ASSUME NEW i \in 1..Len(frames), gs[i].e \in Cells
        PROVE  gs[i].e = frames[i].e /\ E[gs[i].e].region = ent[frames[i].e].region
    <3>1. gs[i].e = frames[i].e /\ frames[i].e \notin D
      BY <1>0, <2>1, <2>2 DEF After
    <3> QED BY <1>0, <2>2, <3>1
  <2>3. Nesting(ent, frames, cur)
    BY DEF Placed
  <2> QED BY <1>0, <2>1, <2>2, <2>3, NestingSame DEF gs
<1> QED BY <1>1, <1>2

\* In the empty runtime nothing is bound and nothing runs.
LEMMA PlacedEmpty ==
  ASSUME NEW E, NEW X, NEW fs, NEW c, E = [m \in Cells |-> Free], fs = <<>>,
         c = [id |-> Root, at |-> Root]
  PROVE  Bound(E, X) /\ Nesting(E, fs, c)
<1>1. Len(<<>>) = 0
  OBVIOUS
<1> QED BY <1>1 DEF Bound, Nesting

\* A step that leaves paths, images, regions, contexts and frames alone.
LEMMA PlacedSame ==
  ASSUME Sound, Placed, UNCHANGED <<ctx, cur, frames>>,
         \A c \in Cells : /\ ent'[c] # Free <=> ent[c] # Free
                          /\ ent'[c].path = ent[c].path /\ ent'[c].img = ent[c].img
                          /\ ent'[c].region = ent[c].region
  PROVE  Placed'
<1>1. Bound(ent', ctx)
  BY DEF Placed, Bound
<1>2. Nesting(ent', frames, cur)
  BY DEF Placed, Nesting
<1> QED BY <1>1, <1>2 DEF Placed

\* xy_load of a module that is there.
LEMMA PlacedReuse ==
  ASSUME Sound, Placed, NEW p \in Paths, LoadReuse(p)
  PROVE  Placed'
<1> DEFINE e == lookup(p, cur.id)
           x == [ent[e] EXCEPT !.refs = ent[e].refs + 1, !.shared = TRUE]
<1>1. /\ e \in Cells /\ ent[e] \in Entry /\ ent[e] # Free
      /\ UNCHANGED <<ctx, cur, frames>>
  <2>1. cur.id \in Regions
    BY DEF Sound, TreeFits
  <2> QED BY <2>1, LookupFacts DEF LoadReuse, Sound
<1>2. ent' = [ent EXCEPT ![e] = x]
  BY <1>1 DEF LoadReuse, Sound, EntriesFit, Entry
<1>3. /\ x.path = ent[e].path /\ x.region = ent[e].region /\ x.img = ent[e].img
  BY <1>1 DEF Entry
<1>4. x # Free
  <2>1. Free.path = NULL /\ x.path \in Paths
    BY <1>1, <1>3 DEF Free, Entry
  <2> QED BY <2>1, SetAssumption
<1>5. ent \in [Cells -> Entry \cup {Free}]
  BY DEF Sound, EntriesFit
<1> HIDE DEF e, x
<1>6. \A c \in Cells : /\ ent'[c] # Free <=> ent[c] # Free
                       /\ ent'[c].path = ent[c].path /\ ent'[c].img = ent[c].img
                       /\ ent'[c].region = ent[c].region
  BY <1>1, <1>2, <1>3, <1>4, <1>5
<1> QED BY <1>1, <1>6, PlacedSame

\* A load that begins.
LEMMA PlacedLoad ==
  ASSUME Sound, Placed, ~MultiRegion, NEW p \in Paths, LoadBegin(p)
  PROVE  Placed'
<1>1. Begin(p, Heap, ctx, frames, held, BlankFrame) /\ \A c \in Loaded : ent[c].path # p
  BY DEF LoadBegin, MayShare
<1>2. BlankFrame \in Frame /\ BlankFrame.saved = cur
  BY BlankFacts
<1> DEFINE s == Heap
<1>3. /\ EntriesFit(s.ent, live) /\ FramesFit(s.ent, live, frames) /\ ContextsTyped(ctx, live)
      /\ Bound(s.ent, ctx) /\ Nesting(s.ent, frames, cur)
      /\ \A c \in Cells : s.ent[c] # Free => s.ent[c].path # p
  BY <1>1 DEF Heap, Sound, Placed, Loaded
<1> HIDE DEF s
<1>4. Begin(p, s, ctx, frames, held, BlankFrame)
  BY <1>1 DEF s
<1> QED BY <1>2, <1>3, <1>4, PlacedBegin

\* A load that fails.
LEMMA PlacedFailed ==
  ASSUME Sound, Placed, ~MultiRegion, NEW p \in Paths, LoadRefused(p) \/ LoadNoInstall(p)
  PROVE  Placed'
<1>1. UNCHANGED <<ent, cur, frames>>
  BY DEF LoadRefused, LoadNoInstall, heap
<1>2. (\A c \in Loaded : ent[c].path # p) /\ \E r : BindInVain(p, r)
  BY DEF LoadRefused, LoadNoInstall, MayShare
<1>3. ctx' = ctx
  BY <1>2, InVain
<1> QED BY <1>1, <1>3 DEF Placed

\* An unload.
LEMMA PlacedUnload ==
  ASSUME Sound, Placed, NEW p \in Paths, _mod_unload(p)
  PROVE  Placed'
<1> DEFINE e == lookup(p, cur.id)
           D == Dropped(e)
           E == Unloaded(e).ent
<1>1. /\ e # NULL /\ Freeable(D) /\ ent' = E /\ ctx' = CtxAfter(D)
      /\ frames' = FramesAfter(D) /\ cur' = cur
  BY DEF _mod_unload, Become
<1>2. e \in Loaded
  BY <1>1, UnloadIs
<1>3. /\ Kept(E, D) /\ D \subseteq Cells
      /\ \A c \in Cells : E[c] # Free <=> ent[c] # Free /\ c \notin D
  BY <1>1, <1>2, UnloadedFits
<1> HIDE DEF e, D, E
<1>4. \A c \in Cells : E[c] # Free =>
        E[c].path = ent[c].path /\ E[c].img = ent[c].img /\ E[c].region = ent[c].region
  BY <1>3 DEF Kept
<1>5. Bound(E, CtxAfter(D)) /\ Nesting(E, FramesAfter(D), cur)
  BY <1>3, <1>4, PlacedFreed
<1> QED BY <1>1, <1>5 DEF Placed

\* A reload as far as the new image's xy_install.
LEMMA PlacedReload ==
  ASSUME Sound, Placed, NEW p \in Paths, ReloadBegin(p)
  PROVE  Placed'
<1>1. PICK e \in Loaded, D \in SUBSET Cells :
        /\ e = lookup(p, cur.id) /\ e # NULL /\ ent[e].refs = 1 /\ D = Doomed(e) /\ e \in D
        /\ ent[e].path = p /\ Freeable(D)
        /\ Begin(p, Without(D), CtxAfter(D), FramesAfter(D), Counted(held, p, cur.id, -1),
                 Remembered(p, e, D))
  BY ReloadIs
<1> DEFINE f == Remembered(p, e, D)
           s == Without(D)
           E == s.ent
<1>2. e \in Cells /\ ent[e] # Free
  BY DEF Loaded
<1>3. /\ EntriesFit(E, live) /\ FramesFit(E, live, FramesAfter(D))
      /\ ContextsTyped(CtxAfter(D), live) /\ Kept(E, D) /\ D \subseteq Cells
      /\ \A c \in Cells : E[c] # Free <=> ent[c] # Free /\ c \notin D
      /\ After(Predecessor(e), D) \in Ptr
  BY <1>1, ReloadHalfway
<1>4. f \in Frame /\ f.saved = cur
  BY <1>1, <1>3, RememberedFacts
<1> HIDE DEF f, s
<1>5. \A c \in Cells : E[c] # Free =>
        E[c].path = ent[c].path /\ E[c].img = ent[c].img /\ E[c].region = ent[c].region
  BY <1>3 DEF Kept
<1>6. Bound(E, CtxAfter(D)) /\ Nesting(E, FramesAfter(D), cur)
  BY <1>3, <1>5, PlacedFreed
<1>7. \A c \in Cells : E[c] # Free => E[c].path # p
  BY <1>1, <1>2, <1>3, <1>5 DEF Placed, Bound
<1>8. Begin(p, s, CtxAfter(D), FramesAfter(D), Counted(held, p, cur.id, -1), f)
  BY <1>1 DEF f, s
<1> QED BY <1>3, <1>4, <1>6, <1>7, <1>8, PlacedBegin

\* An xy_install or a scope function returns.
LEMMA PlacedReturn ==
  ASSUME Sound, Placed, InstallReturn \/ ScopeReturn
  PROVE  Placed'
<1>1. frames # <<>> /\ frames' = Front(frames) /\ cur' = Top.saved /\ ent' = ent /\ ctx' = ctx
  BY DEF InstallReturn, ScopeReturn, heap
<1>2. frames \in Seq(Frame) /\ Top = frames[Len(frames)]
  BY DEF Sound, FramesFit, Top
<1>3. Nesting(ent, Front(frames), frames[Len(frames)].saved)
  BY <1>1, <1>2, NestingPop DEF Placed
<1> QED BY <1>1, <1>2, <1>3 DEF Placed

\* A scope begins.
LEMMA PlacedWithRegion ==
  ASSUME Sound, Placed, NEW r, WithRegion(r)
  PROVE  Placed'
<1>1. /\ frames' = Append(frames, BlankFrame) /\ cur' = [id |-> r, at |-> r] /\ ent' = ent
      /\ ctx' = ctx
  BY DEF WithRegion, heap
<1> DEFINE g == BlankFrame
<1>2. g \in Frame /\ g.saved = cur /\ g.e = NULL /\ g.kind = "scope"
  BY BlankFacts
<1>3. frames \in Seq(Frame) /\ NULL \notin Cells /\ cur'.id = cur'.at
  BY <1>1, SetAssumption DEF Sound, FramesFit
<1> HIDE DEF g
<1>4. Nesting(ent, Append(frames, g), cur')
  BY <1>2, <1>3, NestingPush DEF Placed
<1> QED BY <1>1, <1>4 DEF Placed, g

\* The next body of a call that was made from f.saved begins.
LEMMA PlacedRunSlot ==
  ASSUME Sound, Bound(ent, ctx), NEW me \in Cells, ent[me] # Free, ent[me].path \notin Bare,
         NEW f \in Frame, f.kind = "body", f.saved.id = f.saved.at, NEW below \in Seq(Frame),
         Nesting(ent, below, f.saved), RunSlot(me, f.saved, f, below), ent' = ent, ctx' = ctx
  PROVE  Placed'
<1> DEFINE to == ctx[ent[me].img].region
           changed == to # f.saved.id
           g == [f EXCEPT !.e = me, !.i = @ + 1, !.changed = changed,
                          !.saved = [id |-> f.saved.id, at |-> f.saved.at],
                          !.seen = Append(@, me)]
<1>0. me # Dangling
  BY SetAssumption
<1>1. /\ frames' = Append(below, g)
      /\ cur' = IF changed THEN [id |-> to, at |-> ent[me].region] ELSE f.saved
  BY <1>0 DEF RunSlot
<1>2. to = ent[me].region
  <2>1. ctx[ent[me].img] = [region |-> ent[me].region, named |-> TRUE]
    BY DEF Bound
  <2> QED BY <2>1
<1>3. f.saved \in Context /\ f.saved = [id |-> f.saved.id, at |-> f.saved.at]
  BY DEF Frame, Context
<1>4. g \in Frame /\ g.e = me /\ g.saved = f.saved /\ g.kind = "body" /\ g.changed = changed
  <2>1. f.i \in Nat /\ f.seen \in Seq(Slot) /\ me \in Ptr /\ me \in Slot
    BY DEF Frame, Ptr, Slot
  <2>2. f.i + 1 \in Nat /\ Append(f.seen, me) \in Seq(Slot) /\ changed \in BOOLEAN
    BY <2>1
  <2> HIDE DEF changed
  <2>3. g = [f EXCEPT !.e = me, !.i = f.i + 1, !.changed = changed, !.saved = f.saved,
                      !.seen = Append(f.seen, me)]
    BY <1>3
  <2> HIDE DEF g
  <2> QED BY <1>3, <2>1, <2>2, <2>3 DEF Frame
<1>5. cur'.id = cur'.at /\ cur'.id = ent[me].region /\ (~changed => cur' = f.saved)
  BY <1>1, <1>2
<1> HIDE DEF g, changed
<1>6. Nesting(ent, Append(below, g), cur')
  BY <1>4, <1>5, NestingPush
<1> QED BY <1>1, <1>6 DEF Placed

\* xy_call as far as the first body.
LEMMA PlacedCall ==
  ASSUME Sound, Placed, Call
  PROVE  Placed'
<1> DEFINE r == cur.at
           new == Listeners(r)
           f == [BlankFrame EXCEPT !.kind = "body", !.at = r, !.n = Len(new), !.was = new]
           me == new[1]
<1>1. UNCHANGED <<ent, ctx>>
  BY DEF Call
<1>2. CASE new = <<>>
  BY <1>1, <1>2 DEF Call, Placed
<1>3. CASE new # <<>>
  <2>1. RunSlot(me, cur, f, frames)
    BY <1>3 DEF Call
  <2>2. r \in live /\ r \in Regions /\ frames \in Seq(Frame)
    BY DEF Sound, TreeFits, FramesFit
  <2>3. /\ new \in Seq(Cells)
        /\ \A c \in ToSet(new) : c \in Cells /\ ent[c] # Free /\ ent[c].path \notin Bare
    BY <2>2, ListenersFacts
  <2> HIDE DEF new, r
  <2>4. new \in Seq(Slot) /\ Len(new) \in Nat /\ me \in ToSet(new)
    <3>1. Len(new) \in Nat /\ Len(new) # 0
      BY <1>3, <2>3, SequenceElements
    <3>2. new \in Seq(Slot) /\ new[1] \in ToSet(new)
      BY <2>3, <3>1, SequenceElements DEF Slot
    <3> QED BY <3>1, <3>2
  <2>5. f \in Frame /\ f.kind = "body" /\ f.saved = cur
    BY <2>2, <2>4, BlankFacts DEF Frame
  <2> HIDE DEF f, me
  <2>6. me \in Cells /\ ent[me] # Free /\ ent[me].path \notin Bare
    BY <2>3, <2>4
  <2>7. Bound(ent, ctx) /\ Nesting(ent, frames, f.saved) /\ f.saved.id = f.saved.at
    BY <2>5 DEF Placed, Nesting
  <2>8. RunSlot(me, f.saved, f, frames)
    BY <2>1, <2>5
  <2> QED BY <1>1, <2>2, <2>5, <2>6, <2>7, <2>8, PlacedRunSlot
<1> QED BY <1>2, <1>3

\* A hook body returns.
LEMMA PlacedBodyReturn ==
  ASSUME Sound, Placed, BodyReturn
  PROVE  Placed'
<1> DEFINE f == Top
           c0 == IF f.changed THEN f.saved ELSE cur
           u == Front(frames)
           n == Len(frames)
<1>1. frames # <<>> /\ f.kind = "body" /\ UNCHANGED <<ent, ctx>>
  BY DEF BodyReturn
<1>2. /\ frames \in Seq(Frame) /\ FramesFit(ent, live, u) /\ n \in Nat \ {0} /\ f = frames[n]
      /\ f \in Frame /\ FrameFits(ent, live, f)
  <2>1. f = frames[n] /\ frames \in Seq(Frame)
    BY DEF Top, Sound, FramesFit
  <2> HIDE DEF f, u
  <2> QED BY <1>1, <2>1, Popped DEF Sound, u
<1>3. u \in Seq(Frame)
  BY <1>2 DEF FramesFit
<1> HIDE DEF u, f
<1>4. f.saved.id = f.saved.at /\ c0 = f.saved
  <2>1. n \in 1..n /\ At(frames, cur, n) = cur
    BY <1>2 DEF At
  <2> QED BY <1>1, <1>2, <2>1 DEF Placed, Nesting
<1>5. Nesting(ent, u, f.saved)
  BY <1>1, <1>2, NestingPop DEF Placed, u
<1> HIDE DEF c0
<1>6. CASE f.i < f.n
  <2> DEFINE me == slots[f.at][f.i + 1]
  <2>1. RunSlot(me, c0, f, u)
    BY <1>6 DEF BodyReturn, f, c0, u
  <2>2. me \in ToSet(slots[f.at]) /\ me \in Slot /\ f.at \in Regions
    <3>1. /\ f.at \in live /\ f.i \in Nat /\ f.n \in Nat /\ live \subseteq Regions
          /\ f.n <= Len(slots[f.at]) /\ slots \in [Regions -> Seq(Slot)]
      <4>1. f.at \in live /\ f.i \in Nat /\ f.n \in Nat /\ live \subseteq Regions
        BY <1>1, <1>2 DEF Sound, FrameFits, TreeFits, Frame
      <4>2. f.n <= Len(slots[f.at]) /\ slots \in [Regions -> Seq(Slot)]
        BY <1>1, <1>2 DEF Sound, SlotsFit
      <4> QED BY <4>1, <4>2
    <3>2. slots[f.at] \in Seq(Slot) /\ f.i + 1 \in 1..Len(slots[f.at])
      BY <1>6, <3>1
    <3> QED BY <3>1, <3>2, SequenceElements
  <2> HIDE DEF me
  <2>3. CASE me = Dangling
    <3>1. frames' = frames /\ cur' = cur
      BY <2>1, <2>3 DEF RunSlot
    <3> QED BY <1>1, <3>1 DEF Placed
  <2>4. CASE me \in Cells
    <3>1. ent[me] # Free /\ ent[me].path \notin Bare
      BY <2>2, <2>4 DEF Sound, SlotsFit
    <3>2. RunSlot(me, f.saved, f, u) /\ Bound(ent, ctx)
      BY <1>4, <2>1 DEF Placed
    <3> QED BY <1>1, <1>2, <1>3, <1>4, <1>5, <2>4, <3>1, <3>2, PlacedRunSlot
  <2> QED BY <2>2, <2>3, <2>4 DEF Slot
<1>7. CASE ~(f.i < f.n)
  <2>1. frames' = u /\ cur' = c0
    BY <1>7 DEF BodyReturn, f, u, c0
  <2> QED BY <1>1, <1>4, <1>5, <2>1 DEF Placed
<1> QED BY <1>6, <1>7

\* Whatever a step is, Placed is kept.
LEMMA PlacedNext ==
  ASSUME ~MultiRegion, Sound, Placed, [Next]_vars
  PROVE  Placed'
<1>1. CASE UNCHANGED vars
  BY <1>1 DEF vars, Placed
<1>2. ASSUME NEW p \in Paths,
             \/ LoadReuse(p) \/ LoadRefused(p) \/ LoadNoInstall(p) \/ LoadBegin(p)
             \/ Unload(p) \/ ReloadBegin(p) \/ ReloadShared(p) \/ ReloadLost(p)
      PROVE  Placed'
  <2>1. CASE Unload(p) \/ ReloadLost(p)
    BY <2>1, PlacedUnload DEF Unload, ReloadLost
  <2>2. CASE ReloadShared(p)
    BY <2>2 DEF ReloadShared, heap, Placed
  <2> QED BY <1>2, <2>1, <2>2, PlacedReuse, PlacedFailed, PlacedLoad, PlacedReload
<1>3. CASE InstallReturn \/ Call \/ BodyReturn \/ ScopeReturn
  BY <1>3, PlacedReturn, PlacedCall, PlacedBodyReturn
<1>4. ASSUME NEW r \in live, WithRegion(r) PROVE Placed'
  BY <1>4, PlacedWithRegion
<1>5. ASSUME NEW on \in BOOLEAN, RequireClaim(on) PROVE Placed'
  BY <1>5 DEF RequireClaim, heap, Placed
<1>6. CASE Shutdown
  <2>1. ent' = [m \in Cells |-> Free] /\ frames' = <<>> /\ cur' = [id |-> Root, at |-> Root]
    BY <1>6 DEF Shutdown
  <2> QED BY <2>1, PlacedEmpty DEF Placed
<1> QED BY <1>1, <1>2, <1>3, <1>4, <1>5, <1>6 DEF Next

\* Initially nothing is bound.
LEMMA PlacedInit == Init => Placed
BY PlacedEmpty DEF Init, Placed

\* With a library in one region at a time, the context of every loaded module
\* is its own, and every piece of foreign code runs where it should.
THEOREM PlacedAlways ==
  ASSUME ~MultiRegion
  PROVE  Spec => []Placed
<1>1. Sound /\ Placed /\ [Next]_vars => Placed'
  BY PlacedNext
<1> QED BY <1>1, PlacedInit, SoundAlways, PTL DEF Spec

\* The id and the entry pointer of the current region stay in step through
\* every nesting of calls, installs, scopes and reloads.
THEOREM ContextAlwaysPaired ==
  ASSUME ~MultiRegion
  PROVE  Spec => []ContextPaired
<1>1. Placed => ContextPaired
  BY DEF Placed, Nesting, ContextPaired
<1> QED BY <1>1, PlacedAlways, PTL

\* An xy_install or a hook body runs in the region of its module, however it
\* was reached, also when it is resumed.
THEOREM AlwaysInOwnRegion ==
  ASSUME ~MultiRegion
  PROVE  Spec => []RunsInOwnRegion
<1>1. Sound /\ Placed => RunsInOwnRegion
  <2> SUFFICES ASSUME Sound, Placed, frames # <<>>, Top.e \in Cells
               PROVE  cur.id = ent[Top.e].region
    BY DEF RunsInOwnRegion
  <2>1. Len(frames) \in 1..Len(frames)
    <3>1. frames \in Seq(Frame)
      BY DEF Sound, FramesFit
    <3>2. Len(frames) \in Nat /\ Len(frames) # 0
      BY <3>1, SequenceElements
    <3> QED BY <3>2
  <2> QED BY <2>1 DEF Top, Placed, Nesting, At
<1> QED BY <1>1, SoundAlways, PlacedAlways, PTL

-----------------------------------------------------------------------------
(* References, when nothing is unloaded from a body or an xy_install and no *)
(* address is used again while a parent link holds it.                      *)

\* A nonempty set of numbers up to n has a greatest one.
LEMMA MaxFact ==
  ASSUME NEW n \in Nat, NEW T, T \subseteq 1..n, T # {}
  PROVE  Max(T) \in T
<1> DEFINE U == {u \in Nat : \E x \in T : u = n - x}
<1>0. \A x \in T : x \in Nat /\ n - x \in Nat
  OBVIOUS
<1>1. U \subseteq Nat /\ U # {}
  BY <1>0
<1>2. PICK u \in U : \A y \in U : u <= y
  BY <1>1, LeastNat
<1>3. PICK x \in T : u = n - x
  BY <1>2
<1>4. ASSUME NEW y \in T PROVE x >= y
  <2>1. n - y \in U
    BY <1>0
  <2>2. n - x <= n - y /\ x \in Nat /\ y \in Nat
    BY <1>0, <1>2, <1>3, <2>1
  <2> QED BY <2>2
<1> QED BY <1>4 DEF Max

\* The host calls exactly when no code of a module runs, and then no module is
\* being loaded.
LEMMA CallerFacts ==
  ASSUME Sound
  PROVE  /\ Caller = NULL <=> \A i \in 1..Len(frames) : frames[i].kind = "scope"
         /\ Caller = NULL => loading = NULL
<1> DEFINE own == {i \in DOMAIN frames : frames[i].kind # "scope"}
<1>0. DOMAIN frames = 1..Len(frames) /\ Len(frames) \in Nat
  BY DEF Sound, FramesFit
<1>1. CASE own = {}
  <2>1. Caller = NULL
    BY <1>1 DEF Caller, LoaderOf
  <2>2. \A i \in 1..Len(frames) : frames[i].kind = "scope"
    BY <1>0, <1>1
  <2>3. loading = NULL
    BY <2>2 DEF Sound, LoadingFits
  <2> QED BY <2>1, <2>2, <2>3
<1>2. CASE own # {}
  <2> DEFINE m == Max(own)
  <2>1. m \in own
    BY <1>0, <1>2, MaxFact
  <2>2. Caller = frames[m].e
    BY <1>2 DEF Caller, LoaderOf
  <2> HIDE DEF m
  <2>3. m \in 1..Len(frames) /\ frames[m].kind # "scope"
    BY <1>0, <2>1
  <2>4. frames[m] \in Frame /\ FrameFits(ent, live, frames[m])
    BY <2>3 DEF Sound, FramesFit
  <2>5. frames[m].kind = "install" \/ frames[m].kind = "body"
    BY <2>3, <2>4 DEF Frame
  <2>6. frames[m].e # NULL
    BY <2>4, <2>5, SetAssumption DEF FrameFits, Slot
  <2> QED BY <2>2, <2>3, <2>6
<1> QED BY <1>1, <1>2

\* Who may unload is the host, with at most scopes open.
LEMMA QuietUnload ==
  ASSUME Sound, UnloadFrom = {}, MayUnload
  PROVE  /\ \A i \in 1..Len(frames) : frames[i].kind = "scope"
         /\ Caller = NULL /\ loading = NULL
<1>1. \A i \in 1..Len(frames) : frames[i].kind = "scope"
  <2> TAKE i \in 1..Len(frames)
  <2>1. frames[i] \in Frame /\ i \in DOMAIN frames
    BY DEF Sound, FramesFit
  <2>2. frames[i].kind # "body" /\ frames[i].kind # "install"
    BY <2>1 DEF MayUnload, Running
  <2> QED BY <2>1, <2>2 DEF Frame
<1> QED BY <1>1, CallerFacts

\* The host's loads with the count of p in r set to v.
Recounted(h, p, r, v) == [h EXCEPT ![p] = [h[p] EXCEPT ![r] = v]]

\* Only that count changes.
LEMMA RecountedFacts ==
  ASSUME NEW h \in [Paths -> [Regions -> Nat]], NEW p \in Paths, NEW r \in Regions,
         NEW v \in Nat, NEW k, k = Recounted(h, p, r, v)
  PROVE  /\ k \in [Paths -> [Regions -> Nat]] /\ k[p][r] = v
         /\ \A q \in Paths, t \in Regions : q # p \/ t # r => k[q][t] = h[q][t]
<1> DEFINE row == [h[p] EXCEPT ![r] = v]
<1>1. row \in [Regions -> Nat] /\ row[r] = v /\ \A t \in Regions : t # r => row[t] = h[p][t]
  OBVIOUS
<1>2. k = [h EXCEPT ![p] = row]
  BY DEF Recounted
<1> HIDE DEF row
<1>3. k \in [Paths -> [Regions -> Nat]] /\ k[p] = row /\ \A q \in Paths : q # p => k[q] = h[q]
  BY <1>1, <1>2
<1> QED BY <1>1, <1>3

\* The count of the host's loads after one more load or unload.
LEMMA CountedIs ==
  ASSUME NEW h \in [Paths -> [Regions -> Nat]], NEW p \in Paths, NEW r \in Regions
  PROVE  /\ Caller # NULL => Counted(h, p, r, 1) = h /\ Counted(h, p, r, -1) = h
         /\ Caller = NULL =>
              /\ Counted(h, p, r, 1) = Recounted(h, p, r, h[p][r] + 1)
              /\ Counted(h, p, r, -1) =
                   Recounted(h, p, r, IF h[p][r] = 0 THEN 0 ELSE h[p][r] - 1)
<1>1. h[p][r] \in Nat
  OBVIOUS
<1>2. ~(h[p][r] + 1 < 0) /\ (h[p][r] + (-1) < 0 <=> h[p][r] = 0) /\ h[p][r] + (-1) = h[p][r] - 1
  BY <1>1
<1> QED BY <1>2 DEF Counted, Recounted

\* A load counts for the host or for the module that loads, and not for both.
LEMMA HeldBegin ==
  ASSUME Sound, ~Recycle, NEW p \in Paths, NEW s, NEW cx, NEW fs, NEW hs, NEW f,
         Begin(p, s, cx, fs, hs, f), EntriesFit(s.ent, live), HeldFits(s.ent, hs),
         \A c \in Cells : s.ent[c] # Free /\ s.ent[c].path = p => s.ent[c].region # cur.id
  PROVE  HeldFits(ent', held')
<1>1. PICK c \in Cells, r \in Target(p), img \in Cells \cup {p} :
        Begun(p, s.ent, s.mods, cx, fs, hs, f, c, r, img)
  BY BeginIs
<1> DEFINE x == [path |-> p, img |-> img, region |-> r, refs |-> 1,
                 parent |-> loading, stale |-> FALSE, shared |-> FALSE]
           E == s.ent
<1>2. /\ r \in Regions /\ (r = cur.id \/ r \notin live) /\ live \subseteq Regions
      /\ loading \in Cells \cup {NULL} /\ NULL \notin Cells
  BY <1>1, TargetFacts, SetAssumption DEF Sound, TreeFits
<1>3. /\ E \in [Cells -> Entry \cup {Free}] /\ hs \in [Paths -> [Regions -> Nat]]
      /\ E[c] = Free /\ ent' = [E EXCEPT ![c] = x] /\ held' = Counted(hs, p, r, 1)
      /\ \A d \in Cells : E[d] # Free => E[d].parent # c
  BY <1>1 DEF Begun, EntriesFit, HeldFits
<1>4. x.path = p /\ x.region = r /\ x.refs = 1 /\ x.parent = loading /\ x # Free
  <2>1. Free.path = NULL /\ x.path = p
    BY DEF Free
  <2> QED BY <2>1, SetAssumption
<1>5. \A d \in Cells : E[d] # Free /\ E[d].path = p => E[d].region # r
  BY <1>2 DEF EntriesFit
<1>6. /\ \A d \in Cells : E[d] # Free => E[d].path \in Paths /\ E[d].region \in Regions
      /\ \A d \in Cells : E[d] # Free => hs[E[d].path][E[d].region] + LoaderCount(E, d) <= E[d].refs
      /\ \A q \in Paths, t \in Regions : hs[q][t] > 0 =>
           \E d \in Cells : E[d] # Free /\ E[d].path = q /\ E[d].region = t
  <2>1. \A d \in Cells : E[d] # Free => E[d] \in Entry
    BY <1>3, CellFacts
  <2> QED BY <1>3, <2>1 DEF Entry, HeldFits
<1> HIDE DEF E, x
<1>7. hs[p][r] = 0
  <2>1. hs[p][r] \in Nat
    BY <1>2, <1>3
  <2>2. ~(hs[p][r] > 0)
    BY <1>2, <1>5, <1>6
  <2> QED BY <2>1, <2>2
<1>8. ent'[c] = x /\ \A d \in Cells : d # c => ent'[d] = E[d]
  BY <1>3
<1>9. /\ held' \in [Paths -> [Regions -> Nat]]
      /\ Caller # NULL => held' = hs
      /\ Caller = NULL => held'[p][r] = 1
      /\ \A q \in Paths, t \in Regions : q # p \/ t # r => held'[q][t] = hs[q][t]
  <2>1. CASE Caller # NULL
    BY <1>2, <1>3, <2>1, CountedIs
  <2>2. CASE Caller = NULL
    <3> DEFINE v == 1
    <3>1. held' = Recounted(hs, p, r, v) /\ v \in Nat
      BY <1>2, <1>3, <1>7, <2>2, CountedIs
    <3> HIDE DEF v
    <3>2. /\ held' \in [Paths -> [Regions -> Nat]] /\ held'[p][r] = v
          /\ \A q \in Paths, t \in Regions : q # p \/ t # r => held'[q][t] = hs[q][t]
      BY <1>2, <1>3, <3>1, RecountedFacts
    <3> QED BY <2>2, <3>2 DEF v
  <2> QED BY <2>1, <2>2
<1>10. ASSUME NEW q \in Paths, NEW t \in Regions, held'[q][t] > 0
       PROVE  \E d \in Cells : ent'[d] # Free /\ ent'[d].path = q /\ ent'[d].region = t
  <2>1. CASE q = p /\ t = r
    BY <1>4, <1>8, <2>1
  <2>2. CASE q # p \/ t # r
    <3>1. PICK d \in Cells : E[d] # Free /\ E[d].path = q /\ E[d].region = t
      BY <1>6, <1>9, <1>10, <2>2
    <3>2. d # c
      BY <1>3, <3>1 DEF E
    <3> QED BY <1>8, <3>1, <3>2
  <2> QED BY <2>1, <2>2
<1>11. ASSUME NEW d \in Cells, ent'[d] # Free
       PROVE  held'[ent'[d].path][ent'[d].region] + LoaderCount(ent', d) <= ent'[d].refs
  <2>1. CASE d = c
    <3>1. LoaderCount(ent', c) \in {0, 1} /\ (loading = NULL => LoaderCount(ent', c) = 0)
      BY <1>2, <1>4, <1>8 DEF LoaderCount
    <3>2. Caller = NULL => loading = NULL
      BY CallerFacts
    <3>3. held'[p][r] = IF Caller = NULL THEN 1 ELSE 0
      BY <1>7, <1>9
    <3> QED BY <1>4, <1>8, <2>1, <3>1, <3>2, <3>3
  <2>2. CASE d # c
    <3>1. E[d] # Free /\ ent'[d] = E[d] /\ E[d].parent # c
      BY <1>3, <1>8, <1>11, <2>2 DEF E
    <3>2. LoaderCount(ent', d) = LoaderCount(E, d)
      BY <1>8, <3>1 DEF LoaderCount
    <3>3. held'[E[d].path][E[d].region] = hs[E[d].path][E[d].region]
      <4>1. E[d].path # p \/ E[d].region # r
        BY <1>5, <3>1
      <4> QED BY <1>6, <1>9, <3>1, <4>1
    <3> QED BY <1>6, <3>1, <3>2, <3>3
  <2> QED BY <2>1, <2>2
<1> QED BY <1>9, <1>10, <1>11 DEF HeldFits

\* What leaves with e the host does not hold, and what stays has lost only the
\* reference of its loader.
LEMMA HeldFreed ==
  ASSUME Sound, HeldFits(ent, held), Caller = NULL, NEW e \in Loaded, ent[e].refs = 1,
         NEW D, D = Doomed(e)
  PROVE  HeldFits(Without(D).ent, Counted(held, ent[e].path, ent[e].region, -1))
<1> DEFINE E == Without(D).ent
           p == ent[e].path
           r == ent[e].region
           h == Counted(held, p, r, -1)
<1>1. /\ EntriesFit(ent, live) /\ ListsFit(ent, mods) /\ live \subseteq Regions
      /\ e \in Cells /\ ent[e] # Free
  BY DEF Sound, TreeFits, Loaded
<1>2. /\ Closed(D) /\ e \in D /\ D \subseteq Loaded
      /\ \A m \in D : m # e => ent[m].parent \in D /\ ent[m].refs = 1
  BY DoomedFacts DEF Closed
<1>3. /\ \A c \in Cells : E[c] # Free <=> ent[c] # Free /\ c \notin D
      /\ \A c \in Cells : E[c] # Free =>
           /\ E[c].path = ent[c].path /\ E[c].region = ent[c].region /\ E[c].parent = ent[c].parent
           /\ E[c].refs = IF ent[c].parent \in D /\ Listens(c) THEN ent[c].refs - 1 ELSE ent[c].refs
  BY <1>1, <1>2, WithoutEntries
<1>4. /\ held \in [Paths -> [Regions -> Nat]]
      /\ \A q \in Paths, t \in Regions : held[q][t] > 0 =>
           \E c \in Cells : ent[c] # Free /\ ent[c].path = q /\ ent[c].region = t
      /\ \A c \in Cells : ent[c] # Free =>
           held[ent[c].path][ent[c].region] + LoaderCount(ent, c) <= ent[c].refs
  BY DEF HeldFits
<1>5. \A c \in Cells : ent[c] # Free =>
        ent[c].path \in Paths /\ ent[c].region \in Regions /\ ent[c].refs \in Nat
  <2>1. \A c \in Cells : ent[c] # Free => ent[c] \in Entry
    BY <1>1, CellFacts DEF EntriesFit
  <2> QED BY <2>1, SetAssumption DEF Entry
<1>6. p \in Paths /\ r \in Regions
  BY <1>1, <1>5
<1>7. /\ h \in [Paths -> [Regions -> Nat]]
      /\ h[p][r] = IF held[p][r] = 0 THEN 0 ELSE held[p][r] - 1
      /\ \A q \in Paths, t \in Regions : q # p \/ t # r => h[q][t] = held[q][t]
  <2> DEFINE v == IF held[p][r] = 0 THEN 0 ELSE held[p][r] - 1
  <2>1. held[p][r] \in Nat
    BY <1>4, <1>6
  <2>2. v \in Nat
    BY <2>1
  <2> HIDE DEF p, r
  <2>3. h = Recounted(held, p, r, v)
    BY <1>4, <1>6, CountedIs
  <2> HIDE DEF v, h
  <2>4. /\ h \in [Paths -> [Regions -> Nat]] /\ h[p][r] = v
        /\ \A q \in Paths, t \in Regions : q # p \/ t # r => h[q][t] = held[q][t]
    BY <1>4, <1>6, <2>2, <2>3, RecountedFacts
  <2> QED BY <2>4 DEF v
<1> HIDE DEF E, h
<1>8. \A c \in Cells : LoaderCount(ent, c) \in {0, 1} /\ LoaderCount(E, c) \in {0, 1}
  BY DEF LoaderCount
<1>9. ASSUME NEW q \in Paths, NEW t \in Regions, h[q][t] > 0
      PROVE  \E c \in Cells : E[c] # Free /\ E[c].path = q /\ E[c].region = t
  <2>1. q # p \/ t # r
    <3>1. held[p][r] + LoaderCount(ent, e) <= 1 /\ held[p][r] \in Nat
      BY <1>1, <1>4, <1>6
    <3>2. held[p][r] = 0 \/ held[p][r] = 1
      BY <1>1, <1>8, <3>1
    <3>3. h[p][r] = 0
      BY <1>7, <3>2
    <3> QED BY <1>9, <3>3
  <2>2. PICK c \in Cells : ent[c] # Free /\ ent[c].path = q /\ ent[c].region = t
    BY <1>4, <1>7, <1>9, <2>1
  <2>3. c \notin D
    <3> SUFFICES ASSUME c \in D PROVE FALSE
      OBVIOUS
    <3>1. c # e
      BY <2>1, <2>2
    <3>2. ent[c].parent \in D /\ ent[c].refs = 1 /\ ent[c].parent \in Loaded
      BY <1>2, <3>1
    <3>3. LoaderCount(ent, c) = 1
      BY <3>2 DEF LoaderCount, Loaded
    <3>4. held[q][t] > 0 /\ held[q][t] + 1 <= 1 /\ held[q][t] \in Nat
      BY <1>4, <1>7, <1>9, <2>1, <2>2, <3>2, <3>3
    <3> QED BY <3>4
  <2> QED BY <1>3, <2>2, <2>3
<1>10. ASSUME NEW c \in Cells, E[c] # Free
       PROVE  h[E[c].path][E[c].region] + LoaderCount(E, c) <= E[c].refs
  <2>1. ent[c] # Free /\ c \notin D /\ c # e
    BY <1>2, <1>3, <1>10
  <2> DEFINE n == held[ent[c].path][ent[c].region]
  <2>2. h[E[c].path][E[c].region] = n /\ n \in Nat
    <3>1. ent[c].path # p \/ ent[c].region # r
      BY <1>1, <2>1 DEF ListsFit
    <3> QED BY <1>3, <1>4, <1>5, <1>7, <1>10, <2>1, <3>1
  <2>3. n + LoaderCount(ent, c) <= ent[c].refs /\ ent[c].refs \in Nat
    BY <1>4, <1>5, <2>1
  <2> HIDE DEF n
  <2>4. CASE ent[c].parent \in D
    <3>1. ent[c].parent \in Cells /\ ent[ent[c].parent] # Free
      BY <1>2, <2>4 DEF Loaded
    <3>2. LoaderCount(ent, c) = 1 /\ LoaderCount(E, c) = 0
      BY <1>3, <1>10, <2>4, <3>1 DEF LoaderCount
    <3>3. E[c].refs = ent[c].refs \/ E[c].refs = ent[c].refs - 1
      BY <1>3, <1>10
    <3> QED BY <2>2, <2>3, <3>2, <3>3
  <2>5. CASE ent[c].parent \notin D
    <3>1. E[c].refs = ent[c].refs /\ E[c].parent = ent[c].parent
      BY <1>3, <1>10, <2>5
    <3>2. LoaderCount(E, c) = 1 => LoaderCount(ent, c) = 1
      BY <1>3, <3>1 DEF LoaderCount
    <3> QED BY <1>8, <2>2, <2>3, <3>1, <3>2
  <2> QED BY <2>4, <2>5
<1> QED BY <1>7, <1>9, <1>10 DEF HeldFits, E, h, p, r

\* Nothing is held in the empty runtime.
LEMMA HeldEmpty ==
  ASSUME NEW E, NEW h, E = [c \in Cells |-> Free], h = [p \in Paths |-> [r \in Regions |-> 0]]
  PROVE  HeldFits(E, h)
<1>1. h \in [Paths -> [Regions -> Nat]] /\ \A p \in Paths, r \in Regions : h[p][r] = 0
  OBVIOUS
<1>2. \A p \in Paths, r \in Regions : ~(h[p][r] > 0)
  BY <1>1
<1> QED BY <1>1, <1>2 DEF HeldFits

\* A reference to the entry e is added or dropped, for the host or not.
LEMMA HeldAdjusted ==
  ASSUME Sound, HeldFits(ent, held), NEW e \in Loaded, NEW E, E \in [Cells -> Entry \cup {Free}],
         E[e] # Free, E[e].path = ent[e].path, E[e].region = ent[e].region,
         E[e].parent = ent[e].parent, \A c \in Cells : c # e => E[c] = ent[c],
         NEW h \in [Paths -> [Regions -> Nat]],
         \A q \in Paths, t \in Regions :
           q # ent[e].path \/ t # ent[e].region => h[q][t] = held[q][t],
         h[ent[e].path][ent[e].region] + LoaderCount(ent, e) <= E[e].refs
  PROVE  HeldFits(E, h)
<1>1. /\ EntriesFit(ent, live) /\ ListsFit(ent, mods) /\ e \in Cells /\ ent[e] # Free
  BY DEF Sound, Loaded
<1>2. \A c \in Cells : /\ E[c] # Free <=> ent[c] # Free
                       /\ E[c].path = ent[c].path /\ E[c].region = ent[c].region
                       /\ E[c].parent = ent[c].parent
  BY <1>1
<1>3. \A c \in Cells : ent[c] # Free => ent[c].path \in Paths /\ ent[c].region \in Regions
  <2>1. \A c \in Cells : ent[c] # Free => ent[c] \in Entry
    BY <1>1, CellFacts DEF EntriesFit
  <2> QED BY <2>1 DEF Entry
<1>4. \A c \in Cells : LoaderCount(E, c) = LoaderCount(ent, c)
  BY <1>2 DEF LoaderCount
<1>5. ASSUME NEW c \in Cells, E[c] # Free
      PROVE  h[E[c].path][E[c].region] + LoaderCount(E, c) <= E[c].refs
  <2>1. CASE c = e
    BY <1>4, <2>1
  <2>2. CASE c # e
    <3>1. ent[c].path # ent[e].path \/ ent[c].region # ent[e].region
      BY <1>1, <1>2, <1>5, <2>2 DEF ListsFit
    <3>2. h[ent[c].path][ent[c].region] = held[ent[c].path][ent[c].region]
      BY <1>2, <1>3, <1>5, <3>1
    <3>3. held[ent[c].path][ent[c].region] + LoaderCount(ent, c) <= ent[c].refs
      BY <1>2, <1>5 DEF HeldFits
    <3> QED BY <1>4, <2>2, <3>2, <3>3
  <2> QED BY <2>1, <2>2
<1>6. ASSUME NEW q \in Paths, NEW t \in Regions, h[q][t] > 0
      PROVE  \E c \in Cells : E[c] # Free /\ E[c].path = q /\ E[c].region = t
  <2>1. CASE q = ent[e].path /\ t = ent[e].region
    BY <1>1, <2>1
  <2>2. CASE q # ent[e].path \/ t # ent[e].region
    <3>1. held[q][t] > 0
      BY <1>6, <2>2
    <3>2. PICK c \in Cells : ent[c] # Free /\ ent[c].path = q /\ ent[c].region = t
      BY <3>1 DEF HeldFits
    <3> QED BY <1>2, <3>2
  <2> QED BY <2>1, <2>2
<1> QED BY <1>5, <1>6 DEF HeldFits

\* xy_load of a module that is there.
LEMMA HeldReuse ==
  ASSUME Sound, HeldFits(ent, held), NEW p \in Paths, LoadReuse(p)
  PROVE  HeldFits(ent', held')
<1> DEFINE e == lookup(p, cur.id)
           r == cur.id
           x == [ent[e] EXCEPT !.refs = ent[e].refs + 1, !.shared = TRUE]
<1>1. /\ e \in Cells /\ ent[e] \in Entry /\ ent[e] # Free /\ e \in Loaded
      /\ ent[e].path = p /\ ent[e].region = r /\ r \in Regions /\ ent[e].refs < MaxRefs
  BY UnloadIs DEF LoadReuse
<1>2. ent' = [ent EXCEPT ![e] = x] /\ held' = Counted(held, p, r, 1)
  BY <1>1 DEF LoadReuse, Sound, EntriesFit, Entry
<1> HIDE DEF e, r
<1>3. /\ x \in Entry /\ x.path = ent[e].path /\ x.region = ent[e].region
      /\ x.parent = ent[e].parent /\ x.refs = ent[e].refs + 1 /\ ent[e].refs \in Nat
  <2>1. ent[e].refs \in 1..MaxRefs /\ MaxRefs \in Nat
    BY <1>1, SetAssumption DEF Entry
  <2>2. ent[e].refs + 1 \in 1..MaxRefs
    BY <1>1, <2>1
  <2>3. ent[e].refs \in Nat
    BY <2>1
  <2>4. /\ x \in Entry /\ x.path = ent[e].path /\ x.region = ent[e].region
        /\ x.parent = ent[e].parent /\ x.refs = ent[e].refs + 1
    BY <1>1, <2>2 DEF Entry
  <2> QED BY <2>3, <2>4
<1>4. x # Free
  BY <1>3, EntryNotFree
<1> HIDE DEF x
<1>5. /\ ent' \in [Cells -> Entry \cup {Free}] /\ ent'[e] = x
      /\ \A c \in Cells : c # e => ent'[c] = ent[c]
  BY <1>1, <1>2, <1>3 DEF Sound, EntriesFit
<1>6. /\ held \in [Paths -> [Regions -> Nat]] /\ held[p][r] \in Nat
      /\ held[p][r] + LoaderCount(ent, e) <= ent[e].refs /\ LoaderCount(ent, e) \in {0, 1}
  BY <1>1 DEF HeldFits, LoaderCount
<1>7. /\ held' \in [Paths -> [Regions -> Nat]]
      /\ held'[p][r] = held[p][r] \/ held'[p][r] = held[p][r] + 1
      /\ \A q \in Paths, t \in Regions : q # p \/ t # r => held'[q][t] = held[q][t]
  <2>1. CASE Caller # NULL
    BY <1>1, <1>2, <1>6, <2>1, CountedIs
  <2>2. CASE Caller = NULL
    <3> DEFINE v == held[p][r] + 1
    <3>1. held' = Recounted(held, p, r, v) /\ v \in Nat
      BY <1>1, <1>2, <1>6, <2>2, CountedIs
    <3> HIDE DEF v
    <3>2. /\ held' \in [Paths -> [Regions -> Nat]] /\ held'[p][r] = v
          /\ \A q \in Paths, t \in Regions : q # p \/ t # r => held'[q][t] = held[q][t]
      BY <1>1, <1>6, <3>1, RecountedFacts
    <3> QED BY <3>2 DEF v
  <2> QED BY <2>1, <2>2
<1>8. held'[p][r] + LoaderCount(ent, e) <= x.refs
  BY <1>3, <1>6, <1>7
<1> DEFINE E == ent'
           h == held'
<1> HIDE DEF E, h
<1>9. /\ E \in [Cells -> Entry \cup {Free}] /\ E[e] # Free /\ E[e].path = ent[e].path
      /\ E[e].region = ent[e].region /\ E[e].parent = ent[e].parent
      /\ \A c \in Cells : c # e => E[c] = ent[c]
      /\ h \in [Paths -> [Regions -> Nat]]
      /\ \A q \in Paths, t \in Regions :
           q # ent[e].path \/ t # ent[e].region => h[q][t] = held[q][t]
      /\ h[ent[e].path][ent[e].region] + LoaderCount(ent, e) <= E[e].refs
  BY <1>1, <1>3, <1>4, <1>5, <1>7, <1>8 DEF E, h
<1>10. HeldFits(E, h)
  BY <1>1, <1>9, HeldAdjusted
<1> QED BY <1>10 DEF E, h

\* An unload, by the host as all are.
LEMMA HeldUnload ==
  ASSUME Sound, UnloadFrom = {}, HeldFits(ent, held), NEW p \in Paths, _mod_unload(p)
  PROVE  HeldFits(ent', held')
<1> DEFINE e == lookup(p, cur.id)
           r == cur.id
           x == [ent[e] EXCEPT !.refs = ent[e].refs - 1]
<1>1. /\ MayUnload /\ e # NULL /\ ent' = Unloaded(e).ent /\ held' = Counted(held, p, r, -1)
  BY DEF _mod_unload, Become
<1>2. /\ e \in Cells /\ ent[e] \in Entry /\ ent[e] # Free /\ e \in Loaded
      /\ ent[e].path = p /\ ent[e].region = r /\ r \in Regions
  BY <1>1, UnloadIs
<1>3. Caller = NULL
  BY <1>1, QuietUnload
<1> HIDE DEF e, r
<1>4. ent[e].refs \in 1..MaxRefs /\ MaxRefs \in Nat
  BY <1>2, SetAssumption DEF Entry
<1>5. CASE ent[e].refs = 1
  <2>1. ent' = Without(Doomed(e)).ent
    BY <1>1, <1>5 DEF Unloaded
  <2> QED BY <1>1, <1>2, <1>3, <1>5, <2>1, HeldFreed
<1>6. CASE ent[e].refs > 1
  <2>1. ent' = [ent EXCEPT ![e] = x]
    BY <1>1, <1>2, <1>6 DEF Unloaded, Heap, Sound, EntriesFit
  <2>2. /\ x \in Entry /\ x.path = ent[e].path /\ x.region = ent[e].region
        /\ x.parent = ent[e].parent /\ x.refs = ent[e].refs - 1 /\ ent[e].refs \in Nat
    <3>1. ent[e].refs - 1 \in 1..MaxRefs
      BY <1>4, <1>6
    <3> QED BY <1>2, <1>4, <3>1 DEF Entry
  <2>3. x # Free
    BY <2>2, EntryNotFree
  <2> HIDE DEF x
  <2>4. /\ ent' \in [Cells -> Entry \cup {Free}] /\ ent'[e] = x
        /\ \A c \in Cells : c # e => ent'[c] = ent[c]
    BY <1>2, <2>1, <2>2 DEF Sound, EntriesFit
  <2>5. /\ held \in [Paths -> [Regions -> Nat]] /\ held[p][r] \in Nat
        /\ held[p][r] + LoaderCount(ent, e) <= ent[e].refs /\ LoaderCount(ent, e) \in {0, 1}
    BY <1>2 DEF HeldFits, LoaderCount
  <2> DEFINE v == IF held[p][r] = 0 THEN 0 ELSE held[p][r] - 1
  <2>6. held' = Recounted(held, p, r, v) /\ v \in Nat
    BY <1>1, <1>2, <1>3, <2>5, CountedIs
  <2>7. v + LoaderCount(ent, e) <= x.refs
    BY <1>6, <2>2, <2>5
  <2> HIDE DEF v
  <2>8. /\ held' \in [Paths -> [Regions -> Nat]] /\ held'[p][r] = v
        /\ \A q \in Paths, t \in Regions : q # p \/ t # r => held'[q][t] = held[q][t]
    BY <1>2, <2>5, <2>6, RecountedFacts
  <2> DEFINE E == ent'
             h == held'
  <2> HIDE DEF E, h
  <2>9. /\ E \in [Cells -> Entry \cup {Free}] /\ E[e] # Free /\ E[e].path = ent[e].path
        /\ E[e].region = ent[e].region /\ E[e].parent = ent[e].parent
        /\ \A c \in Cells : c # e => E[c] = ent[c]
        /\ h \in [Paths -> [Regions -> Nat]]
        /\ \A q \in Paths, t \in Regions :
             q # ent[e].path \/ t # ent[e].region => h[q][t] = held[q][t]
        /\ h[ent[e].path][ent[e].region] + LoaderCount(ent, e) <= E[e].refs
    BY <1>2, <2>2, <2>3, <2>4, <2>7, <2>8 DEF E, h
  <2>10. HeldFits(E, h)
    BY <1>2, <2>9, HeldAdjusted
  <2> QED BY <2>10 DEF E, h
<1> QED BY <1>4, <1>5, <1>6

\* A load or a reload as far as the xy_install.
LEMMA HeldLoads ==
  ASSUME Sound, UnloadFrom = {}, ~Recycle, HeldFits(ent, held), NEW p \in Paths,
         LoadBegin(p) \/ ReloadBegin(p)
  PROVE  HeldFits(ent', held')
<1>1. CASE LoadBegin(p)
  <2>1. Begin(p, Heap, ctx, frames, held, BlankFrame) /\ lookup(p, cur.id) = NULL
    BY <1>1 DEF LoadBegin
  <2>2. cur.id \in Regions
    BY DEF Sound, TreeFits
  <2>3. \A c \in Cells : ent[c] # Free /\ ent[c].path = p => ent[c].region # cur.id
    BY <2>1, <2>2, LookupFacts, SetAssumption DEF Sound
  <2> DEFINE s == Heap
  <2>4. /\ EntriesFit(s.ent, live) /\ HeldFits(s.ent, held)
        /\ \A c \in Cells : s.ent[c] # Free /\ s.ent[c].path = p => s.ent[c].region # cur.id
    BY <2>3 DEF Heap, Sound
  <2> HIDE DEF s
  <2>5. Begin(p, s, ctx, frames, held, BlankFrame)
    BY <2>1 DEF s
  <2> QED BY <2>4, <2>5, HeldBegin
<1>2. CASE ReloadBegin(p)
  <2>1. PICK e \in Loaded, D \in SUBSET Cells :
          /\ e = lookup(p, cur.id) /\ e # NULL /\ ent[e].refs = 1 /\ D = Doomed(e)
          /\ ent[e].path = p /\ ent[e].region = cur.id /\ Freeable(D) /\ MayUnload
          /\ Begin(p, Without(D), CtxAfter(D), FramesAfter(D), Counted(held, p, cur.id, -1),
                   Remembered(p, e, D))
    BY <1>2, ReloadIs
  <2> DEFINE s == Without(D)
             hs == Counted(held, p, cur.id, -1)
             f == Remembered(p, e, D)
  <2>2. /\ EntriesFit(s.ent, live)
        /\ \A c \in Cells : s.ent[c] # Free /\ s.ent[c].path = p => s.ent[c].region # cur.id
    BY <2>1, ReloadHalfway
  <2>3. Caller = NULL
    BY <2>1, QuietUnload
  <2>4. HeldFits(s.ent, hs)
    BY <2>1, <2>3, HeldFreed
  <2> HIDE DEF s, hs, f
  <2>5. Begin(p, s, CtxAfter(D), FramesAfter(D), hs, f)
    BY <2>1 DEF s, hs, f
  <2> QED BY <2>2, <2>4, <2>5, HeldBegin
<1> QED BY <1>1, <1>2

\* Whatever a step is, HeldFits is kept.
LEMMA HeldNext ==
  ASSUME UnloadFrom = {}, ~Recycle, Sound, HeldFits(ent, held), [Next]_vars
  PROVE  HeldFits(ent', held')
<1>1. ASSUME NEW p \in Paths,
             \/ LoadReuse(p) \/ LoadRefused(p) \/ LoadNoInstall(p) \/ LoadBegin(p)
             \/ Unload(p) \/ ReloadBegin(p) \/ ReloadShared(p) \/ ReloadLost(p)
      PROVE  HeldFits(ent', held')
  <2>1. CASE Unload(p) \/ ReloadLost(p)
    BY <2>1, HeldUnload DEF Unload, ReloadLost
  <2>2. CASE LoadRefused(p) \/ LoadNoInstall(p) \/ ReloadShared(p)
    <3>1. UNCHANGED <<ent, held>>
      BY <2>2 DEF LoadRefused, LoadNoInstall, ReloadShared, heap
    <3> QED BY <3>1
  <2> QED BY <1>1, <2>1, <2>2, HeldReuse, HeldLoads
<1>2. CASE Shutdown
  BY <1>2, HeldEmpty DEF Shutdown
<1>3. CASE \/ UNCHANGED vars \/ InstallReturn \/ Call \/ BodyReturn \/ ScopeReturn
           \/ (\E r \in live : WithRegion(r)) \/ (\E on \in BOOLEAN : RequireClaim(on))
  <2>1. UNCHANGED <<ent, held>>
    BY <1>3 DEF vars, InstallReturn, Call, BodyReturn, ScopeReturn, WithRegion, RequireClaim, heap
  <2> QED BY <2>1
<1> QED BY <1>1, <1>2, <1>3 DEF Next

\* As long as the host has not undone its own load, the module is there,
\* whoever else has loaded and unloaded it.
THEOREM HostHoldsAlways ==
  ASSUME UnloadFrom = {}, ~Recycle
  PROVE  Spec => []HostHoldsStay
<1>1. Init => HeldFits(ent, held)
  BY HeldEmpty DEF Init
<1>2. Sound /\ HeldFits(ent, held) /\ [Next]_vars => HeldFits(ent, held)'
  BY HeldNext
<1>3. Sound /\ HeldFits(ent, held) => HostHoldsStay
  <2> SUFFICES ASSUME Sound, HeldFits(ent, held), NEW p \in Paths, NEW r \in live, held[p][r] > 0
               PROVE  lookup(p, r) # NULL
    BY DEF HostHoldsStay
  <2>1. r \in Regions /\ EntriesFit(ent, live) /\ ListsFit(ent, mods)
    BY DEF Sound, TreeFits
  <2>2. PICK c \in Cells : ent[c] # Free /\ ent[c].path = p /\ ent[c].region = r
    BY <2>1 DEF HeldFits
  <2> QED BY <2>1, <2>2, LookupFacts
<1> QED BY <1>1, <1>2, <1>3, SoundAlways, PTL DEF Spec

-----------------------------------------------------------------------------
(* Calls, when nothing is loaded or unloaded while a body runs. *)

\* The listeners change only with the tree, the lists or the entries.
LEMMA HeardSame ==
  ASSUME UNCHANGED <<live, anc, kids, mods, ent>>
  PROVE  Heard' = Heard
BY DEF Heard, Listeners, Below, Loaded, Listens

\* While a body runs nothing may be loaded or unloaded.
LEMMA NoBody ==
  ASSUME Sound, UnloadFrom = {}, ~LoadDuringCall, MayLoad \/ MayUnload
  PROVE  \A i \in 1..Len(frames) : frames[i].kind # "body"
<1>1. DOMAIN frames = 1..Len(frames)
  BY DEF Sound, FramesFit
<1> QED BY <1>1 DEF MayLoad, MayUnload, Running

\* A call's next body begins.
LEMMA CallsRunSlot ==
  ASSUME NEW me \in Cells, NEW c0, NEW f \in Frame, f.kind = "body", f.i < f.n,
         NEW below \in Seq(Frame), RunSlot(me, c0, f, below), NEW sl, NEW ls,
         CallsFit(below, sl, ls), CallFits(f, ls[f.at], sl[f.at]), me = sl[f.at][f.i + 1]
  PROVE  CallsFit(frames', sl, ls)
<1> DEFINE changed == ctx[ent[me].img].region # f.saved.id
           g == [f EXCEPT !.e = me, !.i = @ + 1, !.changed = changed,
                          !.saved = [id |-> f.saved.id, at |-> c0.at],
                          !.seen = Append(@, me)]
<1>0. me # Dangling
  BY SetAssumption
<1>1. frames' = Append(below, g)
  BY <1>0 DEF RunSlot
<1>2. f.i \in Nat /\ f.n \in Nat /\ f.seen \in Seq(Slot) /\ me \in Slot
  BY DEF Frame, Slot
<1> HIDE DEF changed
<1>3. /\ g.kind = "body" /\ g.at = f.at /\ g.n = f.n /\ g.i = f.i + 1 /\ g.was = f.was
      /\ g.seen = Append(f.seen, me)
  BY DEF Frame
<1> HIDE DEF g
<1>4. /\ Len(g.seen) = f.i + 1 /\ g.seen[f.i + 1] = me
      /\ \A k \in 1..f.i : g.seen[k] = f.seen[k]
  <2>1. Len(f.seen) = f.i
    BY DEF CallFits
  <2> QED BY <1>2, <1>3, <2>1
<1>5. CallFits(g, ls[g.at], sl[g.at])
  <2>1. f.i + 1 \in 1..f.n /\ me = ls[f.at][f.i + 1]
    BY <1>2, SMTT(30) DEF CallFits
  <2>2. \A k \in 1..f.i + 1 : k \in 1..f.i \/ k = f.i + 1
    BY <1>2
  <2>3. \A k \in 1..f.i + 1 : g.seen[k] = ls[f.at][k]
    BY <1>4, <2>1, <2>2 DEF CallFits
  <2> QED BY <1>3, <1>4, <2>3 DEF CallFits
<1> DEFINE u == Append(below, g)
           n == Len(below)
<1>6. /\ Len(u) = n + 1 /\ n \in Nat /\ u[n + 1] = g /\ \A i \in 1..n : u[i] = below[i]
  OBVIOUS
<1> HIDE DEF u, n
<1>7. ASSUME NEW i \in 1..n + 1, u[i].kind = "body"
      PROVE  /\ \A j \in i..n + 1 : u[j].kind # "install"
             /\ CallFits(u[i], ls[u[i].at], sl[u[i].at])
  <2>1. CASE i = n + 1
    BY <1>3, <1>5, <1>6, <2>1
  <2>2. CASE i \in 1..n
    <3>1. u[i] = below[i] /\ \A j \in i..n : j \in 1..n /\ u[j] = below[j]
      BY <1>6, <2>2
    <3>2. \A j \in i..n + 1 : j \in i..n \/ j = n + 1
      BY <1>6, <2>2
    <3>3. /\ \A j \in i..n : below[j].kind # "install"
          /\ CallFits(below[i], ls[below[i].at], sl[below[i].at])
      BY <1>7, <2>2, <3>1 DEF CallsFit, n
    <3> QED BY <1>3, <1>6, <3>1, <3>2, <3>3
  <2> QED BY <1>6, <2>1, <2>2
<1> QED BY <1>1, <1>6, <1>7 DEF CallsFit, u

\* The frames below the top one.
LEMMA CallsPopped ==
  ASSUME NEW fs \in Seq(Frame), fs # <<>>, NEW sl, NEW ls, CallsFit(fs, sl, ls)
  PROVE  CallsFit(Front(fs), sl, ls)
<1> DEFINE u == Front(fs)
           n == Len(fs)
<1>0. n \in Nat \ {0} /\ \E f : f \in Frame
  <2>1. n \in Nat /\ n # 0
    BY SequenceElements
  <2>2. fs[1] \in Frame
    BY <2>1
  <2> QED BY <2>1, <2>2
<1>1. Len(u) = n - 1 /\ \A i \in 1..n-1 : u[i] = fs[i] /\ i \in 1..n
  BY <1>0, FrameFacts
<1> HIDE DEF u, n
<1>2. ASSUME NEW i \in 1..n - 1, u[i].kind = "body"
      PROVE  /\ \A j \in i..n - 1 : u[j].kind # "install"
             /\ CallFits(u[i], ls[u[i].at], sl[u[i].at])
  <2>1. /\ \A j \in i..n : fs[j].kind # "install"
        /\ CallFits(fs[i], ls[fs[i].at], sl[fs[i].at])
    BY <1>1, <1>2 DEF CallsFit, n
  <2>2. \A j \in i..n - 1 : j \in 1..n - 1 /\ j \in i..n
    BY <1>0
  <2> QED BY <1>1, <2>1, <2>2
<1> QED BY <1>1, <1>2 DEF CallsFit, u

\* xy_call as far as the first body: calls further out in the same region find
\* in their slots what was there.
LEMMA CallsCall ==
  ASSUME Sound, CallsFit(frames, slots, Heard), Call
  PROVE  CallsFit(frames', slots', Heard)
<1> DEFINE r == cur.at
           new == Listeners(r)
           f == [BlankFrame EXCEPT !.kind = "body", !.at = r, !.n = Len(new), !.was = new]
           me == new[1]
<1>2. CASE new = <<>>
  <2>1. UNCHANGED <<slots, frames>>
    BY <1>2 DEF Call
  <2> QED BY <2>1
<1>3. CASE new # <<>>
  <2>1. /\ slots' = [slots EXCEPT ![r] = Rebuilt(slots[r], new)]
        /\ RunSlot(me, cur, f, frames)
    BY <1>3 DEF Call, Sound, SlotsFit
  <2>2. r \in live /\ r \in Regions /\ frames \in Seq(Frame) /\ slots \in [Regions -> Seq(Slot)]
    BY DEF Sound, TreeFits, FramesFit, SlotsFit
  <2>3. new \in Seq(Cells)
    BY <2>2, ListenersFacts
  <2>4. Heard[r] = new
    BY <2>2 DEF Heard
  <2> HIDE DEF new, r
  <2>5. /\ new \in Seq(Slot) /\ Len(new) \in Nat \ {0} /\ me \in Cells
    <3>1. Len(new) \in Nat /\ Len(new) # 0
      BY <1>3, <2>3, SequenceElements
    <3>2. new \in Seq(Slot) /\ new[1] \in Cells
      BY <2>3, <3>1 DEF Slot
    <3> QED BY <3>1, <3>2
  <2>6. /\ f \in Frame /\ f.kind = "body" /\ f.at = r /\ f.i = 0 /\ f.n = Len(new)
        /\ f.was = new /\ f.seen = <<>>
    BY <2>2, <2>5, BlankFacts DEF Frame
  <2> DEFINE u == Rebuilt(slots[r], new)
  <2>7. \A k \in 1..Len(new) : u[k] = new[k]
    BY <2>2, <2>5, RebuiltFacts
  <2> HIDE DEF u
  <2>8. slots'[r] = u /\ \A q \in Regions : q # r => slots'[q] = slots[q]
    BY <2>1, <2>2 DEF u
  <2>9. CallsFit(frames, slots', Heard)
    <3> SUFFICES ASSUME NEW i \in 1..Len(frames), frames[i].kind = "body"
                 PROVE  /\ \A j \in i..Len(frames) : frames[j].kind # "install"
                        /\ CallFits(frames[i], Heard[frames[i].at], slots'[frames[i].at])
      BY DEF CallsFit
    <3>1. /\ \A j \in i..Len(frames) : frames[j].kind # "install"
          /\ CallFits(frames[i], Heard[frames[i].at], slots[frames[i].at])
      BY DEF CallsFit
    <3>2. frames[i].at \in Regions
      BY DEF Sound, FramesFit, FrameFits, TreeFits
    <3>3. CASE frames[i].at # r
      BY <2>8, <3>1, <3>2, <3>3
    <3>4. CASE frames[i].at = r
      BY <2>4, <2>7, <2>8, <3>1, <3>4 DEF CallFits
    <3> QED BY <3>1, <3>3, <3>4
  <2>10. CallFits(f, Heard[f.at], slots'[f.at])
    BY <2>4, <2>6, <2>7, <2>8 DEF CallFits
  <2>11. f.i < f.n /\ me = slots'[f.at][f.i + 1]
    <3>1. 1 \in 1..Len(new) /\ f.i + 1 = 1
      BY <2>5, <2>6
    <3> QED BY <2>5, <2>6, <2>7, <2>8, <3>1
  <2> HIDE DEF f, me
  <2> DEFINE sl == slots'
  <2>12. CallsFit(frames, sl, Heard) /\ CallFits(f, Heard[f.at], sl[f.at]) /\ me = sl[f.at][f.i + 1]
    BY <2>9, <2>10, <2>11
  <2> HIDE DEF sl
  <2>13. CallsFit(frames', sl, Heard)
    BY <2>1, <2>2, <2>5, <2>6, <2>11, <2>12, CallsRunSlot
  <2> QED BY <2>13 DEF sl
<1> QED BY <1>2, <1>3

\* When a call ends, each listener has run once.
LEMMA OnceEach ==
  ASSUME NEW f \in Frame, NEW l \in Seq(Cells), IsInjective(l), NEW s, CallFits(f, l, s),
         f.i = f.n, NEW c \in ToSet(f.was)
  PROVE  Cardinality({i \in DOMAIN f.seen : f.seen[i] = c}) = 1
<1>1. /\ f.was = l /\ Len(f.seen) = Len(l) /\ \A k \in 1..Len(l) : f.seen[k] = l[k]
  BY DEF CallFits
<1>2. DOMAIN f.seen = 1..Len(l) /\ DOMAIN l = 1..Len(l)
  <2>1. f.seen \in Seq(Slot)
    BY DEF Frame
  <2> QED BY <1>1, <2>1
<1>3. PICK k \in 1..Len(l) : l[k] = c
  BY <1>1, SequenceElements
<1>4. {i \in DOMAIN f.seen : f.seen[i] = c} = {k}
  BY <1>1, <1>2, <1>3 DEF IsInjective
<1> QED BY <1>4, FS_Singleton

\* A hook body returns.
LEMMA CallsBodyReturn ==
  ASSUME Sound, CallsFit(frames, slots, Heard), BodyReturn
  PROVE  CallsFit(frames', slots', Heard) /\ EveryListenerOnce'
<1> DEFINE f == Top
           c0 == IF f.changed THEN f.saved ELSE cur
           u == Front(frames)
           n == Len(frames)
           l == Heard[f.at]
<1>1. frames # <<>> /\ f.kind = "body"
  BY DEF BodyReturn
<1>2. /\ frames \in Seq(Frame) /\ FramesFit(ent, live, u) /\ n \in Nat \ {0} /\ f = frames[n]
      /\ f \in Frame /\ FrameFits(ent, live, f)
  <2>1. f = frames[n] /\ frames \in Seq(Frame)
    BY DEF Top, Sound, FramesFit
  <2> HIDE DEF f, u
  <2> QED BY <1>1, <2>1, Popped DEF Sound, u
<1>3. u \in Seq(Frame)
  BY <1>2 DEF FramesFit
<1> HIDE DEF f
<1>4. CallsFit(u, slots, Heard)
  BY <1>1, <1>2, CallsPopped
<1> HIDE DEF u
<1>5. CallFits(f, l, slots[f.at])
  <2>1. n \in 1..n
    BY <1>2
  <2> QED BY <1>1, <1>2, <2>1 DEF CallsFit
<1>6. f.at \in live /\ f.at \in Regions /\ f.i \in Nat /\ f.n \in Nat /\ f.i <= f.n
  BY <1>1, <1>2 DEF FrameFits, Frame, Sound, TreeFits
<1>7. l \in Seq(Cells) /\ IsInjective(l)
  BY <1>6, ListenersFacts DEF Heard
<1> HIDE DEF l, c0
<1>8. CASE f.i < f.n
  <2> DEFINE me == slots[f.at][f.i + 1]
  <2>1. RunSlot(me, c0, f, u) /\ slots' = slots /\ last' = NoResult
    BY <1>8 DEF BodyReturn, f, c0, u
  <2>2. me \in Cells
    <3>1. f.i + 1 \in 1..f.n /\ f.n = Len(l) /\ Len(l) \in Nat
      BY <1>5, <1>6, <1>7, <1>8 DEF CallFits
    <3>2. me = l[f.i + 1]
      BY <1>5, <3>1 DEF CallFits
    <3> QED BY <1>7, <3>1, <3>2
  <2> HIDE DEF me
  <2>3. CallsFit(frames', slots, Heard)
    <3>1. me = slots[f.at][f.i + 1] /\ CallFits(f, Heard[f.at], slots[f.at])
      BY <1>5 DEF me, l
    <3> QED BY <1>1, <1>2, <1>3, <1>4, <1>8, <2>1, <2>2, <3>1, CallsRunSlot
  <2>4. last'.op = "none"
    BY <2>1 DEF NoResult
  <2> QED BY <2>1, <2>3, <2>4 DEF EveryListenerOnce
<1>9. CASE ~(f.i < f.n)
  <2>1. /\ frames' = u /\ last' = [op |-> "call", was |-> f.was, seen |-> f.seen]
        /\ slots' = IF \E g \in ToSet(u) : g.kind = "body" /\ g.at = f.at
                    THEN slots ELSE [slots EXCEPT ![f.at] = <<>>]
    BY <1>9 DEF BodyReturn, f, u
  <2>2. f.i = f.n
    BY <1>6, <1>9
  <2>3. EveryListenerOnce'
    <3>1. \A c \in ToSet(f.was) : Cardinality({i \in DOMAIN f.seen : f.seen[i] = c}) = 1
      BY <1>2, <1>5, <1>7, <2>2, OnceEach
    <3> QED BY <2>1, <3>1 DEF EveryListenerOnce
  <2>4. CallsFit(u, slots', Heard)
    <3>1. CASE slots' = slots
      BY <1>4, <3>1
    <3>2. CASE /\ slots' = [slots EXCEPT ![f.at] = <<>>]
               /\ ~\E g \in ToSet(u) : g.kind = "body" /\ g.at = f.at
      <4>0. slots \in [Regions -> Seq(Slot)]
        BY DEF Sound, SlotsFit
      <4>1. \A q \in Regions : q # f.at => slots'[q] = slots[q]
        BY <3>2, <4>0
      <4>2. ASSUME NEW i \in 1..Len(u), u[i].kind = "body"
            PROVE  slots'[u[i].at] = slots[u[i].at]
        <5>1. u[i] \in ToSet(u)
          BY <1>3, SequenceElements
        <5>2. u[i].at # f.at
          BY <3>2, <4>2, <5>1
        <5>3. u[i].at \in Regions
          BY <1>2, <4>2 DEF FramesFit, FrameFits, Sound, TreeFits
        <5> QED BY <4>1, <5>2, <5>3
      <4> QED BY <1>4, <4>2 DEF CallsFit
    <3> QED BY <2>1, <3>1, <3>2
  <2> QED BY <2>1, <2>3, <2>4
<1> QED BY <1>8, <1>9

\* A load or an unload leaves no body running, since none was.
LEMMA NoBodyAfter ==
  ASSUME Sound, UnloadFrom = {}, ~LoadDuringCall, NEW p \in Paths,
         \/ LoadReuse(p) \/ LoadRefused(p) \/ LoadNoInstall(p) \/ LoadBegin(p)
         \/ Unload(p) \/ ReloadBegin(p) \/ ReloadShared(p) \/ ReloadLost(p)
  PROVE  \A i \in 1..Len(frames') : frames'[i].kind # "body"
<1>0. frames \in Seq(Frame)
  BY DEF Sound, FramesFit
<1>1. \A i \in 1..Len(frames) : frames[i].kind # "body"
  BY NoBody DEF LoadReuse, LoadRefused, LoadNoInstall, LoadBegin, Unload, _mod_unload,
                ReloadBegin, ReloadShared, ReloadLost
<1>2. ASSUME NEW fs \in Seq(Frame), NEW g, g.kind = "install",
             \A i \in 1..Len(fs) : fs[i].kind # "body", frames' = Append(fs, g)
      PROVE  \A i \in 1..Len(frames') : frames'[i].kind # "body"
  <2>1. /\ Len(frames') = Len(fs) + 1 /\ Len(fs) \in Nat /\ frames'[Len(fs) + 1] = g
        /\ \A i \in 1..Len(fs) : frames'[i] = fs[i]
    BY <1>2
  <2>2. \A i \in 1..Len(fs) + 1 : i = Len(fs) + 1 \/ i \in 1..Len(fs)
    BY <2>1
  <2> QED BY <1>2, <2>1, <2>2
<1>3. ASSUME NEW D
      PROVE  /\ FramesAfter(D) \in Seq(Frame)
             /\ \A i \in 1..Len(FramesAfter(D)) : FramesAfter(D)[i].kind # "body"
  BY <1>0, <1>1, FramesAfterFacts
<1>4. ASSUME NEW s, NEW cx, NEW fs \in Seq(Frame), NEW hs, NEW f \in Frame,
             Begin(p, s, cx, fs, hs, f), \A i \in 1..Len(fs) : fs[i].kind # "body"
      PROVE  \A i \in 1..Len(frames') : frames'[i].kind # "body"
  <2>1. PICK c \in Cells, r \in Target(p), img \in Cells \cup {p} :
          Begun(p, s.ent, s.mods, cx, fs, hs, f, c, r, img)
    BY <1>4, BeginIs
  <2> DEFINE g == [f EXCEPT !.kind = "install", !.e = c, !.loading = loading]
  <2>2. frames' = Append(fs, g) /\ g.kind = "install"
    BY <2>1 DEF Begun, Frame
  <2> HIDE DEF g
  <2> QED BY <1>2, <1>4, <2>2
<1>5. CASE LoadReuse(p) \/ LoadRefused(p) \/ LoadNoInstall(p) \/ ReloadShared(p)
  <2>1. frames' = frames
    BY <1>5 DEF LoadReuse, LoadRefused, LoadNoInstall, ReloadShared
  <2> QED BY <1>1, <2>1
<1>6. CASE Unload(p) \/ ReloadLost(p)
  <2>1. \E D : frames' = FramesAfter(D)
    BY <1>6 DEF Unload, ReloadLost, _mod_unload
  <2> QED BY <1>3, <2>1
<1>7. CASE LoadBegin(p)
  <2>1. Begin(p, Heap, ctx, frames, held, BlankFrame)
    BY <1>7 DEF LoadBegin
  <2>2. BlankFrame \in Frame
    BY BlankFacts
  <2> QED BY <1>0, <1>1, <1>4, <2>1, <2>2
<1>8. CASE ReloadBegin(p)
  <2>1. PICK e \in Loaded, D \in SUBSET Cells :
          /\ e = lookup(p, cur.id) /\ e # NULL /\ ent[e].refs = 1 /\ D = Doomed(e)
          /\ Freeable(D)
          /\ Begin(p, Without(D), CtxAfter(D), FramesAfter(D), Counted(held, p, cur.id, -1),
                   Remembered(p, e, D))
    BY <1>8, ReloadIs
  <2>2. After(Predecessor(e), D) \in Ptr
    BY <2>1, ReloadHalfway
  <2>3. Remembered(p, e, D) \in Frame
    BY <2>1, <2>2, RememberedFacts
  <2> QED BY <1>3, <1>4, <2>1, <2>3
<1> QED BY <1>5, <1>6, <1>7, <1>8

\* Whatever a step is, CallsFit is kept, and what a finished call did is right.
LEMMA CallsNext ==
  ASSUME UnloadFrom = {}, ~LoadDuringCall, Sound, Sound', CallsFit(frames, slots, Heard),
         EveryListenerOnce, [Next]_vars
  PROVE  CallsFit(frames', slots', Heard') /\ EveryListenerOnce'
<1>0. frames \in Seq(Frame)
  BY DEF Sound, FramesFit
<1>1. ASSUME \A i \in 1..Len(frames') : frames'[i].kind # "body"
      PROVE  CallsFit(frames', slots', Heard')
  BY <1>1 DEF CallsFit
<1>2. ASSUME last' = NoResult PROVE EveryListenerOnce'
  <2>1. NoResult.op # "call"
    BY DEF NoResult
  <2> QED BY <1>2, <2>1 DEF EveryListenerOnce
<1>3. CASE UNCHANGED vars
  <2>1. Heard' = Heard
    BY <1>3, HeardSame DEF vars
  <2>2. UNCHANGED <<frames, slots, last>>
    BY <1>3 DEF vars
  <2> QED BY <2>1, <2>2 DEF EveryListenerOnce
<1>4. ASSUME NEW p \in Paths,
             \/ LoadReuse(p) \/ LoadRefused(p) \/ LoadNoInstall(p) \/ LoadBegin(p)
             \/ Unload(p) \/ ReloadBegin(p) \/ ReloadShared(p) \/ ReloadLost(p)
      PROVE  CallsFit(frames', slots', Heard') /\ EveryListenerOnce'
  <2>1. last' = NoResult
    BY <1>4 DEF LoadReuse, LoadRefused, LoadNoInstall, LoadBegin, Unload, _mod_unload,
                ReloadBegin, ReloadShared, ReloadLost
  <2>2. \A i \in 1..Len(frames') : frames'[i].kind # "body"
    BY <1>4, NoBodyAfter
  <2> QED BY <1>1, <1>2, <2>1, <2>2
<1>5. CASE InstallReturn
  <2> DEFINE n == Len(frames)
  <2>1. frames # <<>> /\ frames' = Front(frames) /\ frames[n].kind = "install"
    BY <1>5 DEF InstallReturn, Top
  <2>2. n \in Nat \ {0} /\ Len(frames') = n - 1 /\ \A i \in 1..n-1 : frames'[i] = frames[i]
    <3>1. n \in Nat /\ n # 0
      BY <1>0, <2>1, SequenceElements
    <3>2. frames[1] \in Frame
      BY <1>0, <3>1
    <3> QED BY <1>0, <2>1, <3>1, <3>2, FrameFacts
  <2>3. \A i \in 1..n : frames[i].kind # "body"
    <3> SUFFICES ASSUME NEW i \in 1..n, frames[i].kind = "body" PROVE FALSE
      OBVIOUS
    <3>1. n \in i..n
      BY <2>2
    <3> QED BY <2>1, <3>1 DEF CallsFit
  <2>4. \A i \in 1..Len(frames') : frames'[i].kind # "body"
    BY <2>2, <2>3
  <2>5. last' = NoResult \/ last'.op = "reload"
    BY <1>5 DEF InstallReturn
  <2>6. EveryListenerOnce'
    BY <1>2, <2>5 DEF EveryListenerOnce
  <2> QED BY <1>1, <2>4, <2>6
<1>6. CASE Call
  <2>1. last' = NoResult /\ UNCHANGED <<live, anc, kids, mods, ent>>
    BY <1>6 DEF Call, regVars
  <2>2. Heard' = Heard
    BY <2>1, HeardSame
  <2> QED BY <1>2, <1>6, <2>1, <2>2, CallsCall
<1>7. CASE BodyReturn
  <2>1. UNCHANGED <<live, anc, kids, mods, ent>>
    BY <1>7 DEF BodyReturn, regVars
  <2>2. Heard' = Heard
    BY <2>1, HeardSame
  <2> QED BY <1>7, <2>2, CallsBodyReturn
<1>8. CASE (\E r \in live : WithRegion(r))
  <2>1. /\ frames' = Append(frames, BlankFrame) /\ last' = NoResult
        /\ UNCHANGED <<live, anc, kids, mods, ent, slots>>
    BY <1>8 DEF WithRegion, regVars, heap
  <2>2. Heard' = Heard
    BY <2>1, HeardSame
  <2> DEFINE g == BlankFrame
             n == Len(frames)
  <2>3. g.kind = "scope"
    BY DEF BlankFrame
  <2> HIDE DEF g
  <2>4. /\ Len(frames') = n + 1 /\ n \in Nat /\ frames'[n + 1] = g
        /\ \A i \in 1..n : frames'[i] = frames[i]
    BY <1>0, <2>1 DEF g
  <2> HIDE DEF n
  <2>5. ASSUME NEW i \in 1..n + 1, frames'[i].kind = "body"
        PROVE  /\ \A j \in i..n + 1 : frames'[j].kind # "install"
               /\ CallFits(frames'[i], Heard[frames'[i].at], slots[frames'[i].at])
    <3>1. i \in 1..n /\ frames'[i] = frames[i]
      BY <2>3, <2>4, <2>5
    <3>2. \A j \in i..n + 1 : j = n + 1 \/ (j \in i..n /\ j \in 1..n)
      BY <2>4, <3>1
    <3>3. /\ \A j \in i..n : frames[j].kind # "install"
          /\ CallFits(frames[i], Heard[frames[i].at], slots[frames[i].at])
      BY <2>5, <3>1 DEF CallsFit, n
    <3> QED BY <2>3, <2>4, <3>1, <3>2, <3>3
  <2>6. CallsFit(frames', slots, Heard)
    BY <2>4, <2>5 DEF CallsFit
  <2> QED BY <1>2, <2>1, <2>2, <2>6
<1>9. CASE ScopeReturn
  <2>1. /\ frames # <<>> /\ frames' = Front(frames) /\ last' = NoResult
        /\ UNCHANGED <<live, anc, kids, mods, ent, slots>>
    BY <1>9 DEF ScopeReturn, regVars, heap
  <2>2. Heard' = Heard
    BY <2>1, HeardSame
  <2>3. CallsFit(Front(frames), slots, Heard)
    BY <1>0, <2>1, CallsPopped
  <2> QED BY <1>2, <2>1, <2>2, <2>3
<1>10. CASE \E on \in BOOLEAN : RequireClaim(on)
  <2>1. /\ last' = NoResult /\ UNCHANGED <<live, anc, kids, mods, ent, slots, frames>>
    BY <1>10 DEF RequireClaim, regVars, heap
  <2>2. Heard' = Heard
    BY <2>1, HeardSame
  <2> QED BY <1>2, <2>1, <2>2
<1>11. CASE Shutdown
  <2>1. frames' = <<>> /\ last' = NoResult
    BY <1>11 DEF Shutdown
  <2>2. Len(frames') = 0
    BY <2>1
  <2> QED BY <1>1, <1>2, <2>1, <2>2
<1> QED BY <1>3, <1>4, <1>5, <1>6, <1>7, <1>8, <1>9, <1>10, <1>11 DEF Next

\* A call runs every listener there was when it began exactly once, with any
\* nesting of calls in the same and in other regions.
THEOREM EveryListenerAlwaysOnce ==
  ASSUME UnloadFrom = {}, ~LoadDuringCall
  PROVE  Spec => []EveryListenerOnce
<1>1. Init => CallsFit(frames, slots, Heard) /\ EveryListenerOnce
  <2> SUFFICES ASSUME Init PROVE CallsFit(frames, slots, Heard) /\ EveryListenerOnce
    OBVIOUS
  <2>1. Len(frames) = 0 /\ last.op = "none"
    BY DEF Init, NoResult
  <2> QED BY <2>1 DEF CallsFit, EveryListenerOnce
<1>2. Sound /\ Sound' /\ CallsFit(frames, slots, Heard) /\ EveryListenerOnce /\ [Next]_vars
        => CallsFit(frames, slots, Heard)' /\ EveryListenerOnce'
  BY CallsNext
<1> QED BY <1>1, <1>2, SoundAlways, PTL DEF Spec

-----------------------------------------------------------------------------
(* Order, when only the host unloads and reloads, a library is in one region *)
(* at a time and no address is used again while a parent link holds it.      *)

\* An order of a list is the order of what is left of it.
LEMMA OnlyOrder ==
  ASSUME NEW s \in Seq(Cells), NEW S, NEW rank \in [Cells -> Nat],
         \A i, j \in 1..Len(s) : i < j => rank[s[i]] < rank[s[j]]
  PROVE  \A i, j \in 1..Len(Only(s, S)) : i < j => rank[Only(s, S)[i]] < rank[Only(s, S)[j]]
<1>1. PICK f : f = KeptStep(s, S, f, Len(s)) /\ Only(s, S) = f[Len(s)]
  BY OnlyDefined
<1>2. \A i \in 0..Len(s) : f[i] = IF i = 0 THEN <<>>
                                  ELSE IF s[i] \in S THEN Append(f[i-1], s[i]) ELSE f[i-1]
  BY <1>1 DEF KeptStep
<1> DEFINE P(n) == n <= Len(s) =>
                     /\ f[n] \in Seq(Cells)
                     /\ \A i \in 1..Len(f[n]) : \E m \in 1..n : f[n][i] = s[m]
                     /\ \A i, j \in 1..Len(f[n]) : i < j => rank[f[n][i]] < rank[f[n][j]]
           Good == {n \in Nat : P(n)}
<1>3. 0 \in Good
  <2>1. f[0] = <<>>
    BY <1>2
  <2>2. P(0)
    BY <2>1
  <2> QED BY <2>2
<1>4. \A n \in Nat : n \in Good => n + 1 \in Good
  <2> HIDE DEF P
  <2> SUFFICES ASSUME NEW n \in Nat, P(n) PROVE P(n + 1)
    OBVIOUS
  <2> USE DEF P
  <2> SUFFICES ASSUME n + 1 <= Len(s)
               PROVE  /\ f[n+1] \in Seq(Cells)
                      /\ \A i \in 1..Len(f[n+1]) : \E m \in 1..n+1 : f[n+1][i] = s[m]
                      /\ \A i, j \in 1..Len(f[n+1]) : i < j => rank[f[n+1][i]] < rank[f[n+1][j]]
    OBVIOUS
  <2> DEFINE g == f[n]
             h == f[n+1]
  <2>0. n <= Len(s)
    OBVIOUS
  <2>1. /\ g \in Seq(Cells) /\ \A i \in 1..Len(g) : \E m \in 1..n : g[i] = s[m]
        /\ \A i, j \in 1..Len(g) : i < j => rank[g[i]] < rank[g[j]]
    BY <2>0
  <2>2. n + 1 \in 1..Len(s) /\ s[n+1] \in Cells /\ \A m \in 1..n : m \in 1..Len(s) /\ m < n + 1
    OBVIOUS
  <2>3. h = IF s[n+1] \in S THEN Append(g, s[n+1]) ELSE g
    <3>1. n + 1 \in 0..Len(s) /\ n + 1 # 0 /\ (n + 1) - 1 = n
      BY <2>2
    <3> QED BY <1>2, <3>1
  <2> HIDE DEF P, Good, g, h
  <2>4. \A m \in 1..n : m \in 1..n+1
    OBVIOUS
  <2>5. CASE s[n+1] \notin S
    <3>1. h = g
      BY <2>3, <2>5
    <3> QED BY <2>1, <2>4, <3>1 DEF h
  <2>6. CASE s[n+1] \in S
    <3>1. /\ h \in Seq(Cells) /\ Len(h) = Len(g) + 1 /\ h[Len(g) + 1] = s[n+1] /\ Len(g) \in Nat
          /\ \A i \in 1..Len(g) : h[i] = g[i]
      BY <2>1, <2>2, <2>3, <2>6
    <3>2. \A i \in 1..Len(h) : i = Len(g) + 1 \/ i \in 1..Len(g)
      BY <3>1
    <3>3. \A i \in 1..Len(h) : \E m \in 1..n+1 : h[i] = s[m]
      <4> TAKE i \in 1..Len(h)
      <4>1. CASE i = Len(g) + 1
        <5>1. n + 1 \in 1..n+1
          OBVIOUS
        <5> QED BY <3>1, <4>1, <5>1
      <4>2. CASE i \in 1..Len(g)
        <5>1. PICK m \in 1..n : g[i] = s[m]
          BY <2>1, <4>2
        <5> QED BY <2>4, <3>1, <4>2, <5>1
      <4> QED BY <3>2, <4>1, <4>2
    <3>4. ASSUME NEW i \in 1..Len(h), NEW j \in 1..Len(h), i < j PROVE rank[h[i]] < rank[h[j]]
      <4>1. i \in 1..Len(g) /\ h[i] = g[i]
        BY <3>1, <3>4, SMTT(30)
      <4>2. CASE j \in 1..Len(g)
        BY <2>1, <3>1, <3>4, <4>1, <4>2
      <4>3. CASE j = Len(g) + 1
        <5>1. PICK m \in 1..n : g[i] = s[m]
          BY <2>1, <4>1
        <5>2. m \in 1..Len(s) /\ m < n + 1
          BY <2>2
        <5> QED BY <2>2, <3>1, <4>1, <4>3, <5>1, <5>2
      <4> QED BY <3>2, <4>2, <4>3
    <3> QED BY <3>1, <3>3, <3>4 DEF h
  <2> QED BY <2>5, <2>6 DEF h
<1>5. \A n \in Nat : n \in Good
  <2> HIDE DEF Good
  <2> QED BY <1>3, <1>4, SetInduction
<1>6. P(Len(s))
  BY <1>5
<1> QED BY <1>1, <1>6, SMTT(30)

\* u is s with its m-th element behind the k-th, which comes before it.
MovedUp(s, m, k, u) ==
  /\ u \in Seq(Cells) /\ Len(u) = Len(s) /\ u[k + 1] = s[m]
  /\ \A j \in 1..Len(s) : /\ j <= k => u[j] = s[j]
                          /\ k + 1 < j /\ j <= m => u[j] = s[j-1]
                          /\ m < j => u[j] = s[j]

\* Where every element goes when a reload moves its module.
LEMMA ReinsertedAt ==
  ASSUME NEW s \in Seq(Cells), IsInjective(s), NEW m \in 1..Len(s), NEW k \in 0..m-1,
         NEW a, k = 0 => a = NULL, k # 0 => a = s[k]
  PROVE  MovedUp(s, m, k, Reinserted(s, s[m], a))
<1> DEFINE e == s[m]
           rest == Unlinked(s, e)
           i == IF a = NULL THEN 1 ELSE 1 + CHOOSE j \in DOMAIN rest : rest[j] = a
           u == Reinserted(s, e, a)
<1>0. Len(s) \in Nat /\ DOMAIN s = 1..Len(s) /\ e \in Cells /\ NULL \notin Cells
      /\ \A j \in 1..Len(s) : s[j] \in Cells
  BY SetAssumption
<1>1. rest = RemoveAt(s, m)
  <2> DEFINE q == CHOOSE j \in DOMAIN s : s[j] = e
  <2>1. q \in DOMAIN s /\ s[q] = e
    BY <1>0
  <2>2. q = m
    BY <1>0, <2>1 DEF IsInjective
  <2> QED BY <2>2 DEF Unlinked
<1>2. /\ rest \in Seq(Cells) /\ Len(rest) = Len(s) - 1 /\ IsInjective(rest)
      /\ \A j \in 1..Len(s)-1 : rest[j] = IF j < m THEN s[j] ELSE s[j + 1]
  <2>1. e \in ToSet(s)
    BY <1>0, SequenceElements
  <2> HIDE DEF rest, e
  <2>2. rest \in Seq(Cells) /\ Len(rest) = Len(s) - 1
        /\ \A j \in 1..Len(s)-1 : rest[j] = IF j < m THEN s[j] ELSE s[j + 1]
    BY <1>1, RemoveAtFacts
  <2>3. IsInjective(rest)
    BY <2>1, UnlinkedFacts DEF rest
  <2> QED BY <2>2, <2>3
<1>3. u = InsertAt(rest, i, e)
  BY DEF Reinserted
<1> HIDE DEF rest
<1>4. i = k + 1
  <2>1. CASE k = 0
    BY <2>1
  <2>2. CASE k # 0
    <3>1. k \in 1..Len(s)-1 /\ k < m /\ a = s[k] /\ a \in Cells /\ a # NULL
      BY <1>0, <2>2
    <3>2. rest[k] = a /\ DOMAIN rest = 1..Len(s)-1
      BY <1>2, <3>1
    <3> DEFINE q == CHOOSE j \in DOMAIN rest : rest[j] = a
    <3>3. q \in DOMAIN rest /\ rest[q] = a
      BY <3>1, <3>2
    <3>4. q = k
      BY <1>2, <3>1, <3>2, <3>3 DEF IsInjective
    <3>5. i = 1 + q
      BY <3>1
    <3> HIDE DEF q, i
    <3> QED BY <3>4, <3>5
  <2> QED BY <2>1, <2>2
<1> HIDE DEF i, e, u
<1>5. k + 1 \in 1..Len(rest)+1 /\ e \in Cells
  BY <1>0, <1>2
<1>6. /\ u \in Seq(Cells) /\ Len(u) = Len(rest) + 1 /\ u[k+1] = e
      /\ \A j \in 1..(k+1)-1 : u[j] = rest[j]
      /\ \A j \in (k+1)+1..Len(rest)+1 : u[j] = rest[j - 1]
  <2> DEFINE q == k + 1
  <2>1. u = InsertAt(rest, q, e) /\ q \in 1..Len(rest)+1
    BY <1>3, <1>4, <1>5
  <2> HIDE DEF q
  <2> DEFINE v == InsertAt(rest, q, e)
  <2>2. /\ v \in Seq(Cells) /\ Len(v) = Len(rest) + 1 /\ v[q] = e
        /\ \A j \in 1..q-1 : v[j] = rest[j]
        /\ \A j \in q+1..Len(rest)+1 : v[j] = rest[j - 1]
    <3> HIDE DEF v
    <3>1. rest \in Seq(Cells) /\ e \in Cells /\ q \in 1..Len(rest)+1
      BY <1>2, <1>5, <2>1
    <3> QED BY <3>1, InsertAtFacts DEF v
  <2> HIDE DEF v
  <2>3. u = v
    BY <2>1 DEF v
  <2> QED BY <2>2, <2>3 DEF q
<1>7. ASSUME NEW j \in 1..Len(s)
      PROVE  /\ j <= k => u[j] = s[j]
             /\ k + 1 < j /\ j <= m => u[j] = s[j-1]
             /\ m < j => u[j] = s[j]
  <2>1. CASE j <= k
    <3>1. j \in 1..(k+1)-1 /\ j \in 1..Len(s)-1 /\ j < m
      BY <1>0, <2>1
    <3>2. rest[j] = s[j] /\ u[j] = rest[j]
      BY <1>2, <1>6, <3>1
    <3>3. ~(k + 1 < j) /\ ~(m < j)
      BY <2>1
    <3> QED BY <3>2, <3>3
  <2>2. CASE j = k + 1
    BY <2>2
  <2>3. CASE j > k + 1
    <3>1. j \in (k+1)+1..Len(rest)+1 /\ j - 1 \in 1..Len(s)-1 /\ ~(j <= k) /\ j # k + 1
      BY <1>0, <1>2, <2>3
    <3>2. u[j] = IF j - 1 < m THEN s[j - 1] ELSE s[(j - 1) + 1]
      BY <1>2, <1>6, <3>1
    <3>3. (j - 1 < m <=> j <= m) /\ (j - 1) + 1 = j
      OBVIOUS
    <3> QED BY <3>1, <3>2, <3>3
  <2> QED BY <2>1, <2>2, <2>3
<1>8. Len(u) = Len(s) /\ u = Reinserted(s, s[m], a) /\ u[k + 1] = s[m]
  BY <1>0, <1>2, <1>6 DEF u, e
<1>9. MovedUp(s, m, k, u)
  BY <1>6, <1>7, <1>8 DEF MovedUp
<1> QED BY <1>8, <1>9

\* Nothing is loaded.
LEMMA OrderedEmpty ==
  ASSUME NEW E, \A c \in Cells : E[c] = Free, NEW M, \A r \in Regions : M[r] = <<>>
  PROVE  Ordered(E, M)
<1> DEFINE rank == [c \in Cells |-> 0]
<1>1. rank \in [Cells -> 0..0]
  OBVIOUS
<1>2. Ranks(E, M, rank)
  <2>1. \A r \in Regions : Len(M[r]) = 0
    OBVIOUS
  <2> QED BY <2>1 DEF Ranks
<1>3. 0 \in Nat
  OBVIOUS
<1> HIDE DEF rank
<1> QED BY <1>1, <1>2, <1>3 DEF Ordered

\* u is s, or what is left of it.
LeftOf(u, s) == u = s \/ \E S : u = Only(s, S)

\* Entries leave, and the lists without them are in the order they were.
LEMMA OrderedLess ==
  ASSUME NEW E, NEW M \in [Regions -> Seq(Cells)], Ordered(E, M), NEW E1, NEW M1,
         \A c \in Cells : E1[c] # Free => E[c] # Free /\ E1[c].parent = E[c].parent,
         \A r \in Regions : LeftOf(M1[r], M[r])
  PROVE  Ordered(E1, M1)
<1>1. PICK n \in Nat : \E rank \in [Cells -> 0..n] : Ranks(E, M, rank)
  BY DEF Ordered
<1>2. PICK rank \in [Cells -> 0..n] : Ranks(E, M, rank)
  BY <1>1
<1>3. rank \in [Cells -> Nat]
  OBVIOUS
<1>4. /\ \A c \in Cells : E[c] # Free /\ E[c].parent \in Cells /\ E[E[c].parent] # Free =>
           rank[E[c].parent] < rank[c]
      /\ \A r \in Regions : \A i, j \in 1..Len(M[r]) : i < j => rank[M[r][i]] < rank[M[r][j]]
  BY <1>2 DEF Ranks
<1>5. \A c \in Cells : E1[c] # Free /\ E1[c].parent \in Cells /\ E1[E1[c].parent] # Free =>
        rank[E1[c].parent] < rank[c]
  BY <1>4
<1>6. ASSUME NEW r \in Regions
      PROVE  \A i, j \in 1..Len(M1[r]) : i < j => rank[M1[r][i]] < rank[M1[r][j]]
  <2>1. CASE M1[r] = M[r]
    BY <1>4, <2>1
  <2>2. CASE \E S : M1[r] = Only(M[r], S)
    <3> DEFINE s == M[r]
    <3>1. s \in Seq(Cells) /\ \A i, j \in 1..Len(s) : i < j => rank[s[i]] < rank[s[j]]
      BY <1>4
    <3> HIDE DEF s
    <3>2. PICK S : M1[r] = Only(s, S)
      BY <2>2 DEF s
    <3>3. \A i, j \in 1..Len(Only(s, S)) : i < j => rank[Only(s, S)[i]] < rank[Only(s, S)[j]]
      BY <1>3, <3>1, OnlyOrder
    <3> QED BY <3>2, <3>3
  <2> QED BY <2>1, <2>2 DEF LeftOf
<1>7. Ranks(E1, M1, rank)
  BY <1>5, <1>6 DEF Ranks
<1> QED BY <1>7 DEF Ordered

\* A new entry comes last; what loaded it is there.
LEMMA OrderedMore ==
  ASSUME NEW E, NEW M, ListsFit(E, M), Ordered(E, M), NEW c \in Cells, E[c] = Free,
         NEW x, x.parent \in Cells => E[x.parent] # Free,
         \A d \in Cells : E[d] # Free => E[d].parent # c,
         E \in [Cells -> Entry \cup {Free}], NEW r \in Regions,
         NEW E1, E1 = [E EXCEPT ![c] = x], NEW M1, M1 = [M EXCEPT ![r] = Append(@, c)]
  PROVE  Ordered(E1, M1)
<1>1. PICK n \in Nat : \E rank \in [Cells -> 0..n] : Ranks(E, M, rank)
  BY DEF Ordered
<1>2. PICK rank \in [Cells -> 0..n] : Ranks(E, M, rank)
  BY <1>1
<1> DEFINE N == n + 1
           rank1 == [d \in Cells |-> IF d = c THEN N ELSE rank[d]]
<1>a. N \in Nat /\ N \in 0..N /\ \A k \in 0..n : k < N /\ k \in 0..N
  OBVIOUS
<1>b. \A d \in Cells : rank[d] \in 0..n
  OBVIOUS
<1> HIDE DEF N
<1>3. rank1 \in [Cells -> 0..N]
  BY <1>a, <1>b
<1>4. rank1[c] = N /\ \A d \in Cells : d # c => rank1[d] = rank[d] /\ rank1[d] < N
  BY <1>a, <1>b
<1>5. /\ \A d \in Cells : E[d] # Free /\ E[d].parent \in Cells /\ E[E[d].parent] # Free =>
           rank[E[d].parent] < rank[d]
      /\ \A q \in Regions : \A i, j \in 1..Len(M[q]) : i < j => rank[M[q][i]] < rank[M[q][j]]
  BY <1>2 DEF Ranks
<1>6. /\ E1[c] = x /\ \A d \in Cells : d # c => E1[d] = E[d]
      /\ M \in [Regions -> Seq(Cells)] /\ M1[r] = Append(M[r], c)
      /\ \A q \in Regions : q # r => M1[q] = M[q]
      /\ \A q \in Regions : c \notin ToSet(M[q])
  BY DEF ListsFit
<1> HIDE DEF rank1
<1>7. ASSUME NEW d \in Cells, E1[d] # Free, E1[d].parent \in Cells, E1[E1[d].parent] # Free
      PROVE  rank1[E1[d].parent] < rank1[d]
  <2>1. CASE d = c
    BY <1>4, <1>6, <1>7, <2>1
  <2>2. CASE d # c
    BY <1>4, <1>5, <1>6, <1>7, <2>2
  <2> QED BY <2>1, <2>2
<1>8. ASSUME NEW q \in Regions, NEW i \in 1..Len(M1[q]), NEW j \in 1..Len(M1[q]), i < j
      PROVE  rank1[M1[q][i]] < rank1[M1[q][j]]
  <2> DEFINE s == M[q]
  <2>0. s \in Seq(Cells) /\ c \notin ToSet(s)
    BY <1>6
  <2>o. \A k, l \in 1..Len(s) : k < l => rank[s[k]] < rank[s[l]]
    BY <1>5
  <2> HIDE DEF s
  <2>1. Len(s) \in Nat /\ \A k \in 1..Len(s) : s[k] \in Cells /\ s[k] # c
    BY <2>0, SequenceElements
  <2>2. \A k \in 1..Len(s) : rank1[s[k]] = rank[s[k]] /\ rank1[s[k]] < N
    BY <1>4, <2>1
  <2>3. CASE q # r
    <3>1. M1[q] = s
      BY <1>6, <2>3 DEF s
    <3> QED BY <1>8, <2>o, <2>2, <3>1
  <2>4. CASE q = r
    <3>1. M1[q] = Append(s, c)
      BY <1>6, <2>4 DEF s
    <3>2. /\ Len(M1[q]) = Len(s) + 1 /\ M1[q][Len(s) + 1] = c
          /\ \A k \in 1..Len(s) : M1[q][k] = s[k]
      BY <2>0, <3>1
    <3>3. i \in 1..Len(s) /\ (j \in 1..Len(s) \/ j = Len(s) + 1)
      BY <1>8, <2>1, <3>2
    <3>4. CASE j \in 1..Len(s)
      BY <1>8, <2>o, <2>2, <3>2, <3>3, <3>4
    <3>5. CASE j = Len(s) + 1
      BY <1>4, <2>2, <3>2, <3>3, <3>5
    <3> QED BY <3>3, <3>4, <3>5
  <2> QED BY <2>3, <2>4
<1>9. Ranks(E1, M1, rank1)
  BY <1>7, <1>8 DEF Ranks
<1> QED BY <1>a, <1>3, <1>9 DEF Ordered

\* An entry that no other loaded moves up a list, from the m-th place to behind
\* the k-th entry. Every rank is doubled to make room.
LEMMA OrderedMoved ==
  ASSUME NEW E, NEW M, ListsFit(E, M), Ordered(E, M), NEW r \in Regions,
         NEW m \in 1..Len(M[r]), NEW k \in 0..m-1, NEW a,
         k = 0 => a = NULL, k # 0 => a = M[r][k], E[M[r][m]].parent = NULL,
         NEW M1, M1 = [M EXCEPT ![r] = Reinserted(M[r], M[r][m], a)]
  PROVE  Ordered(E, M1)
<1> DEFINE s == M[r]
           e == s[m]
           u == Reinserted(s, e, a)
<1>0. /\ s \in Seq(Cells) /\ IsInjective(s) /\ Len(s) \in Nat /\ e \in Cells
      /\ M1[r] = u /\ \A q \in Regions : q # r => M1[q] = M[q]
      /\ E[e].parent = NULL /\ e \in ToSet(s)
  <2>1. M \in [Regions -> Seq(Cells)] /\ s \in Seq(Cells) /\ IsInjective(s)
    BY DEF ListsFit
  <2>2. e \in Cells /\ e \in ToSet(s)
    BY <2>1, SequenceElements
  <2> QED BY <2>1, <2>2
<1>1. PICK n \in Nat : \E rank \in [Cells -> 0..n] : Ranks(E, M, rank)
  BY DEF Ordered
<1>2. PICK rank \in [Cells -> 0..n] : Ranks(E, M, rank)
  BY <1>1
<1>3. /\ \A d \in Cells : E[d] # Free /\ E[d].parent \in Cells /\ E[E[d].parent] # Free =>
           rank[E[d].parent] < rank[d]
      /\ \A q \in Regions : \A i, j \in 1..Len(M[q]) : i < j => rank[M[q][i]] < rank[M[q][j]]
  BY <1>2 DEF Ranks
<1>4. \A q \in Regions : q # r => e \notin ToSet(M[q])
  BY <1>0 DEF ListsFit
<1>5. M \in [Regions -> Seq(Cells)]
  BY DEF ListsFit
<1>p. \A i, j \in 1..Len(s) : i < j => rank[s[i]] < rank[s[j]]
  BY <1>3
<1>6. /\ u \in Seq(Cells) /\ Len(u) = Len(s) /\ u[k + 1] = e
      /\ \A j \in 1..Len(s) : /\ j <= k => u[j] = s[j]
                              /\ k + 1 < j /\ j <= m => u[j] = s[j-1]
                              /\ m < j => u[j] = s[j]
  <2> HIDE DEF s
  <2>1. m \in 1..Len(s) /\ k \in 0..m-1 /\ (k = 0 => a = NULL) /\ (k # 0 => a = s[k])
    BY DEF s
  <2>2. u = Reinserted(s, s[m], a)
    OBVIOUS
  <2> HIDE DEF u
  <2>3. s \in Seq(Cells) /\ IsInjective(s)
    BY <1>0
  <2>4. MovedUp(s, m, k, u)
    BY <2>1, <2>2, <2>3, ReinsertedAt
  <2> QED BY <2>4 DEF MovedUp
<1>7. PICK z \in Nat : /\ z <= n + n + 2
                       /\ \A i \in 1..k : rank[s[i]] + rank[s[i]] + 1 < z
                       /\ \A i \in k+1..Len(s) : z < rank[s[i]] + rank[s[i]] + 1
  <2> HIDE DEF s, e, u
  <2>1. \A i \in 1..Len(s) : s[i] \in Cells /\ rank[s[i]] \in 0..n /\ rank[s[i]] \in Nat
    BY <1>0, SequenceElements, SMTT(30)
  <2>2. m \in 1..Len(s)
    BY DEF s
  <2>3. CASE k = 0
    <3>1. /\ 0 \in Nat /\ 0 <= n + n + 2 /\ \A i \in 1..k : FALSE
          /\ \A i \in k+1..Len(s) : i \in 1..Len(s)
      BY <2>3
    <3>2. \A i \in k+1..Len(s) : 0 < rank[s[i]] + rank[s[i]] + 1
      BY <2>1, <3>1
    <3> QED BY <3>1, <3>2
  <2>4. CASE k # 0
    <3> DEFINE v == rank[s[k]]
               z == v + v + 2
    <3>0. k \in 1..Len(s)
      BY <1>0, <2>2, <2>4
    <3>1. v \in 0..n /\ v \in Nat /\ z \in Nat /\ z <= n + n + 2
      BY <2>1, <3>0
    <3>2. ASSUME NEW i \in 1..k PROVE rank[s[i]] + rank[s[i]] + 1 < z
      <4>1. i \in 1..Len(s) /\ (i < k \/ i = k)
        BY <1>0, <3>0
      <4>2. rank[s[i]] <= v /\ rank[s[i]] \in Nat
        <5>1. CASE i = k
          BY <2>1, <4>1, <5>1
        <5>2. CASE i < k
          BY <1>p, <2>1, <3>0, <4>1, <5>2
        <5> QED BY <4>1, <5>1, <5>2
      <4> DEFINE w == rank[s[i]]
      <4> HIDE DEF w, v
      <4>3. w <= v /\ w \in Nat /\ v \in Nat
        BY <3>1, <4>2 DEF w, v
      <4> QED BY <4>3 DEF w
    <3>3. ASSUME NEW i \in k+1..Len(s) PROVE z < rank[s[i]] + rank[s[i]] + 1
      <4>1. i \in 1..Len(s) /\ k < i
        BY <1>0, <3>0, SMTT(30)
      <4>2. v < rank[s[i]] /\ rank[s[i]] \in Nat
        BY <1>p, <2>1, <3>0, <4>1
      <4> DEFINE w == rank[s[i]]
      <4> HIDE DEF w, v
      <4>3. v < w /\ w \in Nat /\ v \in Nat
        BY <3>1, <4>2 DEF w, v
      <4> QED BY <4>3 DEF w
    <3> QED BY <3>1, <3>2, <3>3
  <2> QED BY <2>3, <2>4
<1> DEFINE N == n + n + 2
           twice == [d \in Cells |-> rank[d] + rank[d] + 1]
           rank1 == [d \in Cells |-> IF d = e THEN z ELSE twice[d]]
<1>8. N \in Nat /\ z \in 0..N
  BY <1>7
<1>9. /\ \A d \in Cells : twice[d] \in 0..N
      /\ \A c, d \in Cells : rank[c] < rank[d] => twice[c] < twice[d]
      /\ \A i \in 1..k : twice[s[i]] < z
      /\ \A i \in k+1..Len(s) : z < twice[s[i]]
  <2>1. \A d \in Cells : twice[d] = rank[d] + rank[d] + 1 /\ rank[d] \in 0..n
    OBVIOUS
  <2> HIDE DEF twice, s
  <2>2. \A d \in Cells : twice[d] \in 0..N
    BY <2>1, SMTT(30)
  <2>3. \A c, d \in Cells : rank[c] < rank[d] => twice[c] < twice[d]
    BY <2>1
  <2>4. \A i \in 1..Len(s) : s[i] \in Cells
    BY <1>0
  <2>5. (\A i \in 1..k : i \in 1..Len(s)) /\ (\A i \in k+1..Len(s) : i \in 1..Len(s))
    BY <1>0 DEF s
  <2> QED BY <1>7, <2>1, <2>2, <2>3, <2>4, <2>5
<1>10. rank1 \in [Cells -> 0..N] /\ rank1[e] = z /\ \A d \in Cells : d # e => rank1[d] = twice[d]
  <2> HIDE DEF N, twice, e, s, u
  <2> QED BY <1>0, <1>8, <1>9
<1>11. m \in k+1..Len(s) /\ z < twice[e]
  <2>1. m \in k+1..Len(s)
    BY <1>0
  <2> QED BY <1>9, <2>1
<1> HIDE DEF N, twice, rank1, s, e, u
<1>12. ASSUME NEW d \in Cells, E[d] # Free, E[d].parent \in Cells, E[E[d].parent] # Free
       PROVE  rank1[E[d].parent] < rank1[d]
  <2>1. d # e
    BY <1>0, <1>12, SetAssumption
  <2>2. rank1[d] = twice[d] /\ twice[E[d].parent] < twice[d]
    BY <1>3, <1>9, <1>10, <1>12, <2>1
  <2>3. CASE E[d].parent = e
    <3>1. z \in Nat /\ twice[e] \in Nat /\ twice[d] \in Nat
      BY <1>0, <1>7, <1>8, <1>9, SMTT(30)
    <3> QED BY <1>10, <1>11, <2>2, <2>3, <3>1
  <2>4. CASE E[d].parent # e
    BY <1>10, <1>12, <2>2, <2>4
  <2> QED BY <2>3, <2>4
\* The m-th element is elsewhere; the others stay in order.
<1>13. ASSUME NEW i \in 1..Len(s), NEW j \in 1..Len(s), i < j PROVE rank1[u[i]] < rank1[u[j]]
  <2>0. \A x \in 1..Len(s) : s[x] \in Cells /\ (x # m => s[x] # e /\ rank1[s[x]] = twice[s[x]])
    <3>1. \A x \in 1..Len(s) : s[x] \in Cells /\ (s[x] = s[m] => x = m)
      <4>1. m \in 1..Len(s) /\ DOMAIN s = 1..Len(s)
        BY <1>0 DEF s
      <4> QED BY <1>0, <4>1, SequenceElements DEF IsInjective
    <3> QED BY <1>10, <3>1 DEF e
  <2> DEFINE at(x) == IF x <= k THEN x ELSE IF x <= m THEN x - 1 ELSE x
  <2>1. \A x \in 1..Len(s) : x # k + 1 => at(x) \in 1..Len(s) /\ at(x) # m /\ u[x] = s[at(x)]
    <3> TAKE x \in 1..Len(s)
    <3>1. /\ x <= k => u[x] = s[x]
          /\ k + 1 < x /\ x <= m => u[x] = s[x-1]
          /\ m < x => u[x] = s[x]
      BY <1>6
    <3>2. m \in 1..Len(s) /\ Len(s) \in Nat
      BY <1>0 DEF s
    <3>3. CASE x <= k
      <4>1. x \in 1..Len(s) /\ x # m
        BY <3>2, <3>3
      <4> QED BY <3>1, <3>3, <4>1
    <3>4. CASE x > k + 1 /\ x <= m
      <4>1. x - 1 \in 1..Len(s) /\ x - 1 # m /\ ~(x <= k) /\ x # k + 1
        BY <3>2, <3>4, SMTT(30)
      <4> QED BY <3>1, <3>4, <4>1
    <3>5. CASE x > k + 1 /\ ~(x <= m)
      <4>1. x # m /\ ~(x <= k) /\ x # k + 1
        BY <3>2, <3>5
      <4> QED BY <3>1, <3>5, <4>1
    <3> QED BY <3>3, <3>4, <3>5
  <2>2. /\ i # k + 1 /\ j # k + 1 => at(i) < at(j)
        /\ i # k + 1 /\ j = k + 1 => at(i) \in 1..k
        /\ j # k + 1 /\ i = k + 1 => at(j) \in k+1..Len(s)
    <3>1. m \in 1..Len(s) /\ Len(s) \in Nat
      BY <1>0 DEF s
    <3> QED BY <1>13, <3>1
  <2>3. u[k + 1] = e
    BY <1>6
  <2> HIDE DEF at
  <2>4. CASE i # k + 1 /\ j # k + 1
    <3>1. /\ u[i] = s[at(i)] /\ u[j] = s[at(j)] /\ rank[s[at(i)]] < rank[s[at(j)]]
          /\ s[at(i)] \in Cells /\ s[at(j)] \in Cells
          /\ rank1[u[i]] = twice[s[at(i)]] /\ rank1[u[j]] = twice[s[at(j)]]
      BY <1>p, <2>0, <2>1, <2>2, <2>4
    <3> QED BY <1>9, <3>1
  <2>5. CASE i # k + 1 /\ j = k + 1
    <3>1. /\ at(i) \in 1..k /\ at(i) \in 1..Len(s) /\ at(i) # m /\ u[i] = s[at(i)] /\ u[j] = e
      BY <2>1, <2>2, <2>3, <2>5
    <3>2. rank1[u[i]] = twice[s[at(i)]] /\ rank1[u[j]] = z
      BY <1>10, <2>0, <3>1
    <3> QED BY <1>9, <3>1, <3>2
  <2>6. CASE j # k + 1 /\ i = k + 1
    <3>1. /\ at(j) \in k+1..Len(s) /\ at(j) \in 1..Len(s) /\ at(j) # m /\ u[j] = s[at(j)]
          /\ u[i] = e
      BY <2>1, <2>2, <2>3, <2>6
    <3>2. rank1[u[j]] = twice[s[at(j)]] /\ rank1[u[i]] = z
      BY <1>10, <2>0, <3>1
    <3> QED BY <1>9, <3>1, <3>2
  <2>7. ~(i = k + 1 /\ j = k + 1)
    BY <1>13
  <2> QED BY <2>4, <2>5, <2>6, <2>7
<1>14. ASSUME NEW q \in Regions, NEW i \in 1..Len(M1[q]), NEW j \in 1..Len(M1[q]), i < j
       PROVE  rank1[M1[q][i]] < rank1[M1[q][j]]
  <2>1. CASE q = r
    <3>1. M1[q] = u
      BY <1>0, <2>1
    <3> QED BY <1>6, <1>13, <1>14, <3>1
  <2>2. CASE q # r
    <3> DEFINE t == M[q]
    <3>1. M1[q] = t /\ t \in Seq(Cells) /\ e \notin ToSet(t)
      BY <1>0, <1>4, <1>5, <2>2
    <3>2. rank[t[i]] < rank[t[j]]
      BY <1>3, <1>14, <3>1
    <3> HIDE DEF t
    <3>a. i \in 1..Len(t) /\ j \in 1..Len(t)
      BY <1>14, <3>1
    <3>b. \A x \in 1..Len(t) : t[x] \in ToSet(t) /\ t[x] \in Cells
      BY <3>1, SequenceElements
    <3>3. t[i] \in Cells /\ t[j] \in Cells /\ t[i] # e /\ t[j] # e
      BY <3>1, <3>a, <3>b
    <3> QED BY <1>9, <1>10, <3>1, <3>2, <3>3
  <2> QED BY <2>1, <2>2
<1>15. Ranks(E, M1, rank1)
  BY <1>12, <1>14 DEF Ranks
<1> QED BY <1>8, <1>10, <1>15 DEF Ordered

\* A reload goes on as it would have when entries are added behind its list.
LEMMA ReloadKept ==
  ASSUME NEW E, NEW s \in Seq(Cells), NEW f, f.e \in Cells, E[f.e] # Free, ReloadFits(E, s, f),
         NEW E1, NEW s1,
         \A d \in Cells : E[d] # Free =>
           E1[d] # Free /\ E1[d].path = E[d].path /\ E1[d].parent = E[d].parent,
         s1 = s \/ \E c \in Cells : E[c] = Free /\ s1 = Append(s, c)
  PROVE  ReloadFits(E1, s1, f)
<1>1. /\ E1[f.e].path = f.reload /\ E1[f.e].parent = NULL /\ f.e \notin ToSet(f.seen)
      /\ \A x \in ToSet(f.was) \cup ToSet(f.seen) : x \in Cells => E1[x] # Free
  BY DEF ReloadFits
<1>2. \A x \in ToSet(f.was) : x \in Cells => E[x] # Free
  BY DEF ReloadFits
<1>3. PICK k \in 0..Len(s) :
        /\ k = 0 => f.after = NULL
        /\ k # 0 => f.after = s[k]
        /\ \A j \in 1..k : s[j] \notin ToSet(f.seen) /\ s[j] # f.e
        /\ \A j \in k+1..Len(s) : s[j] \notin ToSet(f.was)
  BY DEF ReloadFits
<1>4. CASE s1 = s
  BY <1>1, <1>3, <1>4 DEF ReloadFits
<1>5. CASE \E c \in Cells : E[c] = Free /\ s1 = Append(s, c)
  <2>1. PICK c \in Cells : E[c] = Free /\ s1 = Append(s, c)
    BY <1>5
  <2>2. /\ Len(s) \in Nat /\ Len(s1) = Len(s) + 1 /\ s1[Len(s) + 1] = c
        /\ \A j \in 1..Len(s) : s1[j] = s[j]
    BY <2>1
  <2>3. c \notin ToSet(f.was)
    BY <1>2, <2>1
  <2>4. /\ k \in 0..Len(s1) /\ (k # 0 => k \in 1..Len(s)) /\ \A j \in 1..k : j \in 1..Len(s)
        /\ \A j \in k+1..Len(s1) : j = Len(s) + 1 \/ (j \in k+1..Len(s) /\ j \in 1..Len(s))
    BY <2>2
  <2>5. /\ k = 0 => f.after = NULL
        /\ k # 0 => f.after = s1[k]
        /\ \A j \in 1..k : s1[j] \notin ToSet(f.seen) /\ s1[j] # f.e
    BY <1>3, <2>2, <2>4
  <2>6. \A j \in k+1..Len(s1) : s1[j] \notin ToSet(f.was)
    BY <1>3, <2>2, <2>3, <2>4
  <2> QED BY <1>1, <2>4, <2>5, <2>6 DEF ReloadFits
<1> QED BY <1>4, <1>5

\* Entries stay, and lists get longer by new ones.
HeapGrows(E, M, E1, M1) ==
  /\ \A d \in Cells : E[d] # Free =>
       E1[d] # Free /\ E1[d].path = E[d].path /\ E1[d].parent = E[d].parent
  /\ \A q \in Regions : M1[q] = M[q] \/ \E c \in Cells : E[c] = Free /\ M1[q] = Append(M[q], c)

\* Every reload in progress goes on as it would have.
LEMMA ReloadsKept ==
  ASSUME NEW E, NEW M \in [Regions -> Seq(Cells)], NEW L, L \subseteq Regions, NEW fs,
         FramesFit(E, L, fs), ReloadsFit(E, M, fs), NEW E1, NEW M1, HeapGrows(E, M, E1, M1)
  PROVE  ReloadsFit(E1, M1, fs)
<1> USE DEF HeapGrows
<1> SUFFICES ASSUME NEW i \in 1..Len(fs), fs[i].kind = "install", fs[i].reload # NULL
             PROVE  /\ \A j \in 1..i-1 : fs[j].kind = "scope"
                    /\ ReloadFits(E1, M1[fs[i].saved.id], fs[i])
  BY DEF ReloadsFit
<1>1. /\ \A j \in 1..i-1 : fs[j].kind = "scope"
      /\ ReloadFits(E, M[fs[i].saved.id], fs[i])
  BY DEF ReloadsFit
<1> DEFINE f == fs[i]
           q == f.saved.id
<1>2. f.e \in Cells /\ E[f.e] # Free /\ q \in Regions
  BY DEF FramesFit, FrameFits
<1> HIDE DEF f
<1>3. M[q] \in Seq(Cells) /\ ReloadFits(E, M[q], f)
      /\ (M1[q] = M[q] \/ \E c \in Cells : E[c] = Free /\ M1[q] = Append(M[q], c))
  BY <1>1, <1>2 DEF f
<1> DEFINE s == M[q]
           s1 == M1[q]
<1> HIDE DEF s, s1
<1>4. s \in Seq(Cells) /\ ReloadFits(E, s, f)
      /\ (s1 = s \/ \E c \in Cells : E[c] = Free /\ s1 = Append(s, c))
  BY <1>3 DEF s, s1
<1>5. ReloadFits(E1, s1, f)
  BY <1>2, <1>4, ReloadKept
<1> QED BY <1>1, <1>5 DEF s1, f

\* Another piece of foreign code starts on top of the frames fs.
LEMMA ReloadsPush ==
  ASSUME NEW E, NEW M, NEW T, NEW fs \in Seq(T), ReloadsFit(E, M, fs), NEW g \in T,
         g.kind = "install" => g.reload = NULL
  PROVE  ReloadsFit(E, M, Append(fs, g))
<1> DEFINE fs1 == Append(fs, g)
<1>1. /\ Len(fs1) = Len(fs) + 1 /\ Len(fs) \in Nat /\ fs1[Len(fs) + 1] = g
      /\ \A i \in 1..Len(fs) : fs1[i] = fs[i]
  BY FrameFacts
<1> HIDE DEF fs1
<1>2. ASSUME NEW i \in 1..Len(fs1), fs1[i].kind = "install", fs1[i].reload # NULL
      PROVE  /\ \A j \in 1..i-1 : fs1[j].kind = "scope"
             /\ ReloadFits(E, M[fs1[i].saved.id], fs1[i])
  <2>1. i \in 1..Len(fs) /\ fs1[i] = fs[i]
    BY <1>1, <1>2
  <2>2. \A j \in 1..i-1 : j \in 1..Len(fs)
    BY <1>1, <2>1
  <2> QED BY <1>1, <1>2, <2>1, <2>2 DEF ReloadsFit
<1>3. ReloadsFit(E, M, fs1)
  BY <1>2 DEF ReloadsFit
<1> QED BY <1>3 DEF fs1

\* The innermost piece of foreign code ends.
LEMMA ReloadsPop ==
  ASSUME NEW E, NEW M, NEW T, NEW fs \in Seq(T), fs # <<>>, ReloadsFit(E, M, fs)
  PROVE  ReloadsFit(E, M, Front(fs))
<1> DEFINE fs1 == Front(fs)
<1>1. /\ Len(fs1) = Len(fs) - 1 /\ Len(fs) \in Nat /\ \A i \in 1..Len(fs)-1 : fs1[i] = fs[i]
  <2>1. fs[1] \in T
    OBVIOUS
  <2> QED BY <2>1, FrameFacts
<1> HIDE DEF fs1
<1>2. ASSUME NEW i \in 1..Len(fs1), fs1[i].kind = "install", fs1[i].reload # NULL
      PROVE  /\ \A j \in 1..i-1 : fs1[j].kind = "scope"
             /\ ReloadFits(E, M[fs1[i].saved.id], fs1[i])
  <2>1. i \in 1..Len(fs) /\ i \in 1..Len(fs)-1 /\ fs1[i] = fs[i]
    BY <1>1
  <2>2. \A j \in 1..i-1 : j \in 1..Len(fs)-1
    BY <1>1, <2>1
  <2> QED BY <1>1, <1>2, <2>1, <2>2 DEF ReloadsFit
<1>3. ReloadsFit(E, M, fs1)
  BY <1>2 DEF ReloadsFit
<1> QED BY <1>3 DEF fs1

\* Without an xy_install there is no reload.
LEMMA NoReload ==
  ASSUME NEW E, NEW M, NEW fs, \A i \in 1..Len(fs) : fs[i].kind # "install"
  PROVE  ReloadsFit(E, M, fs)
BY DEF ReloadsFit

\* In the list t, the elements of W are not behind a, those of B not before it.
Between(t, a, W, B) ==
  \E k \in 0..Len(t) :
    /\ k = 0 => a = NULL
    /\ k # 0 => a = t[k]
    /\ \A j \in 1..k : t[j] \notin B
    /\ \A j \in k+1..Len(t) : t[j] \notin W

\* In the list s, a is before the i-th element and not in D, W is what comes
\* before that element, and B what comes behind it.
Parted(s, i, D, a, W, B) ==
  /\ i = 1 => a = NULL
  /\ i # 1 => a = s[i-1] /\ a \notin D
  /\ \A x \in W : x \in Cells => \E j \in 1..i-1 : x = s[j]
  /\ \A x \in B : x \in Cells => \E j \in i+1..Len(s) : x = s[j]

\* When the cells D leave the list s, but not the element a before the i-th one,
\* what was before the i-th is not behind a, and what was behind it is not
\* before a.
LEMMA PlaceFound ==
  ASSUME NEW s \in Seq(Cells), NEW rank \in [Cells -> Nat],
         \A j, l \in 1..Len(s) : j < l => rank[s[j]] < rank[s[l]],
         NEW i \in 1..Len(s), NEW D, NEW a, NEW W, NEW B, Parted(s, i, D, a, W, B),
         NEW t, t = Only(s, Cells \ D)
  PROVE  Between(t, a, W, B)
<1>0. /\ i = 1 => a = NULL
      /\ i # 1 => a = s[i-1] /\ a \notin D
      /\ \A x \in W : x \in Cells => \E j \in 1..i-1 : x = s[j]
      /\ \A x \in B : x \in Cells => \E j \in i+1..Len(s) : x = s[j]
  BY DEF Parted
<1> USE <1>0
<1>1. /\ t \in Seq(Cells) /\ ToSet(t) = ToSet(s) \cap (Cells \ D)
      /\ \A j, l \in 1..Len(t) : j < l => rank[t[j]] < rank[t[l]]
  <2>1. \A j, l \in 1..Len(Only(s, Cells \ D)) :
           j < l => rank[Only(s, Cells \ D)[j]] < rank[Only(s, Cells \ D)[l]]
    BY OnlyOrder
  <2> QED BY <2>1, OnlyFacts
<1>2. /\ Len(t) \in Nat /\ Len(s) \in Nat /\ \A j \in 1..Len(t) : t[j] \in Cells
      /\ \A j \in 1..Len(s) : s[j] \in Cells /\ rank[s[j]] \in Nat /\ s[j] \in ToSet(s)
  BY <1>1, SequenceElements
<1>3. CASE i = 1
  <2>1. \A x \in W : x \notin Cells
    BY <1>3
  <2>2. 0 \in 0..Len(t) /\ (\A j \in 1..0 : FALSE) /\ \A j \in 0+1..Len(t) : j \in 1..Len(t)
    BY <1>2
  <2>3. \A j \in 0+1..Len(t) : t[j] \notin W
    BY <1>2, <2>1, <2>2
  <2> QED BY <1>3, <2>2, <2>3 DEF Between
<1>4. CASE i # 1
  <2>1. i - 1 \in 1..Len(s) /\ a = s[i-1] /\ a \in Cells /\ a \in ToSet(t)
    <3>1. i - 1 \in 1..Len(s)
      BY <1>2, <1>4
    <3> QED BY <1>1, <1>2, <1>4, <3>1
  <2>2. PICK k \in 1..Len(t) : t[k] = a
    <3>1. DOMAIN t = 1..Len(t)
      BY <1>1
    <3> QED BY <2>1, <3>1 DEF ToSet
  <2>3. ASSUME NEW j \in 1..k PROVE t[j] \notin B
    <3>1. j \in 1..Len(t) /\ (j = k \/ j < k)
      BY <1>2
    <3>0. rank[t[j]] \in Nat /\ rank[a] \in Nat
      BY <1>2, <2>1, <3>1
    <3>2. rank[t[j]] \in Nat /\ rank[a] \in Nat /\ rank[t[j]] <= rank[a]
      <4>1. CASE j = k
        BY <2>2, <3>0, <4>1
      <4>2. CASE j < k
        <5>1. rank[t[j]] < rank[t[k]]
          BY <1>1, <3>1, <4>2
        <5> QED BY <2>2, <3>0, <5>1
      <4> QED BY <3>1, <4>1, <4>2
    <3>3. ASSUME t[j] \in B PROVE FALSE
      <4>1. PICK l \in i+1..Len(s) : t[j] = s[l]
        BY <1>2, <3>1, <3>3
      <4>2. l \in 1..Len(s) /\ i - 1 < l
        BY <1>2
      <4>3. rank[a] < rank[t[j]]
        BY <2>1, <4>1, <4>2
      <4> QED BY <3>2, <4>3
    <3> QED BY <3>3
  <2>4. ASSUME NEW j \in k+1..Len(t) PROVE t[j] \notin W
    <3>1. j \in 1..Len(t) /\ k < j
      BY <1>2
    <3>2. rank[t[j]] \in Nat /\ rank[a] \in Nat /\ rank[a] < rank[t[j]]
      BY <1>1, <1>2, <2>1, <2>2, <3>1
    <3>3. ASSUME t[j] \in W PROVE FALSE
      <4>1. PICK l \in 1..i-1 : t[j] = s[l]
        BY <1>2, <3>1, <3>3
      <4>2. l \in 1..Len(s) /\ (l = i - 1 \/ l < i - 1)
        BY <1>2
      <4>3. rank[t[j]] <= rank[a]
        <5>1. CASE l = i - 1
          BY <2>1, <3>2, <4>1, <5>1
        <5>2. CASE l < i - 1
          <6>1. rank[s[l]] < rank[s[i-1]]
            BY <2>1, <4>2, <5>2
          <6> QED BY <2>1, <3>2, <4>1, <6>1, SMTT(30)
        <5> QED BY <4>2, <5>1, <5>2
      <4> QED BY <3>2, <4>3
    <3> QED BY <3>3
  <2>5. k \in 0..Len(t) /\ k # 0
    BY <1>2
  <2> QED BY <2>2, <2>3, <2>4, <2>5 DEF Between
<1> QED BY <1>3, <1>4

\* What comes before e in its list does not leave with it.
LEMMA EarlierStays ==
  ASSUME EntriesFit(ent, live), NEW e \in Loaded, NEW rank \in [Cells -> Nat],
         Ranks(ent, mods, rank), NEW c \in Cells, rank[c] < rank[e]
  PROVE  c \notin Doomed(e)
<1> DEFINE S == {m \in Cells : rank[e] <= rank[m]}
<1>1. e \in S
  BY DEF Loaded
<1>2. ASSUME NEW m \in Loaded, ent[m].parent \in S \cap Loaded PROVE m \in S
  <2>1. m \in Cells /\ ent[m] # Free /\ ent[m].parent \in Cells /\ ent[ent[m].parent] # Free
    BY <1>2 DEF Loaded
  <2>2. rank[ent[m].parent] < rank[m] /\ rank[e] <= rank[ent[m].parent]
    BY <1>2, <2>1 DEF Ranks
  <2>3. rank[m] \in Nat /\ rank[e] \in Nat /\ rank[ent[m].parent] \in Nat
    BY <2>1 DEF Loaded
  <2>4. rank[e] <= rank[m]
    BY <2>2, <2>3
  <2> QED BY <2>1, <2>4
<1>3. c \notin S
  <2>1. rank[c] \in Nat /\ rank[e] \in Nat
    BY DEF Loaded
  <2> QED BY <2>1
<1> HIDE DEF S
<1>4. Doomed(e) \subseteq S
  <2>1. \A m \in Loaded : ent[m].parent \in S \cap Loaded /\ ent[m].refs = 1 /\ Listens(m) => m \in S
    BY <1>2
  <2> DEFINE Inherits(T) ==
               /\ e \in T
               /\ \A m \in Loaded : /\ ent[m].parent \in T \cap Loaded
                                    /\ ent[m].refs = 1 /\ Listens(m)
                                    => m \in T
  <2>2. \A T : Inherits(T) => Doomed(e) \subseteq T
    BY DoomedFacts, Zenon
  <2>3. Inherits(S)
    BY <1>1, <2>1
  <2> HIDE DEF Inherits
  <2> QED BY <2>2, <2>3
<1> QED BY <1>3, <1>4

\* The elements of a part of a sequence.
LEMMA PartElements ==
  ASSUME NEW T, NEW s \in Seq(T), NEW a \in 1..Len(s)+1, NEW b \in 0..Len(s)
  PROVE  /\ SubSeq(s, a, b) \in Seq(T)
         /\ \A x \in ToSet(SubSeq(s, a, b)) : \E j \in a..b : x = s[j]
<1> DEFINE u == SubSeq(s, a, b)
<1>1. u \in Seq(T) /\ Len(u) = (IF a <= b THEN b - a + 1 ELSE 0)
      /\ \A j \in 1..Len(u) : u[j] = s[a + j - 1]
  OBVIOUS
<1>2. ASSUME NEW x \in ToSet(u) PROVE \E j \in a..b : x = s[j]
  <2> HIDE DEF u
  <2>1. PICK j \in 1..Len(u) : u[j] = x
    BY <1>1, SequenceElements
  <2>2. a + j - 1 \in a..b
    BY <1>1
  <2> QED BY <1>1, <2>1, <2>2
<1> QED BY <1>1, <1>2

\* Where, in the list t of the heap E, the reload that f remembers puts its
\* module.
Located(E, t, f) ==
  /\ \A x \in ToSet(f.was) \cup ToSet(f.seen) : x \in Cells => E[x] # Free
  /\ Between(t, f.after, ToSet(f.was), ToSet(f.seen))

\* The entry that a reload remembers does not leave with the old module.
LEMMA ReloadLocates ==
  ASSUME Sound, Ordered(ent, mods), NEW p \in Paths, NEW e \in Loaded,
         e = lookup(p, cur.id), e # NULL, ent[e].refs = 1, NEW D \in SUBSET Cells,
         D = Doomed(e), Freeable(D), NEW f, f = Remembered(p, e, D),
         NEW t, t = Only(mods[cur.id], Cells \ D), NEW E, E = Without(D).ent
  PROVE  Located(E, t, f)
<1> DEFINE s == mods[cur.id]
           a == After(Predecessor(e), D)
<1>1. /\ a \in Ptr /\ \A c \in Cells : E[c] # Free <=> ent[c] # Free /\ c \notin D
  BY ReloadHalfway
<1>2. /\ f.after = a
      /\ \E i \in 1..Len(s) :
           /\ s[i] = e /\ Predecessor(e) = IF i = 1 THEN NULL ELSE s[i-1]
           /\ f.was = Scrub(SubSeq(s, 1, i - 1), D)
           /\ f.seen = Scrub(SubSeq(s, i + 1, Len(s)), D)
  BY <1>1, RememberedFacts
<1>3. PICK i \in 1..Len(s) :
        /\ s[i] = e /\ Predecessor(e) = IF i = 1 THEN NULL ELSE s[i-1]
        /\ f.was = Scrub(SubSeq(s, 1, i - 1), D)
        /\ f.seen = Scrub(SubSeq(s, i + 1, Len(s)), D)
  BY <1>2
<1>4. s \in Seq(Cells) /\ cur.id \in Regions /\ \A c \in ToSet(s) : c \in Cells /\ ent[c] # Free
  <2>1. s \in Seq(Cells) /\ cur.id \in Regions
    BY DEF Sound, TreeFits, ListsFit
  <2>2. \A c \in Cells : c \in ToSet(s) => ent[c] # Free
    BY <2>1 DEF Sound, ListsFit
  <2> HIDE DEF s
  <2>3. ToSet(s) \subseteq Cells
    BY <2>1, SequenceElements
  <2> QED BY <2>1, <2>2, <2>3
<1>5. PICK n \in Nat : \E rank \in [Cells -> 0..n] : Ranks(ent, mods, rank)
  BY DEF Ordered
<1>6. PICK rank \in [Cells -> 0..n] : Ranks(ent, mods, rank)
  BY <1>5
<1>7. rank \in [Cells -> Nat] /\ \A j, l \in 1..Len(s) : j < l => rank[s[j]] < rank[s[l]]
  BY <1>4, <1>6, SMTT(30) DEF Ranks
<1> HIDE DEF s
<1>8. /\ DOMAIN s = 1..Len(s) /\ Len(s) \in Nat
      /\ \A j \in 1..Len(s) : s[j] \in Cells /\ s[j] \in ToSet(s)
  BY <1>4, SequenceElements
<1>9. (i = 1 => a = NULL) /\ (i # 1 => a = s[i-1] /\ a \notin D)
  <2>1. CASE i = 1
    BY <1>3, <2>1, SetAssumption DEF After
  <2>2. CASE i # 1
    <3>1. i - 1 \in 1..Len(s) /\ i - 1 < i
      BY <1>8, <2>2
    <3>2. s[i-1] \in Cells /\ rank[s[i-1]] < rank[e]
      BY <1>3, <1>7, <1>8, <3>1
    <3>3. s[i-1] \notin D
      BY <1>6, <1>7, <3>2, EarlierStays DEF Sound
    <3> QED BY <1>3, <2>2, <3>3 DEF After
  <2> QED BY <2>1, <2>2
<1> DEFINE w == SubSeq(s, 1, i - 1)
           b == SubSeq(s, i + 1, Len(s))
<1>10. /\ w \in Seq(Slot) /\ \A x \in ToSet(w) : \E j \in 1..i-1 : x = s[j]
       /\ b \in Seq(Slot) /\ \A x \in ToSet(b) : \E j \in i+1..Len(s) : x = s[j]
  <2>1. s \in Seq(Slot)
    BY <1>4 DEF Slot
  <2>2. 1 \in 1..Len(s)+1 /\ i - 1 \in 0..Len(s) /\ i + 1 \in 1..Len(s)+1 /\ Len(s) \in 0..Len(s)
    BY <1>8
  <2> QED BY <2>1, <2>2, PartElements
<1> HIDE DEF w, b
<1>11. /\ \A x \in ToSet(f.was) : x = Dangling \/ (x \in ToSet(w) /\ x \notin D)
       /\ \A x \in ToSet(f.seen) : x = Dangling \/ (x \in ToSet(b) /\ x \notin D)
  <2>1. /\ \A x \in ToSet(Scrub(w, D)) : x = Dangling \/ (x \in ToSet(w) /\ x \notin D)
        /\ \A x \in ToSet(Scrub(b, D)) : x = Dangling \/ (x \in ToSet(b) /\ x \notin D)
    BY <1>10, ScrubFacts
  <2>2. f.was = Scrub(w, D) /\ f.seen = Scrub(b, D)
    BY <1>3 DEF w, b
  <2> QED BY <2>1, <2>2
<1>12. Dangling \notin Cells /\ (\A j \in 1..i-1 : j \in 1..Len(s))
       /\ \A j \in i+1..Len(s) : j \in 1..Len(s)
  BY <1>8, SetAssumption
<1>13. /\ \A x \in ToSet(f.was) : x \in Cells => x \notin D /\ \E j \in 1..i-1 : x = s[j]
       /\ \A x \in ToSet(f.seen) : x \in Cells => x \notin D /\ \E j \in i+1..Len(s) : x = s[j]
  BY <1>10, <1>11, <1>12
<1>14. \A x \in ToSet(f.was) \cup ToSet(f.seen) : x \in Cells => E[x] # Free
  BY <1>1, <1>4, <1>8, <1>12, <1>13
<1> DEFINE W == ToSet(f.was)
           B == ToSet(f.seen)
<1>15. /\ \A x \in W : x \in Cells => \E j \in 1..i-1 : x = s[j]
       /\ \A x \in B : x \in Cells => \E j \in i+1..Len(s) : x = s[j]
       /\ t = Only(s, Cells \ D)
  BY <1>13 DEF s
<1> HIDE DEF W, B, a
<1>16. Between(t, a, W, B)
  <2>1. Parted(s, i, D, a, W, B)
    BY <1>9, <1>15 DEF Parted
  <2> QED BY <1>4, <1>7, <1>15, <2>1, PlaceFound
<1> QED BY <1>2, <1>14, <1>16 DEF Located, W, B, a

\* The new module c comes at the end of the list, or of another one.
LEMMA ReloadStarts ==
  ASSUME NEW E, NEW t \in Seq(Cells), NEW f, Located(E, t, f), NEW c \in Cells, E[c] = Free,
         c \notin ToSet(t), NEW E1, E1[c].path = f.reload, E1[c].parent = NULL,
         \A d \in Cells : E[d] # Free => E1[d] # Free,
         NEW t1, t1 = t \/ t1 = Append(t, c), NEW g, g.e = c, g.reload = f.reload,
         g.after = f.after, g.was = f.was, g.seen = f.seen
  PROVE  ReloadFits(E1, t1, g)
<1>1. /\ \A x \in ToSet(f.was) \cup ToSet(f.seen) : x \in Cells => E[x] # Free
      /\ Between(t, f.after, ToSet(f.was), ToSet(f.seen))
  BY DEF Located
<1>2. PICK k \in 0..Len(t) :
        /\ k = 0 => f.after = NULL
        /\ k # 0 => f.after = t[k]
        /\ \A j \in 1..k : t[j] \notin ToSet(f.seen)
        /\ \A j \in k+1..Len(t) : t[j] \notin ToSet(f.was)
  BY <1>1 DEF Between
<1>3. c \notin ToSet(f.was) /\ c \notin ToSet(f.seen)
  BY <1>1
<1>4. \A x \in ToSet(g.was) \cup ToSet(g.seen) : x \in Cells => E1[x] # Free
  BY <1>1
<1>5. Len(t) \in Nat /\ \A j \in 1..Len(t) : t[j] # c
  BY SequenceElements
<1>6. \E l \in 0..Len(t1) :
        /\ l = 0 => g.after = NULL
        /\ l # 0 => g.after = t1[l]
        /\ \A j \in 1..l : t1[j] \notin ToSet(g.seen) /\ t1[j] # g.e
        /\ \A j \in l+1..Len(t1) : t1[j] \notin ToSet(g.was)
  <2>1. \A j \in 1..k : j \in 1..Len(t)
    BY <1>5
  <2>2. CASE t1 = t
    BY <1>2, <1>5, <2>1, <2>2
  <2>3. CASE t1 = Append(t, c)
    <3>1. /\ Len(t1) = Len(t) + 1 /\ t1[Len(t) + 1] = c
          /\ \A j \in 1..Len(t) : t1[j] = t[j]
      BY <2>3
    <3>2. /\ k \in 0..Len(t1) /\ (k # 0 => k \in 1..Len(t))
          /\ \A j \in k+1..Len(t1) : j = Len(t) + 1 \/ (j \in k+1..Len(t) /\ j \in 1..Len(t))
      BY <1>5, <3>1
    <3>3. \A j \in 1..k : t1[j] \notin ToSet(g.seen) /\ t1[j] # g.e
      BY <1>2, <1>5, <2>1, <3>1
    <3>4. \A j \in k+1..Len(t1) : t1[j] \notin ToSet(g.was)
      BY <1>2, <1>3, <3>1, <3>2
    <3>5. (k = 0 => g.after = NULL) /\ (k # 0 => g.after = t1[k])
      BY <1>2, <3>1, <3>2
    <3> QED BY <3>2, <3>3, <3>4, <3>5
  <2> QED BY <2>2, <2>3
<1> QED BY <1>3, <1>4, <1>6 DEF ReloadFits

\* Calls in progress when another piece of foreign code starts.
LEMMA InCallPush ==
  ASSUME NEW T, NEW fs \in Seq(T), NEW g \in T, NEW r
  PROVE  InCall(Append(fs, g), r) <=> InCall(fs, r) \/ (g.kind = "body" /\ g.at = r)
<1> DEFINE u == Append(fs, g)
           n == Len(fs)
<1>1. /\ Len(u) = n + 1 /\ n \in Nat /\ u[n + 1] = g /\ \A i \in 1..n : u[i] = fs[i]
  OBVIOUS
<1> HIDE DEF u
<1>2. \A i \in 1..n + 1 : i = n + 1 \/ i \in 1..n
  BY <1>1
<1>3. n + 1 \in 1..n + 1 /\ \A i \in 1..n : i \in 1..n + 1
  BY <1>1
<1> HIDE DEF n
<1>4. InCall(u, r) <=> \E i \in 1..n + 1 : u[i].kind = "body" /\ u[i].at = r
  BY <1>1 DEF InCall
<1>5. InCall(fs, r) <=> \E i \in 1..n : fs[i].kind = "body" /\ fs[i].at = r
  BY DEF InCall, n
<1>6. InCall(u, r) <=> InCall(fs, r) \/ (g.kind = "body" /\ g.at = r)
  BY <1>1, <1>2, <1>3, <1>4, <1>5
<1> QED BY <1>6 DEF u

\* Calls in progress when the innermost piece of foreign code ends.
LEMMA InCallPop ==
  ASSUME NEW fs \in Seq(Frame), fs # <<>>, NEW r, InCall(fs, r)
  PROVE  InCall(Front(fs), r) \/ (fs[Len(fs)].kind = "body" /\ fs[Len(fs)].at = r)
<1> DEFINE u == Front(fs)
           n == Len(fs)
<1>0. n \in Nat \ {0} /\ \E f : f \in Frame
  <2>1. n \in Nat /\ n # 0
    BY SequenceElements
  <2>2. fs[1] \in Frame
    BY <2>1
  <2> QED BY <2>1, <2>2
<1>1. Len(u) = n - 1 /\ \A i \in 1..n-1 : u[i] = fs[i]
  BY <1>0, FrameFacts
<1>2. PICK i \in 1..n : fs[i].kind = "body" /\ fs[i].at = r
  BY DEF InCall
<1> HIDE DEF u, n
<1>3. i = n \/ i \in 1..n-1
  BY <1>0
<1>4. CASE i = n
  BY <1>2, <1>4 DEF n
<1>5. CASE i \in 1..n-1
  <2>1. InCall(u, r)
    BY <1>1, <1>2, <1>5 DEF InCall
  <2> QED BY <2>1 DEF u
<1> QED BY <1>3, <1>4, <1>5

\* Nothing holds slots when no body runs.
LEMMA SlotsIdle ==
  ASSUME Sound, SlotsInUse(slots, frames), \A i \in 1..Len(frames) : frames[i].kind # "body",
         NEW D, NEW fs
  PROVE  SlotsInUse(SlotsAfter(D), fs)
<1> SUFFICES ASSUME NEW r \in Regions
             PROVE  Dangling \notin ToSet(SlotsAfter(D)[r]) /\ SlotsAfter(D)[r] = <<>>
  BY DEF SlotsInUse
<1>1. slots[r] = <<>>
  BY DEF SlotsInUse, InCall
<1>2. SlotsAfter(D)[r] = Scrub(<<>>, D)
  BY <1>1 DEF SlotsAfter
<1>3. <<>> \in Seq(Slot)
  OBVIOUS
<1>4. Scrub(<<>>, D) \in Seq(Slot) /\ Len(Scrub(<<>>, D)) = Len(<<>>)
  BY <1>3, ScrubFacts
<1>5. Scrub(<<>>, D) = <<>>
  BY <1>4
<1>6. ToSet(<<>>) = {}
  BY DEF ToSet
<1> QED BY <1>2, <1>5, <1>6

\* A frame of this kind, for a call from region r, goes on top of fs.
Pushed(fs, kind, r) == \E g : frames' = Append(fs, g) /\ g.kind = kind /\ g.at = r

\* The frame of a call goes on top.
LEMMA RunSlotPushes ==
  ASSUME NEW me \in Cells, NEW c0, NEW f \in Frame, NEW below, RunSlot(me, c0, f, below)
  PROVE  Pushed(below, f.kind, f.at) /\ bad' = bad
<1> DEFINE changed == ctx[ent[me].img].region # f.saved.id
           g == [f EXCEPT !.e = me, !.i = @ + 1, !.changed = changed,
                          !.saved = [id |-> f.saved.id, at |-> c0.at],
                          !.seen = Append(@, me)]
<1>0. me # Dangling
  BY SetAssumption
<1>1. frames' = Append(below, g) /\ bad' = bad
  BY <1>0 DEF RunSlot
<1> HIDE DEF changed
<1>2. g.kind = f.kind /\ g.at = f.at
  BY DEF Frame
<1> HIDE DEF g
<1> QED BY <1>1, <1>2 DEF Pushed

\* What holds of calls and reloads in progress when a call's next body begins.
LEMMA SteadyRun ==
  ASSUME NEW me \in Cells, NEW c0, NEW f \in Frame, f.kind = "body", NEW below \in Seq(Frame),
         RunSlot(me, c0, f, below), NEW E, NEW M, ReloadsFit(E, M, below), NEW sl,
         \A q \in Regions : /\ Dangling \notin ToSet(sl[q])
                            /\ sl[q] # <<>> => InCall(below, q) \/ q = f.at
  PROVE  ReloadsFit(E, M, frames') /\ SlotsInUse(sl, frames') /\ bad' = bad
<1>0. Pushed(below, f.kind, f.at) /\ bad' = bad
  BY RunSlotPushes
<1>1. PICK g : frames' = Append(below, g) /\ g.kind = f.kind /\ g.at = f.at
  BY <1>0 DEF Pushed
<1> DEFINE T == Frame \cup {g}
<1>2. below \in Seq(T) /\ g \in T
  OBVIOUS
<1> HIDE DEF T
<1>3. g.kind # "install"
  BY <1>1
<1>4. ReloadsFit(E, M, Append(below, g))
  BY <1>2, <1>3, ReloadsPush
<1>5. \A q : InCall(Append(below, g), q) <=> InCall(below, q) \/ (g.kind = "body" /\ g.at = q)
  BY <1>2, InCallPush
<1>6. SlotsInUse(sl, Append(below, g))
  BY <1>1, <1>5 DEF SlotsInUse
<1> QED BY <1>0, <1>1, <1>4, <1>6

\* xy_call as far as the first body.
LEMMA SteadyCall ==
  ASSUME Sound, Steady(ent, mods, frames, slots), Call
  PROVE  Steady(ent', mods', frames', slots') /\ bad' = bad
<1> DEFINE r == cur.at
           new == Listeners(r)
           f == [BlankFrame EXCEPT !.kind = "body", !.at = r, !.n = Len(new), !.was = new]
           me == new[1]
<1>1. UNCHANGED <<ent, mods>>
  BY DEF Call
<1>2. CASE new = <<>>
  <2>1. UNCHANGED <<slots, frames, bad>>
    BY <1>2 DEF Call
  <2> QED BY <1>1, <2>1
<1>3. CASE new # <<>>
  <2>1. /\ slots' = [slots EXCEPT ![r] = Rebuilt(slots[r], new)]
        /\ RunSlot(me, cur, f, frames)
    BY <1>3 DEF Call, Sound, SlotsFit
  <2>2. r \in live /\ r \in Regions /\ frames \in Seq(Frame) /\ slots \in [Regions -> Seq(Slot)]
    BY DEF Sound, TreeFits, FramesFit, SlotsFit
  <2>3. new \in Seq(Cells)
    BY <2>2, ListenersFacts
  <2> HIDE DEF new, r
  <2>4. /\ new \in Seq(Slot) /\ Len(new) \in Nat /\ me \in Cells /\ Dangling \notin ToSet(new)
    <3>1. Len(new) \in Nat /\ Len(new) # 0 /\ ToSet(new) \subseteq Cells
      BY <1>3, <2>3, SequenceElements
    <3>2. new \in Seq(Slot) /\ new[1] \in Cells
      BY <2>3, <3>1 DEF Slot
    <3> QED BY <3>1, <3>2, SetAssumption
  <2>5. f \in Frame /\ f.kind = "body" /\ f.at = r
    BY <2>2, <2>4, BlankFacts DEF Frame
  <2> DEFINE u == Rebuilt(slots[r], new)
  <2>6. \A x \in ToSet(u) : x \in ToSet(new) \/ x \in ToSet(slots[r])
    BY <2>2, <2>4, RebuiltFacts
  <2> HIDE DEF u
  <2> DEFINE sl == slots'
  <2>7. sl[r] = u /\ \A q \in Regions : q # r => sl[q] = slots[q]
    BY <2>1, <2>2 DEF u
  <2> HIDE DEF sl, f, me
  <2>8. \A q \in Regions : /\ Dangling \notin ToSet(slots[q])
                           /\ slots[q] # <<>> => InCall(frames, q)
    BY DEF Steady, SlotsInUse
  <2>9. \A q \in Regions : /\ Dangling \notin ToSet(sl[q])
                           /\ sl[q] # <<>> => InCall(frames, q) \/ q = f.at
    BY <2>2, <2>4, <2>5, <2>6, <2>7, <2>8
  <2>10. ReloadsFit(ent, mods, frames)
    BY DEF Steady
  <2>11. ReloadsFit(ent, mods, frames') /\ SlotsInUse(sl, frames') /\ bad' = bad
    BY <2>1, <2>2, <2>4, <2>5, <2>9, <2>10, SteadyRun
  <2> QED BY <1>1, <2>11 DEF Steady, sl
<1> QED BY <1>2, <1>3

\* A hook body returns: the next one begins, or the call ends.
LEMMA SteadyBodyReturn ==
  ASSUME Sound, Steady(ent, mods, frames, slots), BodyReturn
  PROVE  Steady(ent', mods', frames', slots') /\ bad' = bad
<1> DEFINE f == Top
           c0 == IF f.changed THEN f.saved ELSE cur
           u == Front(frames)
<1>1. frames # <<>> /\ f.kind = "body" /\ UNCHANGED <<ent, mods>>
  BY DEF BodyReturn
<1>2. /\ u \in Seq(Frame) /\ f \in Frame /\ FrameFits(ent, live, f) /\ f = frames[Len(frames)]
      /\ frames \in Seq(Frame)
  <2>1. f = frames[Len(frames)]
    BY DEF Top
  <2> HIDE DEF f, u
  <2>2. FramesFit(ent, live, Front(frames))
    BY <1>1, Popped DEF Sound
  <2> QED BY <1>1, <2>1, <2>2, Popped DEF Sound, u, FramesFit
<1>3. /\ f.at \in Regions /\ f.i \in Nat /\ f.n \in Nat /\ 1 <= f.i
      /\ slots \in [Regions -> Seq(Slot)] /\ f.n <= Len(slots[f.at])
  <2>1. f.at \in live /\ f.i \in Nat /\ f.n \in Nat /\ 1 <= f.i /\ live \subseteq Regions
    BY <1>1, <1>2 DEF Frame, FrameFits, Sound, TreeFits
  <2>2. slots \in [Regions -> Seq(Slot)] /\ f.n <= Len(slots[f.at])
    <3>1. Len(frames) \in Nat \ {0}
      BY <1>1, Popped DEF Sound
    <3> HIDE DEF f
    <3> QED BY <1>1, <1>2, <3>1 DEF Sound, SlotsFit
  <2> QED BY <2>1, <2>2
<1>4. /\ ReloadsFit(ent, mods, frames) /\ Ordered(ent, mods)
      /\ \A q \in Regions : /\ Dangling \notin ToSet(slots[q])
                            /\ slots[q] # <<>> => InCall(frames, q)
  BY DEF Steady, SlotsInUse
<1>5. ReloadsFit(ent, mods, u)
  BY <1>1, <1>2, <1>4, ReloadsPop
<1>6. \A q \in Regions : slots[q] # <<>> => InCall(u, q) \/ q = f.at
  BY <1>1, <1>2, <1>4, InCallPop
<1>7. CASE f.i < f.n
  <2> DEFINE me == slots[f.at][f.i + 1]
  <2>1. RunSlot(me, c0, f, u) /\ slots' = slots
    BY <1>7 DEF BodyReturn
  <2>2. me \in Cells
    <3>1. slots[f.at] \in Seq(Slot) /\ f.i + 1 \in 1..Len(slots[f.at])
      BY <1>3, <1>7
    <3>2. me \in Slot /\ me \in ToSet(slots[f.at])
      BY <3>1, SequenceElements
    <3> QED BY <1>3, <1>4, <3>2 DEF Slot
  <2> HIDE DEF me, f, c0, u
  <2>3. ReloadsFit(ent, mods, frames') /\ SlotsInUse(slots, frames') /\ bad' = bad
    BY <1>1, <1>2, <1>4, <1>5, <1>6, <2>1, <2>2, SteadyRun
  <2> QED BY <1>1, <1>4, <2>1, <2>3 DEF Steady
<1>8. CASE ~(f.i < f.n)
  <2>1. /\ frames' = u /\ bad' = bad
        /\ slots' = IF \E g \in ToSet(u) : g.kind = "body" /\ g.at = f.at
                    THEN slots ELSE [slots EXCEPT ![f.at] = <<>>]
    BY <1>8 DEF BodyReturn
  <2> HIDE DEF f, c0, u
  <2>2. SlotsInUse(slots', u)
    <3>1. CASE slots' = slots /\ \E g \in ToSet(u) : g.kind = "body" /\ g.at = f.at
      <4>1. InCall(u, f.at)
        <5>1. PICK g \in ToSet(u) : g.kind = "body" /\ g.at = f.at
          BY <3>1
        <5>2. PICK i \in 1..Len(u) : u[i] = g
          BY <1>2, SequenceElements
        <5> QED BY <5>1, <5>2 DEF InCall
      <4> QED BY <1>4, <1>6, <3>1, <4>1 DEF SlotsInUse
    <3>2. CASE slots' = [slots EXCEPT ![f.at] = <<>>]
      <4>1. slots'[f.at] = <<>> /\ \A q \in Regions : q # f.at => slots'[q] = slots[q]
        BY <1>3, <3>2
      <4>2. ToSet(<<>>) = {}
        BY DEF ToSet
      <4> QED BY <1>4, <1>6, <4>1, <4>2 DEF SlotsInUse
    <3> QED BY <2>1, <3>1, <3>2
  <2> QED BY <1>1, <1>4, <1>5, <2>1, <2>2 DEF Steady
<1> QED BY <1>7, <1>8

\* A step that touches neither entries, lists nor slots, and begins or ends a
\* scope at most.
LEMMA SteadyScope ==
  ASSUME Sound, Steady(ent, mods, frames, slots), UNCHANGED <<ent, mods, slots>>,
         \/ frames' = frames
         \/ frames' = Append(frames, BlankFrame)
         \/ frames # <<>> /\ Top.kind = "scope" /\ frames' = Front(frames)
  PROVE  Steady(ent', mods', frames', slots')
<1>0. /\ frames \in Seq(Frame) /\ ReloadsFit(ent, mods, frames) /\ Ordered(ent, mods)
      /\ \A q \in Regions : /\ Dangling \notin ToSet(slots[q])
                            /\ slots[q] # <<>> => InCall(frames, q)
  BY DEF Steady, SlotsInUse, Sound, FramesFit
<1>1. CASE frames' = frames
  BY <1>1
<1>2. CASE frames' = Append(frames, BlankFrame)
  <2>1. BlankFrame \in Frame /\ BlankFrame.kind = "scope"
    BY BlankFacts
  <2> DEFINE g == BlankFrame
  <2> HIDE DEF g
  <2>2. g \in Frame /\ g.kind = "scope"
    BY <2>1 DEF g
  <2>3. ReloadsFit(ent, mods, Append(frames, g))
    BY <1>0, <2>2, ReloadsPush
  <2>4. \A q : InCall(frames, q) => InCall(Append(frames, g), q)
    BY <1>0, <2>2, InCallPush
  <2>5. SlotsInUse(slots, Append(frames, g))
    BY <1>0, <2>4 DEF SlotsInUse
  <2> QED BY <1>0, <1>2, <2>3, <2>5 DEF Steady, g
<1>3. CASE frames # <<>> /\ Top.kind = "scope" /\ frames' = Front(frames)
  <2>1. ReloadsFit(ent, mods, Front(frames))
    BY <1>0, <1>3, ReloadsPop
  <2>2. \A q : InCall(frames, q) => InCall(Front(frames), q)
    BY <1>0, <1>3, InCallPop DEF Top
  <2>3. SlotsInUse(slots, Front(frames))
    BY <1>0, <2>2 DEF SlotsInUse
  <2> QED BY <1>0, <1>3, <2>1, <2>3 DEF Steady
<1> QED BY <1>1, <1>2, <1>3

\* xy_load of a module that is there.
LEMMA SteadyReuse ==
  ASSUME Sound, Steady(ent, mods, frames, slots), NEW p \in Paths, LoadReuse(p)
  PROVE  Steady(ent', mods', frames', slots') /\ bad' = bad
<1> DEFINE e == lookup(p, cur.id)
           x == [ent[e] EXCEPT !.refs = ent[e].refs + 1, !.shared = TRUE]
<1>1. /\ e \in Cells /\ ent[e] \in Entry /\ ent[e] # Free
      /\ UNCHANGED <<mods, slots, frames, bad>>
  <2>1. cur.id \in Regions
    BY DEF Sound, TreeFits
  <2> QED BY <2>1, LookupFacts DEF LoadReuse, Sound
<1>2. ent' = [ent EXCEPT ![e] = x]
  BY <1>1 DEF LoadReuse, Sound, EntriesFit, Entry
<1>3. x.path = ent[e].path /\ x.parent = ent[e].parent
  BY <1>1 DEF Entry
<1>4. x # Free
  <2>1. Free.path = NULL /\ x.path \in Paths
    BY <1>1, <1>3 DEF Free, Entry
  <2> QED BY <2>1, SetAssumption
<1>5. ent \in [Cells -> Entry \cup {Free}]
  BY DEF Sound, EntriesFit
<1> HIDE DEF e, x
<1> DEFINE E1 == ent'
<1>6. \A c \in Cells : /\ E1[c] # Free <=> ent[c] # Free
                       /\ E1[c].path = ent[c].path /\ E1[c].parent = ent[c].parent
  BY <1>1, <1>2, <1>3, <1>4, <1>5
<1> HIDE DEF E1
<1>7. /\ mods \in [Regions -> Seq(Cells)] /\ live \subseteq Regions /\ FramesFit(ent, live, frames)
      /\ Ordered(ent, mods) /\ ReloadsFit(ent, mods, frames) /\ SlotsInUse(slots, frames)
  BY DEF Sound, ListsFit, TreeFits, Steady
<1>8. Ordered(E1, mods)
  <2>1. \A r \in Regions : LeftOf(mods[r], mods[r])
    BY DEF LeftOf
  <2> QED BY <1>6, <1>7, <2>1, OrderedLess
<1>9. ReloadsFit(E1, mods, frames)
  <2>1. HeapGrows(ent, mods, E1, mods)
    BY <1>6 DEF HeapGrows
  <2> QED BY <1>7, <2>1, ReloadsKept
<1> QED BY <1>1, <1>7, <1>8, <1>9 DEF Steady, E1

\* No name that a cascade looks up was freed.
LEMMA NamesLive ==
  ASSUME Placed, NEW D
  PROVE  ~NameRead(D)
<1> SUFFICES ASSUME NEW c \in Loaded, Listens(c), ~ctx[ent[c].img].named PROVE FALSE
  BY DEF NameRead
<1>1. ctx[ent[c].img] = [region |-> ent[c].region, named |-> TRUE]
  BY DEF Placed, Bound, Loaded, Listens
<1> QED BY <1>1

\* Entries and lists when the entries D are gone.
LEMMA OrderedWithout ==
  ASSUME Sound, Ordered(ent, mods), NEW D, Closed(D)
  PROVE  Ordered(Without(D).ent, Without(D).mods)
<1> DEFINE E == Without(D).ent
           M == Without(D).mods
<1>1. \A c \in Cells : E[c] # Free => ent[c] # Free /\ E[c].parent = ent[c].parent
  BY WithoutEntries DEF Sound
<1>2. \A r \in Regions : LeftOf(M[r], mods[r])
  <2> TAKE r \in Regions
  <2>1. M[r] = Only(mods[r], Cells \ D)
    BY DEF Without
  <2> QED BY <2>1 DEF LeftOf
<1>3. mods \in [Regions -> Seq(Cells)]
  BY DEF Sound, ListsFit
<1> HIDE DEF E, M
<1>4. Ordered(E, M)
  BY <1>1, <1>2, <1>3, OrderedLess
<1> QED BY <1>4 DEF E, M

\* xy_unload, or a reload that gets no further, by the host.
LEMMA SteadyUnload ==
  ASSUME Sound, Placed, UnloadFrom = {}, Steady(ent, mods, frames, slots), NEW p \in Paths,
         _mod_unload(p)
  PROVE  Steady(ent', mods', frames', slots') /\ bad' = FALSE
<1> DEFINE e == lookup(p, cur.id)
           D == Dropped(e)
           E == Unloaded(e).ent
           M == Unloaded(e).mods
<1>1. /\ e # NULL /\ Freeable(D) /\ ent' = E /\ mods' = M /\ MayUnload
      /\ frames' = FramesAfter(D) /\ slots' = SlotsAfter(D) /\ bad' = NameRead(D)
  BY DEF _mod_unload, Become
<1>2. e \in Loaded /\ e \in Cells /\ ent[e] \in Entry
  BY <1>1, UnloadIs
<1>3. \A i \in 1..Len(frames) : frames[i].kind = "scope"
  BY <1>1, QuietUnload
<1>4. /\ Ordered(ent, mods) /\ SlotsInUse(slots, frames) /\ frames \in Seq(Frame)
      /\ mods \in [Regions -> Seq(Cells)] /\ ent \in [Cells -> Entry \cup {Free}]
  BY DEF Steady, Sound, FramesFit, ListsFit, EntriesFit
<1> HIDE DEF e
<1>5. Ordered(E, M)
  <2>1. CASE ent[e].refs > 1
    <3> DEFINE x == [ent[e] EXCEPT !.refs = ent[e].refs - 1]
    <3>1. M = mods /\ E = [ent EXCEPT ![e] = x]
      BY <1>2, <1>4, <2>1 DEF Unloaded, Heap, Entry
    <3>2. x.parent = ent[e].parent /\ ent[e] # Free
      BY <1>2 DEF Entry, Loaded
    <3> HIDE DEF x, E, M
    <3>3. \A c \in Cells : E[c] # Free => ent[c] # Free /\ E[c].parent = ent[c].parent
      BY <1>2, <1>4, <3>1, <3>2
    <3>4. \A r \in Regions : LeftOf(M[r], mods[r])
      BY <3>1 DEF LeftOf
    <3> QED BY <1>4, <3>3, <3>4, OrderedLess, SMTT(30)
  <2>2. CASE ~(ent[e].refs > 1)
    <3>1. Closed(Doomed(e))
      BY <1>2, DoomedFacts DEF Closed
    <3>2. E = Without(Doomed(e)).ent /\ M = Without(Doomed(e)).mods
      BY <2>2 DEF Unloaded
    <3> HIDE DEF E, M
    <3> QED BY <1>4, <3>1, <3>2, OrderedWithout
  <2> QED BY <2>1, <2>2
<1>6. Len(FramesAfter(D)) = Len(frames) /\ \A i \in 1..Len(frames) : FramesAfter(D)[i].kind = "scope"
  BY <1>3, <1>4, FramesAfterFacts
<1> HIDE DEF D, E, M
<1>7. ReloadsFit(E, M, FramesAfter(D))
  BY <1>6, NoReload
<1>8. SlotsInUse(SlotsAfter(D), FramesAfter(D))
  BY <1>3, <1>4, SlotsIdle
<1>9. ~NameRead(D)
  BY NamesLive
<1> QED BY <1>1, <1>5, <1>7, <1>8, <1>9 DEF Steady

\* A module of path p came into cell c, at the end of the list of region r.
Entered(p, E, M, c, r) ==
  /\ E[c] = Free /\ ent'[c].path = p /\ ent'[c].parent = loading
  /\ \A d \in Cells : E[d] # Free => ent'[d] = E[d]
  /\ mods'[r] = Append(M[r], c) /\ \A q \in Regions : q # r => mods'[q] = M[q]

\* A load that got cell c, in region r, out of the heap E, M.
LEMMA OrderedBegun ==
  ASSUME Sound, ~Recycle, NEW E, NEW M, EntriesFit(E, live), ListsFit(E, M), Ordered(E, M),
         NEW fs, FramesFit(E, live, fs), LoadingFits(fs, loading), NEW p, NEW cx, NEW hs, NEW f,
         NEW c \in Cells, NEW r \in Regions, NEW img, Begun(p, E, M, cx, fs, hs, f, c, r, img)
  PROVE  Ordered(ent', mods') /\ Entered(p, E, M, c, r)
<1> DEFINE x == [path |-> p, img |-> img, region |-> r, refs |-> 1,
                 parent |-> loading, stale |-> FALSE, shared |-> FALSE]
<1>1. /\ E[c] = Free /\ ~\E m \in Cells : E[m] # Free /\ E[m].parent = c
      /\ ent' = [E EXCEPT ![c] = x] /\ mods' = [M EXCEPT ![r] = Append(@, c)]
  BY DEF Begun
<1>2. x.path = p /\ x.parent = loading
  OBVIOUS
<1> HIDE DEF x
<1>3. E \in [Cells -> Entry \cup {Free}] /\ M \in [Regions -> Seq(Cells)]
  BY DEF EntriesFit, ListsFit
<1>4. loading \in Cells => E[loading] # Free
  <2> SUFFICES ASSUME loading \in Cells PROVE E[loading] # Free
    OBVIOUS
  <2>1. loading # NULL
    BY SetAssumption
  <2>2. PICK i \in 1..Len(fs) : fs[i].kind = "install" /\ fs[i].e = loading
    BY <2>1 DEF LoadingFits
  <2> QED BY <2>2 DEF FramesFit, FrameFits
<1>5. x.parent \in Cells => E[x.parent] # Free
  BY <1>2, <1>4
<1> DEFINE E1 == ent'
           M1 == mods'
<1>6. /\ E1[c] = x /\ \A d \in Cells : E[d] # Free => E1[d] = E[d]
      /\ M1[r] = Append(M[r], c) /\ \A q \in Regions : q # r => M1[q] = M[q]
  BY <1>1, <1>3
<1>7. Ordered(E1, M1)
  <2>1. E1 = [E EXCEPT ![c] = x] /\ M1 = [M EXCEPT ![r] = Append(@, c)]
    BY <1>1
  <2>2. \A d \in Cells : E[d] # Free => E[d].parent # c
    BY <1>1
  <2> HIDE DEF E1, M1
  <2> QED BY <1>1, <1>3, <1>5, <2>1, <2>2, OrderedMore
<1> QED BY <1>1, <1>2, <1>6, <1>7 DEF Entered

\* A load as far as its xy_install.
LEMMA SteadyLoad ==
  ASSUME Sound, ~Recycle, Steady(ent, mods, frames, slots), NEW p \in Paths, LoadBegin(p)
  PROVE  Steady(ent', mods', frames', slots') /\ bad' = bad
<1>1. Begin(p, Heap, ctx, frames, held, BlankFrame) /\ slots' = slots /\ bad' = bad
  BY DEF LoadBegin
<1>2. PICK c \in Cells, r \in Target(p), img \in Cells \cup {p} :
        Begun(p, Heap.ent, Heap.mods, ctx, frames, held, BlankFrame, c, r, img)
  BY <1>1, BeginIs
<1>3. r \in Regions
  BY <1>2, TargetFacts DEF Sound, TreeFits
<1>4. /\ EntriesFit(ent, live) /\ ListsFit(ent, mods) /\ FramesFit(ent, live, frames)
      /\ LoadingFits(frames, loading) /\ mods \in [Regions -> Seq(Cells)] /\ live \subseteq Regions
      /\ Ordered(ent, mods) /\ ReloadsFit(ent, mods, frames) /\ frames \in Seq(Frame)
      /\ \A q \in Regions : /\ Dangling \notin ToSet(slots[q])
                            /\ slots[q] # <<>> => InCall(frames, q)
  BY DEF Sound, ListsFit, TreeFits, FramesFit, Steady, SlotsInUse
<1> DEFINE b == BlankFrame
           g == [b EXCEPT !.kind = "install", !.e = c, !.loading = loading]
<1>5. Begun(p, ent, mods, ctx, frames, held, b, c, r, img) /\ frames' = Append(frames, g)
  BY <1>2 DEF Heap, Begun
<1>6. g.kind = "install" /\ g.reload = NULL
  BY BlankFacts DEF Frame
<1> DEFINE E1 == ent'
           M1 == mods'
<1>7. /\ Ordered(E1, M1) /\ ent[c] = Free
      /\ \A d \in Cells : ent[d] # Free => E1[d] = ent[d]
      /\ M1[r] = Append(mods[r], c) /\ \A q \in Regions : q # r => M1[q] = mods[q]
  <2> HIDE DEF b
  <2>1. Ordered(ent', mods') /\ Entered(p, ent, mods, c, r)
    BY <1>3, <1>4, <1>5, OrderedBegun
  <2> QED BY <2>1 DEF Entered
<1> HIDE DEF E1, M1, b, g
<1>8. \A q \in Regions : M1[q] = mods[q] \/ \E d \in Cells : ent[d] = Free /\ M1[q] = Append(mods[q], d)
  BY <1>7
<1>9. \A d \in Cells : ent[d] # Free =>
        E1[d] # Free /\ E1[d].path = ent[d].path /\ E1[d].parent = ent[d].parent
  BY <1>7
<1>10. ReloadsFit(E1, M1, frames)
  <2>1. HeapGrows(ent, mods, E1, M1)
    BY <1>8, <1>9 DEF HeapGrows
  <2> QED BY <1>4, <2>1, ReloadsKept
<1> DEFINE T == Frame \cup {g}
<1>11. frames \in Seq(T) /\ g \in T
  BY <1>4
<1> HIDE DEF T
<1>12. ReloadsFit(E1, M1, Append(frames, g))
  BY <1>6, <1>10, <1>11, ReloadsPush
<1>13. \A q : InCall(frames, q) => InCall(Append(frames, g), q)
  BY <1>11, InCallPush
<1>14. SlotsInUse(slots, Append(frames, g))
  BY <1>4, <1>13 DEF SlotsInUse
<1> QED BY <1>1, <1>5, <1>7, <1>12, <1>14 DEF Steady, E1, M1

\* A reload as far as the new image's xy_install, by the host.
LEMMA SteadyReload ==
  ASSUME Sound, Placed, UnloadFrom = {}, ~Recycle, Steady(ent, mods, frames, slots),
         NEW p \in Paths, ReloadBegin(p)
  PROVE  Steady(ent', mods', frames', slots') /\ bad' = FALSE
<1>1. PICK e \in Loaded, D \in SUBSET Cells :
        /\ e = lookup(p, cur.id) /\ e # NULL /\ ent[e].refs = 1 /\ D = Doomed(e)
        /\ Freeable(D) /\ MayUnload
        /\ Begin(p, Without(D), CtxAfter(D), FramesAfter(D), Counted(held, p, cur.id, -1),
                 Remembered(p, e, D))
        /\ slots' = SlotsAfter(D) /\ bad' = NameRead(D)
  BY ReloadIs
<1> DEFINE s == Without(D)
           E == s.ent
           M == s.mods
           fs == FramesAfter(D)
           f == Remembered(p, e, D)
           cx == CtxAfter(D)
           hs == Counted(held, p, cur.id, -1)
           t == Only(mods[cur.id], Cells \ D)
<1>2. /\ \A i \in 1..Len(frames) : frames[i].kind = "scope"
      /\ loading = NULL
  BY <1>1, QuietUnload
<1>3. /\ Ordered(ent, mods) /\ SlotsInUse(slots, frames) /\ frames \in Seq(Frame)
      /\ cur.id \in Regions /\ mods[cur.id] \in Seq(Cells)
  BY DEF Steady, Sound, FramesFit, ListsFit, TreeFits
<1>4. /\ EntriesFit(E, live) /\ ListsFit(E, M) /\ FramesFit(E, live, fs)
      /\ LoadingFits(fs, loading) /\ Closed(D) /\ After(Predecessor(e), D) \in Ptr
  BY <1>1, ReloadHalfway
<1>5. M[cur.id] = t
  BY <1>3 DEF Without
<1>6. f \in Frame /\ f.saved = cur /\ f.reload = p
  BY <1>1, <1>4, RememberedFacts
<1>7. Located(E, t, f)
  BY <1>1, <1>3, ReloadLocates
<1>8. Ordered(E, M)
  BY <1>3, <1>4, OrderedWithout
<1>9. Len(fs) = Len(frames) /\ \A i \in 1..Len(frames) : fs[i].kind = "scope"
  BY <1>2, <1>3, FramesAfterFacts
<1>10. t \in Seq(Cells)
  BY <1>3, OnlyFacts
<1>11. Begin(p, s, cx, fs, hs, f)
  BY <1>1
<1> HIDE DEF s, fs, f, cx, hs, t
<1>12. PICK c \in Cells, r \in Target(p), img \in Cells \cup {p} :
         Begun(p, s.ent, s.mods, cx, fs, hs, f, c, r, img)
  BY <1>11, BeginIs
<1>13. r \in Regions
  BY <1>12, TargetFacts DEF Sound, TreeFits
<1> DEFINE g == [f EXCEPT !.kind = "install", !.e = c, !.loading = loading]
<1>14. Begun(p, E, M, cx, fs, hs, f, c, r, img) /\ frames' = Append(fs, g)
  BY <1>12 DEF Begun
<1>15. /\ g.kind = "install" /\ g.e = c /\ g.reload = f.reload /\ g.after = f.after
       /\ g.was = f.was /\ g.seen = f.seen /\ g.saved = f.saved
  BY <1>6 DEF Frame
<1> HIDE DEF g, E, M
<1>16. Ordered(ent', mods') /\ Entered(p, E, M, c, r)
  BY <1>4, <1>8, <1>13, <1>14, OrderedBegun
<1> DEFINE E1 == ent'
           t1 == mods'[cur.id]
<1>17. /\ E[c] = Free /\ E1[c].path = f.reload /\ E1[c].parent = NULL
       /\ \A d \in Cells : E[d] # Free => E1[d] # Free
       /\ t1 = t \/ t1 = Append(t, c)
  BY <1>2, <1>3, <1>5, <1>6, <1>16 DEF Entered
<1>18. c \notin ToSet(t)
  <2>1. c \in ToSet(M[cur.id]) => E[c] # Free
    BY <1>3, <1>4 DEF ListsFit
  <2> QED BY <1>5, <1>17, <2>1
<1> HIDE DEF E1, t1
<1>19. ReloadFits(E1, t1, g)
  BY <1>7, <1>10, <1>15, <1>17, <1>18, ReloadStarts
<1> DEFINE T == Frame \cup {g}
           n == Len(fs)
           u == Append(fs, g)
<1>20. fs \in Seq(T) /\ g \in T
  BY <1>4 DEF FramesFit
<1> HIDE DEF T
<1>21. /\ Len(u) = n + 1 /\ n \in Nat /\ u[n + 1] = g /\ \A i \in 1..n : u[i] = fs[i]
  BY <1>20
<1> HIDE DEF u, n
<1>22. \A i \in 1..n : u[i].kind = "scope"
  BY <1>9, <1>21 DEF n
<1>23. ASSUME NEW i \in 1..n + 1, u[i].kind = "install"
       PROVE  /\ \A j \in 1..i-1 : u[j].kind = "scope"
              /\ ReloadFits(ent', mods'[u[i].saved.id], u[i])
  <2>1. i = n + 1
    BY <1>21, <1>22, <1>23
  <2>2. \A j \in 1..i-1 : j \in 1..n
    BY <1>21, <2>1
  <2>3. u[i] = g /\ g.saved.id = cur.id
    BY <1>6, <1>15, <1>21, <2>1
  <2>4. ReloadFits(ent', mods'[cur.id], g)
    BY <1>19 DEF E1, t1
  <2> QED BY <1>22, <2>2, <2>3, <2>4
<1>24. ReloadsFit(ent', mods', frames')
  BY <1>14, <1>21, <1>23 DEF ReloadsFit, u
<1>25. SlotsInUse(SlotsAfter(D), frames')
  BY <1>2, <1>3, SlotsIdle
<1>26. ~NameRead(D)
  BY NamesLive
<1> QED BY <1>1, <1>16, <1>24, <1>25, <1>26 DEF Steady

\* xy_install returns; if it was a reload's, the module goes to where the old
\* one was.
LEMMA SteadyInstallReturn ==
  ASSUME Sound, Placed, Steady(ent, mods, frames, slots), InstallReturn
  PROVE  Steady(ent', mods', frames', slots') /\ bad' = FALSE
<1> DEFINE f == Top
           e == IF f.reload = NULL THEN NULL ELSE lookup(f.reload, f.saved.id)
<1>1. /\ frames # <<>> /\ f.kind = "install" /\ frames' = Front(frames)
      /\ bad' = (e # NULL /\ f.after = Dangling)
      /\ IF e # NULL /\ f.after # Dangling
         THEN /\ mods' = [mods EXCEPT ![f.saved.id] = Reinserted(@, e, f.after)]
              /\ last' = [op |-> "reload", e |-> e, before |-> f.was,
                          behind |-> f.seen, list |-> mods'[f.saved.id]]
         ELSE mods' = mods /\ last' = NoResult
      /\ ent' = ent /\ slots' = slots
  BY DEF InstallReturn
<1>2. /\ f \in Frame /\ FrameFits(ent, live, f) /\ f = frames[Len(frames)]
      /\ Len(frames) \in Nat \ {0} /\ Len(Front(frames)) = Len(frames) - 1
      /\ \A i \in 1..Len(frames)-1 : Front(frames)[i] = frames[i]
  <2>1. f = frames[Len(frames)]
    BY DEF Top
  <2>2. FramesFit(ent, live, frames) /\ SlotsFit(ent, slots, frames) /\ LoadingFits(frames, loading)
    BY DEF Sound
  <2> HIDE DEF f
  <2>3. /\ Len(frames) \in Nat \ {0} /\ frames[Len(frames)] \in Frame
        /\ FrameFits(ent, live, frames[Len(frames)]) /\ Len(Front(frames)) = Len(frames) - 1
        /\ \A i \in 1..Len(frames)-1 : Front(frames)[i] = frames[i]
    <3>1. frames # <<>>
      BY <1>1
    <3>2. /\ Len(frames) \in Nat \ {0} /\ frames[Len(frames)] \in Frame
          /\ FrameFits(ent, live, frames[Len(frames)])
      BY <2>2, <3>1, Popped
    <3>3. /\ Len(Front(frames)) = Len(frames) - 1
          /\ \A i \in 1..Len(frames)-1 : Front(frames)[i] = frames[i]
      <4>1. frames \in Seq(Frame)
        BY <2>2 DEF FramesFit
      <4> QED BY <3>1, <3>2, <4>1, FrameFacts
    <3> QED BY <3>2, <3>3
  <2> QED BY <2>1, <2>3
<1>3. /\ frames \in Seq(Frame) /\ ReloadsFit(ent, mods, frames) /\ Ordered(ent, mods)
      /\ EntriesFit(ent, live) /\ ListsFit(ent, mods) /\ live \subseteq Regions
      /\ \A q \in Regions : /\ Dangling \notin ToSet(slots[q])
                            /\ slots[q] # <<>> => InCall(frames, q)
  BY DEF Steady, SlotsInUse, Sound, FramesFit, TreeFits
<1>4. f.saved.id \in Regions /\ f.reload \in Paths \cup {NULL} /\ f.e \in Cells /\ ent[f.e] # Free
  BY <1>1, <1>2, <1>3 DEF Frame, FrameFits
<1> HIDE DEF f
<1>5. SlotsInUse(slots, Front(frames))
  <2>1. \A q : InCall(frames, q) => InCall(Front(frames), q)
    BY <1>1, <1>2, <1>3, InCallPop
  <2> QED BY <1>3, <2>1 DEF SlotsInUse
<1>6. CASE e = NULL
  <2>1. mods' = mods /\ last'.op = "none" /\ bad' = FALSE
    <3> HIDE DEF e
    <3>1. mods' = mods /\ last' = NoResult
      BY <1>1, <1>6
    <3>2. bad' = FALSE
      BY <1>1, <1>6
    <3> QED BY <3>1, <3>2 DEF NoResult
  <2>2. ReloadsFit(ent, mods, Front(frames))
    BY <1>1, <1>3, ReloadsPop
  <2> QED BY <1>1, <1>3, <1>5, <2>1, <2>2 DEF Steady
<1>7. CASE e # NULL
  <2> DEFINE p == f.reload
             r == f.saved.id
             s == mods[r]
             a == f.after
             n == Len(frames)
  <2>1. p \in Paths /\ r \in Regions /\ e = lookup(p, r) /\ f.reload # NULL
    BY <1>4, <1>7
  <2>2. e \in Cells /\ e \in ToSet(s) /\ ent[e].path = p /\ ent[e] # Free
    BY <1>3, <1>7, <2>1, LookupFacts, SetAssumption
  <2> HIDE DEF e
  <2>3. /\ \A j \in 1..n-1 : frames[j].kind = "scope"
        /\ ReloadFits(ent, s, f)
    <3>1. n \in 1..n
      BY <1>2
    <3> QED BY <1>1, <1>2, <1>3, <2>1, <3>1 DEF ReloadsFit
  <2>4. /\ ent[f.e].path = p /\ ent[f.e].parent = NULL /\ f.e \notin ToSet(f.seen)
        /\ \E k \in 0..Len(s) :
             /\ k = 0 => f.after = NULL
             /\ k # 0 => f.after = s[k]
             /\ \A j \in 1..k : s[j] \notin ToSet(f.seen) /\ s[j] # f.e
             /\ \A j \in k+1..Len(s) : s[j] \notin ToSet(f.was)
    BY <2>3 DEF ReloadFits
  <2>5. e = f.e
    BY <1>4, <2>2, <2>4 DEF Placed, Bound
  <2>6. PICK k \in 0..Len(s) :
          /\ k = 0 => a = NULL
          /\ k # 0 => a = s[k]
          /\ \A j \in 1..k : s[j] \notin ToSet(f.seen) /\ s[j] # e
          /\ \A j \in k+1..Len(s) : s[j] \notin ToSet(f.was)
    BY <2>4, <2>5
  <2>7. s \in Seq(Cells) /\ IsInjective(s) /\ mods \in [Regions -> Seq(Cells)]
    BY <1>3, <2>1 DEF ListsFit
  <2> HIDE DEF s
  <2>8. PICK m \in 1..Len(s) : s[m] = e
    BY <2>2, <2>7, SequenceElements
  <2>9. Len(s) \in Nat /\ k \in 0..m-1 /\ (k # 0 => k \in 1..Len(s))
    <3>1. ~(m <= k)
      <4> SUFFICES ASSUME m <= k PROVE FALSE
        OBVIOUS
      <4>1. m \in 1..k
        OBVIOUS
      <4> QED BY <2>6, <2>8, <4>1
    <3>2. Len(s) \in Nat
      BY <2>7
    <3> QED BY <3>1, <3>2
  <2>10. a # Dangling
    <3>1. CASE k = 0
      BY <2>6, <3>1, SetAssumption
    <3>2. CASE k # 0
      <4>1. a \in Cells
        BY <2>6, <2>7, <2>9, <3>2
      <4> QED BY <4>1, SetAssumption
    <3> QED BY <3>1, <3>2
  <2> DEFINE u == Reinserted(s, s[m], a)
  <2>11. /\ mods' = [mods EXCEPT ![r] = u] /\ mods'[r] = u /\ bad' = FALSE
         /\ last' = [op |-> "reload", e |-> e, before |-> f.was, behind |-> f.seen, list |-> u]
    <3>1. /\ mods' = [mods EXCEPT ![r] = Reinserted(@, e, a)]
          /\ last' = [op |-> "reload", e |-> e, before |-> f.was, behind |-> f.seen,
                      list |-> mods'[r]]
          /\ bad' = FALSE
      BY <1>1, <1>7, <2>10 DEF e
    <3>2. mods' = [mods EXCEPT ![r] = u]
      BY <2>1, <2>7, <2>8, <3>1 DEF s
    <3>3. mods'[r] = u
      BY <2>1, <2>7, <3>2
    <3> QED BY <3>1, <3>2, <3>3
  <2>12. MovedUp(s, m, k, u)
    BY <2>6, <2>7, <2>9, ReinsertedAt
  <2>13. Ordered(ent, mods')
    <3> DEFINE M1 == mods'
    <3>1. /\ m \in 1..Len(mods[r]) /\ (k # 0 => a = mods[r][k]) /\ (k = 0 => a = NULL)
          /\ ent[mods[r][m]].parent = NULL /\ M1 = [mods EXCEPT ![r] = Reinserted(mods[r], mods[r][m], a)]
      BY <2>4, <2>5, <2>6, <2>8, <2>11 DEF s
    <3> HIDE DEF M1, a, r
    <3>2. Ordered(ent, M1)
      BY <1>3, <2>1, <2>9, <3>1, OrderedMoved
    <3> QED BY <3>2 DEF M1
  <2>14. ReloadsFit(ent, mods', Front(frames))
    <3>1. \A i \in 1..Len(Front(frames)) : Front(frames)[i].kind # "install"
      BY <1>2, <2>3
    <3> QED BY <3>1, NoReload
  <2> QED BY <1>1, <1>5, <2>11, <2>13, <2>14 DEF Steady
<1> QED BY <1>6, <1>7

\* Nothing is loaded and nothing runs.
LEMMA SteadyEmpty ==
  ASSUME NEW E, E = [c \in Cells |-> Free], NEW M, M = [r \in Regions |-> <<>>],
         NEW fs, fs = <<>>, NEW sl, sl = [r \in Regions |-> <<>>]
  PROVE  Steady(E, M, fs, sl)
<1>1. Ordered(E, M)
  <2>1. (\A c \in Cells : E[c] = Free) /\ \A r \in Regions : M[r] = <<>>
    OBVIOUS
  <2> QED BY <2>1, OrderedEmpty
<1>2. ReloadsFit(E, M, fs)
  <2>1. Len(fs) = 0
    OBVIOUS
  <2> QED BY <2>1 DEF ReloadsFit
<1>3. SlotsInUse(sl, fs)
  <2>1. ToSet(<<>>) = {} /\ \A r \in Regions : sl[r] = <<>>
    BY DEF ToSet
  <2> QED BY <2>1 DEF SlotsInUse
<1> QED BY <1>1, <1>2, <1>3 DEF Steady

\* Whatever a step is, order, calls and reloads in progress are kept, and it
\* reads nothing that was freed.
LEMMA SettledNext ==
  ASSUME UnloadFrom = {}, ~Recycle, Sound, Placed, Steady(ent, mods, frames, slots), ~bad,
         [Next]_vars
  PROVE  Steady(ent', mods', frames', slots') /\ ~bad'
<1>1. CASE UNCHANGED vars
  BY <1>1 DEF vars
<1>2. ASSUME NEW p \in Paths,
             \/ LoadReuse(p) \/ LoadRefused(p) \/ LoadNoInstall(p) \/ LoadBegin(p)
             \/ Unload(p) \/ ReloadBegin(p) \/ ReloadShared(p) \/ ReloadLost(p)
      PROVE  Steady(ent', mods', frames', slots') /\ ~bad'
  <2>1. CASE LoadReuse(p)
    BY <2>1, SteadyReuse
  <2>2. CASE LoadRefused(p) \/ LoadNoInstall(p) \/ ReloadShared(p)
    <3>1. UNCHANGED <<ent, mods, slots, frames, bad>>
      BY <2>2 DEF LoadRefused, LoadNoInstall, ReloadShared, heap
    <3> QED BY <3>1
  <2>3. CASE LoadBegin(p)
    BY <2>3, SteadyLoad
  <2>4. CASE Unload(p) \/ ReloadLost(p)
    <3>1. _mod_unload(p)
      BY <2>4 DEF Unload, ReloadLost
    <3> QED BY <3>1, SteadyUnload
  <2>5. CASE ReloadBegin(p)
    BY <2>5, SteadyReload
  <2> QED BY <1>2, <2>1, <2>2, <2>3, <2>4, <2>5
<1>3. CASE InstallReturn
  BY <1>3, SteadyInstallReturn
<1>4. CASE Call
  BY <1>4, SteadyCall
<1>5. CASE BodyReturn
  BY <1>5, SteadyBodyReturn
<1>6. CASE (\E r \in live : WithRegion(r)) \/ ScopeReturn \/ \E on \in BOOLEAN : RequireClaim(on)
  <2>1. /\ UNCHANGED <<ent, mods, slots, bad>>
        /\ \/ frames' = frames
           \/ frames' = Append(frames, BlankFrame)
           \/ frames # <<>> /\ Top.kind = "scope" /\ frames' = Front(frames)
    BY <1>6 DEF WithRegion, ScopeReturn, RequireClaim, heap
  <2> QED BY <2>1, SteadyScope
<1>7. CASE Shutdown
  <2>1. /\ frames = <<>> /\ frames' = frames /\ bad' = bad
        /\ ent' = [c \in Cells |-> Free] /\ mods' = [r \in Regions |-> <<>>]
        /\ slots' = [r \in Regions |-> <<>>]
    BY <1>7 DEF Shutdown
  <2>2. Steady(ent', mods', frames', slots')
    BY <2>1, SteadyEmpty
  <2> QED BY <2>1, <2>2
<1> QED BY <1>1, <1>2, <1>3, <1>4, <1>5, <1>6, <1>7 DEF Next

\* Order, calls and reloads in progress, and what follows.
LEMMA SettledAlways ==
  ASSUME UnloadFrom = {}, ~Recycle, ~MultiRegion
  PROVE  Spec => [](Steady(ent, mods, frames, slots) /\ ~bad)
<1>1. Init => Steady(ent, mods, frames, slots) /\ ~bad
  <2> SUFFICES ASSUME Init PROVE Steady(ent, mods, frames, slots) /\ ~bad
    OBVIOUS
  <2>1. /\ frames = <<>> /\ bad = FALSE
        /\ ent = [c \in Cells |-> Free] /\ mods = [r \in Regions |-> <<>>]
        /\ slots = [r \in Regions |-> <<>>]
    BY DEF Init
  <2>2. Steady(ent, mods, frames, slots)
    BY <2>1, SteadyEmpty
  <2> QED BY <2>1, <2>2
<1>2. /\ Sound /\ Placed /\ Steady(ent, mods, frames, slots) /\ ~bad
      /\ [Next]_vars
      => (Steady(ent, mods, frames, slots) /\ ~bad)'
  BY SettledNext
<1>3. Spec => []Placed
  BY PlacedAlways
<1> QED BY <1>1, <1>2, <1>3, SoundAlways, PTL DEF Spec

\* As long as modules are unloaded and reloaded by the host only, a library is in
\* one region at a time and no address is used again, nothing that was freed is
\* read: no listener vector holds a module that is gone, a reload finds the
\* entry it remembers, and a cascade the names it looks up.
THEOREM NeverUsedAfterFree ==
  ASSUME UnloadFrom = {}, ~Recycle, ~MultiRegion
  PROVE  Spec => []NoUseAfterFree
<1>1. Steady(ent, mods, frames, slots) /\ ~bad => NoUseAfterFree
  BY DEF NoUseAfterFree
<1> QED BY <1>1, SettledAlways, PTL

-----------------------------------------------------------------------------
(* Where reloads put their modules, however the library is used: reloads    *)
(* may nest, and what one of them remembers may leave while it waits.       *)

\* In the list s, x comes before y.
Precedes(s, x, y) == \E i, j \in 1..Len(s) : i < j /\ s[i] = x /\ s[j] = y

\* In the list s, x comes not later than a.
UpTo(s, a, x) == x = a \/ Precedes(s, x, a)

\* An injective list is in one order.
LEMMA PrecedesOrder ==
  ASSUME NEW s \in Seq(Cells), IsInjective(s)
  PROVE  /\ \A x, y : Precedes(s, x, y) => x \in ToSet(s) /\ y \in ToSet(s) /\ ~Precedes(s, y, x)
                                           /\ x # y
         /\ \A x, y \in ToSet(s) : x = y \/ Precedes(s, x, y) \/ Precedes(s, y, x)
         /\ \A x, y, z : Precedes(s, x, y) /\ Precedes(s, y, z) => Precedes(s, x, z)
<1>0. /\ DOMAIN s = 1..Len(s) /\ Len(s) \in Nat
      /\ \A i \in 1..Len(s) : s[i] \in ToSet(s)
      /\ \A x \in ToSet(s) : \E i \in 1..Len(s) : s[i] = x
      /\ \A i, j \in 1..Len(s) : s[i] = s[j] => i = j
  BY SequenceElements DEF IsInjective
<1>1. ASSUME NEW x, NEW y, Precedes(s, x, y)
      PROVE  x \in ToSet(s) /\ y \in ToSet(s) /\ ~Precedes(s, y, x) /\ x # y
  <2>1. PICK i, j \in 1..Len(s) : i < j /\ s[i] = x /\ s[j] = y
    BY <1>1 DEF Precedes
  <2>2. ASSUME Precedes(s, y, x) PROVE FALSE
    <3>1. PICK k, l \in 1..Len(s) : k < l /\ s[k] = y /\ s[l] = x
      BY <2>2 DEF Precedes
    <3>2. k = j /\ l = i
      BY <1>0, <2>1, <3>1
    <3> QED BY <2>1, <3>1, <3>2
  <2> QED BY <1>0, <2>1, <2>2
<1>2. ASSUME NEW x \in ToSet(s), NEW y \in ToSet(s), x # y
      PROVE  Precedes(s, x, y) \/ Precedes(s, y, x)
  <2>1. PICK i \in 1..Len(s) : s[i] = x
    BY <1>0
  <2>2. PICK j \in 1..Len(s) : s[j] = y
    BY <1>0
  <2>3. i < j \/ j < i
    BY <1>2, <2>1, <2>2
  <2> QED BY <2>1, <2>2, <2>3 DEF Precedes
<1>3. ASSUME NEW x, NEW y, NEW z, Precedes(s, x, y), Precedes(s, y, z)
      PROVE  Precedes(s, x, z)
  <2>1. PICK i, j \in 1..Len(s) : i < j /\ s[i] = x /\ s[j] = y
    BY <1>3 DEF Precedes
  <2>2. PICK k, l \in 1..Len(s) : k < l /\ s[k] = y /\ s[l] = z
    BY <1>3 DEF Precedes
  <2>3. j = k
    BY <1>0, <2>1, <2>2
  <2>4. i < l
    BY <2>1, <2>2, <2>3
  <2> QED BY <2>1, <2>2, <2>4 DEF Precedes
<1> QED BY <1>1, <1>2, <1>3

\* What is left of a list is in the order it was.
LEMMA PrecedesOnly ==
  ASSUME NEW s \in Seq(Cells), IsInjective(s), NEW S
  PROVE  \A x, y \in ToSet(s) \cap S : Precedes(Only(s, S), x, y) <=> Precedes(s, x, y)
<1> DEFINE u == Only(s, S)
           at(c) == CHOOSE i \in 1..Len(s) : s[i] = c
           rank == [c \in Cells |-> IF c \in ToSet(s) THEN at(c) ELSE 0]
<1>0. /\ Len(s) \in Nat /\ ToSet(s) \subseteq Cells
      /\ \A i \in 1..Len(s) : s[i] \in ToSet(s) /\ s[i] \in Cells
      /\ \A x \in ToSet(s) : \E i \in 1..Len(s) : s[i] = x
      /\ \A i, j \in 1..Len(s) : s[i] = s[j] => i = j
  BY SequenceElements DEF IsInjective
<1>1. \A c \in ToSet(s) : at(c) \in 1..Len(s) /\ s[at(c)] = c
  BY <1>0
<1>2. rank \in [Cells -> Nat] /\ \A c \in ToSet(s) : rank[c] = at(c)
  BY <1>0, <1>1
<1> HIDE DEF at, rank
<1>3. \A i \in 1..Len(s) : rank[s[i]] = i
  BY <1>0, <1>1, <1>2
<1>4. \A i, j \in 1..Len(s) : i < j => rank[s[i]] < rank[s[j]]
  BY <1>3
<1>5. \A i, j \in 1..Len(u) : i < j => rank[u[i]] < rank[u[j]]
  BY <1>2, <1>4, OnlyOrder
<1>6. u \in Seq(Cells) /\ IsInjective(u) /\ ToSet(u) = ToSet(s) \cap S
  BY OnlyFacts
<1> HIDE DEF u
<1>7. ASSUME NEW x \in ToSet(s), NEW y \in ToSet(s), Precedes(u, x, y) PROVE Precedes(s, x, y)
  <2>1. PICK i, j \in 1..Len(u) : i < j /\ u[i] = x /\ u[j] = y
    BY <1>7 DEF Precedes
  <2>2. rank[x] < rank[y]
    BY <1>5, <2>1
  <2>3. at(x) < at(y)
    BY <1>2, <2>2
  <2> QED BY <1>1, <2>3 DEF Precedes
<1>8. ASSUME NEW x \in ToSet(s) \cap S, NEW y \in ToSet(s) \cap S, Precedes(s, x, y)
      PROVE  Precedes(u, x, y)
  <2>1. x # y /\ ~Precedes(s, y, x)
    BY <1>8, PrecedesOrder
  <2>2. Precedes(u, x, y) \/ Precedes(u, y, x)
    BY <1>6, <2>1, PrecedesOrder
  <2> QED BY <1>7, <2>1, <2>2
<1> QED BY <1>7, <1>8 DEF u

\* A new entry comes last.
LEMMA PrecedesAppend ==
  ASSUME NEW s \in Seq(Cells), NEW c \in Cells, c \notin ToSet(s)
  PROVE  /\ \A x, y \in ToSet(s) : Precedes(Append(s, c), x, y) <=> Precedes(s, x, y)
         /\ \A y \in ToSet(s) : ~Precedes(Append(s, c), c, y)
<1> DEFINE u == Append(s, c)
           n == Len(s)
<1>0. n \in Nat /\ \A i \in 1..n : s[i] \in ToSet(s)
  BY SequenceElements
<1>1. Len(u) = n + 1 /\ u[n + 1] = c /\ \A i \in 1..n : u[i] = s[i]
  OBVIOUS
<1> HIDE DEF u
<1>2. \A i \in 1..Len(u) : i = n + 1 \/ i \in 1..n
  BY <1>0, <1>1
<1>3. \A i \in 1..n : i \in 1..Len(u)
  BY <1>0, <1>1
<1>4. ASSUME NEW x \in ToSet(s), NEW y \in ToSet(s), Precedes(u, x, y) PROVE Precedes(s, x, y)
  <2>1. PICK i, j \in 1..Len(u) : i < j /\ u[i] = x /\ u[j] = y
    BY <1>4 DEF Precedes
  <2>2. i \in 1..n /\ j \in 1..n
    BY <1>1, <1>2, <2>1
  <2> QED BY <1>1, <2>1, <2>2 DEF Precedes, n
<1>5. ASSUME NEW x, NEW y, Precedes(s, x, y) PROVE Precedes(u, x, y)
  <2>1. PICK i, j \in 1..n : i < j /\ s[i] = x /\ s[j] = y
    BY <1>5 DEF Precedes
  <2> QED BY <1>1, <1>3, <2>1 DEF Precedes
<1>6. ASSUME NEW y \in ToSet(s), Precedes(u, c, y) PROVE FALSE
  <2>1. PICK i, j \in 1..Len(u) : i < j /\ u[i] = c /\ u[j] = y
    BY <1>6 DEF Precedes
  <2>2. i = n + 1 /\ j \in 1..n
    BY <1>0, <1>1, <1>2, <2>1
  <2> QED BY <1>0, <2>1, <2>2
<1> QED BY <1>4, <1>5, <1>6 DEF u

\* An entry that moves up to behind a leaves the others in order, and is behind
\* just what was not later than a.
LEMMA PrecedesMoved ==
  ASSUME NEW s \in Seq(Cells), IsInjective(s), NEW e \in ToSet(s), NEW a,
         a = NULL \/ (a \in ToSet(s) /\ Precedes(s, a, e))
  PROVE  /\ \A x, y \in ToSet(s) \ {e} : Precedes(Reinserted(s, e, a), x, y) <=> Precedes(s, x, y)
         /\ \A y \in ToSet(s) \ {e} : Precedes(Reinserted(s, e, a), y, e) <=> UpTo(s, a, y)
         /\ \A y \in ToSet(s) \ {e} : Precedes(Reinserted(s, e, a), e, y) <=> ~UpTo(s, a, y)
<1> DEFINE u == Reinserted(s, e, a)
           n == Len(s)
<1>0. /\ n \in Nat /\ ToSet(s) \subseteq Cells /\ NULL \notin Cells
      /\ \A i \in 1..n : s[i] \in ToSet(s) /\ s[i] \in Cells
      /\ \A x \in ToSet(s) : \E i \in 1..n : s[i] = x
      /\ \A i, j \in 1..n : s[i] = s[j] => i = j
  BY SequenceElements, SetAssumption DEF IsInjective
<1>1. PICK m \in 1..n : s[m] = e
  BY <1>0
<1>2. \E k \in 0..m-1 : (k = 0 => a = NULL) /\ (k # 0 => a = s[k])
  <2>1. CASE a = NULL
    <3>1. 0 \in 0..m-1
      BY <1>0
    <3> QED BY <2>1, <3>1
  <2>2. CASE a # NULL
    <3>1. PICK i, j \in 1..n : i < j /\ s[i] = a /\ s[j] = e
      BY <2>2 DEF Precedes
    <3>2. j = m
      BY <1>0, <1>1, <3>1
    <3>3. i \in 0..m-1 /\ i # 0
      BY <1>0, <3>1, <3>2
    <3> QED BY <3>1, <3>3
  <2> QED BY <2>1, <2>2
<1>3. PICK k \in 0..m-1 : (k = 0 => a = NULL) /\ (k # 0 => a = s[k])
  BY <1>2
<1>4. MovedUp(s, m, k, u)
  BY <1>1, <1>3, ReinsertedAt
<1> HIDE DEF u
<1>5. /\ Len(u) = n /\ u[k + 1] = e
      /\ \A j \in 1..n : /\ j <= k => u[j] = s[j]
                         /\ k + 1 < j /\ j <= m => u[j] = s[j-1]
                         /\ m < j => u[j] = s[j]
  BY <1>1, <1>4 DEF MovedUp
<1> DEFINE from(j) == IF j <= k \/ m < j THEN j ELSE IF j = k + 1 THEN m ELSE j - 1
           to(j) == IF j <= k \/ m < j THEN j ELSE IF j = m THEN k + 1 ELSE j + 1
<1>6. \A j \in 1..n : from(j) \in 1..n /\ u[j] = s[from(j)]
  <2> TAKE j \in 1..n
  <2>1. CASE j <= k \/ m < j
    BY <1>5, <2>1
  <2>2. CASE j = k + 1
    BY <1>0, <1>1, <1>5, <2>2
  <2>3. CASE k + 1 < j /\ j <= m
    <3>1. from(j) = j - 1 /\ j - 1 \in 1..n
      BY <1>0, <2>3
    <3> QED BY <1>5, <2>3, <3>1
  <2> QED BY <1>0, <2>1, <2>2, <2>3
<1>7. \A j \in 1..n : to(j) \in 1..n /\ from(to(j)) = j
  BY <1>0
<1>8. \A i, j \in 1..n : i # m /\ j # m => (to(i) < to(j) <=> i < j)
  BY <1>0
<1>9. to(m) = k + 1 /\ \A j \in 1..n : j # m => /\ to(j) < k + 1 <=> j <= k
                                                /\ k + 1 < to(j) <=> ~(j <= k)
  BY <1>0
<1> HIDE DEF from, to
<1>10. \A j \in 1..n : u[to(j)] = s[j]
  BY <1>6, <1>7
<1>11. \A i, j \in 1..n : u[i] = u[j] => i = j
  <2>1. a = NULL \/ (a \in ToSet(s) /\ a # e)
    BY PrecedesOrder
  <2>2. Reinserted(s, e, a) \in Seq(Cells) /\ IsInjective(Reinserted(s, e, a))
    BY <2>1, ReinsertedFacts
  <2>3. u \in Seq(Cells) /\ IsInjective(u)
    BY <2>2 DEF u
  <2>4. DOMAIN u = 1..n
    BY <1>5, <2>3
  <2> QED BY <2>3, <2>4 DEF IsInjective
<1>12. ASSUME NEW i \in 1..n, NEW j \in 1..n
       PROVE  Precedes(u, s[i], s[j]) <=> to(i) < to(j)
  <2>1. ASSUME to(i) < to(j) PROVE Precedes(u, s[i], s[j])
    BY <1>5, <1>7, <1>10, <2>1 DEF Precedes
  <2>2. ASSUME Precedes(u, s[i], s[j]) PROVE to(i) < to(j)
    <3>1. PICK x, y \in 1..n : x < y /\ u[x] = s[i] /\ u[y] = s[j]
      BY <1>5, <2>2 DEF Precedes
    <3>2. x = to(i) /\ y = to(j)
      BY <1>7, <1>10, <1>11, <3>1
    <3> QED BY <3>1, <3>2
  <2> QED BY <2>1, <2>2
<1>13. ASSUME NEW i \in 1..n, NEW j \in 1..n
       PROVE  Precedes(s, s[i], s[j]) <=> i < j
  <2>1. ASSUME i < j PROVE Precedes(s, s[i], s[j])
    BY <2>1 DEF Precedes
  <2>2. ASSUME Precedes(s, s[i], s[j]) PROVE i < j
    <3>1. PICK x, y \in 1..n : x < y /\ s[x] = s[i] /\ s[y] = s[j]
      BY <2>2 DEF Precedes
    <3> QED BY <1>0, <3>1
  <2> QED BY <2>1, <2>2
<1>14. ASSUME NEW j \in 1..n
       PROVE  UpTo(s, a, s[j]) <=> j <= k
  <2>1. CASE k = 0
    <3>1. a = NULL /\ ~(j <= k) /\ s[j] # a
      BY <1>0, <1>3, <2>1
    <3>2. ~Precedes(s, s[j], a)
      BY <1>0, <3>1 DEF Precedes
    <3> QED BY <3>1, <3>2 DEF UpTo
  <2>2. CASE k # 0
    <3>1. a = s[k] /\ k \in 1..n
      BY <1>0, <1>3, <2>2
    <3>2. s[j] = a <=> j = k
      BY <1>0, <3>1
    <3>3. Precedes(s, s[j], a) <=> j < k
      BY <1>13, <3>1
    <3>4. j <= k <=> j = k \/ j < k
      BY <3>1
    <3> QED BY <3>2, <3>3, <3>4 DEF UpTo
  <2> QED BY <2>1, <2>2
<1>15. \A x \in ToSet(s) \ {e} : \E i \in 1..n : i # m /\ s[i] = x
  BY <1>0, <1>1
<1>16. ASSUME NEW x \in ToSet(s) \ {e}, NEW y \in ToSet(s) \ {e}
       PROVE  Precedes(u, x, y) <=> Precedes(s, x, y)
  <2>1. PICK i \in 1..n : i # m /\ s[i] = x
    BY <1>15
  <2>2. PICK j \in 1..n : j # m /\ s[j] = y
    BY <1>15
  <2> QED BY <1>8, <1>12, <1>13, <2>1, <2>2
<1>17. ASSUME NEW y \in ToSet(s) \ {e}
       PROVE  /\ Precedes(u, y, e) <=> UpTo(s, a, y)
              /\ Precedes(u, e, y) <=> ~UpTo(s, a, y)
  <2>1. PICK j \in 1..n : j # m /\ s[j] = y
    BY <1>15
  <2>2. UpTo(s, a, y) <=> j <= k
    BY <1>14, <2>1
  <2>3. (Precedes(u, y, e) <=> to(j) < to(m)) /\ (Precedes(u, e, y) <=> to(m) < to(j))
    BY <1>1, <1>12, <2>1
  <2> QED BY <1>9, <2>1, <2>2, <2>3
<1> QED BY <1>16, <1>17 DEF u

\* A reload goes on when the xy_install of frame f returns.
Waiting(f) == f.kind = "install" /\ f.reload # NULL

\* The entries that were before or behind the old module and are still there.
Past(f) == {x \in Cells : x \in ToSet(f.was) \/ x \in ToSet(f.seen)}

\* The reload that frame f goes on with, in the list s of its region: what it
\* knows of is there and none of it is the module; up to the entry it remembers
\* there is all that was before the old module, and neither what was behind it
\* nor the module.
Placing(E, s, f) ==
  /\ \A x \in Past(f) : E[x] # Free /\ E[x].region = f.saved.id /\ E[x].path # f.reload
  /\ f.after \in Cells => f.after \in ToSet(f.was)
  /\ f.after # Dangling => \A y \in ToSet(s) :
       /\ UpTo(s, f.after, y) => y \notin ToSet(f.seen) /\ E[y].path # f.reload
       /\ y \in ToSet(f.was) => UpTo(s, f.after, y)

\* A reload g of the same region that was begun later, from an xy_install or body
\* above the one of f: its module is not one f knows of; if it is the same
\* module, g puts it behind what f remembers.
Layered(E, s, f, g) ==
  /\ \A x \in Past(f) : E[x].path # g.reload
  /\ f.reload = g.reload /\ f.after # Dangling /\ g.after # Dangling =>
       f.after = NULL \/ UpTo(s, g.after, f.after)

ReloadsNest(E, M, fs) ==
  \A j \in 1..Len(fs) : Waiting(fs[j]) =>
    /\ Placing(E, M[fs[j].saved.id], fs[j])
    /\ \A i \in 1..j-1 : Waiting(fs[i]) /\ fs[i].saved.id = fs[j].saved.id =>
         Layered(E, M[fs[j].saved.id], fs[i], fs[j])

\* g is what f is once the cells D are freed.
Thinned(f, g, D) ==
  /\ g.kind = f.kind /\ g.saved = f.saved /\ g.reload = f.reload
  /\ g.after = After(f.after, D)
  /\ \A x \in Cells : /\ x \in ToSet(g.was) <=> x \in ToSet(f.was) \ D
                      /\ x \in ToSet(g.seen) <=> x \in ToSet(f.seen) \ D

\* The entries D leave, others keep path, region and the order of the list s,
\* and new ones come last in it.
Evolves(E, s, E1, s1, D) ==
  /\ \A c \in Cells : E[c] # Free /\ c \notin D =>
       E1[c] # Free /\ E1[c].path = E[c].path /\ E1[c].region = E[c].region
  /\ s1 \in Seq(Cells)
  /\ \A x, y \in ToSet(s) \ D : Precedes(s1, x, y) <=> Precedes(s, x, y)
  /\ \A z \in ToSet(s1) : \/ z \in ToSet(s) \ D
                          \/ E[z] = Free /\ \A x \in ToSet(s) \ D : ~Precedes(s1, z, x)

\* What a reload remembers is on the list, and nothing comes before the head.
LEMMA AfterListed ==
  ASSUME NEW E, NEW M, ListsFit(E, M), NEW r \in Regions, NEW f, Placing(E, M[r], f),
         f.saved.id = r, f.after \in Ptr
  PROVE  /\ ToSet(M[r]) \subseteq Cells
         /\ \A x \in Past(f) : x \in ToSet(M[r])
         /\ f.after = NULL \/ f.after = Dangling \/ (f.after \in Past(f) /\ f.after \in ToSet(M[r]))
<1>1. M[r] \in Seq(Cells) /\ \A c \in Cells : c \in ToSet(M[r]) <=> E[c] # Free /\ E[c].region = r
  BY DEF ListsFit
<1>2. ToSet(M[r]) \subseteq Cells
  BY <1>1, SequenceElements
<1>3. \A x \in Past(f) : x \in ToSet(M[r])
  BY <1>1 DEF Placing, Past
<1>4. f.after \in Cells => f.after \in Past(f)
  BY DEF Placing, Past
<1> QED BY <1>2, <1>3, <1>4 DEF Ptr

\* Nothing is up to the head of a list.
LEMMA UpToHead ==
  ASSUME NEW s \in Seq(Cells), NEW x \in Cells
  PROVE  ~UpTo(s, NULL, x)
<1>1. \A i \in 1..Len(s) : s[i] \in Cells
  BY SequenceElements
<1> QED BY <1>1, SetAssumption DEF UpTo, Precedes

\* What holds of one reload is kept.
LEMMA PlacingKept ==
  ASSUME NEW E, NEW M, ListsFit(E, M), NEW r \in Regions, NEW f, Placing(E, M[r], f),
         f.saved.id = r, f.after \in Ptr, NEW E1, NEW s1, NEW D,
         Evolves(E, M[r], E1, s1, D), NEW g, Thinned(f, g, D)
  PROVE  Placing(E1, s1, g)
<1> DEFINE s == M[r]
<1>0. Dangling \notin Cells /\ NULL \notin Cells /\ NULL # Dangling
  BY SetAssumption
<1>1. /\ ToSet(s) \subseteq Cells
      /\ \A x \in Past(f) : x \in ToSet(s)
      /\ f.after = NULL \/ f.after = Dangling \/ (f.after \in Past(f) /\ f.after \in ToSet(s))
  BY AfterListed
<1>2. \A x \in Past(g) : x \in Past(f) /\ x \notin D
  BY DEF Thinned, Past
<1>3. s \in Seq(Cells) /\ \A x \in ToSet(s) : E[x] # Free
  BY <1>1 DEF ListsFit
<1> HIDE DEF s
<1>4. \A x \in Past(g) : E1[x] # Free /\ E1[x].region = g.saved.id /\ E1[x].path # g.reload
  <2> TAKE x \in Past(g)
  <2>1. x \in Cells /\ x \in Past(f) /\ x \notin D
    BY <1>2 DEF Past
  <2> QED BY <2>1 DEF Placing, Evolves, Thinned
<1>5. g.after \in Cells => g.after \in ToSet(g.was)
  BY <1>0 DEF Thinned, After, Placing
<1>6. ASSUME g.after # Dangling, NEW y \in ToSet(s1)
      PROVE  /\ UpTo(s1, g.after, y) => y \notin ToSet(g.seen) /\ E1[y].path # g.reload
             /\ y \in ToSet(g.was) => UpTo(s1, g.after, y)
  <2>1. g.after = f.after /\ f.after # Dangling /\ f.after \notin D
    BY <1>6 DEF Thinned, After
  <2>2. s1 \in Seq(Cells) /\ y \in Cells
    <3>1. s1 \in Seq(Cells)
      BY DEF Evolves
    <3> QED BY <3>1, SequenceElements
  <2>3. f.after # NULL => f.after \in ToSet(s) \ D
    BY <1>1, <2>1
  <2>4. CASE y \in ToSet(s) \ D
    <3>1. UpTo(s1, g.after, y) <=> UpTo(s, f.after, y)
      <4>1. CASE f.after = NULL
        BY <1>3, <2>1, <2>2, <4>1, UpToHead
      <4>2. CASE f.after # NULL
        BY <2>1, <2>3, <2>4, <4>2 DEF UpTo, Evolves, s
      <4> QED BY <4>1, <4>2
    <3>2. /\ UpTo(s, f.after, y) => y \notin ToSet(f.seen) /\ E[y].path # f.reload
          /\ y \in ToSet(f.was) => UpTo(s, f.after, y)
      BY <2>1, <2>4 DEF Placing, s
    <3>3. E1[y].path = E[y].path
      BY <1>3, <2>2, <2>4 DEF Evolves
    <3> QED BY <2>2, <3>1, <3>2, <3>3 DEF Thinned
  <2>5. CASE E[y] = Free /\ \A x \in ToSet(s) \ D : ~Precedes(s1, y, x)
    <3>1. ~UpTo(s1, g.after, y)
      <4>1. CASE f.after = NULL
        BY <2>1, <2>2, <4>1, UpToHead
      <4>2. CASE f.after # NULL
        BY <1>3, <2>1, <2>3, <2>5, <4>2 DEF UpTo
      <4> QED BY <4>1, <4>2
    <3>2. y \notin ToSet(g.was)
      BY <1>1, <1>2, <1>3, <2>2, <2>5 DEF Past
    <3> QED BY <3>1, <3>2
  <2> QED BY <2>4, <2>5 DEF Evolves, s
<1> QED BY <1>4, <1>5, <1>6 DEF Placing

\* What holds of two reloads is kept.
LEMMA LayeredKept ==
  ASSUME NEW E, NEW M, ListsFit(E, M), NEW r \in Regions, NEW f, Placing(E, M[r], f),
         f.saved.id = r, f.after \in Ptr, NEW g, Placing(E, M[r], g), g.saved.id = r,
         g.after \in Ptr, Layered(E, M[r], f, g), NEW E1, NEW s1, NEW D,
         Evolves(E, M[r], E1, s1, D), NEW f1, Thinned(f, f1, D), NEW g1, Thinned(g, g1, D)
  PROVE  Layered(E1, s1, f1, g1)
<1> DEFINE s == M[r]
<1>1. /\ \A x \in Past(f) : x \in ToSet(s)
      /\ f.after = NULL \/ f.after = Dangling \/ f.after \in ToSet(s)
      /\ g.after = NULL \/ g.after = Dangling \/ g.after \in ToSet(s)
      /\ s \in Seq(Cells) /\ ToSet(s) \subseteq Cells
  BY AfterListed DEF ListsFit
<1>2. \A x \in Past(f) : x \in Cells /\ E[x] # Free /\ E[x].path # g.reload
  BY DEF Placing, Layered, Past
<1>3. \A x \in Past(f1) : x \in Past(f) /\ x \notin D
  BY DEF Thinned, Past
<1>4. \A x \in Past(f1) : E1[x].path # g1.reload
  BY <1>2, <1>3 DEF Evolves, Thinned
<1>5. ASSUME f1.reload = g1.reload, f1.after # Dangling, g1.after # Dangling
      PROVE  f1.after = NULL \/ UpTo(s1, g1.after, f1.after)
  <2>1. /\ f1.after = f.after /\ f.after # Dangling /\ f.after \notin D /\ f.reload = g.reload
        /\ g1.after = g.after /\ g.after # Dangling /\ g.after \notin D
    BY <1>5 DEF Thinned, After
  <2>2. f.after = NULL \/ UpTo(s, g.after, f.after)
    BY <2>1 DEF Layered
  <2>3. CASE f.after # NULL
    <3>1. f.after \in ToSet(s) \ D /\ UpTo(s, g.after, f.after)
      BY <1>1, <2>1, <2>2, <2>3
    <3>2. g.after # NULL
      BY <1>1, <3>1, UpToHead
    <3>3. g.after \in ToSet(s) \ D
      BY <1>1, <2>1, <3>2
    <3> QED BY <2>1, <3>1, <3>3 DEF UpTo, Evolves
  <2> QED BY <2>1, <2>3
<1> QED BY <1>4, <1>5 DEF Layered

\* Reloads in progress while entries leave and come.
LEMMA NestKept ==
  ASSUME NEW E, NEW M, ListsFit(E, M), NEW fs \in Seq(Frame), ReloadsNest(E, M, fs),
         \A i \in 1..Len(fs) : fs[i].saved.id \in Regions,
         NEW D, NEW E1, NEW M1, \A r \in Regions : Evolves(E, M[r], E1, M1[r], D),
         NEW fs1, Len(fs1) \in Nat,
         \A i \in 1..Len(fs1) : Waiting(fs1[i]) =>
           i \in 1..Len(fs) /\ Waiting(fs[i]) /\ Thinned(fs[i], fs1[i], D)
  PROVE  ReloadsNest(E1, M1, fs1)
<1>1. \A i \in 1..Len(fs) : fs[i].after \in Ptr
  <2>1. \A i \in 1..Len(fs) : fs[i] \in Frame
    OBVIOUS
  <2> QED BY <2>1 DEF Frame
<1>2. SUFFICES ASSUME NEW j \in 1..Len(fs1), Waiting(fs1[j])
               PROVE  /\ Placing(E1, M1[fs1[j].saved.id], fs1[j])
                      /\ \A i \in 1..j-1 : Waiting(fs1[i]) /\ fs1[i].saved.id = fs1[j].saved.id =>
                           Layered(E1, M1[fs1[j].saved.id], fs1[i], fs1[j])
  BY DEF ReloadsNest
<1> DEFINE g == fs[j]
           r == g.saved.id
<1>3. j \in 1..Len(fs) /\ Waiting(g) /\ Thinned(g, fs1[j], D)
  BY <1>2
<1>4. r \in Regions /\ g.after \in Ptr /\ Placing(E, M[r], g) /\ fs1[j].saved.id = r
  BY <1>1, <1>3 DEF ReloadsNest, Thinned
<1>5. ASSUME NEW i \in 1..j-1, Waiting(fs[i]), fs[i].saved.id = r
      PROVE  Layered(E, M[r], fs[i], g)
  BY <1>3, <1>5 DEF ReloadsNest
<1> HIDE DEF g
<1>6. Placing(E1, M1[r], fs1[j])
  BY <1>3, <1>4, PlacingKept
<1>7. ASSUME NEW i \in 1..j-1, Waiting(fs1[i]), fs1[i].saved.id = r
      PROVE  Layered(E1, M1[r], fs1[i], fs1[j])
  <2> DEFINE f == fs[i]
  <2>1. i \in 1..Len(fs1)
    OBVIOUS
  <2>2. i \in 1..Len(fs) /\ Waiting(f) /\ Thinned(f, fs1[i], D)
    BY <1>7, <2>1
  <2>3. f.saved.id = r /\ f.after \in Ptr
    BY <1>1, <1>7, <2>2 DEF Thinned
  <2>4. Placing(E, M[r], f)
    BY <2>2, <2>3 DEF ReloadsNest
  <2>5. Layered(E, M[r], f, g)
    BY <1>5, <2>2, <2>3
  <2> HIDE DEF f
  <2> QED BY <1>3, <1>4, <2>2, <2>3, <2>4, <2>5, LayeredKept
<1> QED BY <1>4, <1>6, <1>7

\* Which entries a sequence of pointers holds when the cells D are freed.
LEMMA ScrubHolds ==
  ASSUME NEW s \in Seq(Slot), NEW D, NEW x \in Cells
  PROVE  x \in ToSet(Scrub(s, D)) <=> x \in ToSet(s) \ D
<1> DEFINE u == Scrub(s, D)
<1>0. x # Dangling
  BY SetAssumption
<1>1. /\ u \in Seq(Slot) /\ Len(u) = Len(s) /\ \A i \in 1..Len(s) : u[i] = After(s[i], D)
      /\ \A y \in ToSet(u) : y = Dangling \/ (y \in ToSet(s) /\ y \notin D)
  BY ScrubFacts
<1> HIDE DEF u
<1>2. ASSUME x \in ToSet(s) \ D PROVE x \in ToSet(u)
  <2>1. PICK i \in 1..Len(s) : s[i] = x
    BY <1>2, SequenceElements
  <2>2. u[i] = x
    BY <1>1, <1>2, <2>1 DEF After
  <2> QED BY <1>1, <2>2, SequenceElements
<1> QED BY <1>0, <1>1, <1>2 DEF u

\* Frames when the cells D are freed.
LEMMA FramesThinned ==
  ASSUME frames \in Seq(Frame), NEW D, NEW i \in 1..Len(frames)
  PROVE  Thinned(frames[i], FramesAfter(D)[i], D)
<1> DEFINE f == frames[i]
           g == FramesAfter(D)[i]
<1>1. /\ g.kind = f.kind /\ g.saved = f.saved /\ g.reload = f.reload
      /\ g.after = After(f.after, D)
      /\ g.was = Scrub(f.was, D) /\ g.seen = Scrub(f.seen, D)
  BY FramesAfterFacts
<1>2. f.was \in Seq(Slot) /\ f.seen \in Seq(Slot)
  <2>1. f \in Frame
    OBVIOUS
  <2> QED BY <2>1 DEF Frame
<1> HIDE DEF f, g
<1>3. \A x \in Cells : /\ x \in ToSet(g.was) <=> x \in ToSet(f.was) \ D
                       /\ x \in ToSet(g.seen) <=> x \in ToSet(f.seen) \ D
  BY <1>1, <1>2, ScrubHolds
<1> QED BY <1>1, <1>3 DEF Thinned, f, g

\* A frame when nothing is freed.
LEMMA ThinnedSame == \A f, g : /\ g.kind = f.kind /\ g.saved = f.saved /\ g.reload = f.reload
                               /\ g.after = f.after /\ g.was = f.was /\ g.seen = f.seen
                               => Thinned(f, g, {})
BY DEF Thinned, After

\* A list that the entries D leave.
LEMMA EvolvesLess ==
  ASSUME ListsFit(ent, mods), NEW r \in Regions, NEW E, NEW D, Kept(E, D), NEW s1,
         s1 = Only(mods[r], Cells \ D) \/ (s1 = mods[r] /\ D = {})
  PROVE  Evolves(ent, mods[r], E, s1, D)
<1> DEFINE s == mods[r]
<1>1. s \in Seq(Cells) /\ IsInjective(s)
  BY DEF ListsFit
<1> HIDE DEF s
<1>2. \A c \in Cells : ent[c] # Free /\ c \notin D =>
        E[c] # Free /\ E[c].path = ent[c].path /\ E[c].region = ent[c].region
  BY DEF Kept
<1>3. ToSet(s) \subseteq Cells
  BY <1>1, SequenceElements
<1>4. /\ s1 \in Seq(Cells) /\ ToSet(s1) = ToSet(s) \ D
      /\ \A x, y \in ToSet(s) \ D : Precedes(s1, x, y) <=> Precedes(s, x, y)
  <2>1. CASE s1 = Only(s, Cells \ D)
    <3>1. s1 \in Seq(Cells) /\ ToSet(s1) = ToSet(s) \cap (Cells \ D)
      BY <1>1, <2>1, OnlyFacts
    <3>2. ToSet(s) \cap (Cells \ D) = ToSet(s) \ D
      BY <1>3
    <3> QED BY <1>1, <2>1, <3>1, <3>2, PrecedesOnly
  <2>2. CASE s1 = s /\ D = {}
    BY <1>1, <2>2
  <2> QED BY <2>1, <2>2 DEF s
<1> QED BY <1>2, <1>4 DEF Evolves, s

\* A list that a new entry is appended to, or another list.
LEMMA EvolvesMore ==
  ASSUME NEW E, NEW M, ListsFit(E, M), E \in [Cells -> Entry \cup {Free}], NEW c \in Cells,
         E[c] = Free, NEW x, NEW r \in Regions, NEW q \in Regions,
         NEW E1, E1 = [E EXCEPT ![c] = x], NEW M1, M1 = [M EXCEPT ![q] = Append(@, c)]
  PROVE  Evolves(E, M[r], E1, M1[r], {})
<1> DEFINE s == M[r]
           s1 == M1[r]
<1>1. s \in Seq(Cells) /\ c \notin ToSet(s) /\ M \in [Regions -> Seq(Cells)]
  BY DEF ListsFit
<1>2. s1 = s \/ s1 = Append(s, c)
  BY <1>1
<1> HIDE DEF s, s1
<1>3. \A d \in Cells : E[d] # Free => E1[d] = E[d]
  OBVIOUS
<1>4. CASE s1 = s
  BY <1>1, <1>3, <1>4 DEF Evolves, s, s1
<1>5. CASE s1 = Append(s, c)
  <2>1. s1 \in Seq(Cells) /\ ToSet(s1) = ToSet(s) \cup {c}
    BY <1>1, <1>5, AppendedFacts
  <2>2. /\ \A a, b \in ToSet(s) : Precedes(s1, a, b) <=> Precedes(s, a, b)
        /\ \A b \in ToSet(s) : ~Precedes(s1, c, b)
    BY <1>1, <1>5, PrecedesAppend
  <2>3. Evolves(E, s, E1, s1, {})
    BY <1>3, <2>1, <2>2 DEF Evolves
  <2> QED BY <2>3 DEF s, s1
<1> QED BY <1>2, <1>4, <1>5

\* What a load does up to its xy_install leaves reloads in progress as they are,
\* the one it is part of included.
LEMMA NestBegun ==
  ASSUME NEW p, NEW E, NEW M, NEW cx, NEW fs, NEW hs, NEW f, NEW c \in Cells, NEW r \in Regions,
         NEW img, Begun(p, E, M, cx, fs, hs, f, c, r, img), ListsFit(E, M),
         E \in [Cells -> Entry \cup {Free}], frames' \in Seq(Frame), ReloadsNest(E, M, frames'),
         \A i \in 1..Len(frames') : frames'[i].saved.id \in Regions
  PROVE  ReloadsNest(ent', mods', frames')
<1> DEFINE x == [path |-> p, img |-> img, region |-> r, refs |-> 1,
                 parent |-> loading, stale |-> FALSE, shared |-> FALSE]
           E1 == ent'
           M1 == mods'
           u == frames'
<1>1. E[c] = Free /\ E1 = [E EXCEPT ![c] = x] /\ M1 = [M EXCEPT ![r] = Append(@, c)]
  BY DEF Begun
<1>2. u \in Seq(Frame) /\ ReloadsNest(E, M, u) /\ \A i \in 1..Len(u) : u[i].saved.id \in Regions
  OBVIOUS
<1> HIDE DEF x, E1, M1, u
<1>3. \A q \in Regions : Evolves(E, M[q], E1, M1[q], {})
  BY <1>1, EvolvesMore
<1>4. \A i \in 1..Len(u) : Thinned(u[i], u[i], {})
  BY ThinnedSame
<1>5. Len(u) \in Nat
  BY <1>2
<1>6. ReloadsNest(E1, M1, u)
  BY <1>2, <1>3, <1>4, <1>5, NestKept
<1> QED BY <1>6 DEF E1, M1, u

\* A frame on top of reloads in progress.
LEMMA NestPush ==
  ASSUME NEW E, NEW M, NEW fs \in Seq(Frame), ReloadsNest(E, M, fs), NEW g \in Frame,
         Waiting(g) =>
           /\ Placing(E, M[g.saved.id], g)
           /\ \A i \in 1..Len(fs) : Waiting(fs[i]) /\ fs[i].saved.id = g.saved.id =>
                Layered(E, M[g.saved.id], fs[i], g)
  PROVE  ReloadsNest(E, M, Append(fs, g))
<1> DEFINE u == Append(fs, g)
           n == Len(fs)
<1>1. n \in Nat /\ Len(u) = n + 1 /\ u[n + 1] = g /\ \A i \in 1..n : u[i] = fs[i]
  OBVIOUS
<1> HIDE DEF u
<1>2. SUFFICES ASSUME NEW j \in 1..n+1, Waiting(u[j])
               PROVE  /\ Placing(E, M[u[j].saved.id], u[j])
                      /\ \A i \in 1..j-1 : Waiting(u[i]) /\ u[i].saved.id = u[j].saved.id =>
                           Layered(E, M[u[j].saved.id], u[i], u[j])
  BY <1>1 DEF ReloadsNest, u
<1>3. CASE j = n + 1
  <2>1. \A i \in 1..j-1 : i \in 1..n
    BY <1>1, <1>3
  <2> QED BY <1>1, <1>2, <1>3, <2>1
<1>4. CASE j \in 1..n
  <2>1. (\A i \in 1..j-1 : u[i] = fs[i]) /\ u[j] = fs[j]
    BY <1>1, <1>4
  <2> QED BY <1>2, <1>4, <2>1 DEF ReloadsNest
<1> QED BY <1>1, <1>3, <1>4

\* The frames' contexts are of regions.
LEMMA SavedRegions ==
  ASSUME NEW E, NEW L, L \subseteq Regions, NEW fs, FramesFit(E, L, fs)
  PROVE  fs \in Seq(Frame) /\ Len(fs) \in Nat /\ \A i \in 1..Len(fs) : fs[i].saved.id \in Regions
BY DEF FramesFit, FrameFits

\* xy_unload, or the first half of a reload: E and M are what is left.
LEMMA NestFreed ==
  ASSUME Sound, ReloadsNest(ent, mods, frames), NEW E, NEW M, NEW D, Kept(E, D),
         \A r \in Regions : M[r] = Only(mods[r], Cells \ D) \/ (M[r] = mods[r] /\ D = {})
  PROVE  ReloadsNest(E, M, FramesAfter(D))
<1>1. /\ frames \in Seq(Frame) /\ ListsFit(ent, mods)
      /\ \A i \in 1..Len(frames) : frames[i].saved.id \in Regions
  BY SavedRegions DEF Sound, TreeFits
<1>2. \A r \in Regions : Evolves(ent, mods[r], E, M[r], D)
  BY <1>1, EvolvesLess
<1> DEFINE fs == FramesAfter(D)
<1>3. fs \in Seq(Frame) /\ Len(fs) = Len(frames)
  BY <1>1, FramesAfterFacts
<1>4. \A i \in 1..Len(frames) : Thinned(frames[i], fs[i], D)
  BY <1>1, FramesThinned
<1> HIDE DEF fs
<1>5. Len(fs) \in Nat
  BY <1>3
<1>6. \A i \in 1..Len(fs) : Waiting(fs[i]) =>
        i \in 1..Len(frames) /\ Waiting(frames[i]) /\ Thinned(frames[i], fs[i], D)
  BY <1>3, <1>4 DEF Waiting, Thinned
<1>7. ReloadsNest(E, M, fs)
  BY <1>1, <1>2, <1>5, <1>6, NestKept
<1> QED BY <1>7 DEF fs

\* xy_unload, or the first half of a reload that fails.
LEMMA NestUnload ==
  ASSUME Sound, ReloadsNest(ent, mods, frames), NEW p \in Paths, _mod_unload(p)
  PROVE  ReloadsNest(ent', mods', frames')
<1> DEFINE e == lookup(p, cur.id)
           D == Dropped(e)
           E == Unloaded(e).ent
           M == Unloaded(e).mods
<1>1. e # NULL /\ Freeable(D) /\ ent' = E /\ mods' = M /\ frames' = FramesAfter(D)
  BY DEF _mod_unload, Become
<1>2. e \in Loaded
  BY <1>1, UnloadIs
<1> HIDE DEF e
<1>3. Kept(E, D)
  BY <1>1, <1>2, UnloadedFits
<1>4. \A r \in Regions : M[r] = Only(mods[r], Cells \ D) \/ (M[r] = mods[r] /\ D = {})
  <2>1. CASE ent[e].refs > 1
    BY <2>1 DEF Unloaded, Dropped, Heap
  <2>2. CASE ~(ent[e].refs > 1)
    BY <2>2 DEF Unloaded, Dropped, Without
  <2> QED BY <2>1, <2>2
<1> HIDE DEF D, E, M
<1>5. ReloadsNest(E, M, FramesAfter(D))
  BY <1>3, <1>4, NestFreed
<1> QED BY <1>1, <1>5

\* xy_load as far as the xy_install.
LEMMA NestLoad ==
  ASSUME Sound, Sound', ReloadsNest(ent, mods, frames), NEW p \in Paths, LoadBegin(p)
  PROVE  ReloadsNest(ent', mods', frames')
<1>1. Begin(p, Heap, ctx, frames, held, BlankFrame) /\ Heap.ent = ent /\ Heap.mods = mods
  BY DEF LoadBegin, Heap
<1>2. PICK c \in Cells, r \in Target(p), img \in Cells \cup {p} :
        Begun(p, ent, mods, ctx, frames, held, BlankFrame, c, r, img)
  BY <1>1, BeginIs
<1>3. r \in Regions /\ frames \in Seq(Frame) /\ ListsFit(ent, mods)
      /\ ent \in [Cells -> Entry \cup {Free}]
  BY TargetFacts DEF Sound, TreeFits, FramesFit, EntriesFit
<1>4. frames' \in Seq(Frame) /\ \A i \in 1..Len(frames') : frames'[i].saved.id \in Regions
  <2>1. live' \subseteq Regions /\ FramesFit(ent', live', frames')
    BY DEF Sound, TreeFits
  <2> QED BY <2>1, SavedRegions
<1> DEFINE g == [BlankFrame EXCEPT !.kind = "install", !.e = c, !.loading = loading]
<1>5. frames' = Append(frames, g)
  BY <1>2 DEF Begun
<1>6. g \in Frame /\ g.reload = NULL
  <2>1. c \in Ptr /\ loading \in Cells \cup {NULL}
    BY DEF Ptr, Sound
  <2> QED BY <2>1, BlankFacts DEF Frame
<1> HIDE DEF g
<1>7. ReloadsNest(ent, mods, frames')
  BY <1>3, <1>5, <1>6, NestPush DEF Waiting
<1> QED BY <1>2, <1>3, <1>4, <1>7, NestBegun

\* What a reload remembers, in terms of the list of its module.
LEMMA RememberedIs ==
  ASSUME Sound, NEW p \in Paths, NEW e, e = lookup(p, cur.id), e # NULL, NEW D,
         After(Predecessor(e), D) \in Ptr
  PROVE  LET f == Remembered(p, e, D)
             s == mods[cur.id]
             a == Predecessor(e)
         IN  /\ f \in Frame /\ f.saved = cur /\ f.reload = p /\ f.after = After(a, D)
             /\ \A x \in Cells : x \in ToSet(f.was) <=> Precedes(s, x, e) /\ x \notin D
             /\ \A x \in Cells : x \in ToSet(f.seen) <=> Precedes(s, e, x) /\ x \notin D
             /\ a = NULL => \A x : ~Precedes(s, x, e)
             /\ a # NULL => /\ a \in Cells /\ Precedes(s, a, e)
                            /\ \A x : Precedes(s, x, e) <=> UpTo(s, a, x)
<1> DEFINE f == Remembered(p, e, D)
           s == mods[cur.id]
           a == Predecessor(e)
<1>1. /\ f \in Frame /\ f.saved = cur /\ f.reload = p /\ f.after = After(a, D)
      /\ \E i \in 1..Len(s) :
           /\ s[i] = e /\ a = IF i = 1 THEN NULL ELSE s[i-1]
           /\ f.was = Scrub(SubSeq(s, 1, i - 1), D)
           /\ f.seen = Scrub(SubSeq(s, i + 1, Len(s)), D)
  BY RememberedFacts
<1>2. PICK i \in 1..Len(s) :
        /\ s[i] = e /\ a = IF i = 1 THEN NULL ELSE s[i-1]
        /\ f.was = Scrub(SubSeq(s, 1, i - 1), D)
        /\ f.seen = Scrub(SubSeq(s, i + 1, Len(s)), D)
  BY <1>1
<1>3. s \in Seq(Cells) /\ IsInjective(s)
  BY UnloadIs DEF Sound, ListsFit
<1> HIDE DEF f, s, a
<1>4. /\ Len(s) \in Nat /\ NULL \notin Cells
      /\ \A j \in 1..Len(s) : s[j] \in Cells
      /\ \A j, k \in 1..Len(s) : s[j] = s[k] => j = k
  BY <1>3, SequenceElements, SetAssumption DEF IsInjective
<1>5. \A x : Precedes(s, x, e) <=> \E j \in 1..i-1 : s[j] = x
  <2> SUFFICES ASSUME NEW x PROVE Precedes(s, x, e) <=> \E j \in 1..i-1 : s[j] = x
    OBVIOUS
  <2>1. ASSUME Precedes(s, x, e) PROVE \E j \in 1..i-1 : s[j] = x
    <3>1. PICK j, k \in 1..Len(s) : j < k /\ s[j] = x /\ s[k] = e
      BY <2>1 DEF Precedes
    <3>2. k = i
      BY <1>2, <1>4, <3>1
    <3>3. j \in 1..i-1
      BY <3>1, <3>2
    <3> QED BY <3>1, <3>3
  <2>2. ASSUME NEW j \in 1..i-1, s[j] = x PROVE Precedes(s, x, e)
    <3>1. j \in 1..Len(s) /\ j < i
      BY <1>4
    <3> QED BY <1>2, <2>2, <3>1 DEF Precedes
  <2> QED BY <2>1, <2>2
<1>6. \A x : Precedes(s, e, x) <=> \E j \in i+1..Len(s) : s[j] = x
  <2> SUFFICES ASSUME NEW x PROVE Precedes(s, e, x) <=> \E j \in i+1..Len(s) : s[j] = x
    OBVIOUS
  <2>1. ASSUME Precedes(s, e, x) PROVE \E j \in i+1..Len(s) : s[j] = x
    <3>1. PICK k, j \in 1..Len(s) : k < j /\ s[k] = e /\ s[j] = x
      BY <2>1 DEF Precedes
    <3>2. k = i
      BY <1>2, <1>4, <3>1
    <3>3. j \in i+1..Len(s)
      BY <3>1, <3>2
    <3> QED BY <3>1, <3>3
  <2>2. ASSUME NEW j \in i+1..Len(s), s[j] = x PROVE Precedes(s, e, x)
    <3>1. j \in 1..Len(s) /\ i < j
      BY <1>4
    <3> QED BY <1>2, <2>2, <3>1 DEF Precedes
  <2> QED BY <2>1, <2>2
<1>7. /\ SubSeq(s, 1, i - 1) \in Seq(Slot)
      /\ \A x : x \in ToSet(SubSeq(s, 1, i - 1)) <=> \E j \in 1..i-1 : s[j] = x
  <2> DEFINE w == SubSeq(s, 1, i - 1)
  <2>1. w \in Seq(Cells) /\ Len(w) = i - 1 /\ \A j \in 1..i-1 : w[j] = s[j]
    BY <1>3, <1>4
  <2>2. w \in Seq(Slot)
    <3>1. Seq(Cells) \subseteq Seq(Slot)
      BY DEF Slot
    <3> QED BY <2>1, <3>1
  <2> HIDE DEF w
  <2>3. \A x : x \in ToSet(w) <=> \E j \in 1..i-1 : s[j] = x
    BY <2>1, SequenceElements
  <2> QED BY <2>2, <2>3 DEF w
<1>8. /\ SubSeq(s, i + 1, Len(s)) \in Seq(Slot)
      /\ \A x : x \in ToSet(SubSeq(s, i + 1, Len(s))) <=> \E j \in i+1..Len(s) : s[j] = x
  <2> DEFINE b == SubSeq(s, i + 1, Len(s))
  <2>1. b \in Seq(Cells) /\ Len(b) = Len(s) - i /\ \A j \in 1..Len(s)-i : b[j] = s[i + j]
    BY <1>3, <1>4
  <2>2. b \in Seq(Slot)
    <3>1. Seq(Cells) \subseteq Seq(Slot)
      BY DEF Slot
    <3> QED BY <2>1, <3>1
  <2> HIDE DEF b
  <2>3. ASSUME NEW x PROVE x \in ToSet(b) <=> \E j \in i+1..Len(s) : s[j] = x
    <3>1. ASSUME x \in ToSet(b) PROVE \E j \in i+1..Len(s) : s[j] = x
      <4>1. PICK k \in 1..Len(s)-i : b[k] = x
        BY <2>1, <3>1, SequenceElements
      <4>2. s[i + k] = x
        BY <2>1, <4>1
      <4>3. i + k \in i+1..Len(s)
        BY <1>4
      <4> QED BY <4>2, <4>3
    <3>2. ASSUME NEW j \in i+1..Len(s), s[j] = x PROVE x \in ToSet(b)
      <4>1. j - i \in 1..Len(s)-i /\ i + (j - i) = j
        BY <1>4
      <4>2. b[j - i] = x
        BY <2>1, <3>2, <4>1
      <4> QED BY <2>1, <4>1, <4>2, SequenceElements
    <3> QED BY <3>1, <3>2
  <2> QED BY <2>2, <2>3 DEF b
<1>9. ASSUME NEW x \in Cells
      PROVE  /\ x \in ToSet(f.was) <=> Precedes(s, x, e) /\ x \notin D
             /\ x \in ToSet(f.seen) <=> Precedes(s, e, x) /\ x \notin D
  <2>1. x \in ToSet(f.was) <=> x \in ToSet(SubSeq(s, 1, i - 1)) \ D
    BY <1>2, <1>7, ScrubHolds
  <2>2. x \in ToSet(f.seen) <=> x \in ToSet(SubSeq(s, i + 1, Len(s))) \ D
    BY <1>2, <1>8, ScrubHolds
  <2> QED BY <1>5, <1>6, <1>7, <1>8, <2>1, <2>2
<1>10. CASE i = 1
  <2>1. a = NULL /\ \A x : ~Precedes(s, x, e)
    BY <1>2, <1>5, <1>10
  <2> QED BY <1>1, <1>9, <2>1 DEF f, s, a
<1>11. CASE i # 1
  <2>1. i - 1 \in 1..Len(s) /\ i - 1 < i /\ a = s[i-1] /\ a \in Cells
    BY <1>2, <1>4, <1>11
  <2>2. Precedes(s, a, e)
    BY <1>2, <2>1 DEF Precedes
  <2>3. ASSUME NEW x PROVE Precedes(s, x, e) <=> UpTo(s, a, x)
    <3>1. ASSUME Precedes(s, x, e) PROVE UpTo(s, a, x)
      <4>1. PICK j \in 1..i-1 : s[j] = x
        BY <1>5, <3>1
      <4>2. CASE j = i - 1
        BY <2>1, <4>1, <4>2 DEF UpTo
      <4>3. CASE j # i - 1
        <5>1. j < i - 1 /\ j \in 1..Len(s)
          BY <1>4, <4>3
        <5> QED BY <2>1, <4>1, <5>1 DEF UpTo, Precedes
      <4> QED BY <4>2, <4>3
    <3>2. ASSUME UpTo(s, a, x) PROVE Precedes(s, x, e)
      BY <1>3, <2>2, <3>2, PrecedesOrder DEF UpTo
    <3> QED BY <3>1, <3>2
  <2>4. a # NULL
    BY <1>4, <2>1
  <2> QED BY <1>1, <1>9, <2>1, <2>2, <2>3, <2>4 DEF f, s, a
<1> QED BY <1>10, <1>11

\* A reload that begins knows its place in what is left of the list.
LEMMA RememberedPlaced ==
  ASSUME Sound, NEW p \in Paths, NEW e \in Loaded, e = lookup(p, cur.id), e # NULL,
         ent[e].refs = 1, NEW D \in SUBSET Cells, D = Doomed(e), e \in D, Freeable(D),
         NEW f, f = Remembered(p, e, D), NEW t, t = Only(mods[cur.id], Cells \ D),
         NEW E, E = Without(D).ent
  PROVE  /\ f \in Frame /\ f.saved = cur /\ f.reload = p
         /\ Placing(E, t, f)
         /\ \A h, g : /\ h.after \in Ptr /\ h.saved.id = cur.id /\ Placing(ent, mods[cur.id], h)
                      /\ Thinned(h, g, D)
                      => Layered(E, t, g, f)
<1> DEFINE s == mods[cur.id]
           a == Predecessor(e)
<1>0. Dangling \notin Cells /\ NULL \notin Cells /\ NULL # Dangling
  BY SetAssumption
<1>1. /\ After(a, D) \in Ptr
      /\ \A c \in Cells : E[c] # Free <=> ent[c] # Free /\ c \notin D
      /\ Kept(E, D)
  BY ReloadHalfway
<1>2. /\ f \in Frame /\ f.saved = cur /\ f.reload = p /\ f.after = After(a, D)
      /\ \A x \in Cells : x \in ToSet(f.was) <=> Precedes(s, x, e) /\ x \notin D
      /\ \A x \in Cells : x \in ToSet(f.seen) <=> Precedes(s, e, x) /\ x \notin D
      /\ a = NULL => \A x : ~Precedes(s, x, e)
      /\ a # NULL => /\ a \in Cells /\ Precedes(s, a, e)
                     /\ \A x : Precedes(s, x, e) <=> UpTo(s, a, x)
  BY <1>1, RememberedIs
<1>3. /\ cur.id \in Regions /\ e \in Cells /\ ent[e].path = p /\ e \in ToSet(s)
      /\ ListsFit(ent, mods)
  BY UnloadIs DEF Sound
<1>4. s \in Seq(Cells) /\ IsInjective(s)
  BY <1>3 DEF ListsFit
<1>5. /\ ToSet(s) \subseteq Cells
      /\ \A x \in ToSet(s) : ent[x] # Free /\ ent[x].region = cur.id
      /\ \A x \in ToSet(s) : x # e => ent[x].path # p
  <2>1. ToSet(s) \subseteq Cells
    BY <1>4, SequenceElements
  <2>2. \A x \in ToSet(s) : ent[x] # Free /\ ent[x].region = cur.id
    BY <1>3, <2>1 DEF ListsFit
  <2> QED BY <1>3, <2>1, <2>2 DEF ListsFit
<1>6. /\ t \in Seq(Cells) /\ ToSet(t) = ToSet(s) \cap (Cells \ D)
      /\ \A x, y \in ToSet(s) \cap (Cells \ D) : Precedes(t, x, y) <=> Precedes(s, x, y)
  <2> DEFINE S == Cells \ D
             u == Only(s, S)
  <2>1. t = u
    OBVIOUS
  <2> HIDE DEF s, S
  <2>2. u \in Seq(Cells) /\ ToSet(u) = ToSet(s) \cap S
    BY <1>4, OnlyFacts
  <2>3. \A x, y \in ToSet(s) \cap S : Precedes(u, x, y) <=> Precedes(s, x, y)
    BY <1>4, PrecedesOnly
  <2> HIDE DEF u
  <2> QED BY <2>1, <2>2, <2>3 DEF S
<1>7. /\ \A x, y : Precedes(s, x, y) => x \in ToSet(s) /\ y \in ToSet(s) /\ ~Precedes(s, y, x)
                                       /\ x # y
      /\ \A x, y \in ToSet(s) : x = y \/ Precedes(s, x, y) \/ Precedes(s, y, x)
  BY <1>4, PrecedesOrder
<1>8. \A x \in ToSet(s) : x \notin D =>
        E[x] # Free /\ E[x].region = cur.id /\ E[x].path = ent[x].path /\ E[x].path # p
  BY <1>1, <1>3, <1>5 DEF Kept
<1>9. \A x \in Past(f) : x \in ToSet(s) /\ x \notin D
  BY <1>2, <1>7 DEF Past
<1> HIDE DEF s, a
<1>10. f.after # Dangling => f.after = a /\ a \notin D
  BY <1>2 DEF After
<1>11. \A x, y \in ToSet(s) : x \notin D /\ y \notin D => (UpTo(t, x, y) <=> UpTo(s, x, y))
  BY <1>5, <1>6 DEF UpTo
<1>12. Placing(E, t, f)
  <2>1. \A x \in Past(f) : E[x] # Free /\ E[x].region = f.saved.id /\ E[x].path # f.reload
    BY <1>2, <1>8, <1>9
  <2>2. f.after \in Cells => f.after \in ToSet(f.was)
    BY <1>0, <1>2, <1>10
  <2>3. ASSUME f.after # Dangling, NEW y \in ToSet(t)
        PROVE  /\ UpTo(t, f.after, y) => y \notin ToSet(f.seen) /\ E[y].path # f.reload
               /\ y \in ToSet(f.was) => UpTo(t, f.after, y)
    <3>1. y \in ToSet(s) /\ y \notin D /\ y \in Cells /\ f.after = a /\ a \notin D
      BY <1>6, <1>10, <2>3
    <3>2. E[y].path # f.reload
      BY <1>2, <1>8, <3>1
    <3>3. CASE a = NULL
      <4>1. ~UpTo(t, f.after, y)
        BY <1>6, <3>1, <3>3, UpToHead
      <4> QED BY <1>2, <3>1, <3>3, <4>1
    <3>4. CASE a # NULL
      <4>1. UpTo(t, f.after, y) <=> Precedes(s, y, e)
        BY <1>2, <1>7, <1>11, <3>1, <3>4
      <4> QED BY <1>2, <1>7, <3>1, <3>2, <4>1
    <3> QED BY <3>3, <3>4
  <2> QED BY <2>1, <2>2, <2>3 DEF Placing
<1>13. ASSUME NEW h, NEW g, h.after \in Ptr, h.saved.id = cur.id, Placing(ent, s, h),
              Thinned(h, g, D)
       PROVE  Layered(E, t, g, f)
  <2>1. /\ \A x \in Past(h) : x \in ToSet(s)
        /\ h.after = NULL \/ h.after = Dangling \/ h.after \in ToSet(s)
    BY <1>3, <1>13, AfterListed DEF s
  <2>2. \A x \in Past(g) : x \in ToSet(s) /\ x \notin D
    BY <1>13, <2>1 DEF Past, Thinned
  <2>3. \A x \in Past(g) : E[x].path # f.reload
    BY <1>2, <1>8, <2>2
  <2>4. ASSUME g.reload = f.reload, g.after # Dangling, f.after # Dangling, g.after # NULL
        PROVE  UpTo(t, f.after, g.after)
    <3>1. g.after = h.after /\ h.after \notin D /\ h.after \in ToSet(s) /\ h.reload = p
      BY <1>2, <1>13, <2>1, <2>4 DEF Thinned, After
    <3>2. ~UpTo(s, h.after, e)
      BY <1>0, <1>3, <1>5, <1>13, <3>1 DEF Placing
    <3>3. Precedes(s, h.after, e)
      BY <1>3, <1>7, <3>1, <3>2 DEF UpTo
    <3>4. a # NULL /\ UpTo(s, a, h.after)
      BY <1>2, <3>3
    <3>5. a \in ToSet(s) /\ a \notin D /\ f.after = a
      BY <1>2, <1>7, <1>10, <2>4, <3>4
    <3> QED BY <1>11, <3>1, <3>4, <3>5
  <2> QED BY <2>3, <2>4 DEF Layered
<1> QED BY <1>2, <1>12, <1>13 DEF s

\* xy_reload as far as the new image's xy_install.
LEMMA NestReload ==
  ASSUME Sound, Sound', ReloadsNest(ent, mods, frames), NEW p \in Paths, ReloadBegin(p)
  PROVE  ReloadsNest(ent', mods', frames')
<1>1. PICK e \in Loaded, D \in SUBSET Cells :
        /\ e = lookup(p, cur.id) /\ e # NULL /\ ent[e].refs = 1 /\ D = Doomed(e) /\ e \in D
        /\ Freeable(D)
        /\ Begin(p, Without(D), CtxAfter(D), FramesAfter(D), Counted(held, p, cur.id, -1),
                 Remembered(p, e, D))
  BY ReloadIs
<1> DEFINE f == Remembered(p, e, D)
           E == Without(D).ent
           M == Without(D).mods
           fs == FramesAfter(D)
           t == Only(mods[cur.id], Cells \ D)
<1>2. PICK c \in Cells, r \in Target(p), img \in Cells \cup {p} :
        Begun(p, E, M, CtxAfter(D), fs, Counted(held, p, cur.id, -1), f, c, r, img)
  BY <1>1, BeginIs
<1>3. EntriesFit(E, live) /\ ListsFit(E, M) /\ FramesFit(E, live, fs) /\ Kept(E, D)
  BY <1>1, ReloadHalfway
<1>4. /\ f \in Frame /\ f.saved = cur /\ f.reload = p
      /\ Placing(E, t, f)
      /\ \A h, g : /\ h.after \in Ptr /\ h.saved.id = cur.id /\ Placing(ent, mods[cur.id], h)
                   /\ Thinned(h, g, D)
                   => Layered(E, t, g, f)
  BY <1>1, RememberedPlaced
<1>5. \A q \in Regions : M[q] = Only(mods[q], Cells \ D)
  BY DEF Without
<1> HIDE DEF f, E, M
<1>6. ReloadsNest(E, M, fs)
  BY <1>3, <1>5, NestFreed
<1>7. /\ r \in Regions /\ cur.id \in Regions /\ live \subseteq Regions /\ frames \in Seq(Frame)
      /\ loading \in Cells \cup {NULL} /\ M[cur.id] = t
  <2>1. /\ r \in Regions /\ cur.id \in Regions /\ live \subseteq Regions /\ frames \in Seq(Frame)
        /\ loading \in Cells \cup {NULL}
    BY TargetFacts DEF Sound, TreeFits, FramesFit
  <2>2. M[cur.id] = t
    BY <1>5, <2>1
  <2> QED BY <2>1, <2>2
<1>8. /\ fs \in Seq(Frame) /\ Len(fs) = Len(frames)
      /\ \A i \in 1..Len(frames) : Thinned(frames[i], fs[i], D)
  BY <1>7, FramesAfterFacts, FramesThinned
<1> HIDE DEF fs, t
<1> DEFINE g == [f EXCEPT !.kind = "install", !.e = c, !.loading = loading]
<1>9. frames' = Append(fs, g)
  BY <1>2 DEF Begun
<1>10. /\ g \in Frame /\ g.kind = "install" /\ g.saved = f.saved /\ g.reload = f.reload
       /\ g.after = f.after /\ g.was = f.was /\ g.seen = f.seen
  <2>1. c \in Ptr
    BY DEF Ptr
  <2> QED BY <1>4, <1>7, <2>1 DEF Frame
<1> HIDE DEF g
<1>11. Placing(E, t, g)
  BY <1>4, <1>10 DEF Placing, Past
<1>12. ASSUME NEW i \in 1..Len(fs), Waiting(fs[i]), fs[i].saved.id = cur.id
       PROVE  Layered(E, t, fs[i], g)
  <2> DEFINE h == frames[i]
  <2>1. i \in 1..Len(frames) /\ Thinned(h, fs[i], D)
    BY <1>8
  <2>2. h.saved.id = cur.id /\ Waiting(h)
    BY <1>12, <2>1 DEF Thinned, Waiting
  <2>3. h \in Frame /\ h.after \in Ptr
    <3>1. h \in Frame
      BY <1>7, <2>1
    <3> QED BY <3>1 DEF Frame
  <2>4. Placing(ent, mods[cur.id], h)
    BY <2>1, <2>2 DEF ReloadsNest
  <2> HIDE DEF h
  <2>5. Layered(E, t, fs[i], f)
    BY <1>4, <2>1, <2>2, <2>3, <2>4
  <2> QED BY <1>10, <2>5 DEF Layered
<1>13. ReloadsNest(E, M, frames')
  BY <1>4, <1>6, <1>7, <1>8, <1>9, <1>10, <1>11, <1>12, NestPush
<1>14. frames' \in Seq(Frame) /\ \A i \in 1..Len(frames') : frames'[i].saved.id \in Regions
  <2>1. live' \subseteq Regions /\ FramesFit(ent', live', frames')
    BY DEF Sound, TreeFits
  <2> QED BY <2>1, SavedRegions
<1>15. E \in [Cells -> Entry \cup {Free}]
  BY <1>3 DEF EntriesFit
<1> QED BY <1>2, <1>3, <1>7, <1>13, <1>14, <1>15, NestBegun

\* The module that a reload finds again is behind the entry it remembers.
LEMMA FoundBehind ==
  ASSUME NEW E, NEW M, ListsFit(E, M), NEW r \in Regions, NEW g, Placing(E, M[r], g),
         g.saved.id = r, g.after \in Ptr, g.after # Dangling, NEW e \in ToSet(M[r]),
         E[e].path = g.reload
  PROVE  /\ g.after = NULL \/ (g.after \in ToSet(M[r]) /\ Precedes(M[r], g.after, e))
         /\ e \notin Past(g)
<1>1. /\ M[r] \in Seq(Cells) /\ IsInjective(M[r])
      /\ g.after = NULL \/ g.after \in ToSet(M[r])
  <2>1. M[r] \in Seq(Cells) /\ IsInjective(M[r])
    BY DEF ListsFit
  <2>2. g.after = NULL \/ g.after = Dangling \/ g.after \in ToSet(M[r])
    BY AfterListed
  <2> QED BY <2>1, <2>2
<1>2. ~UpTo(M[r], g.after, e)
  BY DEF Placing
<1>3. g.after # NULL => Precedes(M[r], g.after, e)
  BY <1>1, <1>2, PrecedesOrder DEF UpTo
<1>4. e \notin Past(g)
  BY DEF Placing
<1> QED BY <1>1, <1>3, <1>4

\* What reload g did to the list s of its region by moving module e.
Move(E, s, g, e, u) ==
  /\ s \in Seq(Cells) /\ IsInjective(s) /\ e \in ToSet(s) /\ E[e].path = g.reload
  /\ g.after # Dangling
  /\ u \in Seq(Cells) /\ ToSet(u) = ToSet(s)
  /\ \A x, y \in ToSet(s) \ {e} : Precedes(u, x, y) <=> Precedes(s, x, y)
  /\ \A y \in ToSet(s) \ {e} : Precedes(u, y, e) <=> UpTo(s, g.after, y)
  /\ \A y \in ToSet(s) \ {e} : Precedes(u, e, y) <=> ~UpTo(s, g.after, y)

\* A reload further out finds its place as before.
LEMMA PlacingMoved ==
  ASSUME NEW E, NEW M, ListsFit(E, M), NEW r \in Regions, NEW g, NEW e, NEW u,
         Move(E, M[r], g, e, u), NEW f, Placing(E, M[r], f), f.saved.id = r, f.after \in Ptr,
         Layered(E, M[r], f, g)
  PROVE  Placing(E, u, f) /\ e \notin Past(f)
<1> DEFINE s == M[r]
<1>1. /\ ToSet(s) \subseteq Cells
      /\ f.after = NULL \/ f.after = Dangling \/ (f.after \in Past(f) /\ f.after \in ToSet(s))
  BY AfterListed
<1>2. e \notin Past(f)
  BY DEF Move, Layered
<1>3. ASSUME f.after # Dangling, NEW y \in ToSet(u)
      PROVE  /\ UpTo(u, f.after, y) => y \notin ToSet(f.seen) /\ E[y].path # f.reload
             /\ y \in ToSet(f.was) => UpTo(u, f.after, y)
  <2>1. /\ y \in ToSet(s) /\ y \in Cells
        /\ UpTo(s, f.after, y) => y \notin ToSet(f.seen) /\ E[y].path # f.reload
        /\ y \in ToSet(f.was) => UpTo(s, f.after, y)
    BY <1>1, <1>3 DEF Move, Placing
  <2>2. CASE f.after = NULL
    <3>1. ~UpTo(u, f.after, y) /\ ~UpTo(s, f.after, y)
      BY <2>1, <2>2, UpToHead DEF Move
    <3> QED BY <2>1, <3>1
  <2>3. CASE f.after # NULL /\ y # e
    <3>1. f.after \in ToSet(s) \ {e} /\ y \in ToSet(s) \ {e}
      BY <1>1, <1>2, <1>3, <2>1, <2>3
    <3>2. UpTo(u, f.after, y) <=> UpTo(s, f.after, y)
      BY <3>1 DEF UpTo, Move
    <3> QED BY <2>1, <3>2
  <2>4. CASE f.after # NULL /\ y = e
    <3>1. f.after \in ToSet(s) \ {e}
      BY <1>1, <1>2, <1>3, <2>4
    <3>2. e \notin ToSet(f.seen) /\ e \notin ToSet(f.was)
      BY <1>2, <2>1, <2>4 DEF Past
    <3>3. ASSUME UpTo(u, f.after, e) PROVE E[e].path # f.reload
      <4>1. Precedes(u, e, f.after)
        BY <3>1, <3>3 DEF UpTo
      <4>2. ~UpTo(s, g.after, f.after)
        BY <3>1, <4>1 DEF Move
      <4>3. f.reload # g.reload
        BY <1>3, <2>4, <4>2 DEF Layered, Move
      <4> QED BY <4>3 DEF Move
    <3> QED BY <2>4, <3>2, <3>3
  <2> QED BY <2>2, <2>3, <2>4
<1>4. Placing(E, u, f)
  BY <1>3 DEF Placing
<1> QED BY <1>2, <1>4

\* Two of them are layered as before.
LEMMA LayeredMoved ==
  ASSUME NEW E, NEW M, ListsFit(E, M), NEW r \in Regions, NEW g, NEW e, NEW u,
         Move(E, M[r], g, e, u),
         NEW f, Placing(E, M[r], f), f.saved.id = r, f.after \in Ptr, e \notin Past(f),
         NEW h, Placing(E, M[r], h), h.saved.id = r, h.after \in Ptr, e \notin Past(h),
         Layered(E, M[r], f, h)
  PROVE  Layered(E, u, f, h)
<1> DEFINE s == M[r]
<1>1. /\ f.after = NULL \/ f.after = Dangling \/ f.after \in ToSet(s) \ {e}
      /\ h.after = NULL \/ h.after = Dangling \/ h.after \in ToSet(s) \ {e}
      /\ ToSet(s) \subseteq Cells /\ s \in Seq(Cells)
  BY AfterListed DEF Move
<1>2. \A x \in Past(f) : E[x].path # h.reload
  BY DEF Layered
<1>3. ASSUME f.reload = h.reload, f.after # Dangling, h.after # Dangling, f.after # NULL
      PROVE  UpTo(u, h.after, f.after)
  <2>1. UpTo(s, h.after, f.after)
    BY <1>3 DEF Layered
  <2>2. h.after # NULL
    BY <1>1, <1>3, <2>1, UpToHead
  <2> QED BY <1>1, <1>3, <2>1, <2>2 DEF UpTo, Move
<1> QED BY <1>2, <1>3 DEF Layered

\* The reload of the innermost frame moves its module.
LEMMA NestMoved ==
  ASSUME NEW E, NEW M, ListsFit(E, M), NEW fs \in Seq(Frame), ReloadsNest(E, M, fs),
         \A i \in 1..Len(fs) : fs[i].saved.id \in Regions, fs # <<>>,
         NEW g, g = fs[Len(fs)], Waiting(g), g.after # Dangling,
         NEW r, r = g.saved.id, NEW e \in ToSet(M[r]), E[e].path = g.reload,
         NEW u, u = Reinserted(M[r], e, g.after), NEW M1, M1 = [M EXCEPT ![r] = u]
  PROVE  /\ ReloadsNest(E, M1, Front(fs)) /\ Move(E, M[r], g, e, u) /\ IsInjective(u)
         /\ Placing(E, M[r], g) /\ e \notin Past(g)
<1> DEFINE n == Len(fs)
           b == Front(fs)
<1>1. n \in Nat \ {0} /\ Len(b) = n - 1 /\ \A i \in 1..n-1 : b[i] = fs[i]
  <2>1. n \in Nat /\ n # 0
    BY SequenceElements
  <2>2. fs[1] \in Frame
    BY <2>1
  <2> QED BY <2>2, FrameFacts
<1>2. \A i \in 1..n : fs[i] \in Frame /\ fs[i].after \in Ptr
  <2>1. \A i \in 1..n : fs[i] \in Frame
    OBVIOUS
  <2> QED BY <2>1 DEF Frame
<1> HIDE DEF b
<1>3. n \in 1..n /\ g.after \in Ptr /\ r \in Regions /\ Placing(E, M[r], g)
  <2>1. n \in 1..n
    BY <1>1
  <2> QED BY <1>2, <2>1 DEF ReloadsNest
<1>4. /\ g.after = NULL \/ (g.after \in ToSet(M[r]) /\ Precedes(M[r], g.after, e))
      /\ e \notin Past(g)
  BY <1>3, FoundBehind
<1>5. M \in [Regions -> Seq(Cells)] /\ M[r] \in Seq(Cells) /\ IsInjective(M[r])
  BY <1>3 DEF ListsFit
<1>6. u \in Seq(Cells) /\ IsInjective(u) /\ ToSet(u) = ToSet(M[r])
  <2>1. g.after = NULL \/ (g.after \in ToSet(M[r]) /\ g.after # e)
    BY <1>4, <1>5, PrecedesOrder
  <2> QED BY <1>5, <2>1, ReinsertedFacts
<1>7. Move(E, M[r], g, e, u)
  <2> DEFINE s == M[r]
             a == g.after
  <2>1. s \in Seq(Cells) /\ IsInjective(s) /\ (a = NULL \/ (a \in ToSet(s) /\ Precedes(s, a, e)))
    BY <1>4, <1>5
  <2>2. u = Reinserted(s, e, a) /\ e \in ToSet(s)
    OBVIOUS
  <2> HIDE DEF s, a
  <2>3. /\ \A x, y \in ToSet(s) \ {e} : Precedes(u, x, y) <=> Precedes(s, x, y)
        /\ \A y \in ToSet(s) \ {e} : /\ Precedes(u, y, e) <=> UpTo(s, a, y)
                                     /\ Precedes(u, e, y) <=> ~UpTo(s, a, y)
    BY <2>1, <2>2, PrecedesMoved
  <2> QED BY <1>5, <1>6, <2>3 DEF Move, s, a
<1>8. M1[r] = u /\ \A q \in Regions : q # r => M1[q] = M[q]
  BY <1>3, <1>5
<1>9. ASSUME NEW i \in 1..n-1, Waiting(fs[i]), fs[i].saved.id = r
      PROVE  /\ Placing(E, M[r], fs[i]) /\ fs[i].after \in Ptr
             /\ Placing(E, u, fs[i]) /\ e \notin Past(fs[i])
  <2>1. i \in 1..n
    BY <1>1
  <2>2. Placing(E, M[r], fs[i]) /\ fs[i].after \in Ptr
    BY <1>2, <1>9, <2>1 DEF ReloadsNest
  <2>3. Layered(E, M[r], fs[i], g)
    BY <1>3, <1>9 DEF ReloadsNest
  <2> DEFINE f == fs[i]
  <2>4. f.saved.id = r /\ Placing(E, M[r], f) /\ f.after \in Ptr /\ Layered(E, M[r], f, g)
    BY <1>9, <2>2, <2>3
  <2> HIDE DEF f
  <2>5. Placing(E, u, f) /\ e \notin Past(f)
    BY <1>3, <1>7, <2>4, PlacingMoved
  <2> QED BY <2>2, <2>5 DEF f
<1>10. ASSUME NEW j \in 1..n-1, Waiting(fs[j])
       PROVE  /\ Placing(E, M1[fs[j].saved.id], fs[j])
              /\ \A i \in 1..j-1 : Waiting(fs[i]) /\ fs[i].saved.id = fs[j].saved.id =>
                   Layered(E, M1[fs[j].saved.id], fs[i], fs[j])
  <2>1. j \in 1..n /\ fs[j].saved.id \in Regions
    BY <1>1
  <2>2. /\ Placing(E, M[fs[j].saved.id], fs[j])
        /\ \A i \in 1..j-1 : Waiting(fs[i]) /\ fs[i].saved.id = fs[j].saved.id =>
             Layered(E, M[fs[j].saved.id], fs[i], fs[j])
    BY <1>10, <2>1 DEF ReloadsNest
  <2>3. CASE fs[j].saved.id # r
    BY <1>8, <2>1, <2>2, <2>3
  <2>4. CASE fs[j].saved.id = r
    <3> DEFINE h == fs[j]
    <3>1. h.saved.id = r /\ Placing(E, M[r], h) /\ h.after \in Ptr /\ Placing(E, u, h)
          /\ e \notin Past(h)
      BY <1>9, <1>10, <2>4
    <3>2. ASSUME NEW i \in 1..j-1, Waiting(fs[i]), fs[i].saved.id = r
          PROVE  Layered(E, u, fs[i], h)
      <4> DEFINE f == fs[i]
      <4>1. i \in 1..n-1
        BY <1>1
      <4>2. f.saved.id = r /\ Placing(E, M[r], f) /\ f.after \in Ptr /\ e \notin Past(f)
        BY <1>9, <3>2, <4>1
      <4>3. Layered(E, M[r], f, h)
        BY <2>2, <2>4, <3>2
      <4> HIDE DEF f, h
      <4>4. Layered(E, u, f, h)
        BY <1>3, <1>7, <3>1, <4>2, <4>3, LayeredMoved
      <4> QED BY <4>4 DEF f
    <3> QED BY <1>8, <2>4, <3>1, <3>2
  <2> QED BY <2>3, <2>4
<1>11. ReloadsNest(E, M1, b)
  <2> SUFFICES ASSUME NEW j \in 1..Len(b), Waiting(b[j])
               PROVE  /\ Placing(E, M1[b[j].saved.id], b[j])
                      /\ \A i \in 1..j-1 : Waiting(b[i]) /\ b[i].saved.id = b[j].saved.id =>
                           Layered(E, M1[b[j].saved.id], b[i], b[j])
    BY DEF ReloadsNest
  <2>1. j \in 1..n-1 /\ b[j] = fs[j] /\ \A i \in 1..j-1 : b[i] = fs[i]
    BY <1>1
  <2> QED BY <1>10, <2>1
<1> QED BY <1>3, <1>4, <1>6, <1>7, <1>11 DEF b

\* Entries and lists stay, and no frame that a reload goes on with is new.
LEMMA NestSame ==
  ASSUME Sound, ReloadsNest(ent, mods, frames), Kept(ent', {}), mods' = mods,
         Len(frames') \in Nat,
         \A i \in 1..Len(frames') : Waiting(frames'[i]) =>
           i \in 1..Len(frames) /\ frames'[i] = frames[i]
  PROVE  ReloadsNest(ent', mods', frames')
<1>1. /\ ListsFit(ent, mods) /\ frames \in Seq(Frame)
      /\ \A i \in 1..Len(frames) : frames[i].saved.id \in Regions
  <2>1. live \subseteq Regions /\ FramesFit(ent, live, frames)
    BY DEF Sound, TreeFits
  <2> QED BY <2>1, SavedRegions DEF Sound
<1> DEFINE E == ent'
           M == mods'
           fs == frames'
<1>2. \A r \in Regions : Evolves(ent, mods[r], E, M[r], {})
  <2> TAKE r \in Regions
  <2>1. M[r] = mods[r] /\ Kept(E, {})
    OBVIOUS
  <2> HIDE DEF E, M
  <2> QED BY <1>1, <2>1, EvolvesLess
<1>3. \A i \in 1..Len(fs) : Waiting(fs[i]) =>
        i \in 1..Len(frames) /\ Waiting(frames[i]) /\ Thinned(frames[i], fs[i], {})
  <2> TAKE i \in 1..Len(fs)
  <2> HAVE Waiting(fs[i])
  <2>1. i \in 1..Len(frames) /\ fs[i] = frames[i]
    OBVIOUS
  <2>2. Thinned(frames[i], fs[i], {})
    BY <2>1, ThinnedSame
  <2> QED BY <2>1, <2>2
<1>4. Len(fs) \in Nat
  OBVIOUS
<1> HIDE DEF E, M, fs
<1>5. ReloadsNest(E, M, fs)
  BY <1>1, <1>2, <1>3, <1>4, NestKept
<1> QED BY <1>5 DEF E, M, fs

\* Nothing moves, and the frames lose the innermost one or get one on top that no
\* reload goes on with.
LEMMA NestQuiet ==
  ASSUME Sound, ReloadsNest(ent, mods, frames), Kept(ent', {}), mods' = mods,
         NEW below, below = frames \/ (frames # <<>> /\ below = Front(frames)),
         frames' = below \/ \E g \in Frame : ~Waiting(g) /\ frames' = Append(below, g)
  PROVE  ReloadsNest(ent', mods', frames')
<1>1. frames \in Seq(Frame) /\ Len(frames) \in Nat
  BY DEF Sound, FramesFit
<1>2. /\ below \in Seq(Frame) /\ Len(below) \in Nat /\ Len(below) <= Len(frames)
      /\ \A i \in 1..Len(below) : i \in 1..Len(frames) /\ below[i] = frames[i]
  <2>1. CASE below = frames
    BY <1>1, <2>1
  <2>2. CASE frames # <<>> /\ below = Front(frames)
    <3>1. Len(frames) # 0
      BY <1>1, <2>2
    <3>2. frames[1] \in Frame
      BY <1>1, <3>1
    <3>3. /\ below \in Seq(Frame) /\ Len(below) = Len(frames) - 1
          /\ \A k \in 1..Len(frames)-1 : below[k] = frames[k]
      BY <1>1, <2>2, <3>2, FrameFacts
    <3> QED BY <1>1, <3>1, <3>3
  <2> QED BY <2>1, <2>2
<1>3. CASE frames' = below
  BY <1>2, <1>3, NestSame
<1>4. CASE \E g \in Frame : ~Waiting(g) /\ frames' = Append(below, g)
  <2>1. PICK g \in Frame : ~Waiting(g) /\ frames' = Append(below, g)
    BY <1>4
  <2>2. /\ Len(frames') = Len(below) + 1 /\ frames'[Len(below) + 1] = g
        /\ \A k \in 1..Len(below) : frames'[k] = below[k]
    BY <1>2, <2>1, FrameFacts
  <2>3. ASSUME NEW i \in 1..Len(frames'), Waiting(frames'[i])
        PROVE  i \in 1..Len(frames) /\ frames'[i] = frames[i]
    <3>1. i \in 1..Len(below)
      BY <1>2, <2>1, <2>2, <2>3
    <3> QED BY <1>2, <2>2, <3>1
  <2>4. Len(frames') \in Nat
    BY <1>2, <2>2
  <2> QED BY <2>3, <2>4, NestSame
<1> QED BY <1>3, <1>4

\* A body begins, or the call has come upon a slot that was freed.
LEMMA NestBody ==
  ASSUME Sound, Sound', ReloadsNest(ent, mods, frames), ent' = ent, mods' = mods, NEW me, NEW c0,
         NEW f \in Frame, f.kind = "body",
         NEW below, below = frames \/ (frames # <<>> /\ below = Front(frames)),
         RunSlot(me, c0, f, below)
  PROVE  ReloadsNest(ent', mods', frames')
<1>1. Kept(ent', {})
  BY DEF Kept
<1>2. CASE me = Dangling
  <2>1. frames' = frames
    BY <1>2 DEF RunSlot
  <2> QED BY <1>1, <2>1, NestQuiet
<1>3. CASE me # Dangling
  <2> DEFINE g == [f EXCEPT !.e = me, !.i = @ + 1,
                            !.changed = ctx[ent[me].img].region # f.saved.id,
                            !.saved = [id |-> f.saved.id, at |-> c0.at],
                            !.seen = Append(@, me)]
  <2>1. frames' = Append(below, g)
    BY <1>3 DEF RunSlot
  <2>2. g.kind = "body"
    BY DEF Frame
  <2> HIDE DEF g
  <2>3. ~Waiting(g)
    BY <2>2 DEF Waiting
  <2>4. below \in Seq(Frame) /\ frames' \in Seq(Frame) /\ frames \in Seq(Frame)
    <3>1. frames \in Seq(Frame) /\ frames' \in Seq(Frame)
      BY DEF Sound, FramesFit
    <3>2. frames # <<>> => Front(frames) \in Seq(Frame)
      BY <3>1, FrameFacts
    <3> QED BY <3>1, <3>2
  <2>5. g \in Frame
    <3>1. Len(frames') = Len(below) + 1 /\ frames'[Len(below) + 1] = g /\ Len(below) \in Nat
      BY <2>1, <2>4
    <3>2. Len(below) + 1 \in 1..Len(frames')
      BY <3>1
    <3> QED BY <2>4, <3>1, <3>2
  <2> QED BY <1>1, <2>1, <2>3, <2>5, NestQuiet
<1> QED BY <1>2, <1>3

\* xy_install returns; if it was a reload's, the module found moves to where the
\* old one was, whatever other reloads are in progress.
LEMMA NestInstallReturn ==
  ASSUME Sound, Sound', ReloadsNest(ent, mods, frames), InstallReturn
  PROVE  ReloadsNest(ent', mods', frames') /\ ReloadKeepsPosition'
<1> DEFINE f == Top
           e == IF f.reload = NULL THEN NULL ELSE lookup(f.reload, f.saved.id)
<1>1. /\ frames # <<>> /\ f.kind = "install" /\ frames' = Front(frames) /\ ent' = ent
      /\ IF e # NULL /\ f.after # Dangling
         THEN /\ mods' = [mods EXCEPT ![f.saved.id] = Reinserted(@, e, f.after)]
              /\ last' = [op |-> "reload", e |-> e, before |-> f.was,
                          behind |-> f.seen, list |-> mods'[f.saved.id]]
         ELSE mods' = mods /\ last' = NoResult
  BY DEF InstallReturn
<1>2. /\ ListsFit(ent, mods) /\ EntriesFit(ent, live) /\ frames \in Seq(Frame)
      /\ \A i \in 1..Len(frames) : frames[i].saved.id \in Regions
  <2>1. live \subseteq Regions /\ FramesFit(ent, live, frames)
    BY DEF Sound, TreeFits
  <2> QED BY <2>1, SavedRegions DEF Sound
<1>3. f = frames[Len(frames)] /\ f \in Frame /\ f.saved.id \in Regions
  <2>1. f = frames[Len(frames)]
    BY DEF Top
  <2> HIDE DEF f
  <2>2. Len(frames) \in Nat \ {0}
    BY <1>1, <1>2
  <2> QED BY <1>2, <2>1, <2>2
<1>4. Kept(ent', {})
  BY <1>1 DEF Kept
<1>5. CASE ~(e # NULL /\ f.after # Dangling)
  <2>1. mods' = mods /\ last' = NoResult
    BY <1>1, <1>5
  <2>2. ReloadsNest(ent', mods', frames')
    BY <1>1, <1>4, <2>1, NestQuiet
  <2>3. last'.op = "none"
    BY <2>1 DEF NoResult
  <2> QED BY <2>2, <2>3 DEF ReloadKeepsPosition
<1>6. CASE e # NULL /\ f.after # Dangling
  <2> DEFINE r == f.saved.id
             s == mods[r]
             u == Reinserted(s, e, f.after)
             M1 == mods'
  <2>1. f.reload \in Paths /\ f.reload # NULL /\ e = lookup(f.reload, r)
    <3>1. f.reload # NULL
      BY <1>6
    <3> QED BY <1>3, <3>1 DEF Frame
  <2>2. e \in ToSet(s) /\ ent[e].path = f.reload
    <3> HIDE DEF f
    <3>1. e # NULL
      BY <1>6
    <3> HIDE DEF e
    <3> QED BY <1>2, <1>3, <2>1, <3>1, LookupFacts
  <2>3. /\ M1 = [mods EXCEPT ![r] = u]
        /\ last' = [op |-> "reload", e |-> e, before |-> f.was, behind |-> f.seen,
                    list |-> M1[r]]
    BY <1>1, <1>6
  <2>4. Waiting(f)
    BY <1>1, <2>1 DEF Waiting
  <2> HIDE DEF e, f, M1
  <2>5. M1[r] = u
    BY <1>2, <1>3, <2>3 DEF ListsFit
  <2>6. /\ ReloadsNest(ent, M1, Front(frames)) /\ Move(ent, mods[r], f, e, u) /\ IsInjective(u)
        /\ Placing(ent, mods[r], f) /\ e \notin Past(f)
    <3>1. /\ r = f.saved.id /\ u = Reinserted(mods[r], e, f.after) /\ M1 = [mods EXCEPT ![r] = u]
          /\ e \in ToSet(mods[r]) /\ ent[e].path = f.reload
      BY <2>2, <2>3
    <3> HIDE DEF r, u
    <3>2. frames # <<>> /\ f = frames[Len(frames)] /\ f.after # Dangling /\ Waiting(f)
      BY <1>1, <1>3, <1>6, <2>4
    <3> QED BY <1>2, <3>1, <3>2, NestMoved
  <2>7. /\ u \in Seq(Cells) /\ ToSet(u) = ToSet(s) /\ ToSet(s) \subseteq Cells
        /\ \A y \in ToSet(s) \ {e} : Precedes(u, y, e) <=> UpTo(s, f.after, y)
        /\ \A y \in ToSet(s) \ {e} : Precedes(u, e, y) <=> ~UpTo(s, f.after, y)
    <3>1. s \in Seq(Cells)
      BY <2>6 DEF Move
    <3>2. ToSet(s) \subseteq Cells
      BY <3>1, SequenceElements
    <3> QED BY <2>6, <3>2 DEF Move
  <2>8. /\ DOMAIN u = 1..Len(u) /\ Len(u) \in Nat
        /\ \A i \in 1..Len(u) : u[i] \in ToSet(s)
        /\ \A i, j \in 1..Len(u) : u[i] = u[j] => i = j
    <3>1. IsInjective(u) /\ u \in Seq(Cells)
      BY <2>6, <2>7
    <3>2. ToSet(u) = ToSet(s)
      BY <2>7
    <3> HIDE DEF u
    <3> QED BY <3>1, <3>2, SequenceElements DEF IsInjective
  <2>9. /\ \A y \in ToSet(s) : y \in ToSet(f.was) => UpTo(s, f.after, y)
        /\ \A y \in ToSet(s) : y \in ToSet(f.seen) => ~UpTo(s, f.after, y)
        /\ e \notin ToSet(f.was) /\ e \notin ToSet(f.seen)
    BY <1>6, <2>2, <2>6, <2>7 DEF Placing, Past
  <2> HIDE DEF u, s
  <2>10. ASSUME NEW i \in 1..Len(u), NEW j \in 1..Len(u), u[i] = e, u[j] \in ToSet(f.was)
         PROVE  j < i
    <3>1. Precedes(u, u[j], e)
      BY <2>7, <2>8, <2>9, <2>10
    <3>2. PICK k, l \in 1..Len(u) : k < l /\ u[k] = u[j] /\ u[l] = e
      BY <3>1 DEF Precedes
    <3> QED BY <2>8, <2>10, <3>2
  <2>11. ASSUME NEW i \in 1..Len(u), NEW j \in 1..Len(u), u[i] = e, u[j] \in ToSet(f.seen)
         PROVE  j > i
    <3>1. Precedes(u, e, u[j])
      BY <2>7, <2>8, <2>9, <2>11
    <3>2. PICK k, l \in 1..Len(u) : k < l /\ u[k] = e /\ u[l] = u[j]
      BY <3>1 DEF Precedes
    <3> QED BY <2>8, <2>11, <3>2
  <2>12. ReloadKeepsPosition'
    <3>1. last'.list = u /\ last'.e = e /\ last'.before = f.was /\ last'.behind = f.seen
      BY <2>3, <2>5
    <3> QED BY <2>8, <2>10, <2>11, <3>1 DEF ReloadKeepsPosition
  <2> QED BY <1>1, <2>6, <2>12 DEF M1
<1> QED BY <1>5, <1>6

\* Whatever a step is, reloads in progress stay in their order.
LEMMA NestNext ==
  ASSUME Sound, Sound', ReloadsNest(ent, mods, frames), ReloadKeepsPosition, [Next]_vars
  PROVE  ReloadsNest(ent', mods', frames') /\ ReloadKeepsPosition'
<1>0. last' = NoResult => ReloadKeepsPosition'
  <2>1. NoResult.op = "none"
    BY DEF NoResult
  <2> QED BY <2>1 DEF ReloadKeepsPosition
<1>1. CASE UNCHANGED vars
  BY <1>1 DEF vars, ReloadKeepsPosition
<1>2. ASSUME NEW p \in Paths,
             \/ LoadReuse(p) \/ LoadRefused(p) \/ LoadNoInstall(p) \/ LoadBegin(p)
             \/ Unload(p) \/ ReloadBegin(p) \/ ReloadShared(p) \/ ReloadLost(p)
      PROVE  ReloadsNest(ent', mods', frames') /\ ReloadKeepsPosition'
  <2>0. last' = NoResult
    BY <1>2 DEF LoadReuse, LoadRefused, LoadNoInstall, LoadBegin, Unload, ReloadBegin,
                ReloadShared, ReloadLost, _mod_unload
  <2>1. CASE LoadReuse(p)
    <3> DEFINE e == lookup(p, cur.id)
    <3>1. /\ ent' = [ent EXCEPT ![e].refs = @ + 1, ![e].shared = TRUE] /\ mods' = mods
          /\ frames' = frames
      BY <2>1 DEF LoadReuse
    <3> HIDE DEF e
    <3>2. Kept(ent', {})
      <4> SUFFICES ASSUME NEW c \in Cells, ent[c] # Free
                   PROVE  /\ ent'[c] # Free /\ ent'[c].path = ent[c].path
                          /\ ent'[c].region = ent[c].region /\ ent'[c].img = ent[c].img
                          /\ ent'[c].parent = ent[c].parent
        BY DEF Kept
      <4>1. ent \in [Cells -> Entry \cup {Free}] /\ ent[c] \in Entry
        BY DEF Sound, EntriesFit
      <4>2. ent'[c] = IF c = e THEN [ent[c] EXCEPT !.refs = @ + 1, !.shared = TRUE] ELSE ent[c]
        BY <3>1, <4>1
      <4>3. ent'[c] \in Entry /\ ent'[c].path = ent[c].path
            /\ ent'[c].region = ent[c].region /\ ent'[c].img = ent[c].img
            /\ ent'[c].parent = ent[c].parent
        <5>1. ent'[c].path = ent[c].path /\ ent'[c].region = ent[c].region
              /\ ent'[c].img = ent[c].img /\ ent'[c].parent = ent[c].parent
          BY <4>1, <4>2 DEF Entry
        <5>2. ent' \in [Cells -> Entry \cup {Free}]
          BY DEF Sound, EntriesFit
        <5>3. ent'[c] # Free
          BY <4>1, <5>1, SetAssumption DEF Entry, Free
        <5> QED BY <5>1, <5>2, <5>3
      <4> QED BY <4>3, EntryNotFree
    <3>3. ReloadsNest(ent', mods', frames')
      BY <3>1, <3>2, NestQuiet
    <3> QED BY <1>0, <2>0, <3>3
  <2>2. CASE LoadRefused(p) \/ LoadNoInstall(p) \/ ReloadShared(p)
    <3>1. UNCHANGED <<ent, mods, frames>>
      BY <2>2 DEF LoadRefused, LoadNoInstall, ReloadShared, heap
    <3> QED BY <1>0, <2>0, <3>1
  <2>3. CASE LoadBegin(p)
    BY <1>0, <2>0, <2>3, NestLoad
  <2>4. CASE Unload(p) \/ ReloadLost(p)
    <3>1. _mod_unload(p)
      BY <2>4 DEF Unload, ReloadLost
    <3> QED BY <1>0, <2>0, <3>1, NestUnload
  <2>5. CASE ReloadBegin(p)
    BY <1>0, <2>0, <2>5, NestReload
  <2> QED BY <1>2, <2>1, <2>2, <2>3, <2>4, <2>5
<1>3. CASE InstallReturn
  BY <1>3, NestInstallReturn
<1>4. Kept(ent, {}) /\ (ent' = ent => Kept(ent', {}))
  BY DEF Kept
<1>5. CASE Call
  <2>1. last' = NoResult /\ ent' = ent /\ mods' = mods
    BY <1>5 DEF Call
  <2> DEFINE new == Listeners(cur.at)
             f == [BlankFrame EXCEPT !.kind = "body", !.at = cur.at, !.n = Len(new), !.was = new]
  <2>2. \/ frames' = frames
        \/ RunSlot(new[1], cur, f, frames)
    BY <1>5 DEF Call
  <2>3. f \in Frame /\ f.kind = "body"
    <3>1. new \in Seq(Cells) /\ Len(new) \in Nat /\ cur.at \in Regions
      <4>1. cur.at \in live /\ cur.at \in Regions
        BY DEF Sound, TreeFits
      <4> QED BY <4>1, ListenersFacts
    <3> HIDE DEF new
    <3>2. new \in Seq(Slot)
      BY <3>1 DEF Slot
    <3> QED BY <3>1, <3>2, BlankFacts DEF Frame
  <2> HIDE DEF f, new
  <2>4. ReloadsNest(ent', mods', frames')
    BY <1>4, <2>1, <2>2, <2>3, NestQuiet, NestBody
  <2> QED BY <1>0, <2>1, <2>4
<1>6. CASE BodyReturn
  <2> DEFINE f == Top
             c0 == IF f.changed THEN f.saved ELSE cur
             me == slots[f.at][f.i + 1]
  <2>1. /\ frames # <<>> /\ f.kind = "body" /\ ent' = ent /\ mods' = mods
        /\ \/ RunSlot(me, c0, f, Front(frames)) /\ last' = NoResult
           \/ frames' = Front(frames) /\ last' = [op |-> "call", was |-> f.was, seen |-> f.seen]
    BY <1>6 DEF BodyReturn
  <2>2. f \in Frame
    <3>1. frames \in Seq(Frame)
      BY DEF Sound, FramesFit
    <3>2. Len(frames) \in Nat \ {0}
      BY <2>1, <3>1
    <3> QED BY <3>1, <3>2 DEF Top
  <2>3. ReloadKeepsPosition'
    BY <1>0, <2>1 DEF ReloadKeepsPosition
  <2> HIDE DEF f, c0, me
  <2>4. ReloadsNest(ent', mods', frames')
    <3>1. CASE RunSlot(me, c0, f, Front(frames))
      BY <2>1, <2>2, <3>1, NestBody
    <3>2. CASE frames' = Front(frames)
      BY <1>4, <2>1, <3>2, NestQuiet
    <3> QED BY <2>1, <3>1, <3>2
  <2> QED BY <2>3, <2>4
<1>7. CASE (\E r \in live : WithRegion(r)) \/ ScopeReturn \/ \E on \in BOOLEAN : RequireClaim(on)
  <2>1. /\ UNCHANGED <<ent, mods>> /\ last' = NoResult
        /\ \/ frames' = frames
           \/ frames' = Append(frames, BlankFrame)
           \/ frames # <<>> /\ frames' = Front(frames)
    BY <1>7 DEF WithRegion, ScopeReturn, RequireClaim, heap
  <2>2. BlankFrame \in Frame /\ ~Waiting(BlankFrame)
    BY BlankFacts DEF Waiting, Sound
  <2>3. ReloadsNest(ent', mods', frames')
    BY <1>4, <2>1, <2>2, NestQuiet
  <2> QED BY <1>0, <2>1, <2>3
<1>8. CASE Shutdown
  <2>1. frames' = <<>> /\ last' = NoResult
    BY <1>8 DEF Shutdown
  <2>2. Len(frames') = 0
    BY <2>1
  <2>3. ReloadsNest(ent', mods', frames')
    BY <2>2 DEF ReloadsNest
  <2> QED BY <1>0, <2>1, <2>3
<1> QED BY <1>1, <1>2, <1>3, <1>5, <1>6, <1>7, <1>8 DEF Next

\* However the library is used, a reloaded module is behind every entry that was
\* before it and before every entry that was behind it: whatever its cascade took
\* away, and whatever its xy_install loaded, unloaded or reloaded meanwhile.
THEOREM ReloadAlwaysKeepsPosition == Spec => []ReloadKeepsPosition
<1>1. Init => ReloadsNest(ent, mods, frames) /\ ReloadKeepsPosition
  <2> SUFFICES ASSUME Init PROVE ReloadsNest(ent, mods, frames) /\ ReloadKeepsPosition
    OBVIOUS
  <2>1. Len(frames) = 0 /\ last.op = "none"
    BY DEF Init, NoResult
  <2> QED BY <2>1 DEF ReloadsNest, ReloadKeepsPosition
<1>2. Sound /\ Sound' /\ ReloadsNest(ent, mods, frames) /\ ReloadKeepsPosition /\ [Next]_vars
      => (ReloadsNest(ent, mods, frames) /\ ReloadKeepsPosition)'
  BY NestNext
<1> QED BY <1>1, <1>2, SoundAlways, PTL DEF Spec
=============================================================================
