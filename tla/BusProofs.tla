----------------------------- MODULE BusProofs ------------------------------
(***************************************************************************)
(* Dispatch implements HookBus when no image is loaded twice, for every    *)
(* number of regions, modules and hooks: a call runs exactly what the      *)
(* lists say at that moment, whatever the caches went through. On the way, *)
(* the module map and the lists agree, the depth-first walk visits every   *)
(* module of the subtree once, and a region's own denies hold.             *)
(***************************************************************************)
EXTENDS DispatchProofs, SeqLemmas

\* Lists hold entries and regions.
ListsTyped ==
  \A r \in Regions : mods[r] \in Seq(Entries) /\ children[r] \in Seq(Regions)

\* Child lists and ancestor sets describe one tree: children are live and know
\* their parent, no region is its own ancestor, ancestors of ancestors are
\* ancestors, and the way down to any descendant starts with one child.
TreeLinked ==
  /\ \A r \in live : IsInjective(children[r])
  /\ \A r \in live : \A i \in DOMAIN children[r] :
       children[r][i] \in live \ {Root} /\ parent[children[r][i]] = r
  /\ \A x \in live : x # Root => x \notin anc[parent[x]]
  /\ \A x \in live : \A a \in anc[x] : anc[a] \subseteq anc[x] /\ (x \in anc[a] => a = x)
  /\ \A x \in live : \A a \in anc[x] :
       a # x => \E i \in DOMAIN children[a] : children[a][i] \in anc[x]
  /\ \A x \in live : \A a, b \in anc[x] :
       a # Root /\ b # Root /\ parent[a] = parent[b] => a = b

\* Without shared images an unload clears nobody else's callbacks, so a set
\* implementation bit means that the callback is cached.
CallbacksKept ==
  ~SharedImages =>
    /\ \A x, y \in mod_hd : ImageOf[x] = ImageOf[y] => x = y
    /\ \A e \in Entries, h \in Hooks : h \in hook_impl[e] => fn_cache[e][h] = "cb"

\* A region that denies a hook carries the flag; one not allocated denies none.
HookDenyFlagged ==
  /\ \A r \in live : denied_hooks[r] # {} => has_deny[r]
  /\ \A r \in Regions \ live : denied_hooks[r] = {}

\* What the slots of a current vector hold: no module of a blocked path, and
\* every listener unless images are shared. Paths are blocked only in regions
\* that carry the flag.
VectorSound ==
  \A r \in live, h \in Hooks :
    LET v == hook_dispatch[r][h]
    IN  v.region_gen = gen[r] =>
          /\ v.blocked \subseteq Paths
          /\ v.blocked # {} => has_deny[r]
          /\ \A e \in ToSet(v.callable) : PathOf[e] \notin v.blocked
          /\ IsInjective(v.callable)
          /\ ~SharedImages => v.callable = v.mes

\* The inductive invariant of the refinement, beside TablesConsistent.
BusConsistent ==
  /\ ListsTyped /\ TreeLinked /\ MapMatchesLists
  /\ CallbacksKept /\ HookDenyFlagged /\ VectorSound

-----------------------------------------------------------------------------
(* Lists and the module map. *)

\* Lists without common or repeated elements, by positions and by sets.
LEMMA ListsAsSets ==
  ASSUME NEW D, NEW M
  PROVE  (\A r, q \in D : \A i \in DOMAIN M[r], j \in DOMAIN M[q] :
            M[r][i] = M[q][j] => r = q /\ i = j)
         <=> /\ \A r \in D : IsInjective(M[r])
             /\ \A r, q \in D : r # q => ToSet(M[r]) \cap ToSet(M[q]) = {}
<1>1. ASSUME \A r, q \in D : \A i \in DOMAIN M[r], j \in DOMAIN M[q] :
               M[r][i] = M[q][j] => r = q /\ i = j
      PROVE  /\ \A r \in D : IsInjective(M[r])
             /\ \A r, q \in D : r # q => ToSet(M[r]) \cap ToSet(M[q]) = {}
  BY <1>1 DEF IsInjective, ToSet
<1>2. ASSUME \A r \in D : IsInjective(M[r]),
             \A r, q \in D : r # q => ToSet(M[r]) \cap ToSet(M[q]) = {},
             NEW r \in D, NEW q \in D, NEW i \in DOMAIN M[r], NEW j \in DOMAIN M[q],
             M[r][i] = M[q][j]
      PROVE  r = q /\ i = j
  <2>1. M[r][i] \in ToSet(M[r]) /\ M[q][j] \in ToSet(M[q])
    BY DEF ToSet
  <2>2. r = q
    BY <1>2, <2>1
  <2> QED BY <1>2, <2>2 DEF IsInjective
<1> QED BY <1>1, <1>2

\* MapMatchesLists in terms of sets, before and after a step.
LEMMA MapAsSets ==
  /\ MapMatchesLists <=>
       /\ mod_hd = UNION {ToSet(mods[r]) : r \in live}
       /\ \A r \in live : IsInjective(mods[r])
       /\ \A r, q \in live : r # q => ToSet(mods[r]) \cap ToSet(mods[q]) = {}
  /\ MapMatchesLists' <=>
       /\ mod_hd' = UNION {ToSet(mods'[r]) : r \in live'}
       /\ \A r \in live' : IsInjective(mods'[r])
       /\ \A r, q \in live' : r # q => ToSet(mods'[r]) \cap ToSet(mods'[q]) = {}
  BY ListsAsSets DEF MapMatchesLists

\* A step that changes the list of r alone keeps map and lists in agreement
\* when the map changes along with it.
LEMMA ListChange ==
  ASSUME TypeOK, ListsTyped, MapMatchesLists, NEW r \in live, live' = live,
         NEW s \in Seq(Entries), mods' = [mods EXCEPT ![r] = s], children' = children,
         IsInjective(s), \A q \in live \ {r} : ToSet(s) \cap ToSet(mods[q]) = {},
         mod_hd' = (mod_hd \ ToSet(mods[r])) \cup ToSet(s)
  PROVE  ListsTyped' /\ MapMatchesLists'
<1>0. r \in Regions /\ DOMAIN mods = Regions /\ live \subseteq Regions
  BY DEF TypeOK
<1>1. mods'[r] = s /\ \A q \in Regions \ {r} : mods'[q] = mods[q]
  BY <1>0
<1>2. ListsTyped'
  BY <1>1 DEF ListsTyped
<1>3. /\ mod_hd = UNION {ToSet(mods[q]) : q \in live}
      /\ \A q \in live : IsInjective(mods[q])
      /\ \A q, x \in live : q # x => ToSet(mods[q]) \cap ToSet(mods[x]) = {}
  BY MapAsSets
<1>4. \A q \in live' : IsInjective(mods'[q])
  BY <1>0, <1>1, <1>3
<1>5. \A q, x \in live' : q # x => ToSet(mods'[q]) \cap ToSet(mods'[x]) = {}
  BY <1>0, <1>1, <1>3
<1>6. mod_hd' = UNION {ToSet(mods'[q]) : q \in live'}
  <2>1. \A z : z \in mod_hd' <=>
               z \in ToSet(s) \/ (z \notin ToSet(mods[r]) /\ \E q \in live : z \in ToSet(mods[q]))
    BY <1>3
  <2>2. \A z : z \in mod_hd' => \E q \in live : z \in ToSet(mods'[q])
    BY <1>0, <1>1, <2>1
  <2>3. \A q \in live : \A z : z \in ToSet(mods'[q]) => z \in mod_hd'
    <3> TAKE q \in live
    <3> TAKE z
    <3>1. CASE q = r
      BY <1>1, <2>1, <3>1
    <3>2. CASE q # r
      BY <1>0, <1>1, <1>3, <2>1, <3>2
    <3> QED BY <3>1, <3>2
  <2> QED BY <2>2, <2>3
<1>7. MapMatchesLists'
  BY <1>4, <1>5, <1>6, MapAsSets
<1> QED BY <1>2, <1>7

\* Every step keeps the module map and the lists in agreement.
LEMMA ListsStep ==
  ASSUME TablesConsistent, ListsTyped, MapMatchesLists, [Next]_vars
  PROVE  ListsTyped' /\ MapMatchesLists'
<1> USE DEF TablesConsistent
<1>0. /\ mod_hd = UNION {ToSet(mods[q]) : q \in live}
      /\ \A q \in live : IsInjective(mods[q])
      /\ \A q, x \in live : q # x => ToSet(mods[q]) \cap ToSet(mods[x]) = {}
      /\ live \subseteq Regions /\ mod_hd \subseteq used /\ used \subseteq Entries
      /\ \A q \in live : mods[q] \in Seq(Entries)
  BY MapAsSets DEF TypeOK, ListsTyped
<1>a. ASSUME UNCHANGED <<live, children, mods, mod_hd>>
      PROVE  ListsTyped' /\ MapMatchesLists'
  BY <1>a DEF ListsTyped, MapMatchesLists
<1>1. ASSUME NEW p \in live, NEW c \in Regions \ live, Claim(p, c)
      PROVE  ListsTyped' /\ MapMatchesLists'
  <2>1. /\ live' = live \cup {c} /\ mods' = mods /\ mod_hd' = mod_hd
        /\ children' = [children EXCEPT ![p] = <<c>> \o @] /\ mods[c] = <<>>
    BY <1>1 DEF Claim, UnusedBlank
  <2>2. ListsTyped'
    <3>1. <<c>> \o children[p] \in Seq(Regions)
      BY <1>0 DEF ListsTyped
    <3> QED BY <2>1, <3>1 DEF ListsTyped, TypeOK
  <2>3. ToSet(mods[c]) = {} /\ IsInjective(mods[c])
    BY <2>1 DEF ToSet, IsInjective
  <2>4. mod_hd' = UNION {ToSet(mods'[q]) : q \in live'}
    BY <1>0, <2>1, <2>3
  <2>5. /\ \A q \in live' : IsInjective(mods'[q])
        /\ \A q, x \in live' : q # x => ToSet(mods'[q]) \cap ToSet(mods'[x]) = {}
    BY <1>0, <2>1, <2>3
  <2> QED BY <2>2, <2>4, <2>5, MapAsSets
<1>2. ASSUME NEW e \in Entries \ used, NEW r \in live, Add(e, r)
      PROVE  ListsTyped' /\ MapMatchesLists'
  <2> DEFINE s == Append(mods[r], e)
  <2>1. e \notin ToSet(mods[r]) /\ \A q \in live : e \notin ToSet(mods[q])
    BY <1>0
  <2>2. s \in Seq(Entries) /\ ToSet(s) = ToSet(mods[r]) \cup {e} /\ IsInjective(s)
    BY <1>0, <2>1, AppendedFacts
  <2>3. /\ mods' = [mods EXCEPT ![r] = s] /\ live' = live /\ children' = children
        /\ mod_hd' = mod_hd \cup {e}
    BY <1>2 DEF Add, regVars
  <2> HIDE DEF s
  <2>4. \A q \in live \ {r} : ToSet(s) \cap ToSet(mods[q]) = {}
    BY <1>0, <2>1, <2>2
  <2>5. mod_hd' = (mod_hd \ ToSet(mods[r])) \cup ToSet(s)
    BY <1>0, <2>2, <2>3
  <2> QED BY <2>2, <2>3, <2>4, <2>5, ListChange
<1>4. ASSUME NEW r \in live, NEW e \in ToSet(mods[r]), Drop(e, r)
      PROVE  ListsTyped' /\ MapMatchesLists'
  <2> DEFINE s == Unlinked(mods[r], e)
  <2>1. s \in Seq(Entries) /\ ToSet(s) = ToSet(mods[r]) \ {e} /\ IsInjective(s)
    BY <1>0, UnlinkedFacts
  <2>2. /\ mods' = [mods EXCEPT ![r] = s] /\ live' = live /\ children' = children
        /\ mod_hd' = mod_hd \ {e}
    BY <1>4 DEF Drop, regVars
  <2> HIDE DEF s
  <2>3. \A q \in live \ {r} : ToSet(s) \cap ToSet(mods[q]) = {}
    BY <1>0, <2>1
  <2>4. mod_hd' = (mod_hd \ ToSet(mods[r])) \cup ToSet(s)
    BY <1>0, <2>1, <2>2
  <2> QED BY <2>1, <2>2, <2>3, <2>4, ListChange
<1>5. ASSUME NEW r \in live, NEW e \in ToSet(mods[r]), NEW i \in DOMAIN mods[r], Move(e, r, i)
      PROVE  ListsTyped' /\ MapMatchesLists'
  <2> DEFINE u == Unlinked(mods[r], e)
             s == InsertAt(u, i, e)
  <2>1. /\ u \in Seq(Entries) /\ Len(u) = Len(mods[r]) - 1
        /\ ToSet(u) = ToSet(mods[r]) \ {e} /\ IsInjective(u)
    BY <1>0, UnlinkedFacts
  <2>2. mods' = [mods EXCEPT ![r] = s] /\ live' = live /\ children' = children /\ mod_hd' = mod_hd
    BY <1>5 DEF Move, regVars
  <2> HIDE DEF u
  <2>3. i \in 1..Len(u)+1 /\ e \in Entries /\ e \notin ToSet(u)
    <3>1. mods[r] \in Seq(Entries)
      BY <1>0
    <3>2. i \in 1..Len(mods[r]) /\ Len(mods[r]) \in Nat
      BY <3>1
    <3>3. e \in Entries
      BY <3>1 DEF ToSet
    <3> QED BY <2>1, <3>2, <3>3
  <2>4. s \in Seq(Entries) /\ ToSet(s) = ToSet(u) \cup {e} /\ IsInjective(s)
    BY <2>1, <2>3, InsertedFacts
  <2> HIDE DEF s
  <2>5. ToSet(s) = ToSet(mods[r])
    BY <2>1, <2>4
  <2>6. \A q \in live \ {r} : ToSet(s) \cap ToSet(mods[q]) = {}
    BY <1>0, <2>5
  <2>7. mod_hd' = (mod_hd \ ToSet(mods[r])) \cup ToSet(s)
    BY <1>0, <2>2, <2>5
  <2> QED BY <2>2, <2>4, <2>6, <2>7, ListChange
<1>11. ASSUME Shutdown PROVE ListsTyped' /\ MapMatchesLists'
  <2>1. /\ live' = {Root} /\ Root \in Regions /\ mod_hd' = {}
        /\ \A r \in Regions : mods'[r] = <<>> /\ children'[r] = <<>>
    BY <1>11, TableAssumption DEF Shutdown
  <2>2. \A q \in live' : ToSet(mods'[q]) = {} /\ IsInjective(mods'[q])
    BY <2>1 DEF ToSet, IsInjective
  <2>3. mod_hd' = UNION {ToSet(mods'[q]) : q \in live'}
    BY <2>1, <2>2
  <2>4. \A q, x \in live' : q # x => ToSet(mods'[q]) \cap ToSet(mods'[x]) = {}
    BY <2>1
  <2>5. MapMatchesLists'
    BY <2>2, <2>3, <2>4, MapAsSets
  <2>6. \A r \in Regions : mods'[r] \in Seq(Entries) /\ children'[r] \in Seq(Regions)
    <3>1. <<>> \in Seq(Entries) /\ <<>> \in Seq(Regions)
      OBVIOUS
    <3> QED BY <2>1, <3>1
  <2> QED BY <2>5, <2>6 DEF ListsTyped
<1>b. CASE \/ \E r \in live : AddAborted(r)
           \/ \E h \in Hooks : xy_areg(h)
           \/ \E r \in live, h \in Hooks : DenyHook(r, h)
           \/ \E r \in live, p \in Paths : DenyModule(r, p)
           \/ \E r \in live, h \in Hooks : CallRefused(r, h)
           \/ \E r \in live, h \in Hooks : CallDispatched(r, h)
           \/ UNCHANGED vars
  BY <1>a, <1>b DEF AddAborted, xy_areg, DenyHook, DenyModule, DenyIn, CallRefused,
     CallDispatched, regVars, vars
<1> QED BY <1>1, <1>2, <1>4, <1>5, <1>11, <1>b DEF Next

-----------------------------------------------------------------------------
(* The tree. *)

\* A claim extends the tree by a leaf, at the head of its parent's child list.
LEMMA TreeClaim ==
  ASSUME TablesConsistent, ListsTyped, TreeLinked,
         NEW p \in live, NEW c \in Regions \ live, Claim(p, c)
  PROVE  TreeLinked'
<1>0. /\ c # Root /\ c # p /\ p \in Regions /\ Root \in live /\ live \subseteq Regions
      /\ \A x \in live : x \in anc[x] /\ anc[x] \subseteq live /\ c \notin anc[x]
      /\ \A x \in live : x # Root => parent[x] \in live
  BY DEF TablesConsistent, TypeOK, AncestorsClosed
<1> DEFINE s == <<c>> \o children[p]
<1>1. /\ live' = live \cup {c} /\ anc'[c] = anc[p] \cup {c} /\ parent'[c] = p
      /\ \A x \in live : anc'[x] = anc[x] /\ parent'[x] = parent[x]
      /\ children'[p] = s /\ \A x \in Regions \ {p} : children'[x] = children[x]
      /\ children[c] = <<>>
  BY <1>0 DEF Claim, TablesConsistent, TypeOK, UnusedBlank
<1>2. children[p] \in Seq(Regions) /\ DOMAIN children[p] = 1..Len(children[p])
  BY <1>0 DEF ListsTyped
<1>3. /\ DOMAIN s = 1..Len(children[p])+1 /\ s[1] = c
      /\ \A i \in DOMAIN children[p] : i + 1 \in DOMAIN s /\ s[i+1] = children[p][i]
      /\ \A i \in DOMAIN s : i = 1 \/ (i - 1 \in DOMAIN children[p] /\ s[i] = children[p][i-1])
  BY <1>2
<1> HIDE DEF s
<1>4. \A r \in live' : IsInjective(children'[r])
  <2>1. IsInjective(s)
    <3>1. IsInjective(children[p]) /\ \A i \in DOMAIN children[p] : children[p][i] # c
      BY DEF TreeLinked
    <3> SUFFICES ASSUME NEW i \in DOMAIN s, NEW j \in DOMAIN s, s[i] = s[j] PROVE i = j
      BY DEF IsInjective
    <3>2. CASE i = 1 \/ j = 1
      BY <1>3, <3>1, <3>2
    <3>3. CASE i # 1 /\ j # 1
      <4>1. i - 1 = j - 1
        BY <1>3, <3>1, <3>3 DEF IsInjective
      <4> QED BY <1>2, <1>3, <4>1
    <3> QED BY <3>2, <3>3
  <2>2. IsInjective(children[c])
    BY <1>1 DEF IsInjective
  <2> QED BY <1>0, <1>1, <2>1, <2>2 DEF TreeLinked
<1>5. \A r \in live' : \A i \in DOMAIN children'[r] :
        children'[r][i] \in live' \ {Root} /\ parent'[children'[r][i]] = r
  <2> SUFFICES ASSUME NEW r \in live', NEW i \in DOMAIN children'[r]
               PROVE  children'[r][i] \in live' \ {Root} /\ parent'[children'[r][i]] = r
    OBVIOUS
  <2>1. CASE r = p
    <3>1. CASE i = 1
      BY <1>0, <1>1, <1>3, <2>1, <3>1
    <3>2. CASE i # 1
      <4>1. i - 1 \in DOMAIN children[p] /\ children'[r][i] = children[p][i-1]
        BY <1>1, <1>3, <2>1, <3>2
      <4>2. children[p][i-1] \in live \ {Root} /\ parent[children[p][i-1]] = p
        BY <4>1 DEF TreeLinked
      <4> QED BY <1>1, <2>1, <4>1, <4>2
    <3> QED BY <3>1, <3>2
  <2>2. CASE r = c
    BY <1>0, <1>1, <2>2
  <2>3. CASE r \in live \ {p}
    <3>1. children'[r] = children[r]
      BY <1>0, <1>1, <2>3
    <3>2. children[r][i] \in live \ {Root} /\ parent[children[r][i]] = r
      BY <3>1, <2>3 DEF TreeLinked
    <3> QED BY <1>1, <3>1, <3>2
  <2> QED BY <1>1, <2>1, <2>2, <2>3
<1>6. \A x \in live' : x # Root => x \notin anc'[parent'[x]]
  BY <1>0, <1>1 DEF TreeLinked
<1>7. \A x \in live' : \A a \in anc'[x] : anc'[a] \subseteq anc'[x] /\ (x \in anc'[a] => a = x)
  <2> SUFFICES ASSUME NEW x \in live', NEW a \in anc'[x]
               PROVE  anc'[a] \subseteq anc'[x] /\ (x \in anc'[a] => a = x)
    OBVIOUS
  <2>1. CASE x = c
    <3>1. CASE a = c
      BY <2>1, <3>1
    <3>2. CASE a \in anc[p]
      BY <1>0, <1>1, <2>1, <3>2 DEF TreeLinked
    <3> QED BY <1>1, <2>1, <3>1, <3>2
  <2>2. CASE x \in live
    BY <1>0, <1>1, <2>2 DEF TreeLinked
  <2> QED BY <1>1, <2>1, <2>2
<1>8. \A x \in live' : \A a \in anc'[x] :
        a # x => \E i \in DOMAIN children'[a] : children'[a][i] \in anc'[x]
  <2>1. \A a \in live : \A y : (\E i \in DOMAIN children[a] : children[a][i] \in anc[y])
                             => \E i \in DOMAIN children'[a] : children'[a][i] \in anc[y]
    <3> TAKE a \in live
    <3>1. CASE a = p
      BY <1>1, <1>3, <3>1
    <3>2. CASE a # p
      BY <1>0, <1>1, <3>2
    <3> QED BY <3>1, <3>2
  <2> SUFFICES ASSUME NEW x \in live', NEW a \in anc'[x], a # x
               PROVE  \E i \in DOMAIN children'[a] : children'[a][i] \in anc'[x]
    OBVIOUS
  <2>2. CASE x = c
    <3>1. a \in anc[p] /\ a \in live
      BY <1>0, <1>1, <2>2
    <3>2. CASE a = p
      <4>1. 1 \in DOMAIN s
        BY <1>2, <1>3
      <4> QED BY <1>1, <1>3, <2>2, <3>2, <4>1
    <3>3. CASE a # p
      BY <1>1, <2>1, <2>2, <3>1, <3>3 DEF TreeLinked
    <3> QED BY <3>2, <3>3
  <2>3. CASE x \in live
    BY <1>0, <1>1, <2>1, <2>3 DEF TreeLinked
  <2> QED BY <1>1, <2>2, <2>3
<1>9. \A x \in live' : \A a, b \in anc'[x] :
        a # Root /\ b # Root /\ parent'[a] = parent'[b] => a = b
  <2> SUFFICES ASSUME NEW x \in live', NEW a \in anc'[x], NEW b \in anc'[x],
                      a # Root, b # Root, parent'[a] = parent'[b]
               PROVE  a = b
    OBVIOUS
  <2>1. CASE x \in live
    BY <1>0, <1>1, <2>1 DEF TreeLinked
  <2>2. CASE x = c
    <3>1. \A y \in anc[p] : y # Root => parent'[y] # p
      BY <1>0, <1>1 DEF TreeLinked
    <3>2. CASE a = c \/ b = c
      BY <1>1, <2>2, <3>1, <3>2
    <3>3. CASE a # c /\ b # c
      BY <1>0, <1>1, <2>2, <3>3 DEF TreeLinked
    <3> QED BY <3>2, <3>3
  <2> QED BY <1>1, <2>1, <2>2
<1> QED BY <1>4, <1>5, <1>6, <1>7, <1>8, <1>9 DEF TreeLinked

\* Every step keeps child lists and ancestors one tree.
LEMMA TreeStep ==
  ASSUME TablesConsistent, ListsTyped, TreeLinked, [Next]_vars
  PROVE  TreeLinked'
<1>1. CASE \E p \in live, c \in Regions \ live : Claim(p, c)
  BY <1>1, TreeClaim
<1>2. CASE Shutdown
  <2>1. /\ live' = {Root} /\ children'[Root] = <<>> /\ anc'[Root] = {Root}
    BY <1>2, TableAssumption DEF Shutdown
  <2>2. IsInjective(children'[Root])
    BY <2>1 DEF IsInjective
  <2> QED BY <2>1, <2>2 DEF TreeLinked
<1>3. CASE UNCHANGED regVars
  BY <1>3 DEF TreeLinked, regVars
<1> QED BY <1>1, <1>2, <1>3 DEF Next, vars, Add, AddAborted, Drop, Move, xy_areg, DenyHook,
       DenyModule, DenyIn, CallRefused, CallDispatched, regVars

\* The regions below each live region.
Trees == [r \in live |-> Subtree(r)]

\* Live regions with their child lists are a forest in the sense of the walk
\* lemmas.
LEMMA TreeIsForest ==
  ASSUME TablesConsistent, ListsTyped, TreeLinked
  PROVE  /\ IsForest(live, children, Trees) /\ Covers(live, children, Trees)
         /\ \A r \in live : children[r] \in Seq(live)
         /\ \A r \in live : \A i, j \in DOMAIN children[r] :
              i # j => Trees[children[r][i]] \cap Trees[children[r][j]] = {}
<1> USE DEF TablesConsistent
<1>0. /\ live \subseteq Regions /\ IsFiniteSet(Regions)
      /\ \A r \in live : Trees[r] = Subtree(r)
      /\ \A x \in live : x \in anc[x] /\ anc[x] \subseteq live
  BY TableAssumption DEF TypeOK, Trees, AncestorsClosed
<1>1. \A r \in live : \A x : x \in Trees[r] <=> x \in live /\ r \in anc[x]
  BY <1>0 DEF Subtree
<1> HIDE DEF Trees
<1>2. \A r \in live : r \in Trees[r] /\ Trees[r] \subseteq live
  BY <1>0, <1>1
<1>3. \A r \in live : IsFiniteSet(Trees[r])
  BY <1>0, <1>2, FS_Subset
<1>4. \A r \in live : \A i \in DOMAIN children[r] :
        children[r][i] \in live /\ children[r][i] \in Trees[r] \ {r}
  <2> TAKE r \in live
  <2> TAKE i \in DOMAIN children[r]
  <2> DEFINE x == children[r][i]
  <2>1. x \in live /\ x # Root /\ parent[x] = r
    BY DEF TreeLinked
  <2> HIDE DEF x
  <2>2. anc[x] = anc[r] \cup {x} /\ x \notin anc[r]
    BY <2>1 DEF AncestorsClosed, TreeLinked
  <2>3. x \in live /\ x \in Trees[r] \ {r}
    BY <1>0, <1>1, <2>1, <2>2
  <2> QED BY <2>3 DEF x
<1>5. \A r \in live : \A x \in Trees[r] \ {r} : Trees[x] \subseteq Trees[r] \ {r}
  <2> SUFFICES ASSUME NEW r \in live, NEW x \in Trees[r] \ {r}, NEW y \in Trees[x]
               PROVE  y \in Trees[r] /\ y # r
    OBVIOUS
  <2>1. x \in live /\ r \in anc[x] /\ y \in live /\ x \in anc[y]
    BY <1>1
  <2>2. r \in anc[y]
    BY <2>1 DEF TreeLinked
  <2>3. y # r
    BY <2>1 DEF TreeLinked
  <2> QED BY <1>1, <2>1, <2>2, <2>3
<1>6. IsForest(live, children, Trees)
  BY <1>2, <1>3, <1>4, <1>5 DEF IsForest
<1>7. Covers(live, children, Trees)
  <2> SUFFICES ASSUME NEW r \in live
               PROVE  Trees[r] = {r} \cup UNION {Trees[children[r][i]] : i \in DOMAIN children[r]}
    BY DEF Covers
  <2>1. \A i \in DOMAIN children[r] : Trees[children[r][i]] \subseteq Trees[r]
    BY <1>4, <1>5
  <2>2. \A x \in Trees[r] : x = r \/ \E i \in DOMAIN children[r] : x \in Trees[children[r][i]]
    BY <1>1, <1>4 DEF TreeLinked
  <2> QED BY <1>2, <2>1, <2>2
<1>8. \A r \in live : children[r] \in Seq(live)
  <2> TAKE r \in live
  <2>1. children[r] \in Seq(Regions)
    BY <1>0 DEF ListsTyped
  <2>2. \A i \in 1..Len(children[r]) : children[r][i] \in live
    BY <1>4, <2>1
  <2> QED BY <2>1, <2>2
<1>9. \A r \in live : \A i, j \in DOMAIN children[r] :
        i # j => Trees[children[r][i]] \cap Trees[children[r][j]] = {}
  <2> SUFFICES ASSUME NEW r \in live, NEW i \in DOMAIN children[r], NEW j \in DOMAIN children[r],
                      NEW x, x \in Trees[children[r][i]], x \in Trees[children[r][j]]
               PROVE  i = j
    OBVIOUS
  <2>1. x \in live /\ children[r][i] \in anc[x] /\ children[r][j] \in anc[x]
    BY <1>1, <1>4
  <2>2. /\ children[r][i] # Root /\ children[r][j] # Root
        /\ parent[children[r][i]] = r /\ parent[children[r][j]] = r
    BY DEF TreeLinked
  <2>3. children[r][i] = children[r][j]
    BY <2>1, <2>2 DEF TreeLinked
  <2>4. IsInjective(children[r])
    BY DEF TreeLinked
  <2> QED BY <2>3, <2>4 DEF IsInjective
<1> QED BY <1>6, <1>7, <1>8, <1>9

\* The walk below r lists the modules of r's subtree, each of them once
\* (region_collect_subtree_mods and module_dispatch_children).
WalkExact ==
  \A r \in live :
    /\ region_collect_subtree_mods(r) \in Seq(Entries)
    /\ ToSet(region_collect_subtree_mods(r)) = UNION {ToSet(mods[x]) : x \in Subtree(r)}
    /\ IsInjective(region_collect_subtree_mods(r))

\* WalkExact follows from the shape of tree and lists.
LEMMA WalkIsExact ==
  ASSUME TablesConsistent, ListsTyped, TreeLinked, MapMatchesLists
  PROVE  WalkExact
<1>1. /\ IsForest(live, children, Trees) /\ Covers(live, children, Trees)
      /\ \A r \in live : children[r] \in Seq(live)
      /\ \A r \in live : \A i, j \in DOMAIN children[r] :
           i # j => Trees[children[r][i]] \cap Trees[children[r][j]] = {}
  BY TreeIsForest
<1>2. /\ \A r \in live : IsInjective(mods[r])
      /\ \A r, q \in live : r # q => ToSet(mods[r]) \cap ToSet(mods[q]) = {}
  BY MapAsSets
<1>3. ListsApart(live, mods, children, Trees)
  BY <1>1, <1>2 DEF ListsApart
<1>4. \A n \in live : mods[n] \in Seq(Entries) /\ children[n] \in Seq(live)
  BY <1>1 DEF ListsTyped, TablesConsistent, TypeOK
<1>5. \A n \in live :
        /\ Walk(mods, children, Trees, n) \in Seq(Entries)
        /\ ToSet(Walk(mods, children, Trees, n)) = UNION {ToSet(mods[x]) : x \in Trees[n]}
        /\ ListsApart(live, mods, children, Trees) => IsInjective(Walk(mods, children, Trees, n))
  BY <1>1, <1>4, WalkFacts
<1>6. \A r \in live : /\ Trees[r] = Subtree(r)
                      /\ region_collect_subtree_mods(r) = Walk(mods, children, Trees, r)
  BY DEF Trees, Walk, region_collect_subtree_mods
<1> QED BY <1>3, <1>5, <1>6 DEF WalkExact

-----------------------------------------------------------------------------
(* Symbol caches without shared images. *)

\* Looking symbols up never leaves a bit without its callback.
LEMMA ResolveKeeps ==
  ASSUME TypeOK, NEW E, NEW H, Resolve(E, H),
         \A e \in Entries, h \in Hooks : h \in hook_impl[e] => fn_cache[e][h] = "cb"
  PROVE  \A e \in Entries, h \in Hooks : h \in hook_impl'[e] => fn_cache'[e][h] = "cb"
<1> TAKE e \in Entries, h \in Hooks
<1>1. h \in hook_impl'[e] <=>
        \/ h \in hook_impl[e]
        \/ e \in E /\ h \in H /\ fn_cache[e][h] = "unresolved" /\ dlsym(e, h) = "cb"
  BY DEF Resolve
<1>2. fn_cache'[e][h] = IF e \in E /\ h \in H THEN Resolved(e, h) ELSE fn_cache[e][h]
  BY DEF Resolve
<1> QED BY <1>1, <1>2 DEF Resolved

\* Every step keeps the callbacks of loaded modules.
LEMMA CallbacksStep ==
  ASSUME TablesConsistent, MapMatchesLists, CallbacksKept, [Next]_vars
  PROVE  CallbacksKept'
<1> USE DEF TablesConsistent
<1> SUFFICES ASSUME ~SharedImages
             PROVE  /\ \A x, y \in mod_hd' : ImageOf[x] = ImageOf[y] => x = y
                    /\ \A e \in Entries, h \in Hooks : h \in hook_impl'[e] => fn_cache'[e][h] = "cb"
  BY DEF CallbacksKept
<1>0. /\ \A x, y \in mod_hd : ImageOf[x] = ImageOf[y] => x = y
      /\ \A e \in Entries, h \in Hooks : h \in hook_impl[e] => fn_cache[e][h] = "cb"
  BY DEF CallbacksKept
<1>1. CASE UNCHANGED symVars /\ UNCHANGED mod_hd
  BY <1>0, <1>1 DEF symVars
<1>2. ASSUME NEW e \in Entries \ used, NEW r \in live, Add(e, r)
      PROVE  /\ \A x, y \in mod_hd' : ImageOf[x] = ImageOf[y] => x = y
             /\ \A x \in Entries, h \in Hooks : h \in hook_impl'[x] => fn_cache'[x][h] = "cb"
  <2>1. \A x, y \in mod_hd' : ImageOf[x] = ImageOf[y] => x = y
    BY <1>0, <1>2 DEF Add
  <2>2. Resolve({e}, hook_ids)
    BY <1>2 DEF Add
  <2> QED BY <1>0, <2>1, <2>2, ResolveKeeps
<1>3. ASSUME NEW r \in live, NEW e \in ToSet(mods[r]), Drop(e, r)
      PROVE  /\ \A x, y \in mod_hd' : ImageOf[x] = ImageOf[y] => x = y
             /\ \A x \in Entries, h \in Hooks : h \in hook_impl'[x] => fn_cache'[x][h] = "cb"
  <2>1. e \in mod_hd
    BY MapAsSets
  <2>2. \A x \in Entries : fn_cache'[x] = fn_cache[x]
    BY <1>0, <1>3, <2>1 DEF Drop
  <2> QED BY <1>0, <1>3, <2>2 DEF Drop
<1>4. ASSUME NEW h \in Hooks, xy_areg(h)
      PROVE  /\ \A x, y \in mod_hd' : ImageOf[x] = ImageOf[y] => x = y
             /\ \A x \in Entries, k \in Hooks : k \in hook_impl'[x] => fn_cache'[x][k] = "cb"
  <2>1. Resolve(mod_hd, hook_ids') /\ mod_hd' = mod_hd
    BY <1>4 DEF xy_areg
  <2> QED BY <1>0, <2>1, ResolveKeeps
<1>5. ASSUME NEW r \in live, NEW h \in Hooks, CallDispatched(r, h)
      PROVE  /\ \A x, y \in mod_hd' : ImageOf[x] = ImageOf[y] => x = y
             /\ \A x \in Entries, k \in Hooks : k \in hook_impl'[x] => fn_cache'[x][k] = "cb"
  <2>1. mod_hd' = mod_hd /\ (UNCHANGED symVars \/ \E E : Resolve(E, {h}))
    BY <1>5 DEF CallDispatched, region_rebuild_hook_dispatch, symVars
  <2> QED BY <1>0, <1>1, <2>1, ResolveKeeps
<1>6. CASE Shutdown
  BY <1>6 DEF Shutdown
<1> QED BY <1>1, <1>2, <1>3, <1>4, <1>5, <1>6 DEF Next, vars, Claim, AddAborted, Move, DenyHook,
       DenyModule, DenyIn, CallRefused, symVars

\* A denied hook is flagged in its region, whatever the step.
LEMMA HookDenyStep ==
  ASSUME TablesConsistent, HookDenyFlagged, [Next]_vars
  PROVE  HookDenyFlagged'
<1> USE DEF TablesConsistent
<1>1. CASE UNCHANGED <<live, denied_hooks, has_deny>>
  BY <1>1 DEF HookDenyFlagged
<1>2. ASSUME NEW p \in live, NEW c \in Regions \ live, Claim(p, c)
      PROVE  HookDenyFlagged'
  BY <1>2 DEF Claim, denyVars, HookDenyFlagged
<1>3. ASSUME NEW r \in live, DenyIn(r),
             \A q \in Regions \ {r} : denied_hooks'[q] = denied_hooks[q]
      PROVE  HookDenyFlagged'
  <2>1. live' = live /\ has_deny' = [q \in Regions |-> has_deny[q] \/ q \in anc[r]]
    BY <1>3 DEF DenyIn, regVars
  <2>2. live \subseteq Regions /\ r \in anc[r]
    BY DEF TypeOK, AncestorsClosed
  <2>3. \A q \in live : denied_hooks'[q] # {} => has_deny'[q]
    BY <1>3, <2>1, <2>2 DEF HookDenyFlagged
  <2> QED BY <1>3, <2>1, <2>3 DEF HookDenyFlagged
<1>4. ASSUME NEW r \in live, NEW h \in Hooks, DenyHook(r, h)
      PROVE  HookDenyFlagged'
  BY <1>3, <1>4 DEF DenyHook, TypeOK
<1>5. ASSUME NEW r \in live, NEW p \in Paths, DenyModule(r, p)
      PROVE  HookDenyFlagged'
  BY <1>3, <1>5 DEF DenyModule
<1>6. CASE Shutdown
  <2>1. live' = {Root} /\ Root \in Regions /\ \A q \in Regions : denied_hooks'[q] = {}
    BY <1>6, TableAssumption DEF Shutdown
  <2> QED BY <2>1 DEF HookDenyFlagged
<1> QED BY <1>1, <1>2, <1>4, <1>5, <1>6 DEF Next, vars, Add, AddAborted, Drop, Move, xy_areg,
       CallRefused, CallDispatched, regVars, denyVars

-----------------------------------------------------------------------------
(* Listener vectors. *)

\* A step that leaves the vectors alone and never lowers a generation makes
\* no vector current that was not.
LEMMA CurrentWasCurrent ==
  ASSUME TablesConsistent, TypeOK', hook_dispatch' = hook_dispatch,
         \A q \in Regions : gen'[q] >= gen[q]
  PROVE  \A q \in live', h \in Hooks : hook_dispatch'[q][h].region_gen = gen'[q] =>
           q \in live /\ hook_dispatch[q][h].region_gen = gen[q]
<1> USE DEF TablesConsistent
<1> TAKE q \in live', h \in Hooks
<1> SUFFICES ASSUME hook_dispatch[q][h].region_gen = gen'[q]
             PROVE  q \in live /\ hook_dispatch[q][h].region_gen = gen[q]
  OBVIOUS
<1>1. q \in Regions /\ gen'[q] \in Nat \ {0} /\ gen[q] \in Nat
  BY DEF TypeOK
<1>2. q \in live
  BY <1>1 DEF UnusedBlank, NoVector
<1> QED BY <1>1, <1>2 DEF VectorNotAhead

\* What a call that gets through leaves in its slot vector: the vector that
\* was current, or one built from the walk.
LEMMA DispatchedVector ==
  ASSUME TablesConsistent, NEW r \in live, NEW h \in Hooks, CallDispatched(r, h)
  PROVE  LET all == region_collect_subtree_mods(r)
             keep == {e \in Considered(r, all) : h \in hook_impl'[e]}
         IN  /\ \A q \in live, k \in Hooks : q # r \/ k # h =>
                   hook_dispatch'[q][k] = hook_dispatch[q][k]
             /\ hook_dispatch'[r][h].region_gen = gen[r]
             /\ \/ hook_dispatch'[r][h] = hook_dispatch[r][h]
                \/ /\ hook_dispatch'[r][h].callable = Only(all, {e \in keep : fn_cache'[e][h] = "cb"})
                   /\ hook_dispatch'[r][h].mes = Only(all, keep)
                   /\ hook_dispatch'[r][h].blocked = Blocked(r)
<1> DEFINE all == region_collect_subtree_mods(r)
           keep == {e \in Considered(r, all) : h \in hook_impl'[e]}
           fresh == [region_gen |-> gen[r], mes |-> Only(all, keep),
                     callable |-> Only(all, {e \in keep : fn_cache'[e][h] = "cb"}),
                     blocked |-> Blocked(r)]
<1>1. (IF dirty[r] THEN all ELSE subtree_mods[r]) = all
  BY DEF TablesConsistent, SubtreeCacheExact
<1>2. /\ hook_dispatch[r][h].region_gen # gen[r] =>
           hook_dispatch' = [hook_dispatch EXCEPT ![r][h] = fresh]
      /\ hook_dispatch[r][h].region_gen = gen[r] => hook_dispatch' = hook_dispatch
  BY <1>1 DEF CallDispatched, region_rebuild_hook_dispatch
<1>3. /\ fresh.region_gen = gen[r] /\ fresh.mes = Only(all, keep) /\ fresh.blocked = Blocked(r)
      /\ fresh.callable = Only(all, {e \in keep : fn_cache'[e][h] = "cb"})
  OBVIOUS
<1> HIDE DEF fresh, keep, all
<1>4. \A q \in live, k \in Hooks : q # r \/ k # h => hook_dispatch'[q][k] = hook_dispatch[q][k]
  BY <1>2 DEF TablesConsistent, TypeOK
<1>5. hook_dispatch'[r][h] = IF hook_dispatch[r][h].region_gen = gen[r]
                             THEN hook_dispatch[r][h] ELSE fresh
  BY <1>2 DEF TablesConsistent, TypeOK
<1> QED BY <1>3, <1>4, <1>5 DEF keep, all

\* A rebuilt vector is sound; every other step leaves the vectors alone or
\* makes the ones it could falsify out of date.
LEMMA VectorStep ==
  ASSUME TablesConsistent, BusConsistent, [Next]_vars, TablesConsistent', CallbacksKept'
  PROVE  VectorSound'
<1> USE DEF TablesConsistent
<1>1. ASSUME hook_dispatch' = hook_dispatch, \A q \in Regions : gen'[q] >= gen[q],
             \A q \in live : has_deny[q] => has_deny'[q]
      PROVE  VectorSound'
  <2>1. \A q \in live', h \in Hooks : hook_dispatch'[q][h].region_gen = gen'[q] =>
          q \in live /\ hook_dispatch[q][h].region_gen = gen[q]
    BY <1>1, CurrentWasCurrent
  <2> QED BY <1>1, <2>1 DEF BusConsistent, VectorSound
<1>2. \A q \in Regions : gen[q] \in Nat /\ gen[q] >= gen[q] /\ gen[q] + 1 >= gen[q]
  BY DEF TypeOK
<1>3. ASSUME NEW r \in live, region_dispatch_gen_bump(r)
      PROVE  \A q \in Regions : gen'[q] >= gen[q]
  BY <1>2, <1>3 DEF region_dispatch_gen_bump
<1>4. CASE \/ \E p \in live, c \in Regions \ live : Claim(p, c)
           \/ \E e \in Entries \ used, r \in live : Add(e, r)
           \/ \E r \in live : AddAborted(r)
           \/ \E r \in live : \E e \in ToSet(mods[r]) : Drop(e, r)
           \/ \E r \in live : \E e \in ToSet(mods[r]), i \in DOMAIN mods[r] : Move(e, r, i)
  <2>1. hook_dispatch' = hook_dispatch /\ has_deny' = has_deny
    BY <1>4 DEF Claim, Add, AddAborted, Drop, Move, cacheVars, denyVars
  <2>2. \E r \in live : region_dispatch_gen_bump(r)
    BY <1>4 DEF Claim, Add, AddAborted, Drop, Move, region_mark_subtree_dirty
  <2> QED BY <1>1, <1>3, <2>1, <2>2
<1>5. CASE \/ \E r \in live, h \in Hooks : DenyHook(r, h)
           \/ \E r \in live, p \in Paths : DenyModule(r, p)
  <2>1. PICK r \in live : DenyIn(r)
    BY <1>5 DEF DenyHook, DenyModule
  <2>2. hook_dispatch' = hook_dispatch /\ region_dispatch_gen_bump(r)
    BY <2>1 DEF DenyIn, cacheVars
  <2>3. \A q \in live : has_deny[q] => has_deny'[q]
    BY <2>1 DEF DenyIn, TypeOK
  <2> QED BY <1>1, <1>3, <2>2, <2>3
<1>6. CASE \/ \E h \in Hooks : xy_areg(h)
           \/ \E r \in live, h \in Hooks : CallRefused(r, h)
           \/ UNCHANGED vars
  <2>1. hook_dispatch' = hook_dispatch /\ has_deny' = has_deny /\ gen' = gen
    BY <1>6 DEF xy_areg, CallRefused, cacheVars, denyVars, vars
  <2> QED BY <1>1, <1>2, <2>1
<1>7. ASSUME NEW r \in live, NEW h \in Hooks, CallDispatched(r, h)
      PROVE  VectorSound'
  <2> DEFINE all == region_collect_subtree_mods(r)
             keep == {e \in Considered(r, all) : h \in hook_impl'[e]}
             ran == {e \in keep : fn_cache'[e][h] = "cb"}
             v == hook_dispatch'[r][h]
  <2>1. /\ \A q \in live, k \in Hooks : q # r \/ k # h =>
             hook_dispatch'[q][k] = hook_dispatch[q][k]
        /\ v.region_gen = gen[r]
        /\ \/ v = hook_dispatch[r][h]
           \/ v.callable = Only(all, ran) /\ v.mes = Only(all, keep) /\ v.blocked = Blocked(r)
    BY <1>7, DispatchedVector
  <2>2. /\ live' = live /\ gen' = gen /\ has_deny' = has_deny
    BY <1>7 DEF CallDispatched, regVars, denyVars
  <2>3. all \in Seq(Entries) /\ IsInjective(all)
    BY WalkIsExact DEF BusConsistent, WalkExact
  <2>4. Blocked(r) \subseteq Paths /\ (Blocked(r) # {} => has_deny[r])
    <3>1. Chain(r) \subseteq Regions /\ (Chain(r) # {} => has_deny[r])
      BY DEF Chain, AncestorsClosed, TypeOK
    <3> QED BY <3>1 DEF Blocked, TypeOK
  <2>5. \A e \in keep : e \in Entries /\ PathOf[e] \notin Blocked(r) /\ h \in hook_impl'[e]
    BY DEF Considered
  <2>6. ~SharedImages => ran = keep
    BY <2>5 DEF CallbacksKept
  <2> HIDE DEF keep, all
  <2>7. /\ ToSet(Only(all, ran)) = ToSet(all) \cap ran /\ IsInjective(Only(all, ran))
    BY <2>3, OnlyFacts
  <2>8. ASSUME v.callable = Only(all, ran), v.mes = Only(all, keep), v.blocked = Blocked(r)
        PROVE  /\ v.blocked \subseteq Paths
               /\ v.blocked # {} => has_deny[r]
               /\ \A e \in ToSet(v.callable) : PathOf[e] \notin v.blocked
               /\ IsInjective(v.callable)
               /\ ~SharedImages => v.callable = v.mes
    <3>1. \A e \in ToSet(v.callable) : e \in keep
      BY <2>7, <2>8
    <3> HIDE DEF ran, v
    <3>2. \A e \in ToSet(v.callable) : PathOf[e] \notin v.blocked
      BY <2>5, <2>8, <3>1
    <3>3. ~SharedImages => v.callable = v.mes
      BY <2>6, <2>8
    <3> QED BY <2>4, <2>7, <2>8, <3>2, <3>3
  <2> HIDE DEF ran
  <2>9. VectorSound
    BY DEF BusConsistent
  <2> SUFFICES ASSUME NEW q \in live, NEW k \in Hooks, hook_dispatch'[q][k].region_gen = gen[q]
               PROVE  /\ hook_dispatch'[q][k].blocked \subseteq Paths
                      /\ hook_dispatch'[q][k].blocked # {} => has_deny[q]
                      /\ \A e \in ToSet(hook_dispatch'[q][k].callable) :
                           PathOf[e] \notin hook_dispatch'[q][k].blocked
                      /\ IsInjective(hook_dispatch'[q][k].callable)
                      /\ ~SharedImages => hook_dispatch'[q][k].callable = hook_dispatch'[q][k].mes
    BY <2>2 DEF VectorSound
  <2>10. CASE hook_dispatch'[q][k] = hook_dispatch[q][k]
    BY <2>9, <2>10 DEF VectorSound
  <2>11. CASE q = r /\ k = h /\ v # hook_dispatch[r][h]
    BY <2>1, <2>8, <2>11
  <2> QED BY <2>1, <2>10, <2>11
<1>8. CASE Shutdown
  <2>1. \A q \in live', h \in Hooks : hook_dispatch'[q][h].region_gen = 0 /\ gen'[q] = 1
    BY <1>8, TableAssumption DEF Shutdown, NoVector
  <2> QED BY <2>1 DEF VectorSound
<1> QED BY <1>4, <1>5, <1>6, <1>7, <1>8 DEF Next

-----------------------------------------------------------------------------
(* The invariant. *)

\* The tables bootstrap creates satisfy it.
LEMMA InitBus == Init => BusConsistent
<1> SUFFICES ASSUME Init PROVE BusConsistent
  OBVIOUS
<1>1. /\ live = {Root} /\ Root \in Regions /\ mod_hd = {}
      /\ \A r \in Regions : mods[r] = <<>> /\ children[r] = <<>> /\ denied_hooks[r] = {}
      /\ anc[Root] = {Root}
      /\ \A r \in Regions, h \in Hooks : hook_dispatch[r][h].region_gen = 0 /\ gen[r] = 1
      /\ \A e \in Entries : hook_impl[e] = {}
  BY TableAssumption DEF Init, NoVector
<1>2. ToSet(<<>>) = {} /\ IsInjective(<<>>) /\ <<>> \in Seq(Entries) /\ <<>> \in Seq(Regions)
  BY DEF ToSet, IsInjective
<1>3. ListsTyped
  BY <1>1, <1>2 DEF ListsTyped
<1>4. MapMatchesLists
  <2>1. mod_hd = UNION {ToSet(mods[r]) : r \in live}
    BY <1>1, <1>2
  <2> QED BY <1>1, <1>2, <2>1, MapAsSets
<1>5. TreeLinked
  BY <1>1, <1>2 DEF TreeLinked
<1>6. CallbacksKept /\ HookDenyFlagged /\ VectorSound
  BY <1>1 DEF CallbacksKept, HookDenyFlagged, VectorSound
<1> QED BY <1>3, <1>4, <1>5, <1>6 DEF BusConsistent

\* Every step keeps it.
LEMMA NextBus ==
  ASSUME TablesConsistent, BusConsistent, [Next]_vars
  PROVE  TablesConsistent' /\ BusConsistent'
<1>1. TablesConsistent'
  BY NextTables
<1>2. ListsTyped' /\ MapMatchesLists'
  BY ListsStep DEF BusConsistent
<1>3. TreeLinked'
  BY TreeStep DEF BusConsistent
<1>4. CallbacksKept'
  BY CallbacksStep DEF BusConsistent
<1>5. HookDenyFlagged'
  BY HookDenyStep DEF BusConsistent
<1>6. VectorSound'
  BY <1>1, <1>4, VectorStep
<1> QED BY <1>1, <1>2, <1>3, <1>4, <1>5, <1>6 DEF BusConsistent

\* Lists, tree, denies and vectors stay consistent in every reachable state.
THEOREM BusAlways == Spec => [](TablesConsistent /\ BusConsistent)
<1>1. Init => TablesConsistent /\ BusConsistent
  BY InitTables, InitBus
<1>2. TablesConsistent /\ BusConsistent /\ [Next]_vars => (TablesConsistent /\ BusConsistent)'
  BY NextBus
<1> QED BY <1>1, <1>2, PTL DEF Spec

\* The module map and the region lists hold the same entries and no entry is
\* on two lists: loads, unloads, reloads and aborted loads change both.
THEOREM MapAlwaysMatchesLists == Spec => []MapMatchesLists
<1>1. BusConsistent => MapMatchesLists
  BY DEF BusConsistent
<1> QED BY <1>1, BusAlways, PTL

\* region_collect_subtree_mods terminates on every reachable tree and lists
\* each module of the subtree once and no other.
THEOREM WalkVisitsOnce == Spec => []WalkExact
<1>1. TablesConsistent /\ BusConsistent => WalkExact
  BY WalkIsExact DEF BusConsistent
<1> QED BY <1>1, BusAlways, PTL

-----------------------------------------------------------------------------
(* Calls. *)

\* What a step leaves in last: nothing, the outcome of a refused call, or the
\* callbacks of the caller's vector, which is then current.
LEMMA CallOutcome ==
  ASSUME TablesConsistent, BusConsistent, [Next]_vars
  PROVE  \/ last' = NoCall
         \/ \E r \in live, h \in Hooks : CallRefused(r, h)
         \/ \E r \in live, h \in Hooks :
              /\ CallDispatched(r, h)
              /\ hook_dispatch'[r][h].region_gen = gen'[r]
              /\ r \in live' /\ h \notin denied_hooks'[r]
              /\ last' = [op |-> "call", at |-> r, hook |-> h,
                          err |-> IF hook_dispatch'[r][h].callable = <<>> THEN "NOTFOUND" ELSE "OK",
                          ran |-> hook_dispatch'[r][h].callable]
         \/ UNCHANGED vars
<1>1. ASSUME NEW r \in live, NEW h \in Hooks, CallDispatched(r, h)
      PROVE  /\ hook_dispatch'[r][h].region_gen = gen'[r]
             /\ r \in live' /\ h \notin denied_hooks'[r]
             /\ last' = [op |-> "call", at |-> r, hook |-> h,
                         err |-> IF hook_dispatch'[r][h].callable = <<>> THEN "NOTFOUND" ELSE "OK",
                         ran |-> hook_dispatch'[r][h].callable]
  <2>1. hook_dispatch'[r][h].region_gen = gen[r]
    BY <1>1, DispatchedVector
  <2>2. gen' = gen /\ live' = live /\ denied_hooks' = denied_hooks /\ ~HookDenied(r, h)
    BY <1>1 DEF CallDispatched, regVars, denyVars
  <2>3. h \notin denied_hooks[r]
    BY <2>2 DEF HookDenied, Chain, BusConsistent, HookDenyFlagged, TablesConsistent, AncestorsClosed
  <2>4. last' = [op |-> "call", at |-> r, hook |-> h,
                 err |-> IF hook_dispatch'[r][h].callable = <<>> THEN "NOTFOUND" ELSE "OK",
                 ran |-> hook_dispatch'[r][h].callable]
    BY <1>1 DEF CallDispatched, Outcome
  <2> QED BY <2>1, <2>2, <2>3, <2>4
<1> QED BY <1>1 DEF Next, Claim, Add, AddAborted, Drop, Move, xy_areg, DenyHook, DenyModule,
       DenyIn, Shutdown

\* A denied hook or module never runs in a call made from the region that
\* denied it, whatever was cached, unloaded or reloaded in between.
THEOREM OwnDenyAlwaysEnforced == Spec => []OwnDenyEnforced
<1>1. Init => OwnDenyEnforced
  BY DEF Init, OwnDenyEnforced, NoCall
<1>2. TablesConsistent /\ BusConsistent /\ OwnDenyEnforced /\ [Next]_vars => OwnDenyEnforced'
  <2> SUFFICES ASSUME TablesConsistent, BusConsistent, OwnDenyEnforced, [Next]_vars
               PROVE  OwnDenyEnforced'
    OBVIOUS
  <2>0. VectorSound' /\ VectorHonoursOwnDeny' /\ TypeOK'
    BY NextBus DEF BusConsistent, TablesConsistent
  <2>1. CASE last' = NoCall
    BY <2>1 DEF OwnDenyEnforced, NoCall
  <2>2. CASE \E r \in live, h \in Hooks : CallRefused(r, h)
    BY <2>2 DEF CallRefused, Outcome, OwnDenyEnforced
  <2>3. ASSUME NEW r \in live, NEW h \in Hooks, CallDispatched(r, h),
               hook_dispatch'[r][h].region_gen = gen'[r], r \in live', h \notin denied_hooks'[r],
               last' = [op |-> "call", at |-> r, hook |-> h,
                        err |-> IF hook_dispatch'[r][h].callable = <<>> THEN "NOTFOUND" ELSE "OK",
                        ran |-> hook_dispatch'[r][h].callable]
        PROVE  OwnDenyEnforced'
    <3>1. /\ \A e \in ToSet(hook_dispatch'[r][h].callable) :
               PathOf[e] \notin hook_dispatch'[r][h].blocked
          /\ denied_mods'[r] \subseteq hook_dispatch'[r][h].blocked
      BY <2>0, <2>3 DEF VectorSound, VectorHonoursOwnDeny
    <3>2. last'.at = r /\ last'.hook = h /\ last'.ran = hook_dispatch'[r][h].callable
      BY <2>3
    <3>3. \A i \in DOMAIN last'.ran : PathOf[last'.ran[i]] \notin denied_mods'[r]
      BY <3>1, <3>2 DEF ToSet
    <3> QED BY <2>3, <3>2, <3>3 DEF OwnDenyEnforced
  <2>4. CASE UNCHANGED vars
    BY <2>4 DEF vars, OwnDenyEnforced
  <2> QED BY <2>1, <2>2, <2>3, <2>4, CallOutcome
<1> QED BY <1>1, <1>2, BusAlways, PTL DEF Spec

\* Unless an image is loaded into several regions, every listener of a call
\* that got through runs, once and in order: unloads elsewhere cost it nothing.
THEOREM EveryListenerRunsUnshared ==
  ASSUME ~SharedImages
  PROVE  Spec => []EveryListenerRuns
<1>1. Init => EveryListenerRuns
  BY DEF Init, EveryListenerRuns, NoCall
<1>2. TablesConsistent /\ BusConsistent /\ EveryListenerRuns /\ [Next]_vars => EveryListenerRuns'
  <2> SUFFICES ASSUME TablesConsistent, BusConsistent, EveryListenerRuns, [Next]_vars
               PROVE  EveryListenerRuns'
    OBVIOUS
  <2>1. CASE last' = NoCall
    BY <2>1 DEF EveryListenerRuns, NoCall
  <2>2. CASE \E r \in live, h \in Hooks : CallRefused(r, h)
    BY <2>2 DEF CallRefused, Outcome, EveryListenerRuns
  <2>3. ASSUME NEW r \in live, NEW h \in Hooks, CallDispatched(r, h),
               hook_dispatch'[r][h].region_gen = gen'[r], r \in live', h \notin denied_hooks'[r],
               last' = [op |-> "call", at |-> r, hook |-> h,
                        err |-> IF hook_dispatch'[r][h].callable = <<>> THEN "NOTFOUND" ELSE "OK",
                        ran |-> hook_dispatch'[r][h].callable]
        PROVE  EveryListenerRuns'
    <3>1. TablesConsistent' /\ BusConsistent'
      BY NextBus
    <3>2. hook_dispatch'[r][h].callable =
            Only(region_collect_subtree_mods(r)',
                 ListenersAmong(region_collect_subtree_mods(r)', h, hook_dispatch'[r][h].blocked))
      <4>1. hook_dispatch'[r][h].callable = hook_dispatch'[r][h].mes
        BY <2>3, <3>1 DEF BusConsistent, VectorSound
      <4> QED BY <2>3, <3>1, <4>1 DEF TablesConsistent, VectorExact, ListenersAmong
    <3>3. last'.at = r /\ last'.hook = h /\ last'.ran = hook_dispatch'[r][h].callable
      BY <2>3
    <3> QED BY <3>2, <3>3 DEF EveryListenerRuns, ListenersAmong
  <2>4. CASE UNCHANGED vars
    <3>1. UNCHANGED regVars /\ mods' = mods
      BY <2>4 DEF vars, regVars
    <3>2. \A q : region_collect_subtree_mods(q)' = region_collect_subtree_mods(q)
      BY <3>1, TreeUnchanged
    <3> QED BY <2>4, <3>2 DEF vars, EveryListenerRuns, ListenersAmong
  <2> QED BY <2>1, <2>2, <2>3, <2>4, CallOutcome
<1> QED BY <1>1, <1>2, BusAlways, PTL DEF Spec

-----------------------------------------------------------------------------
(* Refinement. *)

\* HookBus reads the same tree and the same vectors.
LEMMA SameOperators ==
  /\ \A M, C, r : HB!CollectOf(M, C, r) = CollectOf(M, C, r)
  /\ \A s, S : HB!Only(s, S) = Only(s, S)
  /\ \A s, e : HB!Unlinked(s, e) = Unlinked(s, e)
  /\ \A s, i, e : HB!InsertAt(s, i, e) = InsertAt(s, i, e)
  /\ \A s : HB!ToSet(s) = ToSet(s)
<1>1. \A M, C, r : HB!CollectOf(M, C, r) = CollectOf(M, C, r)
  BY DEF HB!CollectOf, CollectOf, HB!FlattenSeq, FlattenSeq
<1>2. \A s, S : HB!Only(s, S) = Only(s, S)
  BY DEF HB!Only, Only
<1>3. \A s, e : HB!Unlinked(s, e) = Unlinked(s, e)
  BY DEF HB!Unlinked, Unlinked, HB!RemoveAt, RemoveAt
<1>4. \A s, i, e : HB!InsertAt(s, i, e) = InsertAt(s, i, e)
  BY DEF HB!InsertAt, InsertAt
<1>5. \A s : HB!ToSet(s) = ToSet(s)
  BY DEF HB!ToSet, ToSet
<1> QED BY <1>1, <1>2, <1>3, <1>4, <1>5

\* The walk and the listeners of HookBus are those of Dispatch.
LEMMA SameWalk ==
  /\ \A r : HB!ModulesBelow(r) = region_collect_subtree_mods(r)
  /\ \A vec, h, blocked : HB!Listeners(vec, h, blocked) = ListenersAmong(vec, h, blocked)
<1>1. \A r : HB!Below(r) = Subtree(r)
  BY DEF HB!Below, Subtree
<1>2. \A r : HB!ModulesBelow(r) = region_collect_subtree_mods(r)
  BY <1>1, SameOperators DEF HB!ModulesBelow, region_collect_subtree_mods
<1>3. \A vec, h, blocked : HB!Listeners(vec, h, blocked) = ListenersAmong(vec, h, blocked)
  BY SameOperators DEF HB!Listeners, ListenersAmong
<1> QED BY <1>2, <1>3

\* A call that gets through is a call of the bus, with the paths that were
\* blocked when its vector was built.
LEMMA BusCall ==
  ASSUME TablesConsistent, BusConsistent, ~SharedImages, TablesConsistent', BusConsistent',
         NEW r \in live, NEW h \in Hooks, CallDispatched(r, h)
  PROVE  HB!Call(r, h)
<1> DEFINE v == hook_dispatch'[r][h]
           all == region_collect_subtree_mods(r)
<1>1. /\ UNCHANGED regVars /\ UNCHANGED denyVars /\ UNCHANGED <<mods, hook_ids, gen>>
      /\ h \in hook_ids /\ ~HookDenied(r, h)
      /\ last' = [op |-> "call", at |-> r, hook |-> h,
                  err |-> IF v.callable = <<>> THEN "NOTFOUND" ELSE "OK", ran |-> v.callable]
  BY DEF CallDispatched, Outcome
<1>2. v.region_gen = gen'[r] /\ r \in live'
  BY <1>1, DispatchedVector DEF regVars
<1>3. h \notin denied_hooks[r]
  BY <1>1 DEF HookDenied, Chain, BusConsistent, HookDenyFlagged, TablesConsistent, AncestorsClosed
<1>4. /\ v.blocked \in SUBSET Paths /\ denied_mods[r] \subseteq v.blocked
      /\ has_deny[r] \/ v.blocked = {}
  BY <1>1, <1>2 DEF BusConsistent, VectorSound, TablesConsistent, VectorHonoursOwnDeny, denyVars
<1>5. v.callable = Only(all, ListenersAmong(all, h, v.blocked))
  <2>1. v.callable = v.mes
    BY <1>2 DEF BusConsistent, VectorSound
  <2>2. region_collect_subtree_mods(r)' = all
    BY <1>1, TreeUnchanged
  <2>3. v.mes = Only(region_collect_subtree_mods(r)',
                     ListenersAmong(region_collect_subtree_mods(r)', h, v.blocked))
    BY <1>2 DEF TablesConsistent, VectorExact, ListenersAmong
  <2> QED BY <2>1, <2>2, <2>3
<1>6. HB!ModulesBelow(r) = all /\ HB!Listeners(all, h, v.blocked) = ListenersAmong(all, h, v.blocked)
  BY SameWalk
<1>7. HB!Only(all, HB!Listeners(all, h, v.blocked)) = v.callable
  BY <1>5, <1>6, SameOperators
<1> HIDE DEF v, all
<1>8. \E blocked \in SUBSET Paths :
        /\ denied_mods[r] \subseteq blocked
        /\ has_deny[r] \/ blocked = {}
        /\ last' = [op |-> "call", at |-> r, hook |-> h,
                    err |-> IF HB!Only(all, HB!Listeners(all, h, blocked)) = <<>>
                            THEN "NOTFOUND" ELSE "OK",
                    ran |-> HB!Only(all, HB!Listeners(all, h, blocked))]
  BY <1>1, <1>4, <1>7
<1> QED BY <1>1, <1>3, <1>6, <1>8 DEF HB!Call, HB!Result, regVars, denyVars

\* Every step of Dispatch is a step of HookBus.
LEMMA BusStep ==
  ASSUME TablesConsistent, BusConsistent, ~SharedImages, [Next]_vars
  PROVE  [HB!Next]_HB!vars
<1>0. TablesConsistent' /\ BusConsistent'
  BY NextBus
<1>1. ASSUME NEW p \in live, NEW c \in Regions \ live, Claim(p, c)
      PROVE  HB!Next
  <2>1. HB!NewRegion(p, c)
    BY <1>1 DEF Claim, HB!NewRegion, HB!NoCall, NoCall, denyVars
  <2> QED BY <2>1 DEF HB!Next
<1>2. ASSUME NEW e \in Entries \ used, NEW r \in live, Add(e, r)
      PROVE  HB!Next
  <2>1. denied_mods = [denied_mods EXCEPT ![r] = @ \ {}]
    BY DEF TablesConsistent, TypeOK
  <2>2. mods' = [mods EXCEPT ![r] = Append(mods[r], e)]
    BY <1>2 DEF Add
  <2>3. HB!Join(e, r)
    BY <1>2, <2>1, <2>2 DEF Add, HB!Join, HB!ListChange, HB!NoCall, NoCall, regVars, denyVars
  <2> QED BY <2>3 DEF HB!Next
<1>3. ASSUME NEW r \in live, AddAborted(r)
      PROVE  HB!Next
  BY <1>3 DEF AddAborted, HB!Next, HB!NoCall, NoCall, regVars, denyVars
<1>4. ASSUME NEW r \in live, NEW e \in ToSet(mods[r]), Drop(e, r)
      PROVE  HB!Next
  <2>1. mods' = [mods EXCEPT ![r] = HB!Unlinked(mods[r], e)] /\ e \in HB!ToSet(mods[r])
    BY <1>4, SameOperators DEF Drop
  <2>2. HB!Leave(e, r)
    BY <1>4, <2>1 DEF Drop, HB!Leave, HB!ListChange, HB!NoCall, NoCall, regVars, denyVars
  <2> QED BY <2>1, <2>2 DEF HB!Next
<1>5. ASSUME NEW r \in live, NEW e \in ToSet(mods[r]), NEW i \in DOMAIN mods[r], Move(e, r, i)
      PROVE  HB!Next
  <2>1. denied_mods = [denied_mods EXCEPT ![r] = @ \ {}]
    BY DEF TablesConsistent, TypeOK
  <2>2. /\ mods' = [mods EXCEPT ![r] = HB!InsertAt(HB!Unlinked(mods[r], e), i, e)]
        /\ e \in HB!ToSet(mods[r])
    BY <1>5, SameOperators DEF Move
  <2>3. HB!Move(e, r, i)
    BY <1>5, <2>1, <2>2 DEF Move, HB!Move, HB!ListChange, HB!NoCall, NoCall, regVars, denyVars
  <2> QED BY <2>2, <2>3 DEF HB!Next
<1>6. ASSUME NEW h \in Hooks, xy_areg(h)
      PROVE  HB!Next
  <2>1. HB!Register(h)
    BY <1>6 DEF xy_areg, HB!Register, HB!NoCall, NoCall, regVars, denyVars
  <2> QED BY <2>1 DEF HB!Next
<1>7. ASSUME NEW r \in live, NEW h \in Hooks, DenyHook(r, h)
      PROVE  HB!Next
  <2>1. denied_mods = [denied_mods EXCEPT ![r] = @ \cup {}]
    BY DEF TablesConsistent, TypeOK
  <2>2. HB!Deny(r, {h}, {})
    BY <1>7, <2>1 DEF DenyHook, DenyIn, HB!Deny, HB!NoCall, NoCall, regVars
  <2> QED BY <2>2 DEF HB!Next
<1>8. ASSUME NEW r \in live, NEW p \in Paths, DenyModule(r, p)
      PROVE  HB!Next
  <2>1. denied_hooks = [denied_hooks EXCEPT ![r] = @ \cup {}]
    BY DEF TablesConsistent, TypeOK
  <2>2. HB!Deny(r, {}, {p})
    BY <1>8, <2>1 DEF DenyModule, DenyIn, HB!Deny, HB!NoCall, NoCall, regVars
  <2> QED BY <2>2 DEF HB!Next
<1>9. ASSUME NEW r \in live, NEW h \in Hooks, CallRefused(r, h)
      PROVE  HB!Next
  <2>1. HookDenied(r, h) => has_deny[r] /\ \E a \in anc[r] : h \in denied_hooks[a]
    BY DEF HookDenied, Chain
  <2>2. HB!Call(r, h)
    BY <1>9, <2>1 DEF CallRefused, Outcome, HB!Call, HB!Result, regVars, denyVars
  <2> QED BY <2>2 DEF HB!Next
<1>10. ASSUME NEW r \in live, NEW h \in Hooks, CallDispatched(r, h)
       PROVE  HB!Next
  <2>1. HB!Call(r, h)
    BY <1>0, <1>10, BusCall
  <2> QED BY <2>1 DEF HB!Next
<1>11. CASE Shutdown
  <2>1. HB!Reset
    BY <1>11 DEF Shutdown, HB!Reset, HB!NoCall, NoCall
  <2> QED BY <2>1 DEF HB!Next
<1>12. CASE UNCHANGED vars
  BY <1>12 DEF vars, HB!vars
<1> QED BY <1>1, <1>2, <1>3, <1>4, <1>5, <1>6, <1>7, <1>8, <1>9, <1>10, <1>11, <1>12 DEF Next

\* Unless an image is loaded into several regions, the tables implement the
\* bus: no sequence of claims, loads, unloads, reloads, denies and shutdowns
\* makes a cached call differ from one that reads the lists afresh.
THEOREM DispatchRefinesHookBus ==
  ASSUME ~SharedImages
  PROVE  Spec => ImplementsHookBus
<1>1. Init => HB!Init
  BY DEF Init, HB!Init, HB!NoCall, NoCall
<1>2. TablesConsistent /\ BusConsistent /\ [Next]_vars => [HB!Next]_HB!vars
  BY BusStep
<1> QED BY <1>1, <1>2, BusAlways, PTL DEF Spec, HB!Spec, ImplementsHookBus
=============================================================================
