----------------------------- MODULE RegionTree -----------------------------
(***************************************************************************)
(* The region tree of libxylem: prefix ids of W bits (64 in the code),     *)
(* claims made on behalf of a module that is being loaded, the claim gate  *)
(* of a region, the keys that name a module inside a region, and the       *)
(* thread-local current region with the API calls that move it. Unloading  *)
(* and reference counts are the subject of Lifecycle.                      *)
(*                                                                         *)
(* An API call that runs foreign code (xy_install, the function given to   *)
(* xy_with_region, the visitor given to xy_region_each) is a frame on      *)
(* "frames"; whatever happens while it is the top frame is that code's.    *)
(***************************************************************************)
EXTENDS Integers, SequencesExt

CONSTANTS
  W,           \* width of a region id in bits
  KeyDrop,     \* low id bits the module key loses (one hex digit in the code)
  Paths,       \* resolved module paths
  ClaimOf,     \* ClaimOf[p]: value of p's xy_claim symbol, or NoClaim
  NoInstall,   \* the paths whose library exports no xy_install
  Grants,      \* widths that claim handlers grant
  MaxPlen,     \* longest prefix the handlers of an instance hand out
  MaxRegions,  \* bound: regions alive at once
  MaxFrames    \* bound: API calls in progress at once

\* Powers of two, 1 << n.
pow2[n \in Nat] == IF n = 0 THEN 1 ELSE 2 * pow2[n-1]

NoClaim == -1
ROOT    == 0
INVALID == pow2[W] - 1   \* XY_REGION_INVALID: all ones
NULL    == -1            \* a NULL region pointer

ASSUME SizeAssumption ==
  /\ W \in Nat \ {0} /\ KeyDrop \in 0..W /\ MaxPlen \in 0..W
  /\ Grants \subseteq Nat
  /\ NoInstall \subseteq Paths
  /\ ClaimOf \in [Paths -> Int]

VARIABLES
  region,  \* region_hd: the live regions by id
  mod_hd,  \* the module map: key -> region of the module
  members, \* members[r]: paths on region r's module list
  cur,     \* xy_current_region_id
  frames,  \* API calls in progress that run foreign code, innermost last
  last     \* what the last API call answered

vars == <<region, mod_hd, members, cur, frames, last>>

Ids == 0 .. pow2[W] - 1

\* xy_region_entry_t without the dispatch and deny fields.
RegionEntry ==
  [plen : 0..W, depth : Nat, child_bits : 0..W, parent : Ids \cup {NULL},
   children_head : Ids \cup {NULL}, sibling_next : Ids \cup {NULL},
   require_claim : BOOLEAN]

Results == {"OK", "EPERM", "TOOBIG", "NOTFOUND", "INVALID"}

\* Root entry as region_ensure_root creates it.
RootEntry ==
  [plen |-> 0, depth |-> 0, child_bits |-> 0, parent |-> NULL,
   children_head |-> NULL, sibling_next |-> NULL, require_claim |-> FALSE]

Answer(op, err) == [op |-> op, err |-> err]

-----------------------------------------------------------------------------
(* Region ids. *)

Bit(x, i) == (x \div pow2[i]) % 2 = 1

\* The C operator | on W-bit values, low bits first.
BitOr(x, y) ==
  LET or[n \in 0..W] ==
        IF n = 0 THEN 0
        ELSE or[n-1] + IF Bit(x, n-1) \/ Bit(y, n-1) THEN pow2[n-1] ELSE 0
  IN  or[W]

\* Mutated form of CandidateId: the slot is not joined to the parent's prefix.
CandidateIdWithoutParent(pid, cplen, s) == (s * pow2[W - cplen]) % pow2[W]

\* Id tried for slot s of a claim whose child has prefix length cplen.
CandidateId(pid, cplen, s) == BitOr(pid, (s * pow2[W - cplen]) % pow2[W])

\* Slots tried. With cplen = W the counter num_slots is 0, so the loop only
\* ends when s has wrapped around.
SlotRange(cplen, bits) == 0 .. (IF cplen = W THEN pow2[W] ELSE pow2[bits]) - 1

\* The first free slot of the given width under region pid, or INVALID.
region_alloc_slot(pid, bits) ==
  LET cplen == region[pid].plen + bits
      free  == {s \in SlotRange(cplen, bits) :
                  CandidateId(pid, cplen, s) \notin DOMAIN region}
  IN  IF cplen > W \/ free = {}
      THEN INVALID
      ELSE CandidateId(pid, cplen, Min(free))

\* Key of path p in region r: the path and the id printed in hex, the last
\* digit lost to the size of the buffer.
mod_key(p, r) == <<p, r \div pow2[KeyDrop]>>

\* Prefix of x of the given length.
Masked(x, plen) == x - (x % pow2[W - plen])

\* A region's children in list order, from children_head along sibling_next.
ChildList(r) ==
  LET from[n \in 0..Cardinality(DOMAIN region)] ==
        [c \in DOMAIN region \cup {NULL} |->
           IF n = 0 \/ c = NULL THEN <<>>
           ELSE <<c>> \o from[n-1][region[c].sibling_next]]
  IN  from[Cardinality(DOMAIN region)][region[r].children_head]

-----------------------------------------------------------------------------
(* State-changing parts shared by the actions. *)

\* Mutated forms of WithChild: the new head forgets its older siblings; the
\* prefix length leaves out the parent's; the child goes behind the head.
WithChildForgettingSiblings(p, c, bits) ==
  [r \in DOMAIN region \cup {c} |->
     CASE r = c -> [RootEntry EXCEPT !.plen = region[p].plen + bits, !.parent = p,
                    !.depth = region[p].depth + 1, !.child_bits = bits]
       [] r = p /\ r # c -> [region[p] EXCEPT !.children_head = c]
       [] OTHER -> region[r]]
WithChildOwnLength(p, c, bits) ==
  [r \in DOMAIN region \cup {c} |->
     CASE r = c -> [RootEntry EXCEPT !.plen = bits, !.parent = p,
                    !.depth = region[p].depth + 1, !.child_bits = bits,
                    !.sibling_next = region[p].children_head]
       [] r = p /\ r # c -> [region[p] EXCEPT !.children_head = c]
       [] OTHER -> region[r]]
WithChildSecond(p, c, bits) ==
  LET h == region[p].children_head
  IN  [r \in DOMAIN region \cup {c} |->
     CASE r = c -> [RootEntry EXCEPT !.plen = region[p].plen + bits, !.parent = p,
                    !.depth = region[p].depth + 1, !.child_bits = bits,
                    !.sibling_next = IF h = NULL THEN NULL ELSE region[h].sibling_next]
       [] r = h -> [region[h] EXCEPT !.sibling_next = c]
       [] r = p /\ h = NULL -> [region[p] EXCEPT !.children_head = c]
       [] OTHER -> region[r]]

\* Region c of the given width, put at the head of p's list of children.
WithChild(p, c, bits) ==
  [r \in DOMAIN region \cup {c} |->
     CASE r = c -> [plen |-> region[p].plen + bits, depth |-> region[p].depth + 1,
                    child_bits |-> bits, parent |-> p, children_head |-> NULL,
                    sibling_next |-> region[p].children_head,
                    require_claim |-> FALSE]
       [] r = p /\ r # c -> [region[p] EXCEPT !.children_head = c]
       [] OTHER -> region[r]]

WithKey(m, k, v) == [x \in DOMAIN m \cup {k} |-> IF x = k THEN v ELSE m[x]]
WithoutKey(m, k) == [x \in DOMAIN m \ {k} |-> m[x]]

\* Mutated form of Rekeyed: the entry stays under its old key.
RekeyedUnderOldKey(m, p, r, c) == WithKey(m, mod_key(p, r), c)

\* The map after module_rekey_loaded_entry moved p from parent r to child c:
\* the new key is put first, the old key deleted after.
Rekeyed(m, p, r, c) ==
  WithoutKey(WithKey(m, mod_key(p, c), c), mod_key(p, r))

Top == frames[Len(frames)]
Push(f) == frames' = Append(frames, f)
CanPush == Len(frames) < MaxFrames

-----------------------------------------------------------------------------
(* Loading a module into the current region. *)

\* A load that finds its key answers with the module that has it (the extra
\* reference it takes is counted in Lifecycle).
LoadReuse(p) ==
  /\ mod_key(p, cur) \in DOMAIN mod_hd
  /\ last' = Answer("load", "OK")
  /\ UNCHANGED <<region, mod_hd, members, cur, frames>>

\* Whether the load has to claim a region of its own.
MustClaim(p) == ClaimOf[p] # NoClaim /\ region[cur].require_claim

\* What the claim handler of region r may answer: 0 stands for a refusal.
HandlerAnswers(r) ==
  {0} \cup {g \in Grants : region[r].plen + g <= MaxPlen \/ region[r].plen + g > W}

\* Outcome of _xy_claim_for_load when the handler answers g.
ClaimResult(p, g) ==
  CASE ClaimOf[p] = 0 \/ ClaimOf[p] > W -> "INVALID"
    [] g = 0 \/ g > W                   -> "EPERM"
    [] OTHER -> IF region_alloc_slot(cur, g) = INVALID THEN "TOOBIG" ELSE "OK"

\* A load that is turned away before xy_install: the region is closed to
\* modules without a claim, or the claim fails. The abort takes the published
\* entry back out of the map.
LoadRefused(p) ==
  /\ mod_key(p, cur) \notin DOMAIN mod_hd
  /\ \/ /\ region[cur].require_claim /\ ClaimOf[p] = NoClaim
        /\ last' = Answer("load", "EPERM")
     \/ /\ MustClaim(p)
        /\ \E g \in HandlerAnswers(cur) :
             /\ ClaimResult(p, g) # "OK"
             /\ last' = Answer("load", ClaimResult(p, g))
  /\ UNCHANGED <<region, mod_hd, members, cur, frames>>

\* A load into the current region itself; xy_install starts. Without
\* xy_install the load is aborted: the entry leaves list and map again.
LoadPlain(p) ==
  /\ mod_key(p, cur) \notin DOMAIN mod_hd
  /\ ~region[cur].require_claim
  /\ IF p \in NoInstall
     THEN /\ last' = Answer("load", "NOTFOUND")
          /\ UNCHANGED <<mod_hd, members, frames>>
     ELSE /\ CanPush
          /\ mod_hd' = WithKey(mod_hd, mod_key(p, cur), cur)
          /\ members' = [members EXCEPT ![cur] = @ \cup {p}]
          /\ Push([kind |-> "load", saved |-> cur])
          /\ last' = Answer("scope", "OK")
  /\ UNCHANGED <<region, cur>>

\* A load that claims a child region; xy_install starts inside the child.
\* Without xy_install the entry goes, but the claimed region stays.
LoadClaimed(p) ==
  /\ mod_key(p, cur) \notin DOMAIN mod_hd
  /\ MustClaim(p)
  /\ Cardinality(DOMAIN region) < MaxRegions
  /\ \E g \in HandlerAnswers(cur) :
       LET c == region_alloc_slot(cur, g)
       IN  /\ ClaimResult(p, g) = "OK"
           /\ region' = WithChild(cur, c, g)
           /\ IF p \in NoInstall
              THEN /\ mod_hd' = WithoutKey(Rekeyed(mod_hd, p, cur, c), mod_key(p, c))
                   /\ members' = WithKey(members, c, {})
                   /\ last' = Answer("load", "NOTFOUND")
                   /\ UNCHANGED <<cur, frames>>
              ELSE /\ CanPush
                   /\ mod_hd' = Rekeyed(mod_hd, p, cur, c)
                   /\ members' = WithKey(members, c, {p})
                   /\ Push([kind |-> "load", saved |-> cur])
                   /\ cur' = c
                   /\ last' = Answer("scope", "OK")

-----------------------------------------------------------------------------
(* The region API. *)

\* xy_require_claim with a handler, or with NULL to open the region again.
RequireClaim(on) ==
  /\ region' = [region EXCEPT ![cur].require_claim = on]
  /\ last' = Answer("scope", "OK")
  /\ UNCHANGED <<mod_hd, members, cur, frames>>

\* Mutated form of WithRegion: the region is entered without being looked up.
WithRegionUnchecked(r) ==
  /\ CanPush
  /\ Push([kind |-> "with", saved |-> cur])
  /\ cur' = r
  /\ last' = Answer("scope", "OK")
  /\ UNCHANGED <<region, mod_hd, members>>

\* xy_with_region: the scope function starts in region r.
WithRegion(r) ==
  /\ IF r \in DOMAIN region
     THEN /\ CanPush
          /\ Push([kind |-> "with", saved |-> cur])
          /\ cur' = r
          /\ last' = Answer("scope", "OK")
     ELSE /\ last' = Answer("with_region", "NOTFOUND")
          /\ UNCHANGED <<cur, frames>>
  /\ UNCHANGED <<region, mod_hd, members>>

\* xy_install or the scope function returns; the saved region comes back.
Return ==
  /\ frames # <<>> /\ Top.kind \in {"load", "with"}
  /\ cur' = Top.saved
  /\ frames' = Front(frames)
  /\ last' = Answer("scope", "OK")
  /\ UNCHANGED <<region, mod_hd, members>>

\* What xy_region_each has done: the children it visited, and (history) the
\* children there were when it started.
EachAnswer(seen, due, all) ==
  [op |-> "region_each", err |-> "OK", seen |-> seen, due |-> due, all |-> all]

\* xy_region_each: the visitor is called for the head of the list.
EachBegin ==
  LET h == region[cur].children_head
  IN  /\ IF h = NULL
         THEN last' = EachAnswer(<<>>, <<>>, TRUE) /\ UNCHANGED frames
         ELSE /\ CanPush
              /\ Push([kind |-> "each", saved |-> cur, at |-> h, seen |-> <<h>>,
                       due |-> ChildList(cur)])
              /\ last' = Answer("scope", "OK")
      /\ UNCHANGED <<region, mod_hd, members, cur>>

\* Mutated forms of EachNext: the end of the list is not noticed; a sibling is
\* skipped.
EachNextUnchecked ==
  /\ frames # <<>> /\ Top.kind = "each"
  /\ LET n == region[Top.at].sibling_next
     IN  frames' = [frames EXCEPT ![Len(frames)] = [Top EXCEPT !.at = n, !.seen = Append(@, n)]]
  /\ UNCHANGED <<region, mod_hd, members, cur, last>>
EachNextSkipping ==
  /\ frames # <<>> /\ Top.kind = "each"
  /\ LET s == region[Top.at].sibling_next
         n == IF s = NULL THEN NULL ELSE region[s].sibling_next
     IN  IF n = NULL
         THEN /\ frames' = Front(frames)
              /\ last' = EachAnswer(Top.seen, Top.due, TRUE)
         ELSE /\ frames' = [frames EXCEPT ![Len(frames)] =
                              [Top EXCEPT !.at = n, !.seen = Append(@, n)]]
              /\ last' = Answer("scope", "OK")
  /\ UNCHANGED <<region, mod_hd, members, cur>>

\* The visitor returned XY_OK: on to the sibling, read now.
EachNext ==
  /\ frames # <<>> /\ Top.kind = "each"
  /\ LET n == region[Top.at].sibling_next
     IN  IF n = NULL
         THEN /\ frames' = Front(frames)
              /\ last' = EachAnswer(Top.seen, Top.due, TRUE)
         ELSE /\ frames' = [frames EXCEPT ![Len(frames)] =
                              [Top EXCEPT !.at = n, !.seen = Append(@, n)]]
              /\ last' = Answer("scope", "OK")
  /\ UNCHANGED <<region, mod_hd, members, cur>>

\* The visitor returned something else: the enumeration stops.
EachBreak ==
  /\ frames # <<>> /\ Top.kind = "each"
  /\ frames' = Front(frames)
  /\ last' = EachAnswer(Top.seen, Top.due, FALSE)
  /\ UNCHANGED <<region, mod_hd, members, cur>>

-----------------------------------------------------------------------------

Init ==
  /\ region = [r \in {ROOT} |-> RootEntry]
  /\ mod_hd = [k \in {} |-> 0]
  /\ members = [r \in {ROOT} |-> {}]
  /\ cur = ROOT
  /\ frames = <<>>
  /\ last = Answer("init", "OK")

\* xy_shutdown by the host, and the bootstrap of the next API call.
Shutdown ==
  /\ frames = <<>>
  /\ region' = [r \in {ROOT} |-> RootEntry]
  /\ mod_hd' = [k \in {} |-> 0]
  /\ members' = [r \in {ROOT} |-> {}]
  /\ cur' = ROOT
  /\ last' = Answer("shutdown", "OK")
  /\ UNCHANGED frames

Next ==
  \/ \E p \in Paths : LoadReuse(p)
  \/ \E p \in Paths : LoadRefused(p)
  \/ \E p \in Paths : LoadPlain(p)
  \/ \E p \in Paths : LoadClaimed(p)
  \/ \E on \in BOOLEAN : RequireClaim(on)
  \/ \E r \in Ids : WithRegion(r)
  \/ Return
  \/ EachBegin
  \/ EachNext
  \/ EachBreak
  \/ Shutdown

Spec == Init /\ [][Next]_vars

-----------------------------------------------------------------------------
(* Properties. *)

\* What a call in progress keeps on the C stack.
Frames ==
  [kind : {"load", "with"}, saved : Ids] \cup
  [kind : {"each"}, saved : Ids, at : Ids, seen : Seq(Ids), due : Seq(Ids)]

\* Type invariant of the region map, the module map and the context.
TypeOK ==
  /\ DOMAIN region \subseteq Ids
  /\ \A r \in DOMAIN region : region[r] \in RegionEntry
  /\ DOMAIN members = DOMAIN region
  /\ \A r \in DOMAIN region : members[r] \subseteq Paths
  /\ \A k \in DOMAIN mod_hd : mod_hd[k] \in Ids
  /\ cur \in Ids
  /\ frames \in Seq(Frames)
  /\ last.err \in Results

\* Parent pointers and child lists describe one tree: every region but the
\* root is on exactly the child list of its parent, exactly once, one level
\* deeper and granted bits longer (_xy_claim_for_load fills these fields and
\* relinks two pointers, whatever is being enumerated at the time).
TreeShape ==
  /\ ROOT \in DOMAIN region /\ region[ROOT].parent = NULL
  /\ \A r \in DOMAIN region :
       /\ IsInjective(ChildList(r))
       /\ ToSet(ChildList(r)) = {c \in DOMAIN region : region[c].parent = r}
       /\ r # ROOT =>
            /\ region[r].parent \in DOMAIN region \ {r}
            /\ region[r].plen = region[region[r].parent].plen + region[r].child_bits
            /\ region[r].depth = region[region[r].parent].depth + 1

\* xy_call copies the ancestor chain into an array of 65 entries and the walk
\* stops silently when it is full: the deny checks are complete only because
\* a region's depth never exceeds its prefix length, and that never the id
\* width.
AncestorChainFits ==
  \A r \in DOMAIN region : region[r].depth <= region[r].plen /\ region[r].plen <= W

\* The id of a region starts with the prefix of its parent.
ChildInsideParent ==
  \A r \in DOMAIN region \ {ROOT} :
    Masked(r, region[region[r].parent].plen) = region[r].parent

\* Every module on a region's list is found under its key in that region, and
\* that key leads to no other region's module, across claims that re-key the
\* entry half way through a load.
KeysNameRegions ==
  \A r \in DOMAIN region : \A p \in members[r] :
    mod_key(p, r) \in DOMAIN mod_hd /\ mod_hd[mod_key(p, r)] = r

\* The current region, and every region an API call in progress will put
\* back, is alive: nested loads, scopes and enumerations leave no context
\* pointing nowhere.
ContextIsLive ==
  /\ cur \in DOMAIN region
  /\ \A i \in DOMAIN frames : frames[i].saved \in DOMAIN region

\* An enumeration that runs to the end visits exactly the children there were
\* when it started, each once; one that is broken off visits some of them,
\* each once. The visitor may load modules that claim further children
\* meanwhile, and none of those is visited. The order is left open: the code
\* goes from the newest to the oldest, xy.h promises "allocation order".
EachVisitsSnapshot ==
  last.op = "region_each" /\ "seen" \in DOMAIN last =>
    /\ IsInjective(last.seen)
    /\ ToSet(last.seen) \subseteq ToSet(last.due)
    /\ last.all => ToSet(last.seen) = ToSet(last.due)

\* A region keeps its id, width, depth and parent, and stays linked behind
\* the same sibling, until xy_shutdown.
RegionsPersist ==
  [][\A r \in DOMAIN region :
       \/ /\ r \in DOMAIN region'
          /\ \A f \in {"plen", "depth", "child_bits", "parent", "sibling_next"} :
               region'[r][f] = region[r][f]
       \/ last'.op = "shutdown"]_vars
=============================================================================
