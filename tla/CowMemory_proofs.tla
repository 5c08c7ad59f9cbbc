-------------------------- MODULE CowMemory_proofs --------------------------
(***************************************************************************)
(* CowMemory, proved for any number of processes, pages and page table     *)
(* entries.  First the reference counts: CowInv is inductive.  Then the    *)
(* translation caches of user code: no flush is missing; TlbInv is         *)
(* inductive together with CowInv.  Last what programs see: copy-on-write  *)
(* is invisible, CowMemory implements PrivateMemory; MemInv is inductive   *)
(* together with CowInv and TlbInv.                                        *)
(***************************************************************************)
EXTENDS CowProps, FiniteSetTheorems, TLAPS

-----------------------------------------------------------------------------
(* The locations: which are which. *)

Owner(l) == l[2]
Index(l) == l[3]

\* The six sorts of pointer are locations, and no two of them are the same.
LEMMA LocFacts ==
    /\ \A p \in Proc : /\ Kstack(p) \in Loc /\ Pgdir(p) \in Loc
                       /\ Dir(p) \in Loc /\ Local(p) \in Loc
    /\ \A d \in Page : Ptab(d) \in Loc
    /\ \A d \in Page, va \in Va : Pte(d, va) \in Loc
    /\ \A p : Kind(Kstack(p)) = "kstack" /\ Owner(Kstack(p)) = p
    /\ \A p : Kind(Pgdir(p)) = "pgdir" /\ Owner(Pgdir(p)) = p
    /\ \A p : Kind(Dir(p)) = "dir" /\ Owner(Dir(p)) = p
    /\ \A p : Kind(Local(p)) = "page" /\ Owner(Local(p)) = p
    /\ \A d : Kind(Ptab(d)) = "ptab" /\ Owner(Ptab(d)) = d
    /\ \A d, va : /\ Kind(Pte(d, va)) = "pte" /\ Owner(Pte(d, va)) = d
                  /\ Index(Pte(d, va)) = va
BY DEF Loc, Kstack, Pgdir, Dir, Local, Ptab, Pte, Kind, Owner, Index

\* A set of triples over finite sets is finite.
LEMMA TriplesFinite ==
    ASSUME NEW A, NEW B, NEW C, IsFiniteSet(A), IsFiniteSet(B), IsFiniteSet(C)
    PROVE  IsFiniteSet(A \X B \X C)
<1> DEFINE S == A \X (B \X C)
           f == [t \in S |-> <<t[1], t[2][1], t[2][2]>>]
<1>1. IsFiniteSet(S)
  BY FS_Product
<1>2. f \in [S -> A \X B \X C]
  OBVIOUS
<1>3. ASSUME NEW u \in A \X B \X C
      PROVE  \E t \in S : f[t] = u
  <2>1. <<u[1], <<u[2], u[3]>>>> \in S
    OBVIOUS
  <2>2. f[<<u[1], <<u[2], u[3]>>>>] = u
    OBVIOUS
  <2> QED BY <2>2
<1>4. f \in Surjection(S, A \X B \X C)
  BY <1>2, <1>3, Zenon DEF Surjection
<1> QED BY <1>1, <1>4, FS_Surjection

\* There are finitely many locations.
LEMMA LocFinite == IsFiniteSet(Loc)
<1>1. IsFiniteSet(Va)
  <2>1. MaxVa - 1 \in Int
    BY CowAssumption
  <2> QED BY <2>1, FS_Interval DEF Va
<1>2. IsFiniteSet({0}) /\ IsFiniteSet({"ptab"}) /\ IsFiniteSet({"pte"})
  BY FS_Singleton
<1>3. IsFiniteSet({"kstack", "pgdir", "dir", "page"})
  <2>1. {"kstack", "pgdir", "dir", "page"}
          = (({"kstack"} \cup {"pgdir"}) \cup {"dir"}) \cup {"page"}
    OBVIOUS
  <2>2. /\ IsFiniteSet({"kstack"}) /\ IsFiniteSet({"pgdir"})
        /\ IsFiniteSet({"dir"}) /\ IsFiniteSet({"page"})
    BY FS_Singleton
  <2>3. IsFiniteSet({"kstack"} \cup {"pgdir"})
    BY <2>2, FS_Union
  <2>4. IsFiniteSet(({"kstack"} \cup {"pgdir"}) \cup {"dir"})
    BY <2>2, <2>3, FS_Union
  <2>5. IsFiniteSet((({"kstack"} \cup {"pgdir"}) \cup {"dir"}) \cup {"page"})
    BY <2>2, <2>4, FS_Union
  <2> QED BY <2>5
<1>4. IsFiniteSet({"kstack", "pgdir", "dir", "page"} \X Proc \X {0})
  BY <1>2, <1>3, CowFinite, TriplesFinite
<1>5. IsFiniteSet({"ptab"} \X Page \X {0})
  BY <1>2, CowFinite, TriplesFinite
<1>6. IsFiniteSet({"pte"} \X Page \X Va)
  BY <1>1, <1>2, CowFinite, TriplesFinite
<1>7. IsFiniteSet(({"kstack", "pgdir", "dir", "page"} \X Proc \X {0})
                  \cup ({"ptab"} \X Page \X {0}))
  BY <1>4, <1>5, FS_Union
<1> QED BY <1>6, <1>7, FS_Union DEF Loc

-----------------------------------------------------------------------------
(* Counting pointers. *)

PageOrNull == Page \cup {NoPage}
Pointers == [Loc -> PageOrNull]
Counts == [Page -> Nat]

\* The counts r are enough for the pointers f.
Covers(f, r) == \A pg \in Page : Cardinality(Refs(f, pg)) <= r[pg]

\* The pointers at a page can be counted.
LEMMA RefsFinite ==
    ASSUME NEW f, NEW pg
    PROVE  IsFiniteSet(Refs(f, pg)) /\ Cardinality(Refs(f, pg)) \in Nat
<1>1. Refs(f, pg) \subseteq Loc
  BY DEF Refs
<1> QED BY <1>1, LocFinite, FS_Subset, FS_CardinalityType

\* A page something points at has a count.
LEMMA PointedCounted ==
    ASSUME NEW f \in Pointers, NEW r \in Counts, Covers(f, r),
           NEW l \in Loc, f[l] \in Page
    PROVE  r[f[l]] >= 1
<1>1. l \in Refs(f, f[l])
  BY DEF Refs
<1>2. Cardinality(Refs(f, f[l])) # 0
  BY <1>1, RefsFinite, FS_EmptySet
<1> QED BY <1>2, RefsFinite DEF Covers, Counts

\* Two pointers at a page with a count of one are the same pointer.
LEMMA CountOneUnique ==
    ASSUME NEW f \in Pointers, NEW r \in Counts, Covers(f, r),
           NEW l \in Loc, NEW m \in Loc, f[l] \in Page, f[l] = f[m],
           r[f[l]] = 1
    PROVE  l = m
<1> DEFINE S == Refs(f, f[l])
<1>1. l \in S /\ m \in S
  BY DEF Refs
<1>2. IsFiniteSet(S) /\ Cardinality(S) \in Nat /\ Cardinality(S) <= 1
  BY RefsFinite DEF Covers
<1>3. IsFiniteSet(S \ {l}) /\ Cardinality(S \ {l}) = Cardinality(S) - 1
  BY <1>1, <1>2, FS_RemoveElement
<1>4. Cardinality(S \ {l}) = 0
  BY <1>2, <1>3, FS_CardinalityType
<1>5. S \ {l} = {}
  BY <1>3, <1>4, FS_EmptySet
<1> QED BY <1>1, <1>5

\* Storing a pointer costs one count of the page it points at.
LEMMA CoversIncr ==
    ASSUME NEW f \in Pointers, NEW r \in Counts, Covers(f, r),
           NEW l \in Loc, NEW x \in Page
    PROVE  Covers([f EXCEPT ![l] = x], [r EXCEPT ![x] = @ + 1])
<1> DEFINE g == [f EXCEPT ![l] = x]
<1> SUFFICES ASSUME NEW pg \in Page
             PROVE  Cardinality(Refs(g, pg)) <= [r EXCEPT ![x] = @ + 1][pg]
  BY DEF Covers
<1>1. Refs(g, pg) \subseteq Refs(f, pg) \cup (IF pg = x THEN {l} ELSE {})
  BY DEF Refs, Pointers
<1>2. CASE pg = x
  <2>0. IsFiniteSet(Refs(f, pg)) /\ Cardinality(Refs(f, pg)) \in Nat
    BY RefsFinite
  <2>1. /\ IsFiniteSet(Refs(f, pg) \cup {l})
        /\ Cardinality(Refs(f, pg) \cup {l}) \in Nat
        /\ Cardinality(Refs(f, pg) \cup {l}) <= Cardinality(Refs(f, pg)) + 1
    <3>1. CASE l \in Refs(f, pg)
      <4>1. Refs(f, pg) \cup {l} = Refs(f, pg)
        BY <3>1
      <4>2. Cardinality(Refs(f, pg) \cup {l}) = Cardinality(Refs(f, pg))
            /\ (IsFiniteSet(Refs(f, pg) \cup {l}) <=> IsFiniteSet(Refs(f, pg)))
        BY <4>1, Zenon
      <4> QED BY <4>2, <2>0
    <3>2. CASE l \notin Refs(f, pg)
      <4> QED BY <3>2, <2>0, FS_AddElement
    <3> QED BY <3>1, <3>2
  <2>2. Cardinality(Refs(g, pg)) <= Cardinality(Refs(f, pg) \cup {l})
    BY <1>1, <1>2, <2>1, FS_Subset
  <2> QED BY <1>2, <2>1, <2>2, RefsFinite DEF Covers, Counts
<1>3. CASE pg # x
  <2>1. Cardinality(Refs(g, pg)) <= Cardinality(Refs(f, pg))
    BY <1>1, <1>3, RefsFinite, FS_Subset
  <2> QED BY <1>3, <2>1, RefsFinite DEF Covers, Counts
<1> QED BY <1>2, <1>3

\* Clearing a pointer at page x gives back a count of x.
LEMMA CoversKfree ==
    ASSUME NEW f \in Pointers, NEW r \in Counts, Covers(f, r),
           NEW l \in Loc, f[l] \in Page
    PROVE  Covers([f EXCEPT ![l] = NoPage],
                  [r EXCEPT ![f[l]] = IF @ > 1 THEN @ - 1 ELSE 0])
<1> DEFINE g == [f EXCEPT ![l] = NoPage]
           s == [r EXCEPT ![f[l]] = IF @ > 1 THEN @ - 1 ELSE 0]
<1> SUFFICES ASSUME NEW pg \in Page
             PROVE  Cardinality(Refs(g, pg)) <= s[pg]
  BY DEF Covers
<1>1. Refs(g, pg) = Refs(f, pg) \ {l}
  BY CowAssumption DEF Refs, Pointers
<1>2. CASE pg = f[l]
  <2>1. l \in Refs(f, pg)
    BY <1>2 DEF Refs
  <2>2. Cardinality(Refs(g, pg)) = Cardinality(Refs(f, pg)) - 1
    BY <1>1, <2>1, RefsFinite, FS_RemoveElement
  <2>3. s[pg] = IF r[pg] > 1 THEN r[pg] - 1 ELSE 0
    BY <1>2 DEF Counts
  <2> QED BY <2>2, <2>3, RefsFinite DEF Covers, Counts
<1>3. CASE pg # f[l]
  <2>1. Cardinality(Refs(g, pg)) <= Cardinality(Refs(f, pg))
    BY <1>1, <1>3, RefsFinite, FS_Subset
  <2> QED BY <1>3, <2>1, RefsFinite DEF Covers, Counts
<1> QED BY <1>2, <1>3

\* One pointer in the place of another is no more than there were.
LEMMA Exchange ==
    ASSUME NEW f, NEW pg, NEW a \in Loc, NEW b \in Refs(f, pg)
    PROVE  /\ IsFiniteSet((Refs(f, pg) \ {b}) \cup {a})
           /\ Cardinality((Refs(f, pg) \ {b}) \cup {a}) \in Nat
           /\ Cardinality((Refs(f, pg) \ {b}) \cup {a}) <= Cardinality(Refs(f, pg))
<1> DEFINE S == Refs(f, pg)
           T == S \ {b}
<1>1. IsFiniteSet(S) /\ Cardinality(S) \in Nat
  BY RefsFinite
<1>2. IsFiniteSet(T) /\ Cardinality(T) = Cardinality(S) - 1
  BY <1>1, FS_RemoveElement
<1>3. Cardinality(T) \in Nat
  BY <1>2, FS_CardinalityType
<1> HIDE DEF S, T
<1>4. /\ IsFiniteSet(T \cup {a}) /\ Cardinality(T \cup {a}) \in Nat
      /\ Cardinality(T \cup {a}) <= Cardinality(S)
  <2>1. CASE a \in T
    <3>1. T \cup {a} = T
      BY <2>1
    <3>2. Cardinality(T \cup {a}) = Cardinality(T)
          /\ (IsFiniteSet(T \cup {a}) <=> IsFiniteSet(T))
      BY <3>1, Zenon
    <3> QED BY <3>2, <1>1, <1>2, <1>3
  <2>2. CASE a \notin T
    <3>1. IsFiniteSet(T \cup {a}) /\ Cardinality(T \cup {a}) = Cardinality(T) + 1
      BY <2>2, <1>2, FS_AddElement
    <3> QED BY <3>1, <1>1, <1>2, <1>3
  <2> QED BY <2>1, <2>2
<1> QED BY <1>4 DEF S, T

\* A pointer moved from b to a costs nothing.
LEMMA CoversMove ==
    ASSUME NEW f \in Pointers, NEW r \in Counts, Covers(f, r),
           NEW a \in Loc, NEW b \in Loc, a # b
    PROVE  Covers([f EXCEPT ![a] = f[b], ![b] = NoPage], r)
<1> DEFINE g == [f EXCEPT ![a] = f[b], ![b] = NoPage]
<1> SUFFICES ASSUME NEW pg \in Page
             PROVE  Cardinality(Refs(g, pg)) <= r[pg]
  BY DEF Covers
<1>1. CASE f[b] = pg
  <2>1. Refs(g, pg) \subseteq (Refs(f, pg) \ {b}) \cup {a}
    BY CowAssumption DEF Refs, Pointers
  <2>2. b \in Refs(f, pg)
    BY <1>1 DEF Refs
  <2>3. Cardinality(Refs(g, pg)) <= Cardinality((Refs(f, pg) \ {b}) \cup {a})
    BY <2>1, <2>2, Exchange, FS_Subset
  <2> QED BY <2>2, <2>3, Exchange, RefsFinite, FS_CardinalityType, FS_Subset,
             <2>1 DEF Covers, Counts
<1>2. CASE f[b] # pg
  <2>1. Refs(g, pg) \subseteq Refs(f, pg)
    BY <1>2, CowAssumption DEF Refs, Pointers
  <2>2. Cardinality(Refs(g, pg)) <= Cardinality(Refs(f, pg))
    BY <2>1, RefsFinite, FS_Subset
  <2> QED BY <2>2, RefsFinite DEF Covers, Counts
<1> QED BY <1>1, <1>2

\* Nor do two pointers that change places.
LEMMA CoversSwap ==
    ASSUME NEW f \in Pointers, NEW r \in Counts, Covers(f, r),
           NEW a \in Loc, NEW b \in Loc, a # b
    PROVE  Covers([f EXCEPT ![a] = f[b], ![b] = f[a]], r)
<1> DEFINE g == [f EXCEPT ![a] = f[b], ![b] = f[a]]
<1> SUFFICES ASSUME NEW pg \in Page
             PROVE  Cardinality(Refs(g, pg)) <= r[pg]
  BY DEF Covers
<1>1. CASE f[a] = f[b]
  <2>1. Refs(g, pg) = Refs(f, pg)
    BY <1>1 DEF Pointers
  <2> QED BY <2>1 DEF Covers
<1>2. CASE f[a] # f[b] /\ f[b] = pg
  <2>1. Refs(g, pg) = (Refs(f, pg) \ {b}) \cup {a}
    BY <1>2 DEF Refs, Pointers
  <2>2. b \in Refs(f, pg)
    BY <1>2 DEF Refs
  <2>3. Cardinality(Refs(g, pg)) \in Nat /\ Cardinality(Refs(g, pg)) <= Cardinality(Refs(f, pg))
    BY <2>1, <2>2, Exchange
  <2> QED BY <2>3, RefsFinite DEF Covers, Counts
<1>3. CASE f[a] # f[b] /\ f[a] = pg
  <2>1. Refs(g, pg) = (Refs(f, pg) \ {a}) \cup {b}
    BY <1>3 DEF Refs, Pointers
  <2>2. a \in Refs(f, pg)
    BY <1>3 DEF Refs
  <2>3. Cardinality(Refs(g, pg)) \in Nat /\ Cardinality(Refs(g, pg)) <= Cardinality(Refs(f, pg))
    BY <2>1, <2>2, Exchange
  <2> QED BY <2>3, RefsFinite DEF Covers, Counts
<1>4. CASE f[a] # pg /\ f[b] # pg
  <2>1. Refs(g, pg) = Refs(f, pg)
    BY <1>4 DEF Refs, Pointers
  <2> QED BY <2>1 DEF Covers
<1> QED BY <1>1, <1>2, <1>3, <1>4

\* A pointer may be dropped without giving its count back: a leak.
LEMMA CoversDrop ==
    ASSUME NEW f \in Pointers, NEW r \in Counts, Covers(f, r), NEW l \in Loc
    PROVE  Covers([f EXCEPT ![l] = NoPage], r)
<1> SUFFICES ASSUME NEW pg \in Page
             PROVE  Cardinality(Refs([f EXCEPT ![l] = NoPage], pg)) <= r[pg]
  BY DEF Covers
<1>1. Refs([f EXCEPT ![l] = NoPage], pg) \subseteq Refs(f, pg)
  BY CowAssumption DEF Refs, Pointers
<1>2. Cardinality(Refs([f EXCEPT ![l] = NoPage], pg)) <= Cardinality(Refs(f, pg))
  BY <1>1, RefsFinite, FS_Subset
<1> QED BY <1>2, RefsFinite DEF Covers, Counts

-----------------------------------------------------------------------------
(* What the three operations of kalloc.c do to the counts. *)

\* The memory part of the invariant, in the form the lemmas above take.
LEMMA InvCovers ==
    ASSUME CowInv
    PROVE  /\ ptr \in Pointers /\ refc \in Counts /\ Covers(ptr, refc)
           /\ free = {pg \in Page : refc[pg] = 0}
BY
   DEF CowInv, TypeOK, RefcCoversPointers, Covers, Pointers, PageOrNull,
       Counts

\* Two pointers at a page with a count of one are the same pointer.
LEMMA Unique ==
    ASSUME CowInv, NEW l \in Loc, NEW m \in Loc, ptr[l] \in Page,
           ptr[l] = ptr[m], refc[ptr[l]] = 1
    PROVE  l = m
BY InvCovers, CountOneUnique

\* kalloc returns a page nothing points at.
LEMMA KallocOK ==
    ASSUME CowInv, NEW pg, Kalloc(pg)
    PROVE  /\ pg \in Page /\ pg # NoPage
           /\ refc[pg] = 0 /\ refc' = [refc EXCEPT ![pg] = @ + 1]
           /\ refc' \in Counts /\ free' = {x \in Page : refc'[x] = 0}
           /\ \A l \in Loc : ptr[l] # pg
<1>1. pg \in free /\ pg \in Page /\ pg # NoPage /\ refc[pg] = 0
  BY InvCovers, CowAssumption DEF Kalloc
<1>2. refc' = [refc EXCEPT ![pg] = @ + 1] /\ refc' \in Counts
  BY <1>1, InvCovers DEF Kalloc, Counts
<1>3. free' = {x \in Page : refc'[x] = 0}
  BY <1>1, InvCovers DEF Kalloc, Counts
<1>4. ASSUME NEW l \in Loc, ptr[l] = pg PROVE FALSE
  BY <1>1, <1>4, InvCovers, PointedCounted
<1> QED BY <1>1, <1>2, <1>3, <1>4

\* kfree of the page at l leaves the other counts of one alone.
LEMMA KfreeOK ==
    ASSUME CowInv, NEW l \in Loc, Kfree(ptr[l])
    PROVE  /\ ptr[l] \in Page /\ refc' \in Counts
           /\ free' = {x \in Page : refc'[x] = 0}
           /\ data' \in [Page -> Val \cup {Junk}]
           /\ Covers([ptr EXCEPT ![l] = NoPage], refc')
           /\ \A m \in Loc : m # l /\ ptr[m] \in Page /\ refc[ptr[m]] = 1
                => refc'[ptr[m]] = 1
<1>1. /\ ptr[l] \in Page /\ refc[ptr[l]] \in Nat /\ refc[ptr[l]] >= 1
      /\ refc' = [refc EXCEPT ![ptr[l]] = IF @ > 1 THEN @ - 1 ELSE 0]
  BY InvCovers, PointedCounted DEF Kfree, Counts
<1>2. refc' \in Counts
  BY <1>1, InvCovers DEF Counts
<1>3. free' = {x \in Page : refc'[x] = 0}
  BY <1>1, InvCovers DEF Kfree, Counts
<1>4. data' \in [Page -> Val \cup {Junk}]
  BY <1>1 DEF Kfree, CowInv, TypeOK
<1>5. Covers([ptr EXCEPT ![l] = NoPage], refc')
  BY <1>1, InvCovers, CoversKfree
<1>6. ASSUME NEW m \in Loc, m # l, ptr[m] \in Page, refc[ptr[m]] = 1
      PROVE  refc'[ptr[m]] = 1
  <2>1. ptr[m] # ptr[l]
    BY <1>6, Unique
  <2> QED BY <2>1, <1>1, <1>6, InvCovers DEF Counts
<1> QED BY <1>1, <1>2, <1>3, <1>4, <1>5, <1>6

\* incr_refc of the page at l leaves the other counts of one alone.
LEMMA IncrRefcOK ==
    ASSUME CowInv, NEW l \in Loc, NEW m \in Loc, IncrRefc(ptr[l]), free' = free
    PROVE  /\ ptr[l] \in Page /\ refc' \in Counts
           /\ free' = {x \in Page : refc'[x] = 0}
           /\ Covers([ptr EXCEPT ![m] = ptr[l]], refc')
           /\ \A n \in Loc : n # l /\ ptr[n] \in Page /\ refc[ptr[n]] = 1
                => refc'[ptr[n]] = 1
<1>1. /\ ptr[l] \in Page /\ refc[ptr[l]] \in Nat /\ refc[ptr[l]] >= 1
      /\ refc' = [refc EXCEPT ![ptr[l]] = @ + 1]
  BY InvCovers, PointedCounted DEF IncrRefc, Counts
<1>2. refc' \in Counts
  BY <1>1, InvCovers DEF Counts
<1>3. free' = {x \in Page : refc'[x] = 0}
  BY <1>1, InvCovers
<1>4. Covers([ptr EXCEPT ![m] = ptr[l]], refc')
  BY <1>1, InvCovers, CoversIncr
<1>5. ASSUME NEW n \in Loc, n # l, ptr[n] \in Page, refc[ptr[n]] = 1
      PROVE  refc'[ptr[n]] = 1
  <2>1. ptr[n] # ptr[l]
    BY <1>5, Unique
  <2> QED BY <2>1, <1>1, <1>5, InvCovers DEF Counts
<1> QED BY <1>1, <1>2, <1>3, <1>4, <1>5

-----------------------------------------------------------------------------
(* Every step preserves CowInv: one lemma per action. *)

USE DEF Goto, ReturnToUser, NoLoc

\* Pointers and counts fit each other and the free list.
MemoryOK ==
    /\ ptr \in Pointers /\ refc \in Counts /\ Covers(ptr, refc)
    /\ free = {x \in Page : refc[x] = 0}

\* The parts of the type invariant the steps below use.
LEMMA InvTypes ==
    ASSUME CowInv
    PROVE  /\ loc \in [Proc -> LocRecord] /\ pc \in [Proc -> Label]
           /\ state \in [Proc -> PState] /\ sz \in [Proc -> 0 .. MaxVa]
           /\ \A p \in Proc : loc[p].va \in 0 .. MaxVa /\ loc[p].to \in 0 .. MaxVa
BY DEF CowInv, TypeOK, LocRecord

\* An empty TLB is a TLB.
LEMMA NoTlbOK == NoTlb \in [Va -> [pg : Page \cup {NoPage}, w : BOOLEAN]]
BY DEF NoTlb, NoEntry

\* The memory part of the invariant in the form the counting lemmas give it.
LEMMA MemoryPart ==
    ASSUME MemoryOK'
    PROVE  RefcCoversPointers'
BY DEF MemoryOK, Covers, RefcCoversPointers

\* kalloc() into a pointer: the page had no pointer and gets a count of one.
LEMMA KallocInto ==
    ASSUME CowInv, NEW pg, Kalloc(pg), NEW l \in Loc,
           ptr' = [ptr EXCEPT ![l] = pg]
    PROVE  /\ MemoryOK' /\ pg \in Page /\ pg # NoPage
           /\ refc[pg] = 0 /\ refc' = [refc EXCEPT ![pg] = @ + 1]
           /\ \A m \in Loc : ptr[m] # pg
<1>1. Covers(ptr', refc')
  <2>1. Covers([ptr EXCEPT ![l] = pg], [refc EXCEPT ![pg] = @ + 1])
    BY KallocOK, InvCovers, CoversIncr
  <2> QED BY <2>1, KallocOK
<1>2. ptr' \in Pointers
  BY KallocOK, InvCovers DEF Pointers, PageOrNull
<1> QED BY <1>1, <1>2, KallocOK DEF MemoryOK

\* kfree() of a pointer that is cleared: no other page with one reference loses it.
LEMMA KfreeFrom ==
    ASSUME CowInv, NEW l \in Loc, Kfree(ptr[l]), ptr' = [ptr EXCEPT ![l] = NoPage]
    PROVE  /\ MemoryOK' /\ data' \in [Page -> Val \cup {Junk}]
           /\ \A m \in Loc : m # l /\ ptr[m] \in Page /\ refc[ptr[m]] = 1
                => refc'[ptr[m]] = 1
<1>1. ptr' \in Pointers
  BY InvCovers DEF Pointers, PageOrNull
<1> QED BY <1>1, KfreeOK DEF MemoryOK

\* A pointer moved to another home.
LEMMA MoveTo ==
    ASSUME CowInv, NEW a \in Loc, NEW b \in Loc, a # b,
           ptr' = [ptr EXCEPT ![a] = ptr[b], ![b] = NoPage],
           UNCHANGED <<refc, free>>
    PROVE  MemoryOK'
<1>1. ptr' \in Pointers
  BY InvCovers DEF Pointers, PageOrNull
<1>2. Covers(ptr', refc)
  BY InvCovers, CoversMove
<1> QED BY <1>1, <1>2, InvCovers DEF MemoryOK

\* Two pointers exchanged.
LEMMA SwapWith ==
    ASSUME CowInv, NEW a \in Loc, NEW b \in Loc, a # b,
           ptr' = [ptr EXCEPT ![a] = ptr[b], ![b] = ptr[a]],
           UNCHANGED <<refc, free>>
    PROVE  MemoryOK'
<1>1. ptr' \in Pointers
  BY InvCovers DEF Pointers, PageOrNull
<1>2. Covers(ptr', refc)
  BY InvCovers, CoversSwap
<1> QED BY <1>1, <1>2, InvCovers DEF MemoryOK

\* A pointer dropped without giving its count back.
LEMMA DropAt ==
    ASSUME CowInv, NEW l \in Loc, ptr' = [ptr EXCEPT ![l] = NoPage],
           UNCHANGED <<refc, free>>
    PROVE  MemoryOK'
<1>1. ptr' \in Pointers
  BY InvCovers DEF Pointers, PageOrNull
<1>2. Covers(ptr', refc)
  BY InvCovers, CoversDrop
<1> QED BY <1>1, <1>2, InvCovers DEF MemoryOK

\* mappages with a new page table page: a move and an allocation.
MovedInto(f, a, b, l, pg) == [f EXCEPT ![a] = f[b], ![b] = NoPage, ![l] = pg]

\* ... and what both do to the counts.
LEMMA MoveAndKalloc ==
    ASSUME CowInv, NEW a \in Loc, NEW b \in Loc, a # b, NEW l \in Loc,
           NEW pg, Kalloc(pg), ptr' = MovedInto(ptr, a, b, l, pg)
    PROVE  /\ MemoryOK' /\ pg \in Page /\ pg # NoPage
           /\ refc[pg] = 0 /\ refc' = [refc EXCEPT ![pg] = @ + 1]
           /\ \A m \in Loc : ptr[m] # pg
<1> DEFINE f == [ptr EXCEPT ![a] = ptr[b], ![b] = NoPage]
<1>1. f \in Pointers
  BY InvCovers DEF Pointers, PageOrNull
<1>2. Covers(f, refc)
  BY InvCovers, CoversMove
<1>3. ptr' = [f EXCEPT ![l] = pg]
  BY InvCovers DEF MovedInto
<1>4. ptr' \in Pointers
  BY <1>1, <1>3, KallocOK DEF Pointers, PageOrNull
<1> HIDE DEF f
<1>5. Covers([f EXCEPT ![l] = pg], [refc EXCEPT ![pg] = @ + 1])
  BY <1>1, <1>2, KallocOK, InvCovers, CoversIncr
<1> QED BY <1>3, <1>4, <1>5, KallocOK DEF MemoryOK

\* wait() frees one pointer and moves another.
LEMMA KfreeAndMove ==
    ASSUME CowInv, NEW l \in Loc, NEW a \in Loc, NEW b \in Loc,
           a # b, a # l, b # l, Kfree(ptr[l]),
           ptr' = [ptr EXCEPT ![l] = NoPage, ![a] = ptr[b], ![b] = NoPage]
    PROVE  /\ MemoryOK' /\ data' \in [Page -> Val \cup {Junk}]
           /\ \A m \in Loc : m # l /\ ptr[m] \in Page /\ refc[ptr[m]] = 1
                => refc'[ptr[m]] = 1
<1> DEFINE f == [ptr EXCEPT ![l] = NoPage]
<1>1. f \in Pointers
  BY InvCovers DEF Pointers, PageOrNull
<1>2. Covers(f, refc')
  BY KfreeOK
<1>3. ptr' = [f EXCEPT ![a] = f[b], ![b] = NoPage]
  BY InvCovers
<1>4. ptr' \in Pointers
  BY InvCovers DEF Pointers, PageOrNull
<1> HIDE DEF f
<1>5. Covers([f EXCEPT ![a] = f[b], ![b] = NoPage], refc')
  BY <1>1, <1>2, KfreeOK, CoversMove
<1> QED BY <1>3, <1>4, <1>5, KfreeOK DEF MemoryOK

\* A kernel page has no second pointer.
LEMMA OneHome ==
    ASSUME CowInv, NEW l \in Loc, NEW m \in Loc, UniqueLoc(l), l # m,
           ptr[l] # NoPage
    PROVE  ptr[l] # ptr[m]
<1>1. ptr[l] \in Page /\ refc[ptr[l]] = 1
  BY InvCovers DEF CowInv, KernelPagesUnshared, Pointers, PageOrNull
<1> QED BY <1>1, Unique

\* A live process has a page directory of its own.
LEMMA LiveDir ==
    ASSUME CowInv, NEW q \in Proc, state[q] = "RUNNABLE", loc[q].ret # "halt"
    PROVE  /\ ptr[Pgdir(q)] \in Page /\ Pgdir(q) \in Loc
           /\ \A m \in Loc : m # Pgdir(q) => ptr[m] # ptr[Pgdir(q)]
           /\ \A va \in Va : Pte(ptr[Pgdir(q)], va) \in Loc
<1>1. ptr[Pgdir(q)] \in Page /\ Pgdir(q) \in Loc /\ UniqueLoc(Pgdir(q))
  BY InvCovers, LocFacts
     DEF CowInv, DirsPresent, Pointers, PageOrNull, UniqueLoc
<1>2. \A m \in Loc : m # Pgdir(q) => ptr[m] # ptr[Pgdir(q)]
  BY <1>1, OneHome, CowAssumption
<1> QED BY <1>1, <1>2, LocFacts

\* The entry Cow_handler works on.
CowPte(q) == Pte(ptr[Pgdir(q)], loc[q].va)

\* Between get_refc and the remapping the faulting entry is a location and present.
LEMMA CowPtePresent ==
    ASSUME CowInv, NEW q \in Proc, pc[q] \in {"copy", "remap"}
    PROVE  /\ state[q] = "RUNNABLE" /\ loc[q].ret # "halt" /\ loc[q].va \in Va
           /\ ptr[Pgdir(q)] \in Page /\ Pgdir(q) \in Loc
           /\ CowPte(q) \in Loc /\ ptr[CowPte(q)] \in Page
           /\ \A m \in Loc : m # Pgdir(q) => ptr[m] # ptr[Pgdir(q)]
<1>1. state[q] = "RUNNABLE" /\ loc[q].ret # "halt" /\ loc[q].va \in Va
  BY DEF CowInv, SlotsOwned, ReturnsMatch
<1>2. CowPte(q) \in Loc
  BY <1>1, LiveDir DEF CowPte
<1>3. ptr[CowPte(q)] \in Page
  BY <1>2, InvCovers DEF CowInv, CountStaysTrue, CowPte, Pointers, PageOrNull
<1> QED BY <1>1, <1>2, <1>3, LiveDir

\* A step of p leaves what the other fault handlers rely on alone.
LEMMA CountFrame ==
    ASSUME CowInv, NEW p \in Proc, pc'[p] \notin {"copy", "remap"},
           \A q \in Proc \ {p} : pc'[q] \in {"copy", "remap"} =>
             pc'[q] = pc[q] /\ loc'[q] = loc[q],
           \A q \in Proc \ {p} : pc[q] \in {"copy", "remap"} =>
             /\ ptr'[Pgdir(q)] = ptr[Pgdir(q)] /\ ptr'[CowPte(q)] = ptr[CowPte(q)]
             /\ refc[ptr[CowPte(q)]] = 1 => refc'[ptr[CowPte(q)]] = 1
    PROVE  CountStaysTrue'
<1> SUFFICES ASSUME NEW q \in Proc, pc'[q] \in {"copy", "remap"}
             PROVE  LET pg == ptr'[Pte(ptr'[Pgdir(q)], loc'[q].va)]
                    IN  /\ pg # NoPage
                        /\ pc'[q] = "copy" /\ loc'[q].cnt = 1 => refc'[pg] = 1
  BY DEF CountStaysTrue
<1>1. q # p /\ pc'[q] = pc[q] /\ loc'[q] = loc[q]
  OBVIOUS
<1>2. ptr'[Pte(ptr'[Pgdir(q)], loc'[q].va)] = ptr[CowPte(q)]
  BY <1>1 DEF CowPte
<1> QED BY <1>1, <1>2 DEF CowInv, CountStaysTrue, CowPte

\* A step that leaves pointers and counts alone.
LEMMA MemorySame ==
    ASSUME CowInv, UNCHANGED <<ptr, refc, free>>
    PROVE  MemoryOK'
BY InvCovers DEF MemoryOK

\* A step of the MMU or of trap(): only types are at stake.
LEMMA SameMemoryInv ==
    ASSUME CowInv, TypeOK', RefcCoversPointers',
           UNCHANGED <<ptr, writable, refc, free, state, sz, pc, loc, parent>>
    PROVE  CowInv'
BY
   DEF CowInv, WritablePageUnshared, SlotsOwned, Forking, Reaping,
       ReturnsMatch, DirsPresent, EntriesHaveTable, KernelPagesUnshared,
       FreshLoc, UniqueLoc, CountStaysTrue

\* allocproc claims an UNUSED slot that no other fork has.
LEMMA ForkAllocprocInv ==
    ASSUME CowInv, NEW p \in Proc, ForkAllocproc(p)
    PROVE  CowInv'
<1>1. MemoryOK' /\ UNCHANGED <<ptr, writable, refc, free>>
  BY MemorySame DEF ForkAllocproc, memVars
<1>2. PICK c \in Proc : /\ state[c] = "UNUSED"
                        /\ state' = [state EXCEPT ![c] = "EMBRYO"]
                        /\ loc' = [loc EXCEPT ![p].child = c]
  BY DEF ForkAllocproc
<1>3. pc[p] = "user" /\ state[p] = "RUNNABLE" /\ pc' = [pc EXCEPT ![p] = "kstack"]
  BY DEF ForkAllocproc, EnterKernel, InUser
<1>9. loc' = [loc EXCEPT ![p].child = c]
  BY <1>1, <1>2, <1>3 DEF InUser
<1>10. loc' \in [Proc -> LocRecord]
  BY <1>9, <1>1, <1>2, <1>3, InvTypes, CowAssumption, SMTT(60) DEF LocRecord, Va
<1>11. TypeOK'
  BY <1>10, <1>1, <1>2, <1>3, CowAssumption, NoTlbOK, InvTypes
     DEF ForkAllocproc, procVars, memVars, EnterKernel, InUser, CowInv,
         TypeOK, PState, Label, MemoryOK, Pointers, PageOrNull, Counts
<1>12. RefcCoversPointers'
  BY <1>1, <1>2, <1>3, MemoryPart
<1>13. SlotsOwned'
  BY <1>1, <1>2, <1>3, CowAssumption
     DEF ForkAllocproc, procVars, memVars, EnterKernel, InUser, CowInv,
         TypeOK, SlotsOwned, Forking, Reaping
<1>14. ReturnsMatch'
  BY <1>1, <1>2, <1>3, CowAssumption
     DEF ForkAllocproc, procVars, memVars, EnterKernel, InUser, CowInv,
         TypeOK, ReturnsMatch, Va
<1>15. DirsPresent'
  BY <1>1, <1>2, <1>3, InvCovers, LocFacts
     DEF ForkAllocproc, procVars, memVars, EnterKernel, InUser, CowInv,
         TypeOK, DirsPresent, MemoryOK, Pointers, PageOrNull, Counts
<1>16. EntriesHaveTable'
  BY <1>1, <1>2, <1>3, InvCovers, LocFacts
     DEF ForkAllocproc, procVars, memVars, EnterKernel, InUser, CowInv,
         TypeOK, EntriesHaveTable, CountStaysTrue, MemoryOK, Pointers,
         PageOrNull, Counts
<1>17. WritablePageUnshared'
  BY <1>1, <1>2, <1>3, InvCovers, LocFacts
     DEF ForkAllocproc, procVars, memVars, EnterKernel, InUser, CowInv,
         TypeOK, WritablePageUnshared, MemoryOK, Pointers, PageOrNull, Counts
<1>18. KernelPagesUnshared'
  BY <1>1, <1>2, <1>3, InvCovers, LocFacts
     DEF ForkAllocproc, procVars, memVars, EnterKernel, InUser, CowInv,
         TypeOK, KernelPagesUnshared, UniqueLoc, FreshLoc, MemoryOK, Pointers,
         PageOrNull, Counts
<1>19. CountStaysTrue'
  BY <1>1, <1>2, <1>3, InvCovers, LocFacts
     DEF ForkAllocproc, procVars, memVars, EnterKernel, InUser, CowInv,
         TypeOK, CountStaysTrue, DirsPresent, ReturnsMatch, MemoryOK,
         Pointers, PageOrNull, Counts
<1> QED BY <1>11, <1>12, <1>13, <1>14, <1>15, <1>16, <1>17, <1>18, <1>19
           DEF CowInv

\* growproc starts to grow.
LEMMA SbrkGrowInv ==
    ASSUME CowInv, NEW p \in Proc, SbrkGrow(p)
    PROVE  CowInv'
<1>1. MemoryOK' /\ UNCHANGED <<ptr, writable, refc, free>>
  BY MemorySame DEF SbrkGrow, memVars
<1>2. PICK new \in sz[p] + 1 .. MaxVa :
        loc' = [loc EXCEPT ![p] = [@ EXCEPT !.va = sz[p], !.to = new, !.ret = "sbrk"]]
  BY DEF SbrkGrow
<1>3. /\ new \in 0 .. MaxVa /\ sz[p] \in 0 .. MaxVa - 1 /\ sz[p] \in Va
      /\ pc[p] = "user" /\ state[p] = "RUNNABLE" /\ loc[p].ret # "halt"
  BY <1>2, CowAssumption, InvTypes
     DEF Va, SbrkGrow, EnterKernel, InUser, CowInv, ReturnsMatch
<1>8. [loc[p] EXCEPT !.va = sz[p], !.to = new, !.ret = "sbrk"] \in LocRecord
  BY <1>1, <1>2, <1>3, InvTypes DEF LocRecord
<1>9. loc' = [loc EXCEPT ![p] = [@ EXCEPT !.va = sz[p], !.to = new, !.ret = "sbrk"]]
  BY <1>1, <1>2, <1>3 DEF InUser
<1>10. loc' \in [Proc -> LocRecord]
  BY <1>8, <1>9, InvTypes
<1>11. TypeOK'
  BY <1>10, <1>1, <1>2, <1>3, CowAssumption, NoTlbOK, InvTypes
     DEF SbrkGrow, procVars, memVars, EnterKernel, InUser, CowInv, TypeOK,
         PState, Label, MemoryOK, Pointers, PageOrNull, Counts
<1>12. RefcCoversPointers'
  BY <1>1, <1>2, <1>3, MemoryPart
<1>13. SlotsOwned'
  BY <1>1, <1>2, <1>3, CowAssumption
     DEF SbrkGrow, procVars, memVars, EnterKernel, InUser, CowInv, TypeOK,
         SlotsOwned, Forking, Reaping
<1>14. ReturnsMatch'
  BY <1>1, <1>2, <1>3, CowAssumption
     DEF SbrkGrow, procVars, memVars, EnterKernel, InUser, CowInv, TypeOK,
         ReturnsMatch, Va
<1>15. DirsPresent'
  BY <1>1, <1>2, <1>3, InvCovers, LocFacts
     DEF SbrkGrow, procVars, memVars, EnterKernel, InUser, CowInv, TypeOK,
         DirsPresent, MemoryOK, Pointers, PageOrNull, Counts
<1>16. EntriesHaveTable'
  BY <1>1, <1>2, <1>3, InvCovers, LocFacts
     DEF SbrkGrow, procVars, memVars, EnterKernel, InUser, CowInv, TypeOK,
         EntriesHaveTable, CountStaysTrue, MemoryOK, Pointers, PageOrNull,
         Counts
<1>17. WritablePageUnshared'
  BY <1>1, <1>2, <1>3, InvCovers, LocFacts
     DEF SbrkGrow, procVars, memVars, EnterKernel, InUser, CowInv, TypeOK,
         WritablePageUnshared, MemoryOK, Pointers, PageOrNull, Counts
<1>18. KernelPagesUnshared'
  BY <1>1, <1>2, <1>3, InvCovers, LocFacts
     DEF SbrkGrow, procVars, memVars, EnterKernel, InUser, CowInv, TypeOK,
         KernelPagesUnshared, UniqueLoc, FreshLoc, MemoryOK, Pointers,
         PageOrNull, Counts
<1>19. CountStaysTrue'
  BY <1>1, <1>2, <1>3, InvCovers, LocFacts
     DEF SbrkGrow, procVars, memVars, EnterKernel, InUser, CowInv, TypeOK,
         CountStaysTrue, DirsPresent, ReturnsMatch, MemoryOK, Pointers,
         PageOrNull, Counts
<1> QED BY <1>11, <1>12, <1>13, <1>14, <1>15, <1>16, <1>17, <1>18, <1>19
           DEF CowInv

\* growproc starts to shrink.
LEMMA SbrkShrinkInv ==
    ASSUME CowInv, NEW p \in Proc, SbrkShrink(p)
    PROVE  CowInv'
<1>1. MemoryOK' /\ UNCHANGED <<ptr, writable, refc, free>>
  BY MemorySame DEF SbrkShrink, memVars
<1>2. PICK new \in 1 .. sz[p] - 1 : loc' = [loc EXCEPT ![p] = [@ EXCEPT !.to = new, !.ret = "sbrk"]]
  BY DEF SbrkShrink
<1>3. /\ new \in 0 .. MaxVa
      /\ pc[p] = "user" /\ state[p] = "RUNNABLE" /\ loc[p].ret # "halt"
  BY <1>2, CowAssumption, InvTypes
     DEF SbrkShrink, EnterKernel, InUser, CowInv, ReturnsMatch
<1>8. [loc[p] EXCEPT !.to = new, !.ret = "sbrk"] \in LocRecord
  BY <1>1, <1>2, <1>3, InvTypes DEF LocRecord
<1>9. loc' = [loc EXCEPT ![p] = [@ EXCEPT !.to = new, !.ret = "sbrk"]]
  BY <1>1, <1>2, <1>3 DEF InUser
<1>10. loc' \in [Proc -> LocRecord]
  BY <1>8, <1>9, InvTypes
<1>11. TypeOK'
  BY <1>10, <1>1, <1>2, <1>3, CowAssumption, NoTlbOK, InvTypes
     DEF SbrkShrink, procVars, memVars, EnterKernel, InUser, CowInv, TypeOK,
         PState, Label, MemoryOK, Pointers, PageOrNull, Counts
<1>12. RefcCoversPointers'
  BY <1>1, <1>2, <1>3, MemoryPart
<1>13. SlotsOwned'
  BY <1>1, <1>2, <1>3, CowAssumption
     DEF SbrkShrink, procVars, memVars, EnterKernel, InUser, CowInv, TypeOK,
         SlotsOwned, Forking, Reaping
<1>14. ReturnsMatch'
  BY <1>1, <1>2, <1>3, CowAssumption
     DEF SbrkShrink, procVars, memVars, EnterKernel, InUser, CowInv, TypeOK,
         ReturnsMatch, Va
<1>15. DirsPresent'
  BY <1>1, <1>2, <1>3, InvCovers, LocFacts
     DEF SbrkShrink, procVars, memVars, EnterKernel, InUser, CowInv, TypeOK,
         DirsPresent, MemoryOK, Pointers, PageOrNull, Counts
<1>16. EntriesHaveTable'
  BY <1>1, <1>2, <1>3, InvCovers, LocFacts
     DEF SbrkShrink, procVars, memVars, EnterKernel, InUser, CowInv, TypeOK,
         EntriesHaveTable, CountStaysTrue, MemoryOK, Pointers, PageOrNull,
         Counts
<1>17. WritablePageUnshared'
  BY <1>1, <1>2, <1>3, InvCovers, LocFacts
     DEF SbrkShrink, procVars, memVars, EnterKernel, InUser, CowInv, TypeOK,
         WritablePageUnshared, MemoryOK, Pointers, PageOrNull, Counts
<1>18. KernelPagesUnshared'
  BY <1>1, <1>2, <1>3, InvCovers, LocFacts
     DEF SbrkShrink, procVars, memVars, EnterKernel, InUser, CowInv, TypeOK,
         KernelPagesUnshared, UniqueLoc, FreshLoc, MemoryOK, Pointers,
         PageOrNull, Counts
<1>19. CountStaysTrue'
  BY <1>1, <1>2, <1>3, InvCovers, LocFacts
     DEF SbrkShrink, procVars, memVars, EnterKernel, InUser, CowInv, TypeOK,
         CountStaysTrue, DirsPresent, ReturnsMatch, MemoryOK, Pointers,
         PageOrNull, Counts
<1> QED BY <1>11, <1>12, <1>13, <1>14, <1>15, <1>16, <1>17, <1>18, <1>19
           DEF CowInv

\* A user store faults.
LEMMA StoreFaultInv ==
    ASSUME CowInv, NEW p \in Proc, NEW va \in Va, StoreFault(p, va)
    PROVE  CowInv'
<1>1. MemoryOK' /\ UNCHANGED <<ptr, writable, refc, free>>
  BY MemorySame DEF StoreFault, memVars
<1>9. loc' = [loc EXCEPT ![p].va = va]
  BY <1>1
     DEF StoreFault, procVars, memVars, EnterKernel, InUser, FlushTlb, NoEntry
<1>10. loc' \in [Proc -> LocRecord]
  BY <1>9, <1>1, InvTypes, CowAssumption DEF LocRecord, Va
<1>11. TypeOK'
  BY <1>10, <1>1, CowAssumption, NoTlbOK, InvTypes
     DEF StoreFault, procVars, memVars, EnterKernel, InUser, FlushTlb,
         NoEntry, CowInv, TypeOK, PState, Label, MemoryOK, Pointers,
         PageOrNull, Counts
<1>12. RefcCoversPointers'
  BY <1>1, MemoryPart
<1>13. SlotsOwned'
  BY <1>1, CowAssumption
     DEF StoreFault, procVars, memVars, EnterKernel, InUser, FlushTlb,
         NoEntry, CowInv, TypeOK, SlotsOwned, Forking, Reaping
<1>14. ReturnsMatch'
  BY <1>1, CowAssumption
     DEF StoreFault, procVars, memVars, EnterKernel, InUser, FlushTlb,
         NoEntry, CowInv, TypeOK, ReturnsMatch, Va
<1>15. DirsPresent'
  BY <1>1, InvCovers, LocFacts
     DEF StoreFault, procVars, memVars, EnterKernel, InUser, FlushTlb,
         NoEntry, CowInv, TypeOK, DirsPresent, MemoryOK, Pointers, PageOrNull,
         Counts
<1>16. EntriesHaveTable'
  BY <1>1, InvCovers, LocFacts
     DEF StoreFault, procVars, memVars, EnterKernel, InUser, FlushTlb,
         NoEntry, CowInv, TypeOK, EntriesHaveTable, CountStaysTrue, MemoryOK,
         Pointers, PageOrNull, Counts
<1>17. WritablePageUnshared'
  BY <1>1, InvCovers, LocFacts
     DEF StoreFault, procVars, memVars, EnterKernel, InUser, FlushTlb,
         NoEntry, CowInv, TypeOK, WritablePageUnshared, MemoryOK, Pointers,
         PageOrNull, Counts
<1>18. KernelPagesUnshared'
  BY <1>1, InvCovers, LocFacts
     DEF StoreFault, procVars, memVars, EnterKernel, InUser, FlushTlb,
         NoEntry, CowInv, TypeOK, KernelPagesUnshared, UniqueLoc, FreshLoc,
         MemoryOK, Pointers, PageOrNull, Counts
<1>19. CountStaysTrue'
  BY <1>1, InvCovers, LocFacts
     DEF StoreFault, procVars, memVars, EnterKernel, InUser, FlushTlb,
         NoEntry, CowInv, TypeOK, CountStaysTrue, DirsPresent, ReturnsMatch,
         MemoryOK, Pointers, PageOrNull, Counts
<1> QED BY <1>11, <1>12, <1>13, <1>14, <1>15, <1>16, <1>17, <1>18, <1>19
           DEF CowInv

\* A kernel store faults.
LEMMA KernelStoreFaultInv ==
    ASSUME CowInv, NEW p \in Proc, NEW va \in Va, KernelStoreFault(p, va)
    PROVE  CowInv'
<1>1. MemoryOK' /\ UNCHANGED <<ptr, writable, refc, free>>
  BY MemorySame DEF KernelStoreFault, memVars
<1>10. loc' \in [Proc -> LocRecord]
  BY <1>1, InvTypes DEF KernelStoreFault
<1>11. TypeOK'
  BY <1>10, <1>1, CowAssumption, NoTlbOK, InvTypes
     DEF KernelStoreFault, procVars, memVars, EnterKernel, InUser, NoEntry,
         CowInv, TypeOK, PState, Label, MemoryOK, Pointers, PageOrNull, Counts
<1>12. RefcCoversPointers'
  BY <1>1, MemoryPart
<1>13. SlotsOwned'
  BY <1>1, CowAssumption
     DEF KernelStoreFault, procVars, memVars, EnterKernel, InUser, NoEntry,
         CowInv, TypeOK, SlotsOwned, Forking, Reaping
<1>14. ReturnsMatch'
  BY <1>1, CowAssumption
     DEF KernelStoreFault, procVars, memVars, EnterKernel, InUser, NoEntry,
         CowInv, TypeOK, ReturnsMatch, Va
<1>15. DirsPresent'
  BY <1>1, InvCovers, LocFacts
     DEF KernelStoreFault, procVars, memVars, EnterKernel, InUser, NoEntry,
         CowInv, TypeOK, DirsPresent, MemoryOK, Pointers, PageOrNull, Counts
<1>16. EntriesHaveTable'
  BY <1>1, InvCovers, LocFacts
     DEF KernelStoreFault, procVars, memVars, EnterKernel, InUser, NoEntry,
         CowInv, TypeOK, EntriesHaveTable, CountStaysTrue, MemoryOK, Pointers,
         PageOrNull, Counts
<1>17. WritablePageUnshared'
  BY <1>1, InvCovers, LocFacts
     DEF KernelStoreFault, procVars, memVars, EnterKernel, InUser, NoEntry,
         CowInv, TypeOK, WritablePageUnshared, MemoryOK, Pointers, PageOrNull,
         Counts
<1>18. KernelPagesUnshared'
  BY <1>1, InvCovers, LocFacts
     DEF KernelStoreFault, procVars, memVars, EnterKernel, InUser, NoEntry,
         CowInv, TypeOK, KernelPagesUnshared, UniqueLoc, FreshLoc, MemoryOK,
         Pointers, PageOrNull, Counts
<1>19. CountStaysTrue'
  BY <1>1, InvCovers, LocFacts
     DEF KernelStoreFault, procVars, memVars, EnterKernel, InUser, NoEntry,
         CowInv, TypeOK, CountStaysTrue, DirsPresent, ReturnsMatch, MemoryOK,
         Pointers, PageOrNull, Counts
<1> QED BY <1>11, <1>12, <1>13, <1>14, <1>15, <1>16, <1>17, <1>18, <1>19
           DEF CowInv

\* growproc publishes a larger size.
LEMMA SbrkGrownInv ==
    ASSUME CowInv, NEW p \in Proc, SbrkGrown(p)
    PROVE  CowInv'
<1>1. MemoryOK' /\ UNCHANGED <<ptr, writable, refc, free>>
  BY MemorySame DEF SbrkGrown, memVars
<1>2. state[p] = "RUNNABLE" /\ loc[p].ret # "halt" /\ pc[p] = "grow"
  BY DEF SbrkGrown, CowInv, SlotsOwned, ReturnsMatch
<1>9. loc' = [loc EXCEPT ![p] = NoLoc]
  BY <1>1, <1>2 DEF SbrkGrown, procVars, memVars, FlushTlb
<1>10. loc' \in [Proc -> LocRecord]
  BY <1>9, <1>1, <1>2, InvTypes, CowAssumption DEF LocRecord, Va
<1>11. TypeOK'
  BY <1>10, <1>1, <1>2, CowAssumption, NoTlbOK, InvTypes
     DEF SbrkGrown, procVars, memVars, FlushTlb, CowInv, TypeOK, PState,
         Label, MemoryOK, Pointers, PageOrNull, Counts
<1>12. RefcCoversPointers'
  BY <1>1, <1>2, MemoryPart
<1>13. SlotsOwned'
  BY <1>1, <1>2, CowAssumption
     DEF SbrkGrown, procVars, memVars, FlushTlb, CowInv, TypeOK, SlotsOwned,
         Forking, Reaping
<1>14. ReturnsMatch'
  BY <1>1, <1>2, CowAssumption
     DEF SbrkGrown, procVars, memVars, FlushTlb, CowInv, TypeOK, ReturnsMatch,
         Va
<1>15. DirsPresent'
  BY <1>1, <1>2, InvCovers, LocFacts
     DEF SbrkGrown, procVars, memVars, FlushTlb, CowInv, TypeOK, DirsPresent,
         MemoryOK, Pointers, PageOrNull, Counts
<1>16. EntriesHaveTable'
  BY <1>1, <1>2, InvCovers, LocFacts
     DEF SbrkGrown, procVars, memVars, FlushTlb, CowInv, TypeOK,
         EntriesHaveTable, CountStaysTrue, MemoryOK, Pointers, PageOrNull,
         Counts
<1>17. WritablePageUnshared'
  BY <1>1, <1>2, InvCovers, LocFacts
     DEF SbrkGrown, procVars, memVars, FlushTlb, CowInv, TypeOK,
         WritablePageUnshared, MemoryOK, Pointers, PageOrNull, Counts
<1>18. KernelPagesUnshared'
  BY <1>1, <1>2, InvCovers, LocFacts
     DEF SbrkGrown, procVars, memVars, FlushTlb, CowInv, TypeOK,
         KernelPagesUnshared, UniqueLoc, FreshLoc, MemoryOK, Pointers,
         PageOrNull, Counts
<1>19. CountStaysTrue'
  BY <1>1, <1>2, InvCovers, LocFacts
     DEF SbrkGrown, procVars, memVars, FlushTlb, CowInv, TypeOK,
         CountStaysTrue, DirsPresent, ReturnsMatch, MemoryOK, Pointers,
         PageOrNull, Counts
<1> QED BY <1>11, <1>12, <1>13, <1>14, <1>15, <1>16, <1>17, <1>18, <1>19
           DEF CowInv

\* growproc publishes a smaller size, or rolls back.
LEMMA SbrkShrunkInv ==
    ASSUME CowInv, NEW p \in Proc, SbrkShrunk(p)
    PROVE  CowInv'
<1>1. MemoryOK' /\ UNCHANGED <<ptr, writable, refc, free>>
  BY MemorySame DEF SbrkShrunk, memVars
<1>2. state[p] = "RUNNABLE" /\ loc[p].ret # "halt" /\ pc[p] = "shrink"
  BY DEF SbrkShrunk, CowInv, SlotsOwned, ReturnsMatch
<1>3. tlb' \in [Proc -> [Va -> [pg : Page \cup {NoPage}, w : BOOLEAN]]]
  BY NoTlbOK DEF SbrkShrunk, FlushTlb, CowInv, TypeOK
<1>9. loc' = [loc EXCEPT ![p] = NoLoc]
  BY <1>1, <1>2, <1>3 DEF SbrkShrunk, procVars, memVars, FlushTlb
<1>10. loc' \in [Proc -> LocRecord]
  BY <1>9, <1>1, <1>2, <1>3, InvTypes, CowAssumption DEF LocRecord, Va
<1>11. TypeOK'
  BY <1>10, <1>1, <1>2, <1>3, CowAssumption, NoTlbOK, InvTypes
     DEF SbrkShrunk, procVars, memVars, FlushTlb, CowInv, TypeOK, PState,
         Label, MemoryOK, Pointers, PageOrNull, Counts
<1>12. RefcCoversPointers'
  BY <1>1, <1>2, <1>3, MemoryPart
<1>13. SlotsOwned'
  BY <1>1, <1>2, <1>3, CowAssumption
     DEF SbrkShrunk, procVars, memVars, FlushTlb, CowInv, TypeOK, SlotsOwned,
         Forking, Reaping
<1>14. ReturnsMatch'
  BY <1>1, <1>2, <1>3, CowAssumption
     DEF SbrkShrunk, procVars, memVars, FlushTlb, CowInv, TypeOK,
         ReturnsMatch, Va
<1>15. DirsPresent'
  BY <1>1, <1>2, <1>3, InvCovers, LocFacts
     DEF SbrkShrunk, procVars, memVars, FlushTlb, CowInv, TypeOK, DirsPresent,
         MemoryOK, Pointers, PageOrNull, Counts
<1>16. EntriesHaveTable'
  BY <1>1, <1>2, <1>3, InvCovers, LocFacts
     DEF SbrkShrunk, procVars, memVars, FlushTlb, CowInv, TypeOK,
         EntriesHaveTable, CountStaysTrue, MemoryOK, Pointers, PageOrNull,
         Counts
<1>17. WritablePageUnshared'
  BY <1>1, <1>2, <1>3, InvCovers, LocFacts
     DEF SbrkShrunk, procVars, memVars, FlushTlb, CowInv, TypeOK,
         WritablePageUnshared, MemoryOK, Pointers, PageOrNull, Counts
<1>18. KernelPagesUnshared'
  BY <1>1, <1>2, <1>3, InvCovers, LocFacts
     DEF SbrkShrunk, procVars, memVars, FlushTlb, CowInv, TypeOK,
         KernelPagesUnshared, UniqueLoc, FreshLoc, MemoryOK, Pointers,
         PageOrNull, Counts
<1>19. CountStaysTrue'
  BY <1>1, <1>2, <1>3, InvCovers, LocFacts
     DEF SbrkShrunk, procVars, memVars, FlushTlb, CowInv, TypeOK,
         CountStaysTrue, DirsPresent, ReturnsMatch, MemoryOK, Pointers,
         PageOrNull, Counts
<1> QED BY <1>11, <1>12, <1>13, <1>14, <1>15, <1>16, <1>17, <1>18, <1>19
           DEF CowInv

\* exit makes the process a zombie.
LEMMA ExitInv ==
    ASSUME CowInv, NEW p \in Proc, Exit(p)
    PROVE  CowInv'
<1>1. MemoryOK' /\ UNCHANGED <<ptr, writable, refc, free>>
  BY MemorySame DEF Exit, memVars
<1>10. loc' \in [Proc -> LocRecord]
  BY <1>1, InvTypes DEF Exit
<1>11. TypeOK'
  BY <1>10, <1>1, CowAssumption, NoTlbOK, InvTypes
     DEF Exit, procVars, memVars, InUser, FlushTlb, PtableLocked, CowInv,
         TypeOK, PState, Label, MemoryOK, Pointers, PageOrNull, Counts
<1>12. RefcCoversPointers'
  BY <1>1, MemoryPart
<1>13. SlotsOwned'
  BY <1>1, CowAssumption
     DEF Exit, procVars, memVars, InUser, FlushTlb, PtableLocked, CowInv,
         TypeOK, SlotsOwned, Forking, Reaping
<1>14. ReturnsMatch'
  BY <1>1, CowAssumption
     DEF Exit, procVars, memVars, InUser, FlushTlb, PtableLocked, CowInv,
         TypeOK, ReturnsMatch, Va
<1>15. DirsPresent'
  BY <1>1, InvCovers, LocFacts
     DEF Exit, procVars, memVars, InUser, FlushTlb, PtableLocked, CowInv,
         TypeOK, DirsPresent, MemoryOK, Pointers, PageOrNull, Counts
<1>16. EntriesHaveTable'
  BY <1>1, InvCovers, LocFacts
     DEF Exit, procVars, memVars, InUser, FlushTlb, PtableLocked, CowInv,
         TypeOK, EntriesHaveTable, CountStaysTrue, MemoryOK, Pointers,
         PageOrNull, Counts
<1>17. WritablePageUnshared'
  BY <1>1, InvCovers, LocFacts
     DEF Exit, procVars, memVars, InUser, FlushTlb, PtableLocked, CowInv,
         TypeOK, WritablePageUnshared, MemoryOK, Pointers, PageOrNull, Counts
<1>18. KernelPagesUnshared'
  BY <1>1, InvCovers, LocFacts
     DEF Exit, procVars, memVars, InUser, FlushTlb, PtableLocked, CowInv,
         TypeOK, KernelPagesUnshared, UniqueLoc, FreshLoc, MemoryOK, Pointers,
         PageOrNull, Counts
<1>19. CountStaysTrue'
  BY <1>1, InvCovers, LocFacts
     DEF Exit, procVars, memVars, InUser, FlushTlb, PtableLocked, CowInv,
         TypeOK, CountStaysTrue, DirsPresent, ReturnsMatch, MemoryOK,
         Pointers, PageOrNull, Counts
<1> QED BY <1>11, <1>12, <1>13, <1>14, <1>15, <1>16, <1>17, <1>18, <1>19
           DEF CowInv

\* wait gives the zombie's slot back.
LEMMA WaitDoneInv ==
    ASSUME CowInv, NEW p \in Proc, WaitDone(p)
    PROVE  CowInv'
<1>1. MemoryOK' /\ UNCHANGED <<ptr, writable, refc, free>>
  BY MemorySame DEF WaitDone, memVars
<1>2. /\ loc[p].child \in Proc /\ state[loc[p].child] = "ZOMBIE" /\ state[p] = "RUNNABLE"
      /\ pc[loc[p].child] \in {"none", "zombie"} /\ loc[loc[p].child].ret # "halt"
      /\ Reaping(p) /\ loc[p].ret # "halt" /\ loc[p].child # p
  BY DEF WaitDone, CowInv, SlotsOwned, ReturnsMatch, Reaping
<1>9. loc' = [loc EXCEPT ![p] = NoLoc]
  BY <1>1, <1>2 DEF WaitDone, procVars, memVars
<1>10. loc' \in [Proc -> LocRecord]
  BY <1>9, <1>1, <1>2, InvTypes, CowAssumption DEF LocRecord, Va
<1>11. TypeOK'
  BY <1>10, <1>1, <1>2, CowAssumption, NoTlbOK, InvTypes
     DEF WaitDone, procVars, memVars, CowInv, TypeOK, PState, Label, MemoryOK,
         Pointers, PageOrNull, Counts
<1>12. RefcCoversPointers'
  BY <1>1, <1>2, MemoryPart
<1>13. SlotsOwned'
  <2>1. \A q \in Proc : Forking(q)' =>
          Forking(q) /\ q # p /\ loc'[q] = loc[q] /\ loc[q].child # loc[p].child
    BY <1>1, <1>2, InvTypes DEF WaitDone, CowInv, SlotsOwned, Forking, Reaping
  <2>2. \A q \in Proc : ~Reaping(q)'
    BY <1>1, <1>2, InvTypes DEF WaitDone, CowInv, SlotsOwned, Reaping
  <2> QED BY <1>1, <1>2, <2>1, <2>2, InvTypes DEF WaitDone, CowInv, SlotsOwned
<1>14. ReturnsMatch'
  BY <1>1, <1>2, CowAssumption
     DEF WaitDone, procVars, memVars, CowInv, TypeOK, ReturnsMatch, Va
<1>15. DirsPresent'
  BY <1>1, <1>2, InvCovers, LocFacts
     DEF WaitDone, procVars, memVars, CowInv, TypeOK, DirsPresent, MemoryOK,
         Pointers, PageOrNull, Counts
<1>16. EntriesHaveTable'
  BY <1>1, <1>2, InvCovers, LocFacts
     DEF WaitDone, procVars, memVars, CowInv, TypeOK, EntriesHaveTable,
         CountStaysTrue, MemoryOK, Pointers, PageOrNull, Counts
<1>17. WritablePageUnshared'
  BY <1>1, <1>2, InvCovers, LocFacts
     DEF WaitDone, procVars, memVars, CowInv, TypeOK, WritablePageUnshared,
         MemoryOK, Pointers, PageOrNull, Counts
<1>18. KernelPagesUnshared'
  BY <1>1, <1>2, InvCovers, LocFacts
     DEF WaitDone, procVars, memVars, CowInv, TypeOK, KernelPagesUnshared,
         UniqueLoc, FreshLoc, MemoryOK, Pointers, PageOrNull, Counts
<1>19. CountStaysTrue'
  BY <1>1, <1>2, InvCovers, LocFacts
     DEF WaitDone, procVars, memVars, CowInv, TypeOK, CountStaysTrue,
         DirsPresent, ReturnsMatch, MemoryOK, Pointers, PageOrNull, Counts
<1> QED BY <1>11, <1>12, <1>13, <1>14, <1>15, <1>16, <1>17, <1>18, <1>19
           DEF CowInv

\* Cow_handler reads a count that stays true: only a holder of the page can raise it.
LEMMA CowGetRefcInv ==
    ASSUME CowInv, NEW p \in Proc, CowGetRefc(p)
    PROVE  CowInv'
<1>1. MemoryOK' /\ UNCHANGED <<ptr, writable, refc, free>>
  BY MemorySame DEF CowGetRefc, memVars
<1>2. /\ pc[p] = "cow" /\ loc[p].va \in Va /\ state[p] = "RUNNABLE" /\ ptr[Pgdir(p)] \in Page
      /\ Pte(ptr[Pgdir(p)], loc[p].va) \in Loc
      /\ ptr[Pte(ptr[Pgdir(p)], loc[p].va)] \in Page
      /\ refc[ptr[Pte(ptr[Pgdir(p)], loc[p].va)]] \in Nat
  BY InvCovers, LocFacts
     DEF CowGetRefc, CowInv, SlotsOwned, ReturnsMatch, DirsPresent, Pointers,
         PageOrNull, Counts
<1>9. loc' = [loc EXCEPT ![p].cnt = refc[ptr[Pte(ptr[Pgdir(p)], loc[p].va)]]]
  BY <1>1, <1>2 DEF CowGetRefc, procVars, memVars
<1>10. loc' \in [Proc -> LocRecord]
  BY <1>9, <1>1, <1>2, InvTypes, CowAssumption DEF LocRecord, Va
<1>11. TypeOK'
  BY <1>10, <1>1, <1>2, CowAssumption, NoTlbOK, InvTypes
     DEF CowGetRefc, procVars, memVars, CowInv, TypeOK, PState, Label,
         MemoryOK, Pointers, PageOrNull, Counts
<1>12. RefcCoversPointers'
  BY <1>1, <1>2, MemoryPart
<1>13. SlotsOwned'
  BY <1>1, <1>2, CowAssumption
     DEF CowGetRefc, procVars, memVars, CowInv, TypeOK, SlotsOwned, Forking,
         Reaping
<1>14. ReturnsMatch'
  BY <1>1, <1>2, CowAssumption
     DEF CowGetRefc, procVars, memVars, CowInv, TypeOK, ReturnsMatch, Va
<1>15. DirsPresent'
  BY <1>1, <1>2, InvCovers, LocFacts
     DEF CowGetRefc, procVars, memVars, CowInv, TypeOK, DirsPresent, MemoryOK,
         Pointers, PageOrNull, Counts
<1>16. EntriesHaveTable'
  BY <1>1, <1>2, InvCovers, LocFacts
     DEF CowGetRefc, procVars, memVars, CowInv, TypeOK, EntriesHaveTable,
         CountStaysTrue, MemoryOK, Pointers, PageOrNull, Counts
<1>17. WritablePageUnshared'
  BY <1>1, <1>2, InvCovers, LocFacts
     DEF CowGetRefc, procVars, memVars, CowInv, TypeOK, WritablePageUnshared,
         MemoryOK, Pointers, PageOrNull, Counts
<1>18. KernelPagesUnshared'
  BY <1>1, <1>2, InvCovers, LocFacts
     DEF CowGetRefc, procVars, memVars, CowInv, TypeOK, KernelPagesUnshared,
         UniqueLoc, FreshLoc, MemoryOK, Pointers, PageOrNull, Counts
<1>19. CountStaysTrue'
  BY <1>1, <1>2, InvCovers, LocFacts
     DEF CowGetRefc, procVars, memVars, CowInv, TypeOK, CountStaysTrue,
         DirsPresent, ReturnsMatch, MemoryOK, Pointers, PageOrNull, Counts
<1> QED BY <1>11, <1>12, <1>13, <1>14, <1>15, <1>16, <1>17, <1>18, <1>19
           DEF CowInv

\* allocproc takes a kernel stack.
LEMMA ForkKstackInv ==
    ASSUME CowInv, NEW p \in Proc, ForkKstack(p)
    PROVE  CowInv'
<1> DEFINE c == loc[p].child
<1>1. /\ c \in Proc /\ state[c] = "EMBRYO" /\ pc[p] = "kstack" /\ Kstack(c) \in Loc
      /\ state[p] = "RUNNABLE" /\ loc[p].ret # "halt" /\ c # p
  BY LocFacts DEF CowInv, SlotsOwned, ReturnsMatch, Forking, ForkKstack
<1>2. CASE /\ free = {} /\ state' = [state EXCEPT ![c] = "UNUSED"] /\ ReturnToUser(p)
           /\ UNCHANGED <<ptr, refc, free>>
  <2>1. MemoryOK'
    BY <1>2, MemorySame
  <2>9. loc' = [loc EXCEPT ![p] = NoLoc]
    BY <1>1, <1>2, <2>1
  <2>10. loc' \in [Proc -> LocRecord]
    BY <2>9, <1>1, <1>2, <2>1, InvTypes, CowAssumption DEF LocRecord, Va
  <2>11. TypeOK'
    BY <2>10, <1>1, <1>2, <2>1, CowAssumption, NoTlbOK, InvTypes
       DEF ForkKstack, procVars, memVars, CowInv, TypeOK, PState, Label,
           MemoryOK, Pointers, PageOrNull, Counts
  <2>12. RefcCoversPointers'
    BY <2>1, MemoryPart
  <2>13. SlotsOwned'
    BY <1>1, <1>2, <2>1, CowAssumption
       DEF ForkKstack, procVars, memVars, CowInv, TypeOK, SlotsOwned, Forking,
           Reaping
  <2>14. ReturnsMatch'
    BY <1>1, <1>2, <2>1, CowAssumption
       DEF ForkKstack, procVars, memVars, CowInv, TypeOK, ReturnsMatch, Va
  <2>15. DirsPresent'
    BY <1>1, <1>2, <2>1, InvCovers, LocFacts
       DEF ForkKstack, procVars, memVars, CowInv, TypeOK, DirsPresent,
           MemoryOK, Pointers, PageOrNull, Counts
  <2>16. EntriesHaveTable'
    BY <1>1, <1>2, <2>1, InvCovers, LocFacts
       DEF ForkKstack, procVars, memVars, CowInv, TypeOK, EntriesHaveTable,
           CountStaysTrue, MemoryOK, Pointers, PageOrNull, Counts
  <2>17. WritablePageUnshared'
    BY <1>1, <1>2, <2>1, InvCovers, LocFacts
       DEF ForkKstack, procVars, memVars, CowInv, TypeOK,
           WritablePageUnshared, MemoryOK, Pointers, PageOrNull, Counts
  <2>18. KernelPagesUnshared'
    BY <1>1, <1>2, <2>1, InvCovers, LocFacts
       DEF ForkKstack, procVars, memVars, CowInv, TypeOK, KernelPagesUnshared,
           UniqueLoc, FreshLoc, MemoryOK, Pointers, PageOrNull, Counts
  <2>19. CountStaysTrue'
    BY <1>1, <1>2, <2>1, InvCovers, LocFacts
       DEF ForkKstack, procVars, memVars, CowInv, TypeOK, CountStaysTrue,
           DirsPresent, ReturnsMatch, MemoryOK, Pointers, PageOrNull, Counts
  <2> QED BY <2>11, <2>12, <2>13, <2>14, <2>15, <2>16, <2>17, <2>18, <2>19
             DEF CowInv
<1>3. ASSUME NEW pg \in Page, Kalloc(pg), ptr' = [ptr EXCEPT ![Kstack(c)] = pg],
             Goto(p, "setupkvm"), UNCHANGED <<state, loc>>
      PROVE  CowInv'
  <2>1. /\ MemoryOK' /\ pg # NoPage /\ refc[pg] = 0
        /\ refc' = [refc EXCEPT ![pg] = @ + 1] /\ \A m \in Loc : ptr[m] # pg
    BY <1>1, <1>3, KallocInto
  <2>10. loc' \in [Proc -> LocRecord]
    BY <1>3, <2>1, InvTypes
  <2>11. TypeOK'
    BY <2>10, <1>1, <1>3, <2>1, CowAssumption, NoTlbOK, InvTypes
       DEF ForkKstack, procVars, memVars, CowInv, TypeOK, PState, Label,
           MemoryOK, Pointers, PageOrNull, Counts
  <2>12. RefcCoversPointers'
    BY <2>1, MemoryPart
  <2>13. SlotsOwned'
    BY <1>1, <1>3, <2>1, CowAssumption
       DEF ForkKstack, procVars, memVars, CowInv, TypeOK, SlotsOwned, Forking,
           Reaping
  <2>14. ReturnsMatch'
    BY <1>1, <1>3, <2>1, CowAssumption
       DEF ForkKstack, procVars, memVars, CowInv, TypeOK, ReturnsMatch, Va
  <2>15. DirsPresent'
    BY <1>1, <1>3, <2>1, InvCovers, LocFacts
       DEF ForkKstack, procVars, memVars, CowInv, TypeOK, DirsPresent,
           MemoryOK, Pointers, PageOrNull, Counts
  <2>16. EntriesHaveTable'
    BY <1>1, <1>3, <2>1, InvCovers, LocFacts
       DEF ForkKstack, procVars, memVars, CowInv, TypeOK, EntriesHaveTable,
           CountStaysTrue, MemoryOK, Pointers, PageOrNull, Counts
  <2>17. WritablePageUnshared'
    BY <1>1, <1>3, <2>1, InvCovers, LocFacts
       DEF ForkKstack, procVars, memVars, CowInv, TypeOK,
           WritablePageUnshared, MemoryOK, Pointers, PageOrNull, Counts
  <2>18. KernelPagesUnshared'
    BY <1>1, <1>3, <2>1, InvCovers, LocFacts
       DEF ForkKstack, procVars, memVars, CowInv, TypeOK, KernelPagesUnshared,
           UniqueLoc, FreshLoc, MemoryOK, Pointers, PageOrNull, Counts
  <2>19. CountStaysTrue'
    BY <1>1, <1>3, <2>1, InvCovers, LocFacts
       DEF ForkKstack, procVars, memVars, CowInv, TypeOK, CountStaysTrue,
           DirsPresent, ReturnsMatch, MemoryOK, Pointers, PageOrNull, Counts
  <2> QED BY <2>11, <2>12, <2>13, <2>14, <2>15, <2>16, <2>17, <2>18, <2>19
             DEF CowInv
<1> QED BY <1>2, <1>3 DEF ForkKstack

\* shareuvm takes a page directory.
LEMMA ForkSetupkvmInv ==
    ASSUME CowInv, NEW p \in Proc, ForkSetupkvm(p)
    PROVE  CowInv'
<1>1. pc[p] = "setupkvm" /\ Dir(p) \in Loc
  BY LocFacts DEF ForkSetupkvm
<1>2. CASE free = {} /\ Goto(p, "unfork") /\ UNCHANGED <<ptr, refc, free>>
  <2>1. MemoryOK'
    BY <1>2, MemorySame
  <2>10. loc' \in [Proc -> LocRecord]
    BY <1>1, <1>2, <2>1, InvTypes DEF ForkSetupkvm
  <2>11. TypeOK'
    BY <2>10, <1>1, <1>2, <2>1, CowAssumption, NoTlbOK, InvTypes
       DEF ForkSetupkvm, procVars, memVars, CowInv, TypeOK, PState, Label,
           MemoryOK, Pointers, PageOrNull, Counts
  <2>12. RefcCoversPointers'
    BY <2>1, MemoryPart
  <2>13. SlotsOwned'
    BY <1>1, <1>2, <2>1, CowAssumption
       DEF ForkSetupkvm, procVars, memVars, CowInv, TypeOK, SlotsOwned,
           Forking, Reaping
  <2>14. ReturnsMatch'
    BY <1>1, <1>2, <2>1, CowAssumption
       DEF ForkSetupkvm, procVars, memVars, CowInv, TypeOK, ReturnsMatch, Va
  <2>15. DirsPresent'
    BY <1>1, <1>2, <2>1, InvCovers, LocFacts
       DEF ForkSetupkvm, procVars, memVars, CowInv, TypeOK, DirsPresent,
           MemoryOK, Pointers, PageOrNull, Counts
  <2>16. EntriesHaveTable'
    BY <1>1, <1>2, <2>1, InvCovers, LocFacts
       DEF ForkSetupkvm, procVars, memVars, CowInv, TypeOK, EntriesHaveTable,
           CountStaysTrue, MemoryOK, Pointers, PageOrNull, Counts
  <2>17. WritablePageUnshared'
    BY <1>1, <1>2, <2>1, InvCovers, LocFacts
       DEF ForkSetupkvm, procVars, memVars, CowInv, TypeOK,
           WritablePageUnshared, MemoryOK, Pointers, PageOrNull, Counts
  <2>18. KernelPagesUnshared'
    BY <1>1, <1>2, <2>1, InvCovers, LocFacts
       DEF ForkSetupkvm, procVars, memVars, CowInv, TypeOK,
           KernelPagesUnshared, UniqueLoc, FreshLoc, MemoryOK, Pointers,
           PageOrNull, Counts
  <2>19. CountStaysTrue'
    BY <1>1, <1>2, <2>1, InvCovers, LocFacts
       DEF ForkSetupkvm, procVars, memVars, CowInv, TypeOK, CountStaysTrue,
           DirsPresent, ReturnsMatch, MemoryOK, Pointers, PageOrNull, Counts
  <2> QED BY <2>11, <2>12, <2>13, <2>14, <2>15, <2>16, <2>17, <2>18, <2>19
             DEF CowInv
<1>3. ASSUME NEW pg \in Page, Kalloc(pg), ptr' = [ptr EXCEPT ![Dir(p)] = pg],
             Goto(p, "share")
      PROVE  CowInv'
  <2>1. /\ MemoryOK' /\ pg # NoPage /\ refc[pg] = 0
        /\ refc' = [refc EXCEPT ![pg] = @ + 1] /\ \A m \in Loc : ptr[m] # pg
    BY <1>1, <1>3, KallocInto
  <2>10. loc' \in [Proc -> LocRecord]
    BY <1>1, <1>3, <2>1, InvTypes DEF ForkSetupkvm
  <2>11. TypeOK'
    BY <2>10, <1>1, <1>3, <2>1, CowAssumption, NoTlbOK, InvTypes
       DEF ForkSetupkvm, procVars, memVars, CowInv, TypeOK, PState, Label,
           MemoryOK, Pointers, PageOrNull, Counts
  <2>12. RefcCoversPointers'
    BY <2>1, MemoryPart
  <2>13. SlotsOwned'
    BY <1>1, <1>3, <2>1, CowAssumption
       DEF ForkSetupkvm, procVars, memVars, CowInv, TypeOK, SlotsOwned,
           Forking, Reaping
  <2>14. ReturnsMatch'
    BY <1>1, <1>3, <2>1, CowAssumption
       DEF ForkSetupkvm, procVars, memVars, CowInv, TypeOK, ReturnsMatch, Va
  <2>15. DirsPresent'
    BY <1>1, <1>3, <2>1, InvCovers, LocFacts
       DEF ForkSetupkvm, procVars, memVars, CowInv, TypeOK, DirsPresent,
           MemoryOK, Pointers, PageOrNull, Counts
  <2>16. EntriesHaveTable'
    BY <1>1, <1>3, <2>1, InvCovers, LocFacts
       DEF ForkSetupkvm, procVars, memVars, CowInv, TypeOK, EntriesHaveTable,
           CountStaysTrue, MemoryOK, Pointers, PageOrNull, Counts
  <2>17. WritablePageUnshared'
    BY <1>1, <1>3, <2>1, InvCovers, LocFacts
       DEF ForkSetupkvm, procVars, memVars, CowInv, TypeOK,
           WritablePageUnshared, MemoryOK, Pointers, PageOrNull, Counts
  <2>18. KernelPagesUnshared'
    BY <1>1, <1>3, <2>1, InvCovers, LocFacts
       DEF ForkSetupkvm, procVars, memVars, CowInv, TypeOK,
           KernelPagesUnshared, UniqueLoc, FreshLoc, MemoryOK, Pointers,
           PageOrNull, Counts
  <2>19. CountStaysTrue'
    BY <1>1, <1>3, <2>1, InvCovers, LocFacts
       DEF ForkSetupkvm, procVars, memVars, CowInv, TypeOK, CountStaysTrue,
           DirsPresent, ReturnsMatch, MemoryOK, Pointers, PageOrNull, Counts
  <2> QED BY <2>11, <2>12, <2>13, <2>14, <2>15, <2>16, <2>17, <2>18, <2>19
             DEF CowInv
<1> QED BY <1>2, <1>3 DEF ForkSetupkvm

\* exec takes a page directory.
LEMMA ExecSetupkvmInv ==
    ASSUME CowInv, NEW p \in Proc, ExecSetupkvm(p)
    PROVE  CowInv'
<1>1. PICK new \in 1 .. MaxVa :
        loc' = [loc EXCEPT ![p] = [@ EXCEPT !.va = 0, !.to = new, !.ret = "exec"]]
  BY DEF ExecSetupkvm
<1>2. PICK pg \in Page : Kalloc(pg) /\ ptr' = [ptr EXCEPT ![Dir(p)] = pg]
  BY DEF ExecSetupkvm
<1>3. /\ new \in 0 .. MaxVa /\ 0 \in 0 .. MaxVa /\ 0 \in Va /\ Dir(p) \in Loc
      /\ pc[p] = "user" /\ state[p] = "RUNNABLE" /\ loc[p].ret # "halt"
  BY LocFacts, CowAssumption
     DEF ExecSetupkvm, EnterKernel, InUser, CowInv, ReturnsMatch, Va
<1>4. /\ MemoryOK' /\ pg # NoPage /\ refc[pg] = 0
      /\ refc' = [refc EXCEPT ![pg] = @ + 1] /\ \A m \in Loc : ptr[m] # pg
  BY <1>2, <1>3, KallocInto
<1>8. [loc[p] EXCEPT !.va = 0, !.to = new, !.ret = "exec"] \in LocRecord
  BY <1>1, <1>2, <1>3, <1>4, InvTypes, ZenonT(60) DEF LocRecord
<1>9. loc' = [loc EXCEPT ![p] = [@ EXCEPT !.va = 0, !.to = new, !.ret = "exec"]]
  BY <1>1, <1>2, <1>3, <1>4
<1>10. loc' \in [Proc -> LocRecord]
  BY <1>8, <1>9, InvTypes
<1>11. TypeOK'
  BY <1>10, <1>1, <1>2, <1>3, <1>4, CowAssumption, NoTlbOK, InvTypes
     DEF ExecSetupkvm, procVars, memVars, CowInv, TypeOK, PState, Label,
         MemoryOK, Pointers, PageOrNull, Counts
<1>12. RefcCoversPointers'
  BY <1>3, <1>4, MemoryPart
<1>13. SlotsOwned'
  BY <1>1, <1>2, <1>3, <1>4, CowAssumption
     DEF ExecSetupkvm, procVars, memVars, CowInv, TypeOK, SlotsOwned, Forking,
         Reaping
<1>14. ReturnsMatch'
  BY <1>1, <1>2, <1>3, <1>4, CowAssumption
     DEF ExecSetupkvm, procVars, memVars, CowInv, TypeOK, ReturnsMatch, Va
<1>15. DirsPresent'
  BY <1>1, <1>2, <1>3, <1>4, InvCovers, LocFacts
     DEF ExecSetupkvm, procVars, memVars, CowInv, TypeOK, DirsPresent,
         MemoryOK, Pointers, PageOrNull, Counts
<1>16. EntriesHaveTable'
  BY <1>1, <1>2, <1>3, <1>4, InvCovers, LocFacts
     DEF ExecSetupkvm, procVars, memVars, CowInv, TypeOK, EntriesHaveTable,
         CountStaysTrue, MemoryOK, Pointers, PageOrNull, Counts
<1>17. WritablePageUnshared'
  BY <1>1, <1>2, <1>3, <1>4, InvCovers, LocFacts
     DEF ExecSetupkvm, procVars, memVars, CowInv, TypeOK,
         WritablePageUnshared, MemoryOK, Pointers, PageOrNull, Counts
<1>18. KernelPagesUnshared'
  BY <1>1, <1>2, <1>3, <1>4, InvCovers, LocFacts
     DEF ExecSetupkvm, procVars, memVars, CowInv, TypeOK, KernelPagesUnshared,
         UniqueLoc, FreshLoc, MemoryOK, Pointers, PageOrNull, Counts
<1>19. CountStaysTrue'
  BY <1>1, <1>2, <1>3, <1>4, InvCovers, LocFacts
     DEF ExecSetupkvm, procVars, memVars, CowInv, TypeOK, CountStaysTrue,
         DirsPresent, ReturnsMatch, MemoryOK, Pointers, PageOrNull, Counts
<1> QED BY <1>11, <1>12, <1>13, <1>14, <1>15, <1>16, <1>17, <1>18, <1>19
           DEF CowInv

\* shareuvm takes a reference and makes the parent's entry read-only.
LEMMA ShareIncrInv ==
    ASSUME CowInv, NEW p \in Proc, ShareIncr(p)
    PROVE  CowInv'
<1> DEFINE d == ptr[Pgdir(p)]
           pte == Pte(ptr[Pgdir(p)], loc[p].va)
<1>1. /\ pc[p] = "share" /\ loc[p].va \in Va /\ state[p] = "RUNNABLE"
      /\ loc[p].ret # "halt" /\ d \in Page /\ pte \in Loc /\ Local(p) \in Loc
  BY LocFacts, InvCovers, InvTypes, CowAssumption
     DEF ShareIncr, CowInv, SlotsOwned, ReturnsMatch, DirsPresent, Pointers,
         PageOrNull, Va
<1>2. /\ IncrRefc(ptr[pte]) /\ ptr' = [ptr EXCEPT ![Local(p)] = ptr[pte]]
      /\ writable' = writable \ {pte} /\ free' = free /\ pc' = [pc EXCEPT ![p] = "map"]
  BY DEF ShareIncr
<1>3. /\ ptr[pte] \in Page /\ MemoryOK'
      /\ \A n \in Loc : n # pte /\ ptr[n] \in Page /\ refc[ptr[n]] = 1
           => refc'[ptr[n]] = 1
  <2>1. ptr' \in Pointers
    BY <1>1, <1>2, IncrRefcOK, InvCovers DEF Pointers, PageOrNull
  <2> QED BY <1>1, <1>2, <2>1, IncrRefcOK DEF MemoryOK
<1>10. loc' \in [Proc -> LocRecord]
  BY <1>1, <1>2, <1>3, InvTypes DEF ShareIncr
<1>11. TypeOK'
  BY <1>10, <1>1, <1>2, <1>3, CowAssumption, NoTlbOK, InvTypes
     DEF ShareIncr, procVars, memVars, CowInv, TypeOK, PState, Label,
         MemoryOK, Pointers, PageOrNull, Counts
<1>12. RefcCoversPointers'
  BY <1>3, MemoryPart
<1>13. SlotsOwned'
  BY <1>1, <1>2, <1>3, CowAssumption
     DEF ShareIncr, procVars, memVars, CowInv, TypeOK, SlotsOwned, Forking,
         Reaping
<1>14. ReturnsMatch'
  BY <1>1, <1>2, <1>3, CowAssumption
     DEF ShareIncr, procVars, memVars, CowInv, TypeOK, ReturnsMatch, Va
<1>15. DirsPresent'
  BY <1>1, <1>2, <1>3, InvCovers, LocFacts
     DEF ShareIncr, procVars, memVars, CowInv, TypeOK, DirsPresent, MemoryOK,
         Pointers, PageOrNull, Counts
<1>16. EntriesHaveTable'
  BY <1>1, <1>2, <1>3, InvCovers, LocFacts
     DEF ShareIncr, procVars, memVars, CowInv, TypeOK, EntriesHaveTable,
         CountStaysTrue, MemoryOK, Pointers, PageOrNull, Counts
<1>17. WritablePageUnshared'
  BY <1>1, <1>2, <1>3, InvCovers, LocFacts
     DEF ShareIncr, procVars, memVars, CowInv, TypeOK, WritablePageUnshared,
         MemoryOK, Pointers, PageOrNull, Counts
<1>18. KernelPagesUnshared'
  BY <1>1, <1>2, <1>3, InvCovers, LocFacts
     DEF ShareIncr, procVars, memVars, CowInv, TypeOK, KernelPagesUnshared,
         UniqueLoc, FreshLoc, MemoryOK, Pointers, PageOrNull, Counts
<1>19. CountStaysTrue'
  <2>1. ASSUME NEW q \in Proc \ {p}, pc[q] \in {"copy", "remap"}
        PROVE  /\ ptr'[Pgdir(q)] = ptr[Pgdir(q)] /\ ptr'[CowPte(q)] = ptr[CowPte(q)]
               /\ refc[ptr[CowPte(q)]] = 1 => refc'[ptr[CowPte(q)]] = 1
    <3>1. CowPte(q) # pte /\ CowPte(q) # Local(p) /\ Pgdir(q) # Local(p)
      BY <1>1, <2>1, CowPtePresent, LocFacts DEF CowPte
    <3> QED BY <1>1, <1>2, <1>3, <2>1, <3>1, CowPtePresent, InvCovers
               DEF Pointers
  <2> QED BY <1>1, <1>2, <2>1, CountFrame, InvTypes DEF ShareIncr
<1> QED BY <1>11, <1>12, <1>13, <1>14, <1>15, <1>16, <1>17, <1>18, <1>19
           DEF CowInv

\* shareuvm maps the page in the child, with or without a new table, or fails and keeps a count too many.
LEMMA ShareMapInv ==
    ASSUME CowInv, NEW p \in Proc, ShareMap(p)
    PROVE  CowInv'
<1> DEFINE d == ptr[Dir(p)]
           pte == Pte(ptr[Dir(p)], loc[p].va)
<1>0. loc[p].va \in Va /\ loc[p].va + 1 \in 0 .. MaxVa
  BY CowAssumption DEF ShareMap, CowInv, ReturnsMatch, Va
<1>1. /\ pc[p] = "map" /\ loc[p].va \in Va
      /\ state[p] = "RUNNABLE" /\ loc[p].ret # "halt" /\ Dir(p) \in Loc /\ d \in Page
      /\ pte \in Loc /\ Ptab(d) \in Loc /\ Local(p) \in Loc
      /\ pte # Local(p) /\ Ptab(d) # Local(p) /\ Ptab(d) # pte
      /\ d = ptr[Dir(p)] /\ pte = Pte(d, loc[p].va)
      /\ Kind(pte) = "pte" /\ Owner(pte) = d /\ Index(pte) = loc[p].va
  BY LocFacts, InvCovers
     DEF ShareMap, CowInv, SlotsOwned, ReturnsMatch, DirsPresent, Pointers,
         PageOrNull, Va
<1>2. \A q \in Proc : d # ptr[Pgdir(q)]
  BY <1>1, LocFacts, OneHome, CowAssumption DEF UniqueLoc
<1>3. pte \notin writable \/ ptr[pte] # NoPage
  BY CowAssumption DEF CowInv, WritablePageUnshared
<1>4. UNCHANGED <<writable, tlb, state, parent, killed, sz, halted>> /\ data' = data
  BY DEF ShareMap, procVars
<1>b. \/ /\ ptr[pte] = NoPage /\ ptr[Ptab(d)] # NoPage
         /\ ptr' = [ptr EXCEPT ![pte] = ptr[Local(p)], ![Local(p)] = NoPage]
         /\ loc' = [loc EXCEPT ![p].va = @ + 1]
         /\ Goto(p, "share") /\ UNCHANGED <<refc, free>>
      \/ /\ ptr[Ptab(d)] = NoPage
         /\ \E pg \in Page :
              /\ Kalloc(pg)
              /\ ptr' = [ptr EXCEPT ![pte] = ptr[Local(p)], ![Local(p)] = NoPage,
                                    ![Ptab(d)] = pg]
         /\ loc' = [loc EXCEPT ![p].va = @ + 1]
         /\ Goto(p, "share")
      \/ /\ ptr' = [ptr EXCEPT ![Local(p)] = NoPage]
         /\ loc' = [loc EXCEPT ![p].ret = "unfork"]
         /\ Goto(p, "freevm") /\ UNCHANGED <<refc, free>>
  BY DEF ShareMap
<1> HIDE DEF d, pte
<1>5. CASE /\ ptr[pte] = NoPage /\ ptr[Ptab(d)] # NoPage
           /\ ptr' = [ptr EXCEPT ![pte] = ptr[Local(p)], ![Local(p)] = NoPage]
           /\ loc' = [loc EXCEPT ![p].va = @ + 1]
           /\ Goto(p, "share") /\ UNCHANGED <<refc, free>>
  <2>1. MemoryOK'
    BY <1>1, <1>5, MoveTo
  <2>9. loc' = [loc EXCEPT ![p].va = @ + 1]
    BY <1>3, <1>4, <1>5, <2>1
  <2>10. loc' \in [Proc -> LocRecord]
    BY <2>9, <1>0, InvTypes, CowAssumption, SMTT(60) DEF LocRecord, Va
  <2>11. TypeOK'
    BY <2>10, <1>1, <1>2, <1>3, <1>4, <1>5, <2>1, CowAssumption, NoTlbOK,
       InvTypes
       DEF procVars, memVars, CowInv, TypeOK, PState, Label, MemoryOK,
           Pointers, PageOrNull, Counts
  <2>12. RefcCoversPointers'
    BY <1>4, <1>5, <2>1, MemoryPart
  <2>13. SlotsOwned'
    BY <1>1, <1>2, <1>3, <1>4, <1>5, <2>1, CowAssumption
       DEF procVars, memVars, CowInv, TypeOK, SlotsOwned, Forking, Reaping
  <2>14. ReturnsMatch'
    BY <1>1, <1>2, <1>3, <1>4, <1>5, <2>1, CowAssumption
       DEF procVars, memVars, CowInv, TypeOK, ReturnsMatch, Va
  <2>15. DirsPresent'
    BY <1>1, <1>2, <1>3, <1>4, <1>5, <2>1, InvCovers, LocFacts
       DEF procVars, memVars, CowInv, TypeOK, DirsPresent, MemoryOK, Pointers,
           PageOrNull, Counts
  <2>16. EntriesHaveTable'
    BY <1>1, <1>2, <1>3, <1>4, <1>5, <2>1, InvCovers, LocFacts
       DEF procVars, memVars, CowInv, TypeOK, EntriesHaveTable,
           CountStaysTrue, MemoryOK, Pointers, PageOrNull, Counts
  <2>17. WritablePageUnshared'
    <3> SUFFICES ASSUME NEW l \in writable
                 PROVE  ptr'[l] \in Page /\ refc'[ptr'[l]] = 1
      BY <1>4 DEF WritablePageUnshared
    <3>1. /\ l \in Loc /\ Kind(l) = "pte" /\ ptr[l] \in Page /\ refc[ptr[l]] = 1
      BY DEF CowInv, TypeOK, WritablePageUnshared
    <3>2. l # pte /\ l # Local(p) /\ l # Ptab(d)
      BY <3>1, <1>1, <1>5, LocFacts, CowAssumption
    <3> QED BY <3>1, <3>2, <1>1, <1>5, InvCovers DEF Pointers, Counts
  <2>18. KernelPagesUnshared'
    <3>1. ASSUME NEW l \in Loc, UniqueLoc(l), ptr'[l] # NoPage
          PROVE  refc'[ptr'[l]] = 1
      <4>1. l # pte /\ l # Local(p)
        BY <3>1, <1>1, LocFacts DEF UniqueLoc
      <4>2. CASE l = Ptab(d)
        BY <4>1, <4>2, <3>1, <1>1, <1>5, InvCovers
           DEF Pointers, PageOrNull, Counts, CowInv, KernelPagesUnshared
      <4>3. CASE l # Ptab(d)
        BY <4>1, <4>3, <3>1, <1>1, <1>5, InvCovers
           DEF Pointers, PageOrNull, Counts, CowInv, KernelPagesUnshared
      <4> QED BY <4>2, <4>3
    <3>2. ASSUME NEW q \in Proc, FreshLoc(q)'
          PROVE  ptr'[Local(q)] # NoPage /\ refc'[ptr'[Local(q)]] = 1
      <4>1. q # p /\ FreshLoc(q) /\ Local(q) \in Loc
        BY <3>2, <1>1, <1>5, InvTypes, LocFacts DEF FreshLoc
      <4>2. Local(q) # pte /\ Local(q) # Local(p) /\ Local(q) # Ptab(d)
        BY <4>1, <1>1, LocFacts
      <4> QED BY <4>1, <4>2, <1>1, <1>5, InvCovers
                 DEF Pointers, PageOrNull, Counts, CowInv, KernelPagesUnshared
    <3> QED BY <3>1, <3>2 DEF KernelPagesUnshared
  <2>19. CountStaysTrue'
    <3>1. ASSUME NEW q \in Proc \ {p}, pc[q] \in {"copy", "remap"}
          PROVE  /\ ptr'[Pgdir(q)] = ptr[Pgdir(q)] /\ ptr'[CowPte(q)] = ptr[CowPte(q)]
                 /\ refc[ptr[CowPte(q)]] = 1 => refc'[ptr[CowPte(q)]] = 1
      <4>1. CowPte(q) # pte /\ CowPte(q) # Local(p) /\ Pgdir(q) # pte /\ Pgdir(q) # Local(p)
        BY <1>1, <1>2, <1>4, <1>5, <3>1, CowPtePresent, LocFacts DEF CowPte
      <4> QED BY <1>1, <1>2, <1>4, <1>5, <3>1, <4>1, CowPtePresent, InvCovers
                 DEF Pointers, PageOrNull, Counts, MemoryOK
    <3> QED BY <1>5, <3>1, CountFrame, InvTypes
  <2> QED BY <2>11, <2>12, <2>13, <2>14, <2>15, <2>16, <2>17, <2>18, <2>19
             DEF CowInv
<1>6. ASSUME ptr[Ptab(d)] = NoPage, NEW pg \in Page, Kalloc(pg),
             ptr' = [ptr EXCEPT ![pte] = ptr[Local(p)], ![Local(p)] = NoPage,
                                ![Ptab(d)] = pg],
             loc' = [loc EXCEPT ![p].va = @ + 1], Goto(p, "share")
      PROVE  CowInv'
  <2>1. /\ MemoryOK' /\ pg # NoPage /\ refc[pg] = 0
        /\ refc' = [refc EXCEPT ![pg] = @ + 1] /\ \A m \in Loc : ptr[m] # pg
    <3>1. pte \in Loc /\ Local(p) \in Loc /\ Ptab(d) \in Loc /\ pte # Local(p)
      BY <1>1
    <3>2. Kalloc(pg)
      BY <1>6
    <3>3. ptr' = MovedInto(ptr, pte, Local(p), Ptab(d), pg)
      BY <1>6, Zenon DEF MovedInto
    <3> QED BY <3>1, <3>2, <3>3, MoveAndKalloc
  <2>2. ptr[pte] = NoPage
    BY <1>1, <1>6 DEF CowInv, EntriesHaveTable
  <2>9. loc' = [loc EXCEPT ![p].va = @ + 1]
    BY <1>3, <1>4, <1>6, <2>1, <2>2
  <2>10. loc' \in [Proc -> LocRecord]
    BY <2>9, <1>0, InvTypes, CowAssumption, SMTT(60) DEF LocRecord, Va
  <2>11. TypeOK'
    BY <2>10, <1>1, <1>2, <1>3, <1>4, <1>6, <2>1, <2>2, CowAssumption,
       NoTlbOK, InvTypes
       DEF procVars, memVars, CowInv, TypeOK, PState, Label, MemoryOK,
           Pointers, PageOrNull, Counts
  <2>12. RefcCoversPointers'
    BY <1>6, <2>1, <2>2, MemoryPart
  <2>13. SlotsOwned'
    BY <1>1, <1>2, <1>3, <1>4, <1>6, <2>1, <2>2, CowAssumption
       DEF procVars, memVars, CowInv, TypeOK, SlotsOwned, Forking, Reaping
  <2>14. ReturnsMatch'
    BY <1>1, <1>2, <1>3, <1>4, <1>6, <2>1, <2>2, CowAssumption
       DEF procVars, memVars, CowInv, TypeOK, ReturnsMatch, Va
  <2>15. DirsPresent'
    <3>1. ASSUME NEW q \in Proc
          PROVE  /\ ptr'[Pgdir(q)] = ptr[Pgdir(q)] /\ ptr'[Dir(q)] = ptr[Dir(q)]
      <4>1. /\ Pgdir(q) \in Loc /\ Pgdir(q) # pte /\ Pgdir(q) # Local(p)
            /\ Pgdir(q) # Ptab(d) /\ Dir(q) \in Loc /\ Dir(q) # pte
            /\ Dir(q) # Local(p) /\ Dir(q) # Ptab(d)
        BY <1>1, LocFacts
      <4> QED BY <4>1, <1>6, InvCovers DEF Pointers
    <3> QED BY <3>1, <1>1, <1>4, <1>6, InvTypes DEF CowInv, DirsPresent
  <2>16. EntriesHaveTable'
    <3> SUFFICES ASSUME NEW e \in Page, NEW va \in Va, ptr'[Pte(e, va)] # NoPage
                 PROVE  ptr'[Ptab(e)] # NoPage
      BY DEF EntriesHaveTable
    <3>1. CASE e = d
      BY <3>1, <1>1, <1>6, <2>1, InvCovers, LocFacts DEF Pointers
    <3>2. CASE e # d
      <4>1. /\ Pte(e, va) # pte /\ Pte(e, va) # Local(p) /\ Pte(e, va) # Ptab(d)
            /\ Ptab(e) # pte /\ Ptab(e) # Local(p) /\ Ptab(e) # Ptab(d)
            /\ Pte(e, va) \in Loc /\ Ptab(e) \in Loc
        BY <3>2, <1>1, LocFacts
      <4> QED BY <4>1, <1>6, InvCovers DEF Pointers, CowInv, EntriesHaveTable
    <3> QED BY <3>1, <3>2
  <2>17. WritablePageUnshared'
    <3> SUFFICES ASSUME NEW l \in writable
                 PROVE  ptr'[l] \in Page /\ refc'[ptr'[l]] = 1
      BY <1>4 DEF WritablePageUnshared
    <3>1. /\ l \in Loc /\ Kind(l) = "pte" /\ ptr[l] \in Page /\ refc[ptr[l]] = 1
      BY DEF CowInv, TypeOK, WritablePageUnshared
    <3>2. l # pte /\ l # Local(p) /\ l # Ptab(d)
      BY <3>1, <1>1, <1>6, <2>1, <2>2, LocFacts, CowAssumption
    <3> QED BY <3>1, <3>2, <1>1, <1>6, <2>1, <2>2, InvCovers
               DEF Pointers, Counts
  <2>18. KernelPagesUnshared'
    <3>1. ASSUME NEW l \in Loc, UniqueLoc(l), ptr'[l] # NoPage
          PROVE  refc'[ptr'[l]] = 1
      <4>1. l # pte /\ l # Local(p)
        BY <3>1, <1>1, LocFacts DEF UniqueLoc
      <4>2. CASE l = Ptab(d)
        BY <4>1, <4>2, <3>1, <1>1, <1>6, <2>1, InvCovers
           DEF Pointers, PageOrNull, Counts, CowInv, KernelPagesUnshared
      <4>3. CASE l # Ptab(d)
        BY <4>1, <4>3, <3>1, <1>1, <1>6, <2>1, InvCovers
           DEF Pointers, PageOrNull, Counts, CowInv, KernelPagesUnshared
      <4> QED BY <4>2, <4>3
    <3>2. ASSUME NEW q \in Proc, FreshLoc(q)'
          PROVE  ptr'[Local(q)] # NoPage /\ refc'[ptr'[Local(q)]] = 1
      <4>1. q # p /\ FreshLoc(q) /\ Local(q) \in Loc
        BY <3>2, <1>1, <1>6, <2>1, InvTypes, LocFacts DEF FreshLoc
      <4>2. Local(q) # pte /\ Local(q) # Local(p) /\ Local(q) # Ptab(d)
        BY <4>1, <1>1, LocFacts
      <4> QED BY <4>1, <4>2, <1>1, <1>6, <2>1, InvCovers
                 DEF Pointers, PageOrNull, Counts, CowInv, KernelPagesUnshared
    <3> QED BY <3>1, <3>2 DEF KernelPagesUnshared
  <2>19. CountStaysTrue'
    <3>1. ASSUME NEW q \in Proc \ {p}, pc[q] \in {"copy", "remap"}
          PROVE  /\ ptr'[Pgdir(q)] = ptr[Pgdir(q)] /\ ptr'[CowPte(q)] = ptr[CowPte(q)]
                 /\ refc[ptr[CowPte(q)]] = 1 => refc'[ptr[CowPte(q)]] = 1
      <4>1. /\ CowPte(q) # pte /\ CowPte(q) # Local(p) /\ CowPte(q) # Ptab(d)
            /\ Pgdir(q) # pte /\ Pgdir(q) # Local(p) /\ Pgdir(q) # Ptab(d)
        BY <1>1, <1>2, <1>4, <1>6, <2>1, <3>1, CowPtePresent, LocFacts
           DEF CowPte
      <4> QED BY <1>1, <1>2, <1>4, <1>6, <2>1, <3>1, <4>1, CowPtePresent,
                 InvCovers DEF Pointers, PageOrNull, Counts, MemoryOK
    <3> QED BY <1>6, <2>1, <3>1, CountFrame, InvTypes
  <2> QED BY <2>11, <2>12, <2>13, <2>14, <2>15, <2>16, <2>17, <2>18, <2>19
             DEF CowInv
<1>7. CASE /\ ptr' = [ptr EXCEPT ![Local(p)] = NoPage]
           /\ loc' = [loc EXCEPT ![p].ret = "unfork"]
           /\ Goto(p, "freevm") /\ UNCHANGED <<refc, free>>
  <2>1. MemoryOK'
    BY <1>1, <1>7, DropAt
  <2>9. loc' = [loc EXCEPT ![p].ret = "unfork"]
    BY <1>2, <1>4, <1>7, <2>1
  <2>10. loc' \in [Proc -> LocRecord]
    BY <2>9, <1>1, <1>2, <1>4, <1>7, <2>1, InvTypes, CowAssumption, SMTT(60)
       DEF LocRecord, Va
  <2>11. TypeOK'
    BY <2>10, <1>1, <1>2, <1>4, <1>7, <2>1, CowAssumption, NoTlbOK, InvTypes
       DEF procVars, memVars, CowInv, TypeOK, PState, Label, MemoryOK,
           Pointers, PageOrNull, Counts
  <2>12. RefcCoversPointers'
    BY <1>7, <2>1, MemoryPart
  <2>13. SlotsOwned'
    BY <1>1, <1>2, <1>4, <1>7, <2>1, CowAssumption
       DEF procVars, memVars, CowInv, TypeOK, SlotsOwned, Forking, Reaping
  <2>14. ReturnsMatch'
    BY <1>1, <1>2, <1>4, <1>7, <2>1, CowAssumption
       DEF procVars, memVars, CowInv, TypeOK, ReturnsMatch, Va
  <2>15. DirsPresent'
    BY <1>1, <1>2, <1>4, <1>7, <2>1, InvCovers, LocFacts
       DEF procVars, memVars, CowInv, TypeOK, DirsPresent, MemoryOK, Pointers,
           PageOrNull, Counts
  <2>16. EntriesHaveTable'
    BY <1>1, <1>2, <1>4, <1>7, <2>1, InvCovers, LocFacts
       DEF procVars, memVars, CowInv, TypeOK, EntriesHaveTable,
           CountStaysTrue, MemoryOK, Pointers, PageOrNull, Counts
  <2>17. WritablePageUnshared'
    BY <1>1, <1>2, <1>4, <1>7, <2>1, InvCovers, LocFacts
       DEF procVars, memVars, CowInv, TypeOK, WritablePageUnshared, MemoryOK,
           Pointers, PageOrNull, Counts
  <2>18. KernelPagesUnshared'
    BY <1>1, <1>2, <1>4, <1>7, <2>1, InvCovers, LocFacts
       DEF procVars, memVars, CowInv, TypeOK, KernelPagesUnshared, UniqueLoc,
           FreshLoc, MemoryOK, Pointers, PageOrNull, Counts
  <2>19. CountStaysTrue'
    <3>1. ASSUME NEW q \in Proc \ {p}, pc[q] \in {"copy", "remap"}
          PROVE  /\ ptr'[Pgdir(q)] = ptr[Pgdir(q)] /\ ptr'[CowPte(q)] = ptr[CowPte(q)]
                 /\ refc[ptr[CowPte(q)]] = 1 => refc'[ptr[CowPte(q)]] = 1
      <4>1. CowPte(q) # Local(p) /\ Pgdir(q) # Local(p)
        BY <1>1, <1>4, <1>7, <3>1, CowPtePresent, LocFacts DEF CowPte
      <4> QED BY <1>4, <1>7, <3>1, <4>1, CowPtePresent, InvCovers
    <3> QED BY <1>7, <3>1, CountFrame, InvTypes
  <2> QED BY <2>11, <2>12, <2>13, <2>14, <2>15, <2>16, <2>17, <2>18, <2>19
             DEF CowInv
<1> QED BY <1>b, <1>5, <1>6, <1>7

\* fork hands the directory to the child.
LEMMA ForkDoneInv ==
    ASSUME CowInv, NEW p \in Proc, ForkDone(p)
    PROVE  CowInv'
<1> DEFINE c == loc[p].child
<1>1. /\ c \in Proc /\ state[c] = "EMBRYO" /\ c # p /\ state[p] = "RUNNABLE"
      /\ pc[p] = "share" /\ pc[c] \in {"none", "zombie"} /\ loc[c].ret # "halt"
      /\ loc[p].ret # "halt" /\ ptr[Dir(p)] \in Page
      /\ Pgdir(c) \in Loc /\ Dir(p) \in Loc /\ Pgdir(c) # Dir(p) /\ Forking(p)
  BY LocFacts, InvCovers
     DEF ForkDone, CowInv, SlotsOwned, ReturnsMatch, DirsPresent, Forking,
         Pointers, PageOrNull
<1>2. /\ ptr' = [ptr EXCEPT ![Pgdir(c)] = ptr[Dir(p)], ![Dir(p)] = NoPage]
      /\ UNCHANGED <<refc, free>> /\ loc' = [loc EXCEPT ![p] = NoLoc]
      /\ pc' = [pc EXCEPT ![c] = "user", ![p] = "user"]
      /\ state' = [state EXCEPT ![c] = "RUNNABLE"]
  BY DEF ForkDone, memVars
<1>3. MemoryOK'
  BY <1>1, <1>2, MoveTo
<1>9. loc' = [loc EXCEPT ![p] = NoLoc]
  BY <1>1, <1>2, <1>3 DEF FlushTlb
<1>10. loc' \in [Proc -> LocRecord]
  BY <1>9, <1>1, <1>2, <1>3, InvTypes, CowAssumption DEF LocRecord, Va
<1>11. TypeOK'
  BY <1>10, <1>1, <1>2, <1>3, CowAssumption, NoTlbOK, InvTypes
     DEF ForkDone, procVars, memVars, FlushTlb, CowInv, TypeOK, PState, Label,
         MemoryOK, Pointers, PageOrNull, Counts
<1>12. RefcCoversPointers'
  BY <1>3, MemoryPart
<1>13. SlotsOwned'
  <2>1. \A q \in Proc : Forking(q)' =>
          Forking(q) /\ q # p /\ loc'[q] = loc[q] /\ loc[q].child # c
    BY <1>1, <1>2, InvTypes DEF CowInv, SlotsOwned, Forking
  <2>2. \A q \in Proc : Reaping(q)' => Reaping(q) /\ loc'[q] = loc[q]
    BY <1>1, <1>2, InvTypes DEF Reaping
  <2> QED BY <1>1, <1>2, <2>1, <2>2, InvTypes DEF CowInv, SlotsOwned
<1>14. ReturnsMatch'
  BY <1>1, <1>2, <1>3, CowAssumption
     DEF ForkDone, procVars, memVars, FlushTlb, CowInv, TypeOK, ReturnsMatch,
         Va
<1>15. DirsPresent'
  BY <1>1, <1>2, <1>3, InvCovers, LocFacts
     DEF ForkDone, procVars, memVars, FlushTlb, CowInv, TypeOK, DirsPresent,
         MemoryOK, Pointers, PageOrNull, Counts
<1>16. EntriesHaveTable'
  BY <1>1, <1>2, <1>3, InvCovers, LocFacts
     DEF ForkDone, procVars, memVars, FlushTlb, CowInv, TypeOK,
         EntriesHaveTable, CountStaysTrue, MemoryOK, Pointers, PageOrNull,
         Counts
<1>17. WritablePageUnshared'
  BY <1>1, <1>2, <1>3, InvCovers, LocFacts
     DEF ForkDone, procVars, memVars, FlushTlb, CowInv, TypeOK,
         WritablePageUnshared, MemoryOK, Pointers, PageOrNull, Counts
<1>18. KernelPagesUnshared'
  <2>1. ASSUME NEW l \in Loc, UniqueLoc(l), ptr'[l] # NoPage
        PROVE  refc'[ptr'[l]] = 1
    <3>1. refc[ptr[Dir(p)]] = 1
      BY <1>1, LocFacts, CowAssumption
         DEF CowInv, KernelPagesUnshared, UniqueLoc
    <3>2. CASE l = Pgdir(c)
      BY <3>1, <3>2, <1>1, <1>2, InvCovers DEF Pointers
    <3>3. CASE l # Pgdir(c) /\ l # Dir(p)
      BY <2>1, <3>3, <1>2, InvCovers DEF Pointers, CowInv, KernelPagesUnshared
    <3> QED BY <3>2, <3>3, <2>1, <1>1, <1>2, InvCovers DEF Pointers
  <2>2. ASSUME NEW q \in Proc, FreshLoc(q)'
        PROVE  ptr'[Local(q)] # NoPage /\ refc'[ptr'[Local(q)]] = 1
    <3>1. FreshLoc(q) /\ Local(q) \in Loc /\ Local(q) # Pgdir(c) /\ Local(q) # Dir(p)
      BY <2>2, <1>1, <1>2, InvTypes, LocFacts DEF FreshLoc
    <3> QED BY <3>1, <1>2, InvCovers DEF Pointers, CowInv, KernelPagesUnshared
  <2> QED BY <2>1, <2>2 DEF KernelPagesUnshared
<1>19. CountStaysTrue'
  <2>1. ASSUME NEW q \in Proc \ {p}, pc[q] \in {"copy", "remap"}
        PROVE  /\ ptr'[Pgdir(q)] = ptr[Pgdir(q)] /\ ptr'[CowPte(q)] = ptr[CowPte(q)]
               /\ refc[ptr[CowPte(q)]] = 1 => refc'[ptr[CowPte(q)]] = 1
    <3>1. /\ q # c /\ CowPte(q) # Pgdir(c) /\ CowPte(q) # Dir(p)
          /\ Pgdir(q) # Pgdir(c) /\ Pgdir(q) # Dir(p)
      BY <1>1, <1>2, <2>1, CowPtePresent, LocFacts DEF CowPte
    <3> QED BY <1>1, <1>2, <2>1, <3>1, CowPtePresent, InvCovers
               DEF Pointers, PageOrNull, Counts, MemoryOK
  <2> QED BY <1>1, <1>2, <2>1, CountFrame, InvTypes DEF ForkDone
<1> QED BY <1>11, <1>12, <1>13, <1>14, <1>15, <1>16, <1>17, <1>18, <1>19
           DEF CowInv

\* A failed fork frees the child's kernel stack.
LEMMA ForkUndoInv ==
    ASSUME CowInv, NEW p \in Proc, ForkUndo(p)
    PROVE  CowInv'
<1> DEFINE c == loc[p].child
<1>1. /\ c \in Proc /\ state[c] = "EMBRYO" /\ c # p /\ state[p] = "RUNNABLE"
      /\ pc[p] = "unfork" /\ Forking(p) /\ loc[p].ret # "halt" /\ Kstack(c) \in Loc
  BY LocFacts DEF ForkUndo, CowInv, SlotsOwned, ReturnsMatch, Forking
<1>2. /\ Kfree(ptr[Kstack(c)]) /\ ptr' = [ptr EXCEPT ![Kstack(c)] = NoPage]
      /\ state' = [state EXCEPT ![c] = "UNUSED"] /\ loc' = [loc EXCEPT ![p] = NoLoc]
      /\ pc' = [pc EXCEPT ![p] = "user"]
  BY DEF ForkUndo
<1>3. /\ MemoryOK' /\ data' \in [Page -> Val \cup {Junk}]
      /\ \A m \in Loc : m # Kstack(c) /\ ptr[m] \in Page /\ refc[ptr[m]] = 1
           => refc'[ptr[m]] = 1
  BY <1>1, <1>2, KfreeFrom
<1>9. loc' = [loc EXCEPT ![p] = NoLoc]
  BY <1>1, <1>2, <1>3
<1>10. loc' \in [Proc -> LocRecord]
  BY <1>9, <1>1, <1>2, <1>3, InvTypes, CowAssumption DEF LocRecord, Va
<1>11. TypeOK'
  BY <1>10, <1>1, <1>2, <1>3, CowAssumption, NoTlbOK, InvTypes
     DEF ForkUndo, procVars, memVars, CowInv, TypeOK, PState, Label, MemoryOK,
         Pointers, PageOrNull, Counts
<1>12. RefcCoversPointers'
  BY <1>3, MemoryPart
<1>13. SlotsOwned'
  BY <1>1, <1>2, <1>3, CowAssumption
     DEF ForkUndo, procVars, memVars, CowInv, TypeOK, SlotsOwned, Forking,
         Reaping
<1>14. ReturnsMatch'
  BY <1>1, <1>2, <1>3, CowAssumption
     DEF ForkUndo, procVars, memVars, CowInv, TypeOK, ReturnsMatch, Va
<1>15. DirsPresent'
  BY <1>1, <1>2, <1>3, InvCovers, LocFacts
     DEF ForkUndo, procVars, memVars, CowInv, TypeOK, DirsPresent, MemoryOK,
         Pointers, PageOrNull, Counts
<1>16. EntriesHaveTable'
  BY <1>1, <1>2, <1>3, InvCovers, LocFacts
     DEF ForkUndo, procVars, memVars, CowInv, TypeOK, EntriesHaveTable,
         CountStaysTrue, MemoryOK, Pointers, PageOrNull, Counts
<1>17. WritablePageUnshared'
  BY <1>1, <1>2, <1>3, InvCovers, LocFacts
     DEF ForkUndo, procVars, memVars, CowInv, TypeOK, WritablePageUnshared,
         MemoryOK, Pointers, PageOrNull, Counts
<1>18. KernelPagesUnshared'
  BY <1>1, <1>2, <1>3, InvCovers, LocFacts
     DEF ForkUndo, procVars, memVars, CowInv, TypeOK, KernelPagesUnshared,
         UniqueLoc, FreshLoc, MemoryOK, Pointers, PageOrNull, Counts
<1>19. CountStaysTrue'
  <2>1. ASSUME NEW q \in Proc \ {p}, pc[q] \in {"copy", "remap"}
        PROVE  /\ ptr'[Pgdir(q)] = ptr[Pgdir(q)] /\ ptr'[CowPte(q)] = ptr[CowPte(q)]
               /\ refc[ptr[CowPte(q)]] = 1 => refc'[ptr[CowPte(q)]] = 1
    <3>1. CowPte(q) # Kstack(c) /\ Pgdir(q) # Kstack(c)
      BY <1>1, <1>2, <1>3, <2>1, CowPtePresent, LocFacts DEF CowPte
    <3> QED BY <1>2, <1>3, <2>1, <3>1, CowPtePresent, InvCovers
  <2> QED BY <1>1, <1>2, <1>3, <2>1, CountFrame, InvTypes DEF ForkUndo
<1> QED BY <1>11, <1>12, <1>13, <1>14, <1>15, <1>16, <1>17, <1>18, <1>19
           DEF CowInv

\* freevm frees a user page.
LEMMA FreevmPageInv ==
    ASSUME CowInv, NEW p \in Proc, FreevmPage(p)
    PROVE  CowInv'
<1> DEFINE d == ptr[Dir(p)]
<1>1. /\ pc[p] = "freevm" /\ Dir(p) \in Loc /\ d \in Page /\ state[p] = "RUNNABLE"
      /\ Ptab(d) \in Loc /\ \A va \in Va : Pte(d, va) \in Loc
      /\ loc[p].ret \in {"user", "unfork", "reaped", "halt"}
  BY LocFacts, InvCovers
     DEF FreevmPage, InFreevm, CowInv, SlotsOwned, ReturnsMatch, Pointers,
         PageOrNull
<1>2. \A q \in Proc : d # ptr[Pgdir(q)] /\ (q # p => d # ptr[Dir(q)])
  BY <1>1, LocFacts, OneHome, CowAssumption DEF UniqueLoc
<1>3. PICK va \in Mapped(d) : /\ Kfree(ptr[Pte(d, va)])
                              /\ ptr' = [ptr EXCEPT ![Pte(d, va)] = NoPage]
                              /\ writable' = writable \ {Pte(d, va)}
  BY DEF FreevmPage
<1>4. va \in Va /\ Pte(d, va) \in Loc
  BY <1>1, <1>3 DEF Mapped
<1>5. /\ MemoryOK' /\ data' \in [Page -> Val \cup {Junk}]
      /\ \A m \in Loc : m # Pte(d, va) /\ ptr[m] \in Page /\ refc[ptr[m]] = 1
           => refc'[ptr[m]] = 1
  BY <1>3, <1>4, KfreeFrom
<1>6. UNCHANGED <<tlb, procVars, pc, loc, halted>>
  BY DEF FreevmPage
<1>10. loc' \in [Proc -> LocRecord]
  BY <1>4, <1>5, <1>6, InvTypes
<1>11. TypeOK'
  BY <1>10, <1>1, <1>2, <1>3, <1>4, <1>5, <1>6, CowAssumption, NoTlbOK,
     InvTypes
     DEF procVars, memVars, CowInv, TypeOK, PState, Label, MemoryOK, Pointers,
         PageOrNull, Counts
<1>12. RefcCoversPointers'
  BY <1>4, <1>5, <1>6, MemoryPart
<1>13. SlotsOwned'
  BY <1>1, <1>2, <1>3, <1>4, <1>5, <1>6, CowAssumption
     DEF procVars, memVars, CowInv, TypeOK, SlotsOwned, Forking, Reaping
<1>14. ReturnsMatch'
  BY <1>1, <1>2, <1>3, <1>4, <1>5, <1>6, CowAssumption
     DEF procVars, memVars, CowInv, TypeOK, ReturnsMatch, Va
<1>15. DirsPresent'
  BY <1>1, <1>2, <1>3, <1>4, <1>5, <1>6, InvCovers, LocFacts
     DEF procVars, memVars, CowInv, TypeOK, DirsPresent, MemoryOK, Pointers,
         PageOrNull, Counts
<1>16. EntriesHaveTable'
  BY <1>1, <1>2, <1>3, <1>4, <1>5, <1>6, InvCovers, LocFacts
     DEF procVars, memVars, CowInv, TypeOK, EntriesHaveTable, CountStaysTrue,
         MemoryOK, Pointers, PageOrNull, Counts
<1>17. WritablePageUnshared'
  BY <1>1, <1>2, <1>3, <1>4, <1>5, <1>6, InvCovers, LocFacts
     DEF procVars, memVars, CowInv, TypeOK, WritablePageUnshared, MemoryOK,
         Pointers, PageOrNull, Counts
<1>18. KernelPagesUnshared'
  BY <1>1, <1>2, <1>3, <1>4, <1>5, <1>6, InvCovers, LocFacts
     DEF procVars, memVars, CowInv, TypeOK, KernelPagesUnshared, UniqueLoc,
         FreshLoc, MemoryOK, Pointers, PageOrNull, Counts
<1>19. CountStaysTrue'
  <2>1. ASSUME NEW q \in Proc \ {p}, pc[q] \in {"copy", "remap"}
        PROVE  /\ ptr'[Pgdir(q)] = ptr[Pgdir(q)] /\ ptr'[CowPte(q)] = ptr[CowPte(q)]
               /\ refc[ptr[CowPte(q)]] = 1 => refc'[ptr[CowPte(q)]] = 1
    <3>1. CowPte(q) # Pte(d, va) /\ Pgdir(q) # Pte(d, va)
      BY <1>1, <1>2, <1>3, <1>4, <1>5, <1>6, <2>1, CowPtePresent, LocFacts
         DEF CowPte
    <3> QED BY <1>1, <1>2, <1>3, <1>4, <1>5, <1>6, <2>1, <3>1, CowPtePresent,
               InvCovers DEF Pointers, PageOrNull, Counts, MemoryOK
  <2> QED BY <1>1, <1>2, <1>3, <1>4, <1>5, <1>6, <2>1, CountFrame, InvTypes
             DEF procVars
<1> QED BY <1>11, <1>12, <1>13, <1>14, <1>15, <1>16, <1>17, <1>18, <1>19
           DEF CowInv

\* freevm frees the page table page once no entry is left.
LEMMA FreevmTableInv ==
    ASSUME CowInv, NEW p \in Proc, FreevmTable(p)
    PROVE  CowInv'
<1> DEFINE d == ptr[Dir(p)]
<1>1. /\ pc[p] = "freevm" /\ Dir(p) \in Loc /\ d \in Page /\ state[p] = "RUNNABLE"
      /\ Ptab(d) \in Loc /\ \A va \in Va : Pte(d, va) \in Loc
      /\ loc[p].ret \in {"user", "unfork", "reaped", "halt"}
  BY LocFacts, InvCovers
     DEF FreevmTable, InFreevm, CowInv, SlotsOwned, ReturnsMatch, Pointers,
         PageOrNull
<1>2. \A q \in Proc : d # ptr[Pgdir(q)] /\ (q # p => d # ptr[Dir(q)])
  BY <1>1, LocFacts, OneHome, CowAssumption DEF UniqueLoc
<1>3. /\ Kfree(ptr[Ptab(d)]) /\ ptr' = [ptr EXCEPT ![Ptab(d)] = NoPage]
      /\ \A va \in Va : ptr[Pte(d, va)] = NoPage
  BY DEF FreevmTable, Mapped
<1>5. /\ MemoryOK' /\ data' \in [Page -> Val \cup {Junk}]
      /\ \A m \in Loc : m # Ptab(d) /\ ptr[m] \in Page /\ refc[ptr[m]] = 1
           => refc'[ptr[m]] = 1
  BY <1>1, <1>3, KfreeFrom
<1>6. UNCHANGED <<writable, tlb, procVars, pc, loc, halted>>
  BY DEF FreevmTable
<1>10. loc' \in [Proc -> LocRecord]
  BY <1>3, <1>5, <1>6, InvTypes
<1>11. TypeOK'
  BY <1>10, <1>1, <1>2, <1>3, <1>5, <1>6, CowAssumption, NoTlbOK, InvTypes
     DEF procVars, memVars, CowInv, TypeOK, PState, Label, MemoryOK, Pointers,
         PageOrNull, Counts
<1>12. RefcCoversPointers'
  BY <1>5, <1>6, MemoryPart
<1>13. SlotsOwned'
  BY <1>1, <1>2, <1>3, <1>5, <1>6, CowAssumption
     DEF procVars, memVars, CowInv, TypeOK, SlotsOwned, Forking, Reaping
<1>14. ReturnsMatch'
  BY <1>1, <1>2, <1>3, <1>5, <1>6, CowAssumption
     DEF procVars, memVars, CowInv, TypeOK, ReturnsMatch, Va
<1>15. DirsPresent'
  BY <1>1, <1>2, <1>3, <1>5, <1>6, InvCovers, LocFacts
     DEF procVars, memVars, CowInv, TypeOK, DirsPresent, MemoryOK, Pointers,
         PageOrNull, Counts
<1>16. EntriesHaveTable'
  BY <1>1, <1>2, <1>3, <1>5, <1>6, InvCovers, LocFacts
     DEF procVars, memVars, CowInv, TypeOK, EntriesHaveTable, CountStaysTrue,
         MemoryOK, Pointers, PageOrNull, Counts
<1>17. WritablePageUnshared'
  BY <1>1, <1>2, <1>3, <1>5, <1>6, InvCovers, LocFacts
     DEF procVars, memVars, CowInv, TypeOK, WritablePageUnshared, MemoryOK,
         Pointers, PageOrNull, Counts
<1>18. KernelPagesUnshared'
  BY <1>1, <1>2, <1>3, <1>5, <1>6, InvCovers, LocFacts
     DEF procVars, memVars, CowInv, TypeOK, KernelPagesUnshared, UniqueLoc,
         FreshLoc, MemoryOK, Pointers, PageOrNull, Counts
<1>19. CountStaysTrue'
  <2>1. ASSUME NEW q \in Proc \ {p}, pc[q] \in {"copy", "remap"}
        PROVE  /\ ptr'[Pgdir(q)] = ptr[Pgdir(q)] /\ ptr'[CowPte(q)] = ptr[CowPte(q)]
               /\ refc[ptr[CowPte(q)]] = 1 => refc'[ptr[CowPte(q)]] = 1
    <3>1. CowPte(q) # Ptab(d) /\ Pgdir(q) # Ptab(d)
      BY <1>1, <1>2, <1>3, <1>5, <1>6, <2>1, CowPtePresent, LocFacts
         DEF CowPte
    <3> QED BY <1>3, <1>5, <1>6, <2>1, <3>1, CowPtePresent, InvCovers
  <2> QED BY <1>1, <1>2, <1>3, <1>5, <1>6, <2>1, CountFrame, InvTypes
             DEF procVars
<1> QED BY <1>11, <1>12, <1>13, <1>14, <1>15, <1>16, <1>17, <1>18, <1>19
           DEF CowInv

\* freevm frees the directory.
LEMMA FreevmDirInv ==
    ASSUME CowInv, NEW p \in Proc, FreevmDir(p)
    PROVE  CowInv'
<1> DEFINE d == ptr[Dir(p)]
<1>1. /\ pc[p] = "freevm" /\ Dir(p) \in Loc /\ d \in Page /\ state[p] = "RUNNABLE"
      /\ Ptab(d) \in Loc /\ \A va \in Va : Pte(d, va) \in Loc
      /\ loc[p].ret \in {"user", "unfork", "reaped", "halt"}
  BY LocFacts, InvCovers
     DEF FreevmDir, InFreevm, CowInv, SlotsOwned, ReturnsMatch, Pointers,
         PageOrNull
<1>2. \A q \in Proc : d # ptr[Pgdir(q)] /\ (q # p => d # ptr[Dir(q)])
  BY <1>1, LocFacts, OneHome, CowAssumption DEF UniqueLoc
<1>3. /\ Kfree(ptr[Dir(p)]) /\ ptr' = [ptr EXCEPT ![Dir(p)] = NoPage]
      /\ pc' = [pc EXCEPT ![p] = loc[p].ret] /\ halted' \in BOOLEAN
      /\ loc' = IF loc[p].ret = "user" THEN [loc EXCEPT ![p] = NoLoc] ELSE loc
  BY DEF FreevmDir
<1>4. loc' \in [Proc -> LocRecord]
  BY <1>3, InvTypes, CowAssumption DEF LocRecord
<1>5. /\ MemoryOK' /\ data' \in [Page -> Val \cup {Junk}]
      /\ \A m \in Loc : m # Dir(p) /\ ptr[m] \in Page /\ refc[ptr[m]] = 1
           => refc'[ptr[m]] = 1
  BY <1>1, <1>3, KfreeFrom
<1>6. UNCHANGED <<writable, tlb, procVars>>
  BY DEF FreevmDir
<1>10. loc' \in [Proc -> LocRecord]
  BY <1>4
<1>11. TypeOK'
  BY <1>10, <1>1, <1>2, <1>3, <1>5, <1>6, CowAssumption, NoTlbOK, InvTypes
     DEF procVars, memVars, CowInv, TypeOK, PState, Label, MemoryOK, Pointers,
         PageOrNull, Counts
<1>12. RefcCoversPointers'
  BY <1>5, <1>6, MemoryPart
<1>13. SlotsOwned'
  BY <1>1, <1>2, <1>3, <1>5, <1>6, CowAssumption
     DEF procVars, memVars, CowInv, TypeOK, SlotsOwned, Forking, Reaping
<1>14. ReturnsMatch'
  BY <1>1, <1>2, <1>3, <1>5, <1>6, CowAssumption
     DEF procVars, memVars, CowInv, TypeOK, ReturnsMatch, Va
<1>15. DirsPresent'
  BY <1>1, <1>2, <1>3, <1>5, <1>6, InvCovers, LocFacts
     DEF procVars, memVars, CowInv, TypeOK, DirsPresent, MemoryOK, Pointers,
         PageOrNull, Counts
<1>16. EntriesHaveTable'
  BY <1>1, <1>2, <1>3, <1>5, <1>6, InvCovers, LocFacts
     DEF procVars, memVars, CowInv, TypeOK, EntriesHaveTable, CountStaysTrue,
         MemoryOK, Pointers, PageOrNull, Counts
<1>17. WritablePageUnshared'
  BY <1>1, <1>2, <1>3, <1>5, <1>6, InvCovers, LocFacts
     DEF procVars, memVars, CowInv, TypeOK, WritablePageUnshared, MemoryOK,
         Pointers, PageOrNull, Counts
<1>18. KernelPagesUnshared'
  BY <1>1, <1>2, <1>3, <1>5, <1>6, InvCovers, LocFacts
     DEF procVars, memVars, CowInv, TypeOK, KernelPagesUnshared, UniqueLoc,
         FreshLoc, MemoryOK, Pointers, PageOrNull, Counts
<1>19. CountStaysTrue'
  <2>1. ASSUME NEW q \in Proc \ {p}, pc[q] \in {"copy", "remap"}
        PROVE  /\ ptr'[Pgdir(q)] = ptr[Pgdir(q)] /\ ptr'[CowPte(q)] = ptr[CowPte(q)]
               /\ refc[ptr[CowPte(q)]] = 1 => refc'[ptr[CowPte(q)]] = 1
    <3>1. CowPte(q) # Dir(p) /\ Pgdir(q) # Dir(p)
      BY <1>1, <1>2, <1>3, <1>5, <1>6, <2>1, CowPtePresent, LocFacts
         DEF CowPte
    <3> QED BY <1>3, <1>5, <1>6, <2>1, <3>1, CowPtePresent, InvCovers
  <2> QED BY <1>1, <1>2, <1>3, <1>5, <1>6, <2>1, CountFrame, InvTypes
             DEF procVars
<1> QED BY <1>11, <1>12, <1>13, <1>14, <1>15, <1>16, <1>17, <1>18, <1>19
           DEF CowInv

\* wait frees the zombie's kernel stack and takes its directory.
LEMMA WaitReapInv ==
    ASSUME CowInv, NEW p \in Proc, WaitReap(p)
    PROVE  CowInv'
<1>1. PICK c \in Proc :
        /\ parent[c] = p /\ state[c] = "ZOMBIE" /\ Kfree(ptr[Kstack(c)])
        /\ ptr' = [ptr EXCEPT ![Kstack(c)] = NoPage, ![Dir(p)] = ptr[Pgdir(c)],
                              ![Pgdir(c)] = NoPage]
        /\ loc' = [loc EXCEPT ![p] = [@ EXCEPT !.child = c, !.ret = "reaped"]]
  BY DEF WaitReap
<1>2. /\ pc[p] = "user" /\ state[p] = "RUNNABLE" /\ loc[p].ret # "halt" /\ c # p
      /\ pc' = [pc EXCEPT ![p] = "freevm"] /\ UNCHANGED <<writable, tlb, procVars, halted>>
      /\ \A q \in Proc : ~Reaping(q)
  BY <1>1
     DEF WaitReap, EnterKernel, InUser, CowInv, ReturnsMatch, PtableLocked,
         Reaping
<1>0. c \in Proc
  OBVIOUS
<1>3. /\ Kstack(c) \in Loc /\ Dir(p) \in Loc /\ Pgdir(c) \in Loc
      /\ Dir(p) # Pgdir(c) /\ Dir(p) # Kstack(c) /\ Pgdir(c) # Kstack(c)
  BY LocFacts
<1>4. /\ MemoryOK' /\ data' \in [Page -> Val \cup {Junk}]
      /\ \A m \in Loc : m # Kstack(c) /\ ptr[m] \in Page /\ refc[ptr[m]] = 1
           => refc'[ptr[m]] = 1
  BY <1>1, <1>3, KfreeAndMove, Zenon
<1>8. [loc[p] EXCEPT !.child = c, !.ret = "reaped"] \in LocRecord
  BY <1>0, InvTypes DEF LocRecord
<1>9. loc' = [loc EXCEPT ![p] = [@ EXCEPT !.child = c, !.ret = "reaped"]]
  BY <1>1, <1>2, <1>3, <1>4 DEF procVars, memVars
<1>10. loc' \in [Proc -> LocRecord]
  BY <1>8, <1>9, InvTypes
<1>11. TypeOK'
  BY <1>10, <1>1, <1>2, <1>3, <1>4, CowAssumption, NoTlbOK, InvTypes
     DEF procVars, memVars, CowInv, TypeOK, PState, Label, MemoryOK, Pointers,
         PageOrNull, Counts
<1>12. RefcCoversPointers'
  BY <1>3, <1>4, MemoryPart
<1>13. SlotsOwned'
  BY <1>1, <1>2, <1>3, <1>4, CowAssumption
     DEF procVars, memVars, CowInv, TypeOK, SlotsOwned, Forking, Reaping
<1>14. ReturnsMatch'
  BY <1>1, <1>2, <1>3, <1>4, CowAssumption
     DEF procVars, memVars, CowInv, TypeOK, ReturnsMatch, Va
<1>15. DirsPresent'
  BY <1>1, <1>2, <1>3, <1>4, InvCovers, LocFacts
     DEF procVars, memVars, CowInv, TypeOK, DirsPresent, MemoryOK, Pointers,
         PageOrNull, Counts
<1>16. EntriesHaveTable'
  <2> SUFFICES ASSUME NEW d \in Page, NEW va \in Va, ptr'[Pte(d, va)] # NoPage
               PROVE  ptr'[Ptab(d)] # NoPage
    BY DEF EntriesHaveTable
  <2>1. /\ Pte(d, va) \in Loc /\ Ptab(d) \in Loc
        /\ Pte(d, va) # Kstack(c) /\ Pte(d, va) # Dir(p) /\ Pte(d, va) # Pgdir(c)
        /\ Ptab(d) # Kstack(c) /\ Ptab(d) # Dir(p) /\ Ptab(d) # Pgdir(c)
    BY LocFacts
  <2> QED BY <2>1, <1>1, InvCovers DEF Pointers, CowInv, EntriesHaveTable
<1>17. WritablePageUnshared'
  <2> SUFFICES ASSUME NEW l \in writable
               PROVE  ptr'[l] \in Page /\ refc'[ptr'[l]] = 1
    BY <1>2 DEF WritablePageUnshared
  <2>1. l \in Loc /\ Kind(l) = "pte" /\ ptr[l] \in Page /\ refc[ptr[l]] = 1
    BY DEF CowInv, TypeOK, WritablePageUnshared
  <2>2. l # Kstack(c) /\ l # Dir(p) /\ l # Pgdir(c)
    BY <2>1, LocFacts
  <2> QED BY <2>1, <2>2, <1>1, <1>4, InvCovers DEF Pointers
<1>18. KernelPagesUnshared'
  <2>1. ASSUME NEW l \in Loc, UniqueLoc(l), ptr'[l] # NoPage
        PROVE  refc'[ptr'[l]] = 1
    <3>1. CASE l = Dir(p)
      <4>1. ptr'[l] = ptr[Pgdir(c)] /\ ptr[Pgdir(c)] # NoPage
        BY <2>1, <3>1, <1>1, <1>3, InvCovers DEF Pointers
      <4>2. ptr[Pgdir(c)] \in Page /\ refc[ptr[Pgdir(c)]] = 1
        BY <4>1, <1>3, LocFacts, InvCovers
           DEF Pointers, PageOrNull, CowInv, KernelPagesUnshared, UniqueLoc
      <4> QED BY <4>1, <4>2, <1>3, <1>4
    <3>2. CASE l # Dir(p)
      <4>1. l # Kstack(c) /\ l # Pgdir(c) /\ ptr'[l] = ptr[l]
        BY <2>1, <3>2, <1>1, <1>3, InvCovers DEF Pointers
      <4> QED BY <4>1, <2>1, <1>4, InvCovers
                 DEF Pointers, PageOrNull, CowInv, KernelPagesUnshared
    <3> QED BY <3>1, <3>2
  <2>2. ASSUME NEW q \in Proc, FreshLoc(q)'
        PROVE  ptr'[Local(q)] # NoPage /\ refc'[ptr'[Local(q)]] = 1
    <3>1. /\ FreshLoc(q) /\ Local(q) \in Loc /\ Local(q) # Kstack(c)
          /\ Local(q) # Dir(p) /\ Local(q) # Pgdir(c)
      BY <2>2, <1>2, InvTypes, LocFacts DEF FreshLoc
    <3> QED BY <3>1, <1>1, <1>4, InvCovers
               DEF Pointers, PageOrNull, CowInv, KernelPagesUnshared
  <2> QED BY <2>1, <2>2 DEF KernelPagesUnshared
<1>19. CountStaysTrue'
  <2>1. ASSUME NEW q \in Proc \ {p}, pc[q] \in {"copy", "remap"}
        PROVE  /\ ptr'[Pgdir(q)] = ptr[Pgdir(q)] /\ ptr'[CowPte(q)] = ptr[CowPte(q)]
               /\ refc[ptr[CowPte(q)]] = 1 => refc'[ptr[CowPte(q)]] = 1
    <3>1. /\ q # c /\ CowPte(q) # Kstack(c) /\ CowPte(q) # Dir(p) /\ CowPte(q) # Pgdir(c)
          /\ Pgdir(q) # Kstack(c) /\ Pgdir(q) # Dir(p) /\ Pgdir(q) # Pgdir(c)
      BY <1>1, <1>2, <1>3, <1>4, <2>1, CowPtePresent, LocFacts DEF CowPte
    <3> QED BY <1>1, <1>2, <1>3, <1>4, <2>1, <3>1, CowPtePresent, InvCovers
               DEF Pointers, PageOrNull, Counts, MemoryOK
  <2> QED BY <1>1, <1>2, <1>3, <1>4, <2>1, CountFrame, InvTypes DEF WaitReap
<1> QED BY <1>11, <1>12, <1>13, <1>14, <1>15, <1>16, <1>17, <1>18, <1>19
           DEF CowInv

\* allocuvm takes a page, or gives up.
LEMMA AllocuvmPageInv ==
    ASSUME CowInv, NEW p \in Proc, AllocuvmPage(p)
    PROVE  CowInv'
<1>1. /\ pc[p] = "grow" /\ loc[p].va < loc[p].to /\ loc[p].va \in Va
      /\ state[p] = "RUNNABLE" /\ loc[p].ret \in {"sbrk", "exec"} /\ Local(p) \in Loc
      /\ UNCHANGED <<writable, tlb, procVars, halted>>
  BY InvTypes, LocFacts, CowAssumption
     DEF AllocuvmPage, CowInv, SlotsOwned, ReturnsMatch, Va
<1>2. ASSUME NEW pg \in Page, Kalloc(pg), data' = [data EXCEPT ![pg] = Zero],
             ptr' = [ptr EXCEPT ![Local(p)] = pg], Goto(p, "growmap"), UNCHANGED loc
      PROVE  CowInv'
  <2>1. /\ MemoryOK' /\ pg # NoPage /\ refc[pg] = 0
        /\ refc' = [refc EXCEPT ![pg] = @ + 1] /\ \A m \in Loc : ptr[m] # pg
    BY <1>1, <1>2, KallocInto
  <2>10. loc' \in [Proc -> LocRecord]
    BY <1>2, InvTypes
  <2>11. TypeOK'
    BY <2>10, <1>1, <1>2, <2>1, CowAssumption, NoTlbOK, InvTypes
       DEF procVars, memVars, CowInv, TypeOK, PState, Label, MemoryOK,
           Pointers, PageOrNull, Counts
  <2>12. RefcCoversPointers'
    BY <2>1, MemoryPart
  <2>13. SlotsOwned'
    BY <1>1, <1>2, <2>1, CowAssumption
       DEF procVars, memVars, CowInv, TypeOK, SlotsOwned, Forking, Reaping
  <2>14. ReturnsMatch'
    BY <1>1, <1>2, <2>1, CowAssumption
       DEF procVars, memVars, CowInv, TypeOK, ReturnsMatch, Va
  <2>15. DirsPresent'
    BY <1>1, <1>2, <2>1, InvCovers, LocFacts
       DEF procVars, memVars, CowInv, TypeOK, DirsPresent, MemoryOK, Pointers,
           PageOrNull, Counts
  <2>16. EntriesHaveTable'
    BY <1>1, <1>2, <2>1, InvCovers, LocFacts
       DEF procVars, memVars, CowInv, TypeOK, EntriesHaveTable,
           CountStaysTrue, MemoryOK, Pointers, PageOrNull, Counts
  <2>17. WritablePageUnshared'
    BY <1>1, <1>2, <2>1, InvCovers, LocFacts
       DEF procVars, memVars, CowInv, TypeOK, WritablePageUnshared, MemoryOK,
           Pointers, PageOrNull, Counts
  <2>18. KernelPagesUnshared'
    BY <1>1, <1>2, <2>1, InvCovers, LocFacts
       DEF procVars, memVars, CowInv, TypeOK, KernelPagesUnshared, UniqueLoc,
           FreshLoc, MemoryOK, Pointers, PageOrNull, Counts
  <2>19. CountStaysTrue'
    BY <1>1, <1>2, <2>1, InvCovers, LocFacts
       DEF procVars, memVars, CowInv, TypeOK, CountStaysTrue, DirsPresent,
           ReturnsMatch, MemoryOK, Pointers, PageOrNull, Counts
  <2> QED BY <2>11, <2>12, <2>13, <2>14, <2>15, <2>16, <2>17, <2>18, <2>19
             DEF CowInv
<1>3. CASE /\ loc[p].ret = "exec" /\ loc' = [loc EXCEPT ![p].ret = "user"]
           /\ Goto(p, "freevm") /\ UNCHANGED <<ptr, refc, free, data>>
  <2>1. MemoryOK'
    BY <1>3, MemorySame
  <2>9. loc' = [loc EXCEPT ![p].ret = "user"]
    BY <1>1, <1>3, <2>1
  <2>10. loc' \in [Proc -> LocRecord]
    BY <2>9, <1>1, InvTypes, CowAssumption DEF LocRecord, Va
  <2>11. TypeOK'
    BY <2>10, <1>1, <1>3, <2>1, CowAssumption, NoTlbOK, InvTypes
       DEF procVars, memVars, CowInv, TypeOK, PState, Label, MemoryOK,
           Pointers, PageOrNull, Counts
  <2>12. RefcCoversPointers'
    BY <2>1, MemoryPart
  <2>13. SlotsOwned'
    BY <1>1, <1>3, <2>1, CowAssumption
       DEF procVars, memVars, CowInv, TypeOK, SlotsOwned, Forking, Reaping
  <2>14. ReturnsMatch'
    BY <1>1, <1>3, <2>1, CowAssumption
       DEF procVars, memVars, CowInv, TypeOK, ReturnsMatch, Va
  <2>15. DirsPresent'
    BY <1>1, <1>3, <2>1, InvCovers, LocFacts
       DEF procVars, memVars, CowInv, TypeOK, DirsPresent, MemoryOK, Pointers,
           PageOrNull, Counts
  <2>16. EntriesHaveTable'
    BY <1>1, <1>3, <2>1, InvCovers, LocFacts
       DEF procVars, memVars, CowInv, TypeOK, EntriesHaveTable,
           CountStaysTrue, MemoryOK, Pointers, PageOrNull, Counts
  <2>17. WritablePageUnshared'
    BY <1>1, <1>3, <2>1, InvCovers, LocFacts
       DEF procVars, memVars, CowInv, TypeOK, WritablePageUnshared, MemoryOK,
           Pointers, PageOrNull, Counts
  <2>18. KernelPagesUnshared'
    BY <1>1, <1>3, <2>1, InvCovers, LocFacts
       DEF procVars, memVars, CowInv, TypeOK, KernelPagesUnshared, UniqueLoc,
           FreshLoc, MemoryOK, Pointers, PageOrNull, Counts
  <2>19. CountStaysTrue'
    BY <1>1, <1>3, <2>1, InvCovers, LocFacts
       DEF procVars, memVars, CowInv, TypeOK, CountStaysTrue, DirsPresent,
           ReturnsMatch, MemoryOK, Pointers, PageOrNull, Counts
  <2> QED BY <2>11, <2>12, <2>13, <2>14, <2>15, <2>16, <2>17, <2>18, <2>19
             DEF CowInv
<1>4. CASE /\ loc' = [loc EXCEPT ![p] = [@ EXCEPT !.to = sz[p], !.ret = "rollback"]]
           /\ Goto(p, "shrink") /\ UNCHANGED <<ptr, refc, free, data>>
  <2>1. MemoryOK' /\ loc[p].ret # "halt" /\ sz[p] \in 0 .. MaxVa
    BY <1>1, <1>4, MemorySame, InvTypes
  <2>8. [loc[p] EXCEPT !.to = sz[p], !.ret = "rollback"] \in LocRecord
    BY <1>1, <1>4, <2>1, InvTypes DEF LocRecord
  <2>9. loc' = [loc EXCEPT ![p] = [@ EXCEPT !.to = sz[p], !.ret = "rollback"]]
    BY <1>1, <1>4, <2>1
  <2>10. loc' \in [Proc -> LocRecord]
    BY <2>8, <2>9, InvTypes
  <2>11. TypeOK'
    BY <2>10, <1>1, <1>4, <2>1, CowAssumption, NoTlbOK, InvTypes
       DEF procVars, memVars, CowInv, TypeOK, PState, Label, MemoryOK,
           Pointers, PageOrNull, Counts
  <2>12. RefcCoversPointers'
    BY <2>1, MemoryPart
  <2>13. SlotsOwned'
    BY <1>1, <1>4, <2>1, CowAssumption
       DEF procVars, memVars, CowInv, TypeOK, SlotsOwned, Forking, Reaping
  <2>14. ReturnsMatch'
    BY <1>1, <1>4, <2>1, CowAssumption
       DEF procVars, memVars, CowInv, TypeOK, ReturnsMatch, Va
  <2>15. DirsPresent'
    BY <1>1, <1>4, <2>1, InvCovers, LocFacts
       DEF procVars, memVars, CowInv, TypeOK, DirsPresent, MemoryOK, Pointers,
           PageOrNull, Counts
  <2>16. EntriesHaveTable'
    BY <1>1, <1>4, <2>1, InvCovers, LocFacts
       DEF procVars, memVars, CowInv, TypeOK, EntriesHaveTable,
           CountStaysTrue, MemoryOK, Pointers, PageOrNull, Counts
  <2>17. WritablePageUnshared'
    BY <1>1, <1>4, <2>1, InvCovers, LocFacts
       DEF procVars, memVars, CowInv, TypeOK, WritablePageUnshared, MemoryOK,
           Pointers, PageOrNull, Counts
  <2>18. KernelPagesUnshared'
    BY <1>1, <1>4, <2>1, InvCovers, LocFacts
       DEF procVars, memVars, CowInv, TypeOK, KernelPagesUnshared, UniqueLoc,
           FreshLoc, MemoryOK, Pointers, PageOrNull, Counts
  <2>19. CountStaysTrue'
    BY <1>1, <1>4, <2>1, InvCovers, LocFacts
       DEF procVars, memVars, CowInv, TypeOK, CountStaysTrue, DirsPresent,
           ReturnsMatch, MemoryOK, Pointers, PageOrNull, Counts
  <2> QED BY <2>11, <2>12, <2>13, <2>14, <2>15, <2>16, <2>17, <2>18, <2>19
             DEF CowInv
<1> QED BY <1>1, <1>2, <1>3, <1>4 DEF AllocuvmPage

\* exec exchanges the old directory and the new.
LEMMA ExecCommitInv ==
    ASSUME CowInv, NEW p \in Proc, ExecCommit(p)
    PROVE  CowInv'
<1>1. /\ pc[p] = "grow" /\ loc[p].ret = "exec" /\ state[p] = "RUNNABLE"
      /\ Pgdir(p) \in Loc /\ Dir(p) \in Loc /\ Pgdir(p) # Dir(p)
      /\ ptr[Dir(p)] \in Page /\ ptr[Pgdir(p)] \in Page
      /\ refc[ptr[Dir(p)]] = 1 /\ refc[ptr[Pgdir(p)]] = 1 /\ loc[p].to \in 0 .. MaxVa
  BY LocFacts, InvCovers, InvTypes
     DEF ExecCommit, CowInv, SlotsOwned, DirsPresent, KernelPagesUnshared,
         UniqueLoc, Pointers, PageOrNull
<1>2. /\ ptr' = [ptr EXCEPT ![Pgdir(p)] = ptr[Dir(p)], ![Dir(p)] = ptr[Pgdir(p)]]
      /\ loc' = [loc EXCEPT ![p].ret = "user"] /\ pc' = [pc EXCEPT ![p] = "freevm"]
      /\ UNCHANGED <<writable, refc, free, state>>
  BY DEF ExecCommit, memVars
<1>3. MemoryOK'
  BY <1>1, <1>2, SwapWith
<1>9. loc' = [loc EXCEPT ![p].ret = "user"]
  BY <1>1, <1>2, <1>3 DEF FlushTlb
<1>10. loc' \in [Proc -> LocRecord]
  BY <1>9, InvTypes, InvTypes, CowAssumption, SMTT(60) DEF LocRecord, Va
<1>11. TypeOK'
  BY <1>10, <1>1, <1>2, <1>3, CowAssumption, NoTlbOK, InvTypes
     DEF ExecCommit, procVars, memVars, FlushTlb, CowInv, TypeOK, PState,
         Label, MemoryOK, Pointers, PageOrNull, Counts
<1>12. RefcCoversPointers'
  BY <1>3, MemoryPart
<1>13. SlotsOwned'
  BY <1>1, <1>2, <1>3, CowAssumption
     DEF ExecCommit, procVars, memVars, FlushTlb, CowInv, TypeOK, SlotsOwned,
         Forking, Reaping
<1>14. ReturnsMatch'
  BY <1>1, <1>2, <1>3, CowAssumption
     DEF ExecCommit, procVars, memVars, FlushTlb, CowInv, TypeOK,
         ReturnsMatch, Va
<1>15. DirsPresent'
  BY <1>1, <1>2, <1>3, InvCovers, LocFacts
     DEF ExecCommit, procVars, memVars, FlushTlb, CowInv, TypeOK, DirsPresent,
         MemoryOK, Pointers, PageOrNull, Counts
<1>16. EntriesHaveTable'
  BY <1>1, <1>2, <1>3, InvCovers, LocFacts
     DEF ExecCommit, procVars, memVars, FlushTlb, CowInv, TypeOK,
         EntriesHaveTable, CountStaysTrue, MemoryOK, Pointers, PageOrNull,
         Counts
<1>17. WritablePageUnshared'
  BY <1>1, <1>2, <1>3, InvCovers, LocFacts
     DEF ExecCommit, procVars, memVars, FlushTlb, CowInv, TypeOK,
         WritablePageUnshared, MemoryOK, Pointers, PageOrNull, Counts
<1>18. KernelPagesUnshared'
  <2>1. ASSUME NEW l \in Loc, UniqueLoc(l), ptr'[l] # NoPage
        PROVE  refc'[ptr'[l]] = 1
    <3>1. CASE l = Dir(p) \/ l = Pgdir(p)
      BY <3>1, <2>1, <1>1, <1>2, InvCovers DEF Pointers
    <3>2. CASE l # Dir(p) /\ l # Pgdir(p)
      <4>1. ptr'[l] = ptr[l]
        BY <3>2, <1>1, <1>2, InvCovers DEF Pointers
      <4> QED BY <4>1, <2>1, <1>1, <1>2 DEF CowInv, KernelPagesUnshared
    <3> QED BY <3>1, <3>2
  <2>2. ASSUME NEW q \in Proc, FreshLoc(q)'
        PROVE  ptr'[Local(q)] # NoPage /\ refc'[ptr'[Local(q)]] = 1
    <3>1. /\ FreshLoc(q) /\ Local(q) \in Loc
          /\ Local(q) # Dir(p) /\ Local(q) # Pgdir(p)
      BY <2>2, <1>1, <1>2, InvTypes, LocFacts DEF FreshLoc
    <3> QED BY <3>1, <1>1, <1>2, InvCovers
               DEF Pointers, CowInv, KernelPagesUnshared
  <2> QED BY <2>1, <2>2 DEF KernelPagesUnshared
<1>19. CountStaysTrue'
  <2>1. ASSUME NEW q \in Proc \ {p}, pc[q] \in {"copy", "remap"}
        PROVE  /\ ptr'[Pgdir(q)] = ptr[Pgdir(q)] /\ ptr'[CowPte(q)] = ptr[CowPte(q)]
               /\ refc[ptr[CowPte(q)]] = 1 => refc'[ptr[CowPte(q)]] = 1
    <3>1. /\ CowPte(q) # Dir(p) /\ CowPte(q) # Pgdir(p)
          /\ Pgdir(q) # Dir(p) /\ Pgdir(q) # Pgdir(p)
      BY <1>1, <1>2, <1>3, <2>1, CowPtePresent, LocFacts DEF CowPte
    <3> QED BY <1>1, <1>2, <1>3, <2>1, <3>1, CowPtePresent, InvCovers
               DEF Pointers, PageOrNull, Counts, MemoryOK
  <2> QED BY <1>1, <1>2, <1>3, <2>1, CountFrame, InvTypes DEF ExecCommit
<1> QED BY <1>11, <1>12, <1>13, <1>14, <1>15, <1>16, <1>17, <1>18, <1>19
           DEF CowInv

\* deallocuvm frees a page.
LEMMA DeallocuvmPageInv ==
    ASSUME CowInv, NEW p \in Proc, DeallocuvmPage(p)
    PROVE  CowInv'
<1> DEFINE d == ptr[Pgdir(p)]
<1>1. /\ pc[p] = "shrink" /\ state[p] = "RUNNABLE" /\ loc[p].ret # "halt"
  BY DEF DeallocuvmPage, CowInv, SlotsOwned, ReturnsMatch
<1>2. /\ d \in Page /\ \A va \in Va : Pte(d, va) \in Loc
      /\ \A q \in Proc \ {p} : ptr[Pgdir(q)] # d
  BY <1>1, LiveDir, LocFacts
<1>3. PICK va \in Mapped(d) : /\ Kfree(ptr[Pte(d, va)])
                              /\ ptr' = [ptr EXCEPT ![Pte(d, va)] = NoPage]
                              /\ writable' = writable \ {Pte(d, va)}
  BY DEF DeallocuvmPage
<1>4. va \in Va /\ Pte(d, va) \in Loc
  BY <1>2, <1>3 DEF Mapped
<1>5. /\ MemoryOK' /\ data' \in [Page -> Val \cup {Junk}]
      /\ \A m \in Loc : m # Pte(d, va) /\ ptr[m] \in Page /\ refc[ptr[m]] = 1
           => refc'[ptr[m]] = 1
  BY <1>3, <1>4, KfreeFrom
<1>6. UNCHANGED <<tlb, procVars, pc, loc, halted>>
  BY DEF DeallocuvmPage
<1>10. loc' \in [Proc -> LocRecord]
  BY <1>4, <1>5, <1>6, InvTypes
<1>11. TypeOK'
  BY <1>10, <1>1, <1>2, <1>3, <1>4, <1>5, <1>6, CowAssumption, NoTlbOK,
     InvTypes
     DEF procVars, memVars, CowInv, TypeOK, PState, Label, MemoryOK, Pointers,
         PageOrNull, Counts
<1>12. RefcCoversPointers'
  BY <1>4, <1>5, <1>6, MemoryPart
<1>13. SlotsOwned'
  BY <1>1, <1>2, <1>3, <1>4, <1>5, <1>6, CowAssumption
     DEF procVars, memVars, CowInv, TypeOK, SlotsOwned, Forking, Reaping
<1>14. ReturnsMatch'
  BY <1>1, <1>2, <1>3, <1>4, <1>5, <1>6, CowAssumption
     DEF procVars, memVars, CowInv, TypeOK, ReturnsMatch, Va
<1>15. DirsPresent'
  BY <1>1, <1>2, <1>3, <1>4, <1>5, <1>6, InvCovers, LocFacts
     DEF procVars, memVars, CowInv, TypeOK, DirsPresent, MemoryOK, Pointers,
         PageOrNull, Counts
<1>16. EntriesHaveTable'
  BY <1>1, <1>2, <1>3, <1>4, <1>5, <1>6, InvCovers, LocFacts
     DEF procVars, memVars, CowInv, TypeOK, EntriesHaveTable, CountStaysTrue,
         MemoryOK, Pointers, PageOrNull, Counts
<1>17. WritablePageUnshared'
  BY <1>1, <1>2, <1>3, <1>4, <1>5, <1>6, InvCovers, LocFacts
     DEF procVars, memVars, CowInv, TypeOK, WritablePageUnshared, MemoryOK,
         Pointers, PageOrNull, Counts
<1>18. KernelPagesUnshared'
  BY <1>1, <1>2, <1>3, <1>4, <1>5, <1>6, InvCovers, LocFacts
     DEF procVars, memVars, CowInv, TypeOK, KernelPagesUnshared, UniqueLoc,
         FreshLoc, MemoryOK, Pointers, PageOrNull, Counts
<1>19. CountStaysTrue'
  <2>1. ASSUME NEW q \in Proc \ {p}, pc[q] \in {"copy", "remap"}
        PROVE  /\ ptr'[Pgdir(q)] = ptr[Pgdir(q)] /\ ptr'[CowPte(q)] = ptr[CowPte(q)]
               /\ refc[ptr[CowPte(q)]] = 1 => refc'[ptr[CowPte(q)]] = 1
    <3>1. CowPte(q) # Pte(d, va) /\ Pgdir(q) # Pte(d, va)
      BY <1>1, <1>2, <1>3, <1>4, <1>5, <1>6, <2>1, CowPtePresent, LocFacts
         DEF CowPte
    <3> QED BY <1>1, <1>2, <1>3, <1>4, <1>5, <1>6, <2>1, <3>1, CowPtePresent,
               InvCovers DEF Pointers, PageOrNull, Counts, MemoryOK
  <2> QED BY <1>1, <1>2, <1>3, <1>4, <1>5, <1>6, <2>1, CountFrame, InvTypes
             DEF procVars
<1> QED BY <1>11, <1>12, <1>13, <1>14, <1>15, <1>16, <1>17, <1>18, <1>19
           DEF CowInv

\* Cow_handler makes the only reference writable.
LEMMA CowReuseInv ==
    ASSUME CowInv, NEW p \in Proc, CowReuse(p)
    PROVE  CowInv'
<1>1. /\ pc[p] = "copy" /\ CowPte(p) \in Loc /\ ptr[CowPte(p)] \in Page
      /\ Kind(CowPte(p)) = "pte" /\ loc[p].ret # "halt" /\ state[p] = "RUNNABLE"
      /\ refc[ptr[CowPte(p)]] = 1
  BY CowPtePresent, LocFacts DEF CowReuse, CowPte, CowInv, CountStaysTrue
<1>2. /\ writable' = writable \cup {CowPte(p)} /\ UNCHANGED <<ptr, refc, free>>
      /\ loc' = [loc EXCEPT ![p] = NoLoc] /\ pc' = [pc EXCEPT ![p] = "user"]
  BY DEF CowReuse, CowPte, memVars
<1>3. MemoryOK'
  BY <1>2, MemorySame
<1>9. loc' = [loc EXCEPT ![p] = NoLoc]
  BY <1>1, <1>2, <1>3 DEF FlushTlb
<1>10. loc' \in [Proc -> LocRecord]
  BY <1>9, <1>1, <1>2, <1>3, InvTypes, CowAssumption DEF LocRecord, Va
<1>11. TypeOK'
  BY <1>10, <1>1, <1>2, <1>3, CowAssumption, NoTlbOK, InvTypes
     DEF CowReuse, procVars, memVars, FlushTlb, CowInv, TypeOK, PState, Label,
         MemoryOK, Pointers, PageOrNull, Counts
<1>12. RefcCoversPointers'
  BY <1>3, MemoryPart
<1>13. SlotsOwned'
  BY <1>1, <1>2, <1>3, CowAssumption
     DEF CowReuse, procVars, memVars, FlushTlb, CowInv, TypeOK, SlotsOwned,
         Forking, Reaping
<1>14. ReturnsMatch'
  BY <1>1, <1>2, <1>3, CowAssumption
     DEF CowReuse, procVars, memVars, FlushTlb, CowInv, TypeOK, ReturnsMatch,
         Va
<1>15. DirsPresent'
  BY <1>1, <1>2, <1>3, InvCovers, LocFacts
     DEF CowReuse, procVars, memVars, FlushTlb, CowInv, TypeOK, DirsPresent,
         MemoryOK, Pointers, PageOrNull, Counts
<1>16. EntriesHaveTable'
  BY <1>1, <1>2, <1>3, InvCovers, LocFacts
     DEF CowReuse, procVars, memVars, FlushTlb, CowInv, TypeOK,
         EntriesHaveTable, CountStaysTrue, MemoryOK, Pointers, PageOrNull,
         Counts
<1>17. WritablePageUnshared'
  BY <1>1, <1>2, <1>3, InvCovers, LocFacts
     DEF CowReuse, procVars, memVars, FlushTlb, CowInv, TypeOK,
         WritablePageUnshared, MemoryOK, Pointers, PageOrNull, Counts
<1>18. KernelPagesUnshared'
  BY <1>1, <1>2, <1>3, InvCovers, LocFacts
     DEF CowReuse, procVars, memVars, FlushTlb, CowInv, TypeOK,
         KernelPagesUnshared, UniqueLoc, FreshLoc, MemoryOK, Pointers,
         PageOrNull, Counts
<1>19. CountStaysTrue'
  BY <1>1, <1>2, <1>3, InvCovers, LocFacts
     DEF CowReuse, procVars, memVars, FlushTlb, CowInv, TypeOK,
         CountStaysTrue, DirsPresent, ReturnsMatch, MemoryOK, Pointers,
         PageOrNull, Counts
<1> QED BY <1>11, <1>12, <1>13, <1>14, <1>15, <1>16, <1>17, <1>18, <1>19
           DEF CowInv

\* Cow_handler takes a page for the copy, or gives the directory up.
LEMMA CowKallocInv ==
    ASSUME CowInv, NEW p \in Proc, CowKalloc(p)
    PROVE  CowInv'
<1>1. /\ pc[p] = "copy" /\ CowPte(p) \in Loc /\ ptr[CowPte(p)] \in Page /\ loc[p].va \in Va
      /\ loc[p].ret # "halt" /\ state[p] = "RUNNABLE" /\ Local(p) \in Loc
      /\ Dir(p) \in Loc /\ Pgdir(p) \in Loc /\ ptr[Pgdir(p)] \in Page
      /\ refc[ptr[Pgdir(p)]] = 1 /\ Dir(p) # Pgdir(p)
      /\ CowPte(p) # Local(p) /\ Pgdir(p) # Local(p)
      /\ UNCHANGED <<writable, data, tlb, procVars, halted>>
  BY CowPtePresent, LocFacts, CowAssumption
     DEF CowKalloc, CowPte, CowInv, KernelPagesUnshared, UniqueLoc
<1>2. ASSUME NEW pg \in Page, Kalloc(pg), ptr' = [ptr EXCEPT ![Local(p)] = pg],
             Goto(p, "remap"), UNCHANGED loc
      PROVE  CowInv'
  <2>1. /\ MemoryOK' /\ pg # NoPage /\ refc[pg] = 0
        /\ refc' = [refc EXCEPT ![pg] = @ + 1] /\ \A m \in Loc : ptr[m] # pg
    BY <1>1, <1>2, KallocInto
  <2>10. loc' \in [Proc -> LocRecord]
    BY <1>2, InvTypes
  <2>11. TypeOK'
    BY <2>10, <1>1, <1>2, <2>1, CowAssumption, NoTlbOK, InvTypes
       DEF procVars, memVars, CowInv, TypeOK, PState, Label, MemoryOK,
           Pointers, PageOrNull, Counts
  <2>12. RefcCoversPointers'
    BY <2>1, MemoryPart
  <2>13. SlotsOwned'
    BY <1>1, <1>2, <2>1, CowAssumption
       DEF procVars, memVars, CowInv, TypeOK, SlotsOwned, Forking, Reaping
  <2>14. ReturnsMatch'
    BY <1>1, <1>2, <2>1, CowAssumption
       DEF procVars, memVars, CowInv, TypeOK, ReturnsMatch, Va
  <2>15. DirsPresent'
    BY <1>1, <1>2, <2>1, InvCovers, LocFacts
       DEF procVars, memVars, CowInv, TypeOK, DirsPresent, MemoryOK, Pointers,
           PageOrNull, Counts
  <2>16. EntriesHaveTable'
    BY <1>1, <1>2, <2>1, InvCovers, LocFacts
       DEF procVars, memVars, CowInv, TypeOK, EntriesHaveTable,
           CountStaysTrue, MemoryOK, Pointers, PageOrNull, Counts
  <2>17. WritablePageUnshared'
    BY <1>1, <1>2, <2>1, InvCovers, LocFacts
       DEF procVars, memVars, CowInv, TypeOK, WritablePageUnshared, MemoryOK,
           Pointers, PageOrNull, Counts
  <2>18. KernelPagesUnshared'
    BY <1>1, <1>2, <2>1, InvCovers, LocFacts
       DEF procVars, memVars, CowInv, TypeOK, KernelPagesUnshared, UniqueLoc,
           FreshLoc, MemoryOK, Pointers, PageOrNull, Counts
  <2>19. CountStaysTrue'
    <3> SUFFICES ASSUME NEW q \in Proc, pc'[q] \in {"copy", "remap"}
                 PROVE  LET x == ptr'[Pte(ptr'[Pgdir(q)], loc'[q].va)]
                        IN  /\ x # NoPage
                            /\ pc'[q] = "copy" /\ loc'[q].cnt = 1 => refc'[x] = 1
      BY DEF CountStaysTrue
    <3>1. pc[q] \in {"copy", "remap"} /\ (pc'[q] = "copy" => pc[q] = "copy")
      BY <1>1, <1>2, InvTypes
    <3>2. /\ ptr'[Pgdir(q)] = ptr[Pgdir(q)] /\ ptr'[CowPte(q)] = ptr[CowPte(q)]
          /\ ptr[CowPte(q)] \in Page /\ refc'[ptr[CowPte(q)]] = refc[ptr[CowPte(q)]]
      <4>1. CowPte(q) # Local(p) /\ Pgdir(q) # Local(p)
        BY LocFacts DEF CowPte
      <4> QED BY <3>1, <4>1, <1>2, <2>1, CowPtePresent, InvCovers
                 DEF Pointers, Counts
    <3> QED BY <3>1, <3>2, <1>2, CowAssumption
               DEF CowPte, CowInv, CountStaysTrue
  <2> QED BY <2>11, <2>12, <2>13, <2>14, <2>15, <2>16, <2>17, <2>18, <2>19
             DEF CowInv
<1>3. CASE /\ ptr' = [ptr EXCEPT ![Dir(p)] = ptr[Pgdir(p)], ![Pgdir(p)] = NoPage]
           /\ loc' = [loc EXCEPT ![p].ret = "halt"]
           /\ Goto(p, "freevm") /\ UNCHANGED <<refc, free>>
  <2>1. MemoryOK'
    BY <1>1, <1>3, MoveTo
  <2>9. loc' = [loc EXCEPT ![p].ret = "halt"]
    BY <1>1, <1>3, <2>1
  <2>10. loc' \in [Proc -> LocRecord]
    BY <2>9, InvTypes, InvTypes, CowAssumption DEF LocRecord, Va
  <2>11. TypeOK'
    BY <2>10, <1>1, <1>3, <2>1, CowAssumption, NoTlbOK, InvTypes
       DEF procVars, memVars, CowInv, TypeOK, PState, Label, MemoryOK,
           Pointers, PageOrNull, Counts
  <2>12. RefcCoversPointers'
    BY <2>1, MemoryPart
  <2>13. SlotsOwned'
    BY <1>1, <1>3, <2>1, CowAssumption
       DEF procVars, memVars, CowInv, TypeOK, SlotsOwned, Forking, Reaping
  <2>14. ReturnsMatch'
    BY <1>1, <1>3, <2>1, CowAssumption
       DEF procVars, memVars, CowInv, TypeOK, ReturnsMatch, Va
  <2>15. DirsPresent'
    BY <1>1, <1>3, <2>1, InvCovers, LocFacts
       DEF procVars, memVars, CowInv, TypeOK, DirsPresent, MemoryOK, Pointers,
           PageOrNull, Counts
  <2>16. EntriesHaveTable'
    BY <1>1, <1>3, <2>1, InvCovers, LocFacts
       DEF procVars, memVars, CowInv, TypeOK, EntriesHaveTable,
           CountStaysTrue, MemoryOK, Pointers, PageOrNull, Counts
  <2>17. WritablePageUnshared'
    BY <1>1, <1>3, <2>1, InvCovers, LocFacts
       DEF procVars, memVars, CowInv, TypeOK, WritablePageUnshared, MemoryOK,
           Pointers, PageOrNull, Counts
  <2>18. KernelPagesUnshared'
    <3>1. ASSUME NEW l \in Loc, UniqueLoc(l), ptr'[l] # NoPage
          PROVE  refc'[ptr'[l]] = 1
      <4>1. CASE l = Dir(p) \/ l = Pgdir(p)
        BY <4>1, <3>1, <1>1, <1>3, InvCovers DEF Pointers
      <4>2. CASE l # Dir(p) /\ l # Pgdir(p)
        <5>1. ptr'[l] = ptr[l]
          BY <4>2, <1>1, <1>3, InvCovers DEF Pointers
        <5> QED BY <5>1, <3>1, <1>1, <1>3 DEF CowInv, KernelPagesUnshared
      <4> QED BY <4>1, <4>2
    <3>2. ASSUME NEW q \in Proc, FreshLoc(q)'
          PROVE  ptr'[Local(q)] # NoPage /\ refc'[ptr'[Local(q)]] = 1
      <4>1. /\ FreshLoc(q) /\ Local(q) \in Loc
            /\ Local(q) # Dir(p) /\ Local(q) # Pgdir(p)
        BY <3>2, <1>1, <1>3, InvTypes, LocFacts DEF FreshLoc
      <4> QED BY <4>1, <1>1, <1>3, InvCovers
                 DEF Pointers, CowInv, KernelPagesUnshared
    <3> QED BY <3>1, <3>2 DEF KernelPagesUnshared
  <2>19. CountStaysTrue'
    <3>1. ASSUME NEW q \in Proc \ {p}, pc[q] \in {"copy", "remap"}
          PROVE  /\ ptr'[Pgdir(q)] = ptr[Pgdir(q)] /\ ptr'[CowPte(q)] = ptr[CowPte(q)]
                 /\ refc[ptr[CowPte(q)]] = 1 => refc'[ptr[CowPte(q)]] = 1
      <4>1. /\ CowPte(q) # Dir(p) /\ CowPte(q) # Pgdir(p)
            /\ Pgdir(q) # Dir(p) /\ Pgdir(q) # Pgdir(p)
        BY <1>1, <1>3, <2>1, <3>1, CowPtePresent, LocFacts DEF CowPte
      <4> QED BY <1>1, <1>3, <2>1, <3>1, <4>1, CowPtePresent, InvCovers
                 DEF Pointers, PageOrNull, Counts, MemoryOK
    <3> QED BY <1>1, <1>3, <2>1, <3>1, CountFrame, InvTypes DEF procVars
  <2> QED BY <2>11, <2>12, <2>13, <2>14, <2>15, <2>16, <2>17, <2>18, <2>19
             DEF CowInv
<1> QED BY <1>1, <1>2, <1>3 DEF CowKalloc

\* Cow_handler exchanges the shared page and the copy.
LEMMA CowRemapInv ==
    ASSUME CowInv, NEW p \in Proc, CowRemap(p)
    PROVE  CowInv'
<1> DEFINE pte == CowPte(p)
<1>1. /\ pc[p] = "remap" /\ pte \in Loc /\ ptr[pte] \in Page /\ Kind(pte) = "pte"
      /\ Owner(pte) = ptr[Pgdir(p)] /\ loc[p].ret # "halt" /\ state[p] = "RUNNABLE"
      /\ Local(p) \in Loc /\ ptr[Local(p)] \in Page /\ refc[ptr[Local(p)]] = 1
      /\ pte # Local(p) /\ ptr[Pgdir(p)] \in Page
  BY CowPtePresent, LocFacts, InvCovers
     DEF CowRemap, CowPte, CowInv, KernelPagesUnshared, FreshLoc, Pointers,
         PageOrNull
<1>2. /\ ptr' = [ptr EXCEPT ![pte] = ptr[Local(p)], ![Local(p)] = ptr[pte]]
      /\ writable' = writable \cup {pte} /\ pc' = [pc EXCEPT ![p] = "release"]
      /\ UNCHANGED <<refc, free, loc, procVars, halted>>
      /\ data' = [data EXCEPT ![ptr[Local(p)]] = data[ptr[pte]]]
  BY DEF CowRemap, CowPte
<1> HIDE DEF pte
<1>3. MemoryOK'
  BY <1>1, <1>2, SwapWith
<1>4. data' \in [Page -> Val \cup {Junk}]
  BY <1>1, <1>2 DEF CowInv, TypeOK
<1>10. loc' \in [Proc -> LocRecord]
  BY <1>2, InvTypes
<1>11. TypeOK'
  BY <1>10, <1>1, <1>2, <1>3, <1>4, CowAssumption, NoTlbOK, InvTypes, ZenonT(60)
     DEF CowRemap, procVars, memVars, FlushTlb, CowInv, TypeOK, PState, Label,
         MemoryOK, Pointers, PageOrNull, Counts
<1>12. RefcCoversPointers'
  BY <1>3, <1>4, MemoryPart
<1>13. SlotsOwned'
  BY <1>1, <1>2, <1>3, <1>4, CowAssumption
     DEF CowRemap, procVars, memVars, FlushTlb, CowInv, TypeOK, SlotsOwned,
         Forking, Reaping
<1>14. ReturnsMatch'
  BY <1>1, <1>2, <1>3, <1>4, CowAssumption
     DEF CowRemap, procVars, memVars, FlushTlb, CowInv, TypeOK, ReturnsMatch,
         Va
<1>15. DirsPresent'
  BY <1>1, <1>2, <1>3, <1>4, InvCovers, LocFacts
     DEF CowRemap, procVars, memVars, FlushTlb, CowInv, TypeOK, DirsPresent,
         MemoryOK, Pointers, PageOrNull, Counts
<1>16. EntriesHaveTable'
  <2>1. ASSUME NEW d \in Page, NEW va \in Va, ptr'[Pte(d, va)] # NoPage
        PROVE  ptr[Pte(d, va)] # NoPage
    BY <2>1, <1>1, <1>2, InvCovers, LocFacts, CowAssumption DEF Pointers
  <2>2. ASSUME NEW d \in Page
        PROVE  ptr'[Ptab(d)] = ptr[Ptab(d)]
    BY <1>1, <1>2, InvCovers, LocFacts DEF Pointers
  <2> QED BY <2>1, <2>2 DEF CowInv, EntriesHaveTable
<1>17. WritablePageUnshared'
  <2> SUFFICES ASSUME NEW l \in writable'
               PROVE  ptr'[l] \in Page /\ refc'[ptr'[l]] = 1
    BY DEF WritablePageUnshared
  <2>1. CASE l = pte
    BY <2>1, <1>1, <1>2, InvCovers DEF Pointers
  <2>2. CASE l # pte
    BY <2>2, <1>1, <1>2, InvCovers, LocFacts
       DEF Pointers, CowInv, TypeOK, WritablePageUnshared
  <2> QED BY <2>1, <2>2
<1>18. KernelPagesUnshared'
  <2>1. ASSUME NEW l \in Loc, UniqueLoc(l), ptr'[l] # NoPage
        PROVE  refc'[ptr'[l]] = 1
    <3>1. l # pte /\ l # Local(p)
      BY <2>1, <1>1, LocFacts DEF UniqueLoc
    <3> QED BY <2>1, <3>1, <1>2, InvCovers
               DEF Pointers, CowInv, KernelPagesUnshared
  <2>2. ASSUME NEW q \in Proc, FreshLoc(q)'
        PROVE  ptr'[Local(q)] # NoPage /\ refc'[ptr'[Local(q)]] = 1
    <3>1. FreshLoc(q) /\ Local(q) \in Loc /\ Local(q) # pte /\ Local(q) # Local(p)
      BY <2>2, <1>1, <1>2, InvTypes, LocFacts DEF FreshLoc
    <3> QED BY <3>1, <1>2, InvCovers DEF Pointers, CowInv, KernelPagesUnshared
  <2> QED BY <2>1, <2>2 DEF KernelPagesUnshared
<1>19. CountStaysTrue'
  <2>1. ASSUME NEW q \in Proc \ {p}, pc[q] \in {"copy", "remap"}
        PROVE  /\ ptr'[Pgdir(q)] = ptr[Pgdir(q)] /\ ptr'[CowPte(q)] = ptr[CowPte(q)]
               /\ refc[ptr[CowPte(q)]] = 1 => refc'[ptr[CowPte(q)]] = 1
    <3>1. /\ CowPte(q) # pte /\ CowPte(q) # Local(p)
          /\ Pgdir(q) # pte /\ Pgdir(q) # Local(p)
      BY <1>1, <1>2, <1>3, <2>1, CowPtePresent, LocFacts DEF CowPte
    <3> QED BY <1>1, <1>2, <1>3, <2>1, <3>1, CowPtePresent, InvCovers
               DEF Pointers, PageOrNull, Counts, MemoryOK
  <2> QED BY <1>1, <1>2, <1>3, <2>1, CountFrame, InvTypes DEF CowRemap
<1> QED BY <1>11, <1>12, <1>13, <1>14, <1>15, <1>16, <1>17, <1>18, <1>19
           DEF CowInv

\* Cow_handler drops the shared page.
LEMMA CowReleaseInv ==
    ASSUME CowInv, NEW p \in Proc, CowRelease(p)
    PROVE  CowInv'
<1>1. /\ pc[p] = "release" /\ Local(p) \in Loc /\ loc[p].ret # "halt" /\ state[p] = "RUNNABLE"
      /\ Kfree(ptr[Local(p)]) /\ ptr' = [ptr EXCEPT ![Local(p)] = NoPage]
      /\ loc' = [loc EXCEPT ![p] = NoLoc] /\ pc' = [pc EXCEPT ![p] = "user"]
      /\ UNCHANGED <<writable, procVars, halted>>
  BY LocFacts DEF CowRelease, CowInv, SlotsOwned, ReturnsMatch
<1>2. /\ MemoryOK' /\ data' \in [Page -> Val \cup {Junk}]
      /\ \A m \in Loc : m # Local(p) /\ ptr[m] \in Page /\ refc[ptr[m]] = 1
           => refc'[ptr[m]] = 1
  BY <1>1, KfreeFrom
<1>9. loc' = [loc EXCEPT ![p] = NoLoc]
  BY <1>1, <1>2 DEF FlushTlb
<1>10. loc' \in [Proc -> LocRecord]
  BY <1>9, <1>1, <1>2, InvTypes, CowAssumption DEF LocRecord, Va
<1>11. TypeOK'
  BY <1>10, <1>1, <1>2, CowAssumption, NoTlbOK, InvTypes
     DEF CowRelease, procVars, memVars, FlushTlb, CowInv, TypeOK, PState,
         Label, MemoryOK, Pointers, PageOrNull, Counts
<1>12. RefcCoversPointers'
  BY <1>2, MemoryPart
<1>13. SlotsOwned'
  BY <1>1, <1>2, CowAssumption
     DEF CowRelease, procVars, memVars, FlushTlb, CowInv, TypeOK, SlotsOwned,
         Forking, Reaping
<1>14. ReturnsMatch'
  BY <1>1, <1>2, CowAssumption
     DEF CowRelease, procVars, memVars, FlushTlb, CowInv, TypeOK,
         ReturnsMatch, Va
<1>15. DirsPresent'
  BY <1>1, <1>2, InvCovers, LocFacts
     DEF CowRelease, procVars, memVars, FlushTlb, CowInv, TypeOK, DirsPresent,
         MemoryOK, Pointers, PageOrNull, Counts
<1>16. EntriesHaveTable'
  BY <1>1, <1>2, InvCovers, LocFacts
     DEF CowRelease, procVars, memVars, FlushTlb, CowInv, TypeOK,
         EntriesHaveTable, CountStaysTrue, MemoryOK, Pointers, PageOrNull,
         Counts
<1>17. WritablePageUnshared'
  BY <1>1, <1>2, InvCovers, LocFacts
     DEF CowRelease, procVars, memVars, FlushTlb, CowInv, TypeOK,
         WritablePageUnshared, MemoryOK, Pointers, PageOrNull, Counts
<1>18. KernelPagesUnshared'
  BY <1>1, <1>2, InvCovers, LocFacts
     DEF CowRelease, procVars, memVars, FlushTlb, CowInv, TypeOK,
         KernelPagesUnshared, UniqueLoc, FreshLoc, MemoryOK, Pointers,
         PageOrNull, Counts
<1>19. CountStaysTrue'
  <2>1. ASSUME NEW q \in Proc \ {p}, pc[q] \in {"copy", "remap"}
        PROVE  /\ ptr'[Pgdir(q)] = ptr[Pgdir(q)] /\ ptr'[CowPte(q)] = ptr[CowPte(q)]
               /\ refc[ptr[CowPte(q)]] = 1 => refc'[ptr[CowPte(q)]] = 1
    <3>1. CowPte(q) # Local(p) /\ Pgdir(q) # Local(p)
      BY <1>1, <1>2, <2>1, CowPtePresent, LocFacts DEF CowPte
    <3> QED BY <1>1, <1>2, <2>1, <3>1, CowPtePresent, InvCovers
               DEF Pointers, PageOrNull, Counts, MemoryOK
  <2> QED BY <1>1, <1>2, <2>1, CountFrame, InvTypes DEF CowRelease
<1> QED BY <1>11, <1>12, <1>13, <1>14, <1>15, <1>16, <1>17, <1>18, <1>19
           DEF CowInv

\* allocuvm maps the page writable, with or without a new table, or frees it.
LEMMA AllocuvmMapInv ==
    ASSUME CowInv, NEW p \in Proc, AllocuvmMap(p)
    PROVE  CowInv'
<1> DEFINE d == Target(p)
           pte == Pte(Target(p), loc[p].va)
<1>0. loc[p].va \in Va /\ loc[p].va + 1 \in 0 .. MaxVa
  BY CowAssumption DEF AllocuvmMap, CowInv, ReturnsMatch, Va
<1>a. /\ pc[p] = "growmap" /\ state[p] = "RUNNABLE" /\ loc[p].ret \in {"sbrk", "exec"}
      /\ Target(p) \in Page
      /\ \A q \in Proc \ {p} : ptr[Pgdir(q)] # Target(p)
  <2>1. pc[p] = "growmap" /\ state[p] = "RUNNABLE" /\ loc[p].ret \in {"sbrk", "exec"}
    BY DEF AllocuvmMap, CowInv, SlotsOwned, ReturnsMatch
  <2>2. CASE loc[p].ret = "exec"
    <3>1. ptr[Dir(p)] \in Page /\ Dir(p) \in Loc /\ UniqueLoc(Dir(p))
      BY <2>1, <2>2, LocFacts, InvCovers
         DEF CowInv, DirsPresent, Pointers, PageOrNull, UniqueLoc
    <3>2. \A q \in Proc : Pgdir(q) \in Loc /\ Pgdir(q) # Dir(p)
      BY LocFacts
    <3> QED BY <2>1, <2>2, <3>1, <3>2, OneHome, CowAssumption DEF Target
  <2>3. CASE loc[p].ret # "exec"
    <3>1. \A q \in Proc \ {p} : Pgdir(q) \in Loc /\ Pgdir(q) # Pgdir(p)
      BY LocFacts
    <3> QED BY <2>1, <2>3, <3>1, LiveDir DEF Target
  <2> QED BY <2>2, <2>3
<1>1. /\ pc[p] = "growmap" /\ loc[p].va \in Va /\ d \in Page
      /\ state[p] = "RUNNABLE" /\ loc[p].ret \in {"sbrk", "exec"}
      /\ pte \in Loc /\ Ptab(d) \in Loc /\ Local(p) \in Loc
      /\ pte # Local(p) /\ Ptab(d) # Local(p) /\ Ptab(d) # pte
      /\ pte = Pte(d, loc[p].va)
      /\ Kind(pte) = "pte" /\ Owner(pte) = d /\ Index(pte) = loc[p].va
      /\ ptr[Local(p)] \in Page /\ refc[ptr[Local(p)]] = 1
  BY <1>0, <1>a, LocFacts, InvCovers
     DEF CowInv, KernelPagesUnshared, FreshLoc, Pointers, PageOrNull
<1>2. \A q \in Proc \ {p} : d # ptr[Pgdir(q)]
  BY <1>a
<1>4. UNCHANGED <<tlb, procVars, halted>>
  BY DEF AllocuvmMap
<1>b. \/ /\ ptr[Ptab(d)] # NoPage /\ ptr[pte] = NoPage
         /\ ptr' = [ptr EXCEPT ![pte] = ptr[Local(p)], ![Local(p)] = NoPage]
         /\ writable' = writable \cup {pte} /\ loc' = [loc EXCEPT ![p].va = @ + 1]
         /\ Goto(p, "grow") /\ UNCHANGED <<refc, free, data>>
      \/ /\ ptr[Ptab(d)] = NoPage
         /\ \E pg \in Page :
              /\ Kalloc(pg)
              /\ ptr' = [ptr EXCEPT ![pte] = ptr[Local(p)], ![Local(p)] = NoPage,
                                    ![Ptab(d)] = pg]
         /\ writable' = writable \cup {pte} /\ loc' = [loc EXCEPT ![p].va = @ + 1]
         /\ Goto(p, "grow") /\ UNCHANGED data
      \/ /\ Kfree(ptr[Local(p)]) /\ ptr' = [ptr EXCEPT ![Local(p)] = NoPage]
         /\ loc' = [loc EXCEPT ![p].ret = "user"]
         /\ Goto(p, "freevm") /\ UNCHANGED writable
  BY DEF AllocuvmMap, memVars
<1> HIDE DEF d, pte
<1>5. CASE /\ ptr[Ptab(d)] # NoPage /\ ptr[pte] = NoPage
           /\ ptr' = [ptr EXCEPT ![pte] = ptr[Local(p)], ![Local(p)] = NoPage]
           /\ writable' = writable \cup {pte} /\ loc' = [loc EXCEPT ![p].va = @ + 1]
           /\ Goto(p, "grow") /\ UNCHANGED <<refc, free, data>>
  <2>1. MemoryOK'
    BY <1>1, <1>5, MoveTo
  <2>9. loc' = [loc EXCEPT ![p].va = @ + 1]
    BY <1>2, <1>4, <1>5, <2>1
  <2>10. loc' \in [Proc -> LocRecord]
    BY <2>9, <1>0, InvTypes, CowAssumption, SMTT(60) DEF LocRecord, Va
  <2>11. TypeOK'
    BY <2>10, <1>1, <1>2, <1>4, <1>5, <2>1, CowAssumption, NoTlbOK, InvTypes
       DEF procVars, memVars, CowInv, TypeOK, PState, Label, MemoryOK,
           Pointers, PageOrNull, Counts
  <2>12. RefcCoversPointers'
    BY <1>5, <2>1, MemoryPart
  <2>13. SlotsOwned'
    BY <1>1, <1>2, <1>4, <1>5, <2>1, CowAssumption
       DEF procVars, memVars, CowInv, TypeOK, SlotsOwned, Forking, Reaping
  <2>14. ReturnsMatch'
    BY <1>1, <1>2, <1>4, <1>5, <2>1, CowAssumption
       DEF procVars, memVars, CowInv, TypeOK, ReturnsMatch, Va
  <2>15. DirsPresent'
    <3>1. ASSUME NEW q \in Proc
          PROVE  /\ ptr'[Pgdir(q)] = ptr[Pgdir(q)] /\ ptr'[Dir(q)] = ptr[Dir(q)]
      <4>1. /\ Pgdir(q) \in Loc /\ Pgdir(q) # pte /\ Pgdir(q) # Local(p)
            /\ Pgdir(q) # Ptab(d) /\ Dir(q) \in Loc /\ Dir(q) # pte
            /\ Dir(q) # Local(p) /\ Dir(q) # Ptab(d)
        BY <1>1, LocFacts
      <4> QED BY <4>1, <1>5, InvCovers DEF Pointers
    <3>2. /\ pc'[p] = "grow" /\ loc'[p].ret = loc[p].ret
          /\ \A q \in Proc \ {p} : pc'[q] = pc[q] /\ loc'[q] = loc[q]
      BY <1>5, InvTypes
    <3>3. state' = state
      BY <1>4 DEF procVars
    <3> QED BY <3>1, <3>2, <3>3, <1>1 DEF CowInv, DirsPresent
  <2>16. EntriesHaveTable'
    <3> SUFFICES ASSUME NEW e \in Page, NEW va \in Va, ptr'[Pte(e, va)] # NoPage
                 PROVE  ptr'[Ptab(e)] # NoPage
      BY DEF EntriesHaveTable
    <3>1. CASE e = d
      BY <3>1, <1>1, <1>5, InvCovers, LocFacts, CowAssumption DEF Pointers
    <3>2. CASE e # d
      <4>1. /\ Pte(e, va) # pte /\ Pte(e, va) # Local(p) /\ Pte(e, va) # Ptab(d)
            /\ Ptab(e) # pte /\ Ptab(e) # Local(p) /\ Ptab(e) # Ptab(d)
            /\ Pte(e, va) \in Loc /\ Ptab(e) \in Loc
        BY <3>2, <1>1, LocFacts
      <4> QED BY <4>1, <1>5, InvCovers DEF Pointers, CowInv, EntriesHaveTable
    <3> QED BY <3>1, <3>2
  <2>17. WritablePageUnshared'
    <3> SUFFICES ASSUME NEW l \in writable \cup {pte}
                 PROVE  ptr'[l] \in Page /\ refc'[ptr'[l]] = 1
      BY <1>5 DEF WritablePageUnshared
    <3>1. CASE l = pte
      <4>1. ptr'[l] = ptr[Local(p)]
        BY <3>1, <1>1, <1>5, InvCovers DEF Pointers
      <4> QED BY <4>1, <1>1, <1>5, InvCovers DEF Counts
    <3>2. CASE l # pte
      <4>1. /\ l \in Loc /\ Kind(l) = "pte" /\ ptr[l] \in Page /\ refc[ptr[l]] = 1
        BY <3>2 DEF CowInv, TypeOK, WritablePageUnshared
      <4>2. l # Local(p) /\ l # Ptab(d)
        BY <4>1, <1>1, LocFacts
      <4>3. ptr'[l] = ptr[l]
        BY <3>2, <4>1, <4>2, <1>5, InvCovers DEF Pointers
      <4> QED BY <4>1, <4>3, <1>5, InvCovers DEF Counts
    <3> QED BY <3>1, <3>2
  <2>18. KernelPagesUnshared'
    <3>1. ASSUME NEW l \in Loc, UniqueLoc(l), ptr'[l] # NoPage
          PROVE  refc'[ptr'[l]] = 1
      <4>1. l # pte /\ l # Local(p)
        BY <3>1, <1>1, LocFacts DEF UniqueLoc
      <4>2. CASE l = Ptab(d)
        BY <4>1, <4>2, <3>1, <1>1, <1>5, InvCovers
           DEF Pointers, PageOrNull, Counts, CowInv, KernelPagesUnshared
      <4>3. CASE l # Ptab(d)
        BY <4>1, <4>3, <3>1, <1>1, <1>5, InvCovers
           DEF Pointers, PageOrNull, Counts, CowInv, KernelPagesUnshared
      <4> QED BY <4>2, <4>3
    <3>2. ASSUME NEW q \in Proc, FreshLoc(q)'
          PROVE  ptr'[Local(q)] # NoPage /\ refc'[ptr'[Local(q)]] = 1
      <4>1. q # p /\ FreshLoc(q) /\ Local(q) \in Loc
        BY <3>2, <1>1, <1>5, InvTypes, LocFacts DEF FreshLoc
      <4>2. Local(q) # pte /\ Local(q) # Local(p) /\ Local(q) # Ptab(d)
        BY <4>1, <1>1, LocFacts
      <4> QED BY <4>1, <4>2, <1>1, <1>5, InvCovers
                 DEF Pointers, PageOrNull, Counts, CowInv, KernelPagesUnshared
    <3> QED BY <3>1, <3>2 DEF KernelPagesUnshared
  <2>19. CountStaysTrue'
    <3>1. ASSUME NEW q \in Proc \ {p}, pc[q] \in {"copy", "remap"}
          PROVE  /\ ptr'[Pgdir(q)] = ptr[Pgdir(q)] /\ ptr'[CowPte(q)] = ptr[CowPte(q)]
                 /\ refc[ptr[CowPte(q)]] = 1 => refc'[ptr[CowPte(q)]] = 1
      <4>1. CowPte(q) # pte /\ CowPte(q) # Local(p) /\ Pgdir(q) # pte /\ Pgdir(q) # Local(p)
        BY <1>1, <1>2, <1>4, <1>5, <3>1, CowPtePresent, LocFacts DEF CowPte
      <4> QED BY <1>1, <1>2, <1>4, <1>5, <3>1, <4>1, CowPtePresent, InvCovers
                 DEF Pointers, PageOrNull, Counts, MemoryOK
    <3> QED BY <1>5, <3>1, CountFrame, InvTypes
  <2> QED BY <2>11, <2>12, <2>13, <2>14, <2>15, <2>16, <2>17, <2>18, <2>19
             DEF CowInv
<1>6. ASSUME ptr[Ptab(d)] = NoPage, NEW pg \in Page, Kalloc(pg),
             ptr' = [ptr EXCEPT ![pte] = ptr[Local(p)], ![Local(p)] = NoPage,
                                ![Ptab(d)] = pg],
             writable' = writable \cup {pte}, loc' = [loc EXCEPT ![p].va = @ + 1],
             Goto(p, "grow"), UNCHANGED data
      PROVE  CowInv'
  <2>1. /\ MemoryOK' /\ pg # NoPage /\ refc[pg] = 0
        /\ refc' = [refc EXCEPT ![pg] = @ + 1] /\ \A m \in Loc : ptr[m] # pg
    <3>1. pte \in Loc /\ Local(p) \in Loc /\ Ptab(d) \in Loc /\ pte # Local(p)
      BY <1>1
    <3>2. Kalloc(pg)
      BY <1>6
    <3>3. ptr' = MovedInto(ptr, pte, Local(p), Ptab(d), pg)
      BY <1>6, Zenon DEF MovedInto
    <3> QED BY <3>1, <3>2, <3>3, MoveAndKalloc
  <2>2. ptr[pte] = NoPage
    BY <1>1, <1>6 DEF CowInv, EntriesHaveTable
  <2>9. loc' = [loc EXCEPT ![p].va = @ + 1]
    BY <1>4, <1>6, <2>1, <2>2
  <2>10. loc' \in [Proc -> LocRecord]
    BY <2>9, <1>0, InvTypes, CowAssumption, SMTT(60) DEF LocRecord, Va
  <2>11. TypeOK'
    BY <2>10, <1>1, <1>2, <1>4, <1>6, <2>1, <2>2, CowAssumption, NoTlbOK,
       InvTypes
       DEF procVars, memVars, CowInv, TypeOK, PState, Label, MemoryOK,
           Pointers, PageOrNull, Counts
  <2>12. RefcCoversPointers'
    BY <1>6, <2>1, <2>2, MemoryPart
  <2>13. SlotsOwned'
    BY <1>1, <1>2, <1>4, <1>6, <2>1, <2>2, CowAssumption
       DEF procVars, memVars, CowInv, TypeOK, SlotsOwned, Forking, Reaping
  <2>14. ReturnsMatch'
    BY <1>1, <1>2, <1>4, <1>6, <2>1, <2>2, CowAssumption
       DEF procVars, memVars, CowInv, TypeOK, ReturnsMatch, Va
  <2>15. DirsPresent'
    <3>1. ASSUME NEW q \in Proc
          PROVE  /\ ptr'[Pgdir(q)] = ptr[Pgdir(q)] /\ ptr'[Dir(q)] = ptr[Dir(q)]
      <4>1. /\ Pgdir(q) \in Loc /\ Pgdir(q) # pte /\ Pgdir(q) # Local(p)
            /\ Pgdir(q) # Ptab(d) /\ Dir(q) \in Loc /\ Dir(q) # pte
            /\ Dir(q) # Local(p) /\ Dir(q) # Ptab(d)
        BY <1>1, LocFacts
      <4> QED BY <4>1, <1>6, InvCovers DEF Pointers
    <3>2. /\ pc'[p] = "grow" /\ loc'[p].ret = loc[p].ret
          /\ \A q \in Proc \ {p} : pc'[q] = pc[q] /\ loc'[q] = loc[q]
      BY <1>6, InvTypes
    <3>3. state' = state
      BY <1>4 DEF procVars
    <3> QED BY <3>1, <3>2, <3>3, <1>1 DEF CowInv, DirsPresent
  <2>16. EntriesHaveTable'
    <3> SUFFICES ASSUME NEW e \in Page, NEW va \in Va, ptr'[Pte(e, va)] # NoPage
                 PROVE  ptr'[Ptab(e)] # NoPage
      BY DEF EntriesHaveTable
    <3>1. CASE e = d
      BY <3>1, <1>1, <1>6, <2>1, InvCovers, LocFacts, CowAssumption
         DEF Pointers
    <3>2. CASE e # d
      <4>1. /\ Pte(e, va) # pte /\ Pte(e, va) # Local(p) /\ Pte(e, va) # Ptab(d)
            /\ Ptab(e) # pte /\ Ptab(e) # Local(p) /\ Ptab(e) # Ptab(d)
            /\ Pte(e, va) \in Loc /\ Ptab(e) \in Loc
        BY <3>2, <1>1, LocFacts
      <4> QED BY <4>1, <1>6, <2>1, InvCovers
                 DEF Pointers, CowInv, EntriesHaveTable
    <3> QED BY <3>1, <3>2
  <2>17. WritablePageUnshared'
    <3> SUFFICES ASSUME NEW l \in writable \cup {pte}
                 PROVE  ptr'[l] \in Page /\ refc'[ptr'[l]] = 1
      BY <1>6, <2>1 DEF WritablePageUnshared
    <3>1. CASE l = pte
      <4>1. ptr'[l] = ptr[Local(p)]
        BY <3>1, <1>1, <1>6, <2>1, InvCovers DEF Pointers
      <4> QED BY <4>1, <1>1, <1>6, <2>1, InvCovers DEF Counts
    <3>2. CASE l # pte
      <4>1. /\ l \in Loc /\ Kind(l) = "pte" /\ ptr[l] \in Page /\ refc[ptr[l]] = 1
        BY <3>2 DEF CowInv, TypeOK, WritablePageUnshared
      <4>2. l # Local(p) /\ l # Ptab(d)
        BY <4>1, <1>1, LocFacts
      <4>3. ptr'[l] = ptr[l]
        BY <3>2, <4>1, <4>2, <1>6, <2>1, InvCovers DEF Pointers
      <4> QED BY <4>1, <4>3, <1>6, <2>1, InvCovers DEF Counts
    <3> QED BY <3>1, <3>2
  <2>18. KernelPagesUnshared'
    <3>1. ASSUME NEW l \in Loc, UniqueLoc(l), ptr'[l] # NoPage
          PROVE  refc'[ptr'[l]] = 1
      <4>1. l # pte /\ l # Local(p)
        BY <3>1, <1>1, LocFacts DEF UniqueLoc
      <4>2. CASE l = Ptab(d)
        BY <4>1, <4>2, <3>1, <1>1, <1>6, <2>1, InvCovers
           DEF Pointers, PageOrNull, Counts, CowInv, KernelPagesUnshared
      <4>3. CASE l # Ptab(d)
        BY <4>1, <4>3, <3>1, <1>1, <1>6, <2>1, InvCovers
           DEF Pointers, PageOrNull, Counts, CowInv, KernelPagesUnshared
      <4> QED BY <4>2, <4>3
    <3>2. ASSUME NEW q \in Proc, FreshLoc(q)'
          PROVE  ptr'[Local(q)] # NoPage /\ refc'[ptr'[Local(q)]] = 1
      <4>1. q # p /\ FreshLoc(q) /\ Local(q) \in Loc
        BY <3>2, <1>1, <1>6, <2>1, InvTypes, LocFacts DEF FreshLoc
      <4>2. Local(q) # pte /\ Local(q) # Local(p) /\ Local(q) # Ptab(d)
        BY <4>1, <1>1, LocFacts
      <4> QED BY <4>1, <4>2, <1>1, <1>6, <2>1, InvCovers
                 DEF Pointers, PageOrNull, Counts, CowInv, KernelPagesUnshared
    <3> QED BY <3>1, <3>2 DEF KernelPagesUnshared
  <2>19. CountStaysTrue'
    <3>1. ASSUME NEW q \in Proc \ {p}, pc[q] \in {"copy", "remap"}
          PROVE  /\ ptr'[Pgdir(q)] = ptr[Pgdir(q)] /\ ptr'[CowPte(q)] = ptr[CowPte(q)]
                 /\ refc[ptr[CowPte(q)]] = 1 => refc'[ptr[CowPte(q)]] = 1
      <4>1. /\ CowPte(q) # pte /\ CowPte(q) # Local(p) /\ CowPte(q) # Ptab(d)
            /\ Pgdir(q) # pte /\ Pgdir(q) # Local(p) /\ Pgdir(q) # Ptab(d)
        BY <1>1, <1>2, <1>4, <1>6, <2>1, <3>1, CowPtePresent, LocFacts
           DEF CowPte
      <4> QED BY <1>1, <1>2, <1>4, <1>6, <2>1, <3>1, <4>1, CowPtePresent,
                 InvCovers DEF Pointers, PageOrNull, Counts, MemoryOK
    <3> QED BY <1>6, <2>1, <3>1, CountFrame, InvTypes
  <2> QED BY <2>11, <2>12, <2>13, <2>14, <2>15, <2>16, <2>17, <2>18, <2>19
             DEF CowInv
<1>7. CASE /\ Kfree(ptr[Local(p)]) /\ ptr' = [ptr EXCEPT ![Local(p)] = NoPage]
           /\ loc' = [loc EXCEPT ![p].ret = "user"]
           /\ Goto(p, "freevm") /\ UNCHANGED writable
  <2>1. /\ MemoryOK' /\ data' \in [Page -> Val \cup {Junk}]
        /\ \A m \in Loc : m # Local(p) /\ ptr[m] \in Page /\ refc[ptr[m]] = 1
             => refc'[ptr[m]] = 1
    BY <1>1, <1>7, KfreeFrom
  <2>9. loc' = [loc EXCEPT ![p].ret = "user"]
    BY <1>4, <1>7, <2>1
  <2>10. loc' \in [Proc -> LocRecord]
    BY <2>9, <1>1, InvTypes, CowAssumption, ZenonT(60) DEF LocRecord, Va
  <2>11. TypeOK'
    BY <2>10, <1>1, <1>4, <1>7, <2>1, CowAssumption, NoTlbOK, InvTypes
       DEF procVars, memVars, CowInv, TypeOK, PState, Label, MemoryOK,
           Pointers, PageOrNull, Counts
  <2>12. RefcCoversPointers'
    BY <1>7, <2>1, MemoryPart
  <2>13. SlotsOwned'
    BY <1>1, <1>4, <1>7, <2>1, CowAssumption
       DEF procVars, memVars, CowInv, TypeOK, SlotsOwned, Forking, Reaping
  <2>14. ReturnsMatch'
    BY <1>1, <1>4, <1>7, <2>1, CowAssumption
       DEF procVars, memVars, CowInv, TypeOK, ReturnsMatch, Va
  <2>15. DirsPresent'
    BY <1>1, <1>4, <1>7, <2>1, InvCovers, LocFacts
       DEF procVars, memVars, CowInv, TypeOK, DirsPresent, MemoryOK, Pointers,
           PageOrNull, Counts
  <2>16. EntriesHaveTable'
    BY <1>1, <1>4, <1>7, <2>1, InvCovers, LocFacts
       DEF procVars, memVars, CowInv, TypeOK, EntriesHaveTable,
           CountStaysTrue, MemoryOK, Pointers, PageOrNull, Counts
  <2>17. WritablePageUnshared'
    BY <1>1, <1>4, <1>7, <2>1, InvCovers, LocFacts
       DEF procVars, memVars, CowInv, TypeOK, WritablePageUnshared, MemoryOK,
           Pointers, PageOrNull, Counts
  <2>18. KernelPagesUnshared'
    BY <1>1, <1>4, <1>7, <2>1, InvCovers, LocFacts
       DEF procVars, memVars, CowInv, TypeOK, KernelPagesUnshared, UniqueLoc,
           FreshLoc, MemoryOK, Pointers, PageOrNull, Counts
  <2>19. CountStaysTrue'
    <3>1. ASSUME NEW q \in Proc \ {p}, pc[q] \in {"copy", "remap"}
          PROVE  /\ ptr'[Pgdir(q)] = ptr[Pgdir(q)] /\ ptr'[CowPte(q)] = ptr[CowPte(q)]
                 /\ refc[ptr[CowPte(q)]] = 1 => refc'[ptr[CowPte(q)]] = 1
      <4>1. CowPte(q) # Local(p) /\ Pgdir(q) # Local(p)
        BY <1>1, <1>4, <1>7, <2>1, <3>1, CowPtePresent, LocFacts DEF CowPte
      <4> QED BY <1>7, <2>1, <3>1, <4>1, CowPtePresent, InvCovers
    <3> QED BY <1>1, <1>4, <1>7, <2>1, <3>1, CountFrame, InvTypes DEF procVars
  <2> QED BY <2>11, <2>12, <2>13, <2>14, <2>15, <2>16, <2>17, <2>18, <2>19
             DEF CowInv
<1> QED BY <1>b, <1>5, <1>6, <1>7

\* A load fills the TLB.
LEMMA LoadInv ==
    ASSUME CowInv, NEW p \in Proc, NEW va \in Va, Load(p, va)
    PROVE  CowInv'
<1>1. MemoryOK' /\ UNCHANGED <<ptr, writable, refc, free, state, sz, pc, loc, parent>>
  BY MemorySame DEF Load, memVars, procVars
<1>3. Entry(ptr[Pgdir(p)], va) \in [pg : Page \cup {NoPage}, w : BOOLEAN]
  <2>1. state[p] = "RUNNABLE" /\ loc[p].ret # "halt"
    BY DEF Load, InUser, CowInv, ReturnsMatch
  <2>2. Pte(ptr[Pgdir(p)], va) \in Loc
    BY <2>1, LiveDir
  <2> QED BY <2>2, InvCovers DEF Entry, Pointers, PageOrNull
<1>2. TypeOK'
  BY <1>1, CowAssumption, NoTlbOK, <1>3
     DEF Load, memVars, procVars, CowInv, TypeOK
<1> QED BY <1>1, <1>2, MemoryPart, SameMemoryInv

\* A store through the TLB or the table.
LEMMA StoreInv ==
    ASSUME CowInv, NEW p \in Proc, NEW va \in Va, NEW v \in Val, Store(p, va, v)
    PROVE  CowInv'
<1>1. MemoryOK' /\ UNCHANGED <<ptr, writable, refc, free, state, sz, pc, loc, parent>>
  BY MemorySame DEF Store, memVars, procVars
<1>3. StoreEntry(p, va) \in [pg : Page \cup {NoPage}, w : BOOLEAN]
  <2>1. state[p] = "RUNNABLE" /\ loc[p].ret # "halt"
    BY DEF Store, InUser, CowInv, ReturnsMatch
  <2>2. Pte(ptr[Pgdir(p)], va) \in Loc
    BY <2>1, LiveDir
  <2> QED BY <2>2, InvCovers
             DEF Entry, StoreEntry, Pointers, PageOrNull, CowInv, TypeOK
<1>2. TypeOK'
  BY <1>1, CowAssumption, NoTlbOK, <1>3 DEF Store, procVars, CowInv, TypeOK
<1> QED BY <1>1, <1>2, MemoryPart, SameMemoryInv

\* trap() marks the process killed.
LEMMA KernelFaultTrapInv ==
    ASSUME CowInv, NEW p \in Proc, KernelFaultTrap(p)
    PROVE  CowInv'
<1>1. MemoryOK' /\ UNCHANGED <<ptr, writable, refc, free, state, sz, pc, loc, parent>>
  BY MemorySame DEF KernelFaultTrap, memVars, procVars
<1>2. TypeOK'
  BY <1>1, CowAssumption, NoTlbOK DEF KernelFaultTrap, memVars, CowInv, TypeOK
<1> QED BY <1>1, <1>2, MemoryPart, SameMemoryInv

\* A context switch empties the TLB.
LEMMA SwitchTlbInv ==
    ASSUME CowInv, NEW p \in Proc, SwitchTlb(p)
    PROVE  CowInv'
<1>1. MemoryOK' /\ UNCHANGED <<ptr, writable, refc, free, state, sz, pc, loc, parent>>
  BY MemorySame DEF SwitchTlb, memVars, procVars
<1>2. TypeOK'
  BY <1>1, CowAssumption, NoTlbOK
     DEF SwitchTlb, memVars, procVars, FlushTlb, CowInv, TypeOK
<1> QED BY <1>1, <1>2, MemoryPart, SameMemoryInv

-----------------------------------------------------------------------------
(* The start, the steps together, and the theorems. *)

\* In the initial state the four pages in use have one pointer each.
LEMMA InitCovers ==
    ASSUME Init
    PROVE  MemoryOK
<1>1. PICK ks, d, tab, u \in Page :
        /\ InitPages(ks, d, tab, u)
        /\ ptr = InitPtr(ks, d, tab, u)
        /\ refc = [pg \in Page |-> IF pg \in {ks, d, tab, u} THEN 1 ELSE 0]
        /\ free = Page \ {ks, d, tab, u}
  BY DEF Init
<1>2. ks # d /\ ks # tab /\ ks # u /\ d # tab /\ d # u /\ tab # u
  <2>1. /\ Heads(Page \ {ks}) \subseteq Page \ {ks}
        /\ Heads(Page \ {ks, d}) \subseteq Page \ {ks, d}
        /\ Heads(Page \ {ks, d, tab}) \subseteq Page \ {ks, d, tab}
    BY CowAssumption
  <2> QED BY <1>1, <2>1 DEF InitPages
<1> DEFINE Home(pg) == CASE pg = ks -> Kstack(initproc) [] pg = d -> Pgdir(initproc)
                         [] pg = tab -> Ptab(d) [] OTHER -> Pte(d, 0)
<1>3. ptr \in Pointers /\ refc \in Counts
  BY <1>1 DEF InitPtr, Pointers, PageOrNull, Counts
<1>4. ASSUME NEW pg \in Page
      PROVE  Cardinality(Refs(ptr, pg)) <= refc[pg]
  <2>1. CASE pg \in {ks, d, tab, u}
    <3>1. Refs(ptr, pg) \subseteq {Home(pg)}
      BY <2>1, <1>1, <1>2, CowAssumption DEF InitPtr, Refs
    <3>2. IsFiniteSet({Home(pg)}) /\ Cardinality({Home(pg)}) = 1
      BY FS_Singleton
    <3>3. Cardinality(Refs(ptr, pg)) <= Cardinality({Home(pg)})
      BY <3>1, <3>2, FS_Subset
    <3>4. refc[pg] = 1
      BY <2>1, <1>1
    <3> QED BY <3>2, <3>3, <3>4
  <2>2. CASE pg \notin {ks, d, tab, u}
    <3>1. Refs(ptr, pg) = {}
      BY <2>2, <1>1, CowAssumption DEF InitPtr, Refs
    <3>2. Cardinality(Refs(ptr, pg)) = 0
      BY <3>1, FS_EmptySet
    <3> QED BY <3>2, <2>2, <1>1
  <2> QED BY <2>1, <2>2
<1>5. free = {x \in Page : refc[x] = 0}
  BY <1>1
<1> QED BY <1>3, <1>4, <1>5 DEF MemoryOK, Covers

\* userinit() establishes the invariant.
LEMMA InitInv ==
    ASSUME Init
    PROVE  CowInv
<1>0. MemoryOK
  BY InitCovers
<1>1. PICK ks, d, tab, u \in Page :
        /\ ptr = InitPtr(ks, d, tab, u)
        /\ writable = {Pte(d, 0)}
        /\ refc = [pg \in Page |-> IF pg \in {ks, d, tab, u} THEN 1 ELSE 0]
        /\ free = Page \ {ks, d, tab, u}
        /\ data = [pg \in Page |-> IF pg = u THEN Zero ELSE Junk]
  BY DEF Init
<1>2. /\ tlb = [p \in Proc |-> NoTlb]
      /\ state = [p \in Proc |-> IF p = initproc THEN "RUNNABLE" ELSE "UNUSED"]
      /\ parent = [p \in Proc |-> NoProc]
      /\ killed = [p \in Proc |-> FALSE]
      /\ sz = [p \in Proc |-> IF p = initproc THEN 1 ELSE 0]
      /\ pc = [p \in Proc |-> IF p = initproc THEN "user" ELSE "none"]
      /\ loc = [p \in Proc |-> NoLoc]
      /\ halted = FALSE
  BY DEF Init
<1>3. 0 \in Va /\ 1 \in 0 .. MaxVa /\ 0 \in 0 .. MaxVa
  BY CowAssumption DEF Va
<1>4. NoLoc \in LocRecord
  BY <1>3 DEF LocRecord
<1>5. TypeOK
  <2>1. /\ ptr \in [Loc -> Page \cup {NoPage}] /\ refc \in [Page -> Nat]
        /\ free \subseteq Page
    BY <1>0 DEF MemoryOK, Pointers, PageOrNull, Counts
  <2>2. writable \subseteq {l \in Loc : Kind(l) = "pte"}
    BY <1>1, <1>3, LocFacts
  <2>3. data \in [Page -> Val \cup {Junk}]
    BY <1>1, CowAssumption
  <2>4. tlb \in [Proc -> [Va -> [pg : Page \cup {NoPage}, w : BOOLEAN]]]
    BY <1>2, NoTlbOK
  <2>5. loc \in [Proc -> LocRecord]
    BY <1>2, <1>4
  <2>6. /\ state \in [Proc -> PState] /\ parent \in [Proc -> Proc \cup {NoProc}]
        /\ killed \in [Proc -> BOOLEAN] /\ sz \in [Proc -> 0 .. MaxVa]
        /\ pc \in [Proc -> Label] /\ halted \in BOOLEAN
    BY <1>2, <1>3 DEF PState, Label
  <2> QED BY <2>1, <2>2, <2>3, <2>4, <2>5, <2>6 DEF TypeOK
<1>6. RefcCoversPointers
  BY <1>0 DEF MemoryOK, Covers, RefcCoversPointers
<1>7. /\ Pte(d, 0) \in Loc /\ Ptab(d) \in Loc
      /\ Pgdir(initproc) \in Loc /\ Kstack(initproc) \in Loc
  BY <1>3, LocFacts, CowAssumption
<1>8. WritablePageUnshared
  <2>1. ptr[Pte(d, 0)] = u
    BY <1>1, <1>7, LocFacts DEF InitPtr
  <2> QED BY <2>1, <1>1 DEF WritablePageUnshared
<1>9. SlotsOwned /\ ReturnsMatch
  BY <1>2 DEF SlotsOwned, ReturnsMatch, Forking, Reaping
<1>10. DirsPresent
  <2>1. ptr[Pgdir(initproc)] # NoPage
    BY <1>1, <1>7, LocFacts, CowAssumption DEF InitPtr
  <2> QED BY <2>1, <1>2 DEF DirsPresent
<1>11. EntriesHaveTable
  <2> SUFFICES ASSUME NEW e \in Page, NEW va \in Va, ptr[Pte(e, va)] # NoPage
               PROVE  ptr[Ptab(e)] # NoPage
    BY DEF EntriesHaveTable
  <2>1. e = d
    BY <1>1, LocFacts DEF InitPtr
  <2>2. ptr[Ptab(d)] = tab
    BY <1>1, <1>7, LocFacts DEF InitPtr
  <2> QED BY <2>1, <2>2, CowAssumption
<1>12. KernelPagesUnshared
  <2>1. ASSUME NEW l \in Loc, ptr[l] # NoPage
        PROVE  refc[ptr[l]] = 1
    <3>1. ptr[l] \in {ks, d, tab, u}
      BY <2>1, <1>1 DEF InitPtr
    <3> QED BY <3>1, <1>1
  <2>2. \A p \in Proc : ~FreshLoc(p)
    BY <1>2 DEF FreshLoc
  <2> QED BY <2>1, <2>2 DEF KernelPagesUnshared
<1>13. CountStaysTrue
  BY <1>2 DEF CountStaysTrue
<1> QED BY <1>5, <1>6, <1>8, <1>9, <1>10, <1>11, <1>12, <1>13 DEF CowInv

\* A step that changes nothing.
LEMMA StutterInv ==
    ASSUME CowInv, UNCHANGED vars
    PROVE  CowInv'
BY
   DEF vars, memVars, procVars, CowInv, TypeOK, RefcCoversPointers, Refs,
       WritablePageUnshared, SlotsOwned, Forking, Reaping, ReturnsMatch,
       DirsPresent, EntriesHaveTable, KernelPagesUnshared, FreshLoc,
       UniqueLoc, CountStaysTrue

\* The invariant is inductive.
LEMMA NextInv ==
    ASSUME CowInv, [Next]_vars
    PROVE  CowInv'
<1>1. ASSUME NEW p \in Proc, UserStep(p)
      PROVE  CowInv'
  <2>1. CASE ForkAllocproc(p) \/ Exit(p) \/ WaitReap(p)
    BY <2>1, ForkAllocprocInv, ExitInv, WaitReapInv
  <2>2. CASE SbrkGrow(p) \/ SbrkShrink(p) \/ ExecSetupkvm(p) \/ SwitchTlb(p)
    BY <2>2, SbrkGrowInv, SbrkShrinkInv, ExecSetupkvmInv, SwitchTlbInv
  <2>3. ASSUME NEW va \in Va,
               Load(p, va) \/ StoreFault(p, va) \/ KernelStoreFault(p, va)
        PROVE  CowInv'
    BY <2>3, LoadInv, StoreFaultInv, KernelStoreFaultInv
  <2>4. ASSUME NEW va \in Va, NEW v \in Val, Store(p, va, v)
        PROVE  CowInv'
    BY <2>4, StoreInv
  <2> QED BY <1>1, <2>1, <2>2, <2>3, <2>4 DEF UserStep
<1>2. ASSUME NEW p \in Proc, KernelStep(p)
      PROVE  CowInv'
  <2>1. CASE \/ ForkKstack(p) \/ ForkSetupkvm(p) \/ ShareIncr(p) \/ ShareMap(p)
             \/ ForkDone(p) \/ ForkUndo(p)
    BY <2>1, ForkKstackInv, ForkSetupkvmInv, ShareIncrInv, ShareMapInv,
       ForkDoneInv, ForkUndoInv
  <2>2. CASE FreevmPage(p) \/ FreevmTable(p) \/ FreevmDir(p) \/ WaitDone(p)
    BY <2>2, FreevmPageInv, FreevmTableInv, FreevmDirInv, WaitDoneInv
  <2>3. CASE \/ AllocuvmPage(p) \/ AllocuvmMap(p) \/ SbrkGrown(p) \/ ExecCommit(p)
             \/ DeallocuvmPage(p) \/ SbrkShrunk(p)
    BY <2>3, AllocuvmPageInv, AllocuvmMapInv, SbrkGrownInv, ExecCommitInv,
       DeallocuvmPageInv, SbrkShrunkInv
  <2>4. CASE \/ KernelFaultTrap(p) \/ CowGetRefc(p) \/ CowReuse(p)
             \/ CowKalloc(p) \/ CowRemap(p) \/ CowRelease(p)
    BY <2>4, KernelFaultTrapInv, CowGetRefcInv, CowReuseInv, CowKallocInv,
       CowRemapInv, CowReleaseInv
  <2> QED BY <1>2, <2>1, <2>2, <2>3, <2>4 DEF KernelStep
<1> QED BY <1>1, <1>2, StutterInv DEF Next

\* CowInv holds in every state the kernel reaches, whatever the number of
\* processes and pages: every critical section of kalloc.c, vm.c and proc.c
\* preserves it.
THEOREM CowInvariant == Spec => []CowInv
<1>1. Init => CowInv
  BY InitInv
<1>2. CowInv /\ [Next]_vars => CowInv'
  BY NextInv
<1> QED BY <1>1, <1>2, PTL DEF Spec

\* The state stays well formed.
THEOREM TypeCorrect == Spec => []TypeOK
<1>1. CowInv => TypeOK
  BY DEF CowInv
<1> QED BY <1>1, CowInvariant, PTL

\* kfree never puts on the free list a page the kernel still points at, and the
\* free list holds exactly the pages with a count of zero.
THEOREM RefcSafe == Spec => []RefcCoversPointers
<1>1. CowInv => RefcCoversPointers
  BY DEF CowInv
<1> QED BY <1>1, CowInvariant, PTL

\* No page is mapped writable in one page table while anything else points at
\* it: a store never shows in another process's memory.
THEOREM NoSharedWritable == Spec => []WritablePageUnshared
<1>1. CowInv => WritablePageUnshared
  BY DEF CowInv
<1> QED BY <1>1, CowInvariant, PTL

-----------------------------------------------------------------------------
(* The translation caches. *)

USE DEF Goto, ReturnToUser, NoLoc

\* What a kernel thread of p may write: its own variables, the slots no process
\* runs on, and the tables below the two directories it holds.
Mine(p) ==
    {Dir(p), Local(p), Pgdir(p)} \cup {Kstack(c) : c \in Proc}
    \cup {Pgdir(c) : c \in {c \in Proc : state[c] # "RUNNABLE"}}
    \cup {Ptab(d) : d \in {ptr[Dir(p)], ptr[Pgdir(p)]} \ {NoPage}}
    \cup {Pte(ptr[Dir(p)], va) : va \in {va \in Va : ptr[Dir(p)] # NoPage}}
    \cup {Pte(ptr[Pgdir(p)], va) : va \in {va \in Va : ptr[Pgdir(p)] # NoPage}}

\* Where a pointer it writes comes from.
Source(p, pg) ==
    \/ pg = NoPage \/ pg \in free
    \/ \E k \in Loc \cap Mine(p) : pg = ptr[k]

\* A step of p writes what is its own, with pointers of its own.
WritesMine(p) ==
    \A l \in Loc : ptr'[l] = ptr[l] \/ (l \in Mine(p) /\ Source(p, ptr'[l]))

-----------------------------------------------------------------------------
(* What holds of the caches of the processes that do not take the step. *)

\* Another process's directory, and the table below it, are none of p's.
LEMMA MineApart ==
    ASSUME CowInv, NEW p \in Proc, NEW q \in Proc, p # q, Alive(q)
    PROVE  /\ Pgdir(q) \notin Mine(p) /\ Dir(q) \notin Mine(p)
           /\ Local(q) \notin Mine(p)
           /\ \A va \in Va : Own(q, va) \notin Mine(p)
           /\ pc[q] \in {"share", "map"} => Ptab(ptr[Dir(q)]) \notin Mine(p)
<1>1. /\ ptr[Pgdir(q)] \in Page
      /\ \A m \in Loc : m # Pgdir(q) => ptr[m] # ptr[Pgdir(q)]
  BY LiveDir DEF Alive
<1>2. ptr[Dir(p)] # ptr[Pgdir(q)] /\ ptr[Pgdir(p)] # ptr[Pgdir(q)]
  <2>1. /\ Dir(p) \in Loc /\ Dir(p) # Pgdir(q)
        /\ Pgdir(p) \in Loc /\ Pgdir(p) # Pgdir(q)
    BY LocFacts
  <2> QED BY <2>1, <1>1
<1>3. Pgdir(q) \notin Mine(p) /\ Dir(q) \notin Mine(p) /\ Local(q) \notin Mine(p)
  BY LocFacts DEF Mine, Alive
<1>4. ASSUME NEW va \in Va
      PROVE  Own(q, va) \notin Mine(p)
  BY <1>2, LocFacts DEF Mine, Own
<1>5. ASSUME pc[q] \in {"share", "map"}
      PROVE  Ptab(ptr[Dir(q)]) \notin Mine(p)
  <2>1. ptr[Dir(q)] # NoPage /\ UniqueLoc(Dir(q)) /\ Dir(q) \in Loc
    BY <1>5, LocFacts DEF CowInv, DirsPresent, UniqueLoc
  <2>2. /\ Dir(p) \in Loc /\ Dir(p) # Dir(q)
        /\ Pgdir(p) \in Loc /\ Pgdir(p) # Dir(q)
    BY LocFacts
  <2>3. ptr[Dir(q)] # ptr[Dir(p)] /\ ptr[Dir(q)] # ptr[Pgdir(p)]
    BY <2>1, <2>2, OneHome
  <2> QED BY <2>3, LocFacts DEF Mine
<1> QED BY <1>3, <1>4, <1>5

\* A pointer to a page q caches as writable is one of Holders.
LEMMA CachedHeld ==
    ASSUME CowInv, NEW q \in Proc, NEW va \in Va, EntryOK(q, va),
           tlb[q][va] # NoEntry
    PROVE  /\ tlb[q][va].pg \in Page /\ tlb[q][va].pg = ptr[Own(q, va)]
           /\ va < sz[q]
           /\ tlb[q][va].w => \A l \in Loc : ptr[l] = ptr[Own(q, va)]
                                => l \in Holders(q, va)
BY DEF EntryOK, Own, Refs

\* The cache of q stays right when the directory and the entries it has cached
\* stay, and no pointer to one of those pages is made.
LEMMA KeepEntries ==
    ASSUME CowInv, NEW q \in Proc, Alive(q),
           \A va \in Va : EntryOK(q, va),
           \A va \in Va : tlb'[q][va] = tlb[q][va] \/ tlb'[q][va] = NoEntry,
           ptr'[Pgdir(q)] = ptr[Pgdir(q)], sz'[q] = sz[q],
           \A va \in Va : tlb[q][va] # NoEntry => ptr'[Own(q, va)] = ptr[Own(q, va)],
           pc[q] = "map" /\ pc'[q] # "map" => ptr'[Local(q)] = NoPage,
           \A l \in Loc : \/ ptr'[l] = ptr[l] \/ ptr'[l] = NoPage \/ ptr'[l] \in free
                          \/ l = Local(q) /\ pc'[q] = "map"
                          \/ \E k \in Loc : /\ ptr'[l] = ptr[k]
                                            /\ pc[q] = "map" => k # Local(q)
                                            /\ \A va \in Va : k # Own(q, va)
    PROVE  \A va \in Va : EntryOK(q, va)'
<1> SUFFICES ASSUME NEW va \in Va, tlb'[q][va] # NoEntry
             PROVE  /\ va < sz'[q] /\ tlb'[q][va].pg \in Page
                    /\ tlb'[q][va].pg = ptr'[Pte(ptr'[Pgdir(q)], va)]
                    /\ tlb'[q][va].w
                         => Refs(ptr', tlb'[q][va].pg) \subseteq Holders(q, va)'
  BY DEF EntryOK
<1> DEFINE e == tlb[q][va]
<1>1. e # NoEntry /\ tlb'[q][va] = e
  OBVIOUS
<1>2. /\ e.pg \in Page /\ e.pg = ptr[Own(q, va)] /\ va < sz[q]
      /\ e.w => \A l \in Loc : ptr[l] = ptr[Own(q, va)] => l \in Holders(q, va)
  BY <1>1, CachedHeld
<1>3. Own(q, va) \in Loc /\ ptr'[Pte(ptr'[Pgdir(q)], va)] = ptr[Own(q, va)]
  BY <1>1, LiveDir DEF Own, Alive
<1>4. e.pg \notin free /\ e.pg # NoPage
  BY <1>2, <1>3, InvCovers, PointedCounted, CowAssumption
<1>5. ASSUME e.w, NEW l \in Loc, ptr'[l] = e.pg
      PROVE  l \in Holders(q, va)'
  <2>1. l = Own(q, va) => l \in Holders(q, va)'
    BY DEF Holders, Own
  <2>2. l = Local(q) /\ pc'[q] = "map" => l \in Holders(q, va)'
    BY DEF Holders
  <2>3. CASE ptr'[l] = ptr[l]
    <3>1. l \in Holders(q, va)
      BY <2>3, <1>5, <1>2
    <3>2. l = Own(q, va) \/ (l = Local(q) /\ pc[q] = "map")
      BY <3>1 DEF Holders, Own
    <3>3. l = Local(q) /\ pc[q] = "map" => pc'[q] = "map"
      BY <1>5, <1>4
    <3> QED BY <2>1, <2>2, <3>2, <3>3
  <2>4. ASSUME NEW k \in Loc, ptr'[l] = ptr[k], pc[q] = "map" => k # Local(q),
               \A vb \in Va : k # Own(q, vb)
        PROVE  FALSE
    <3>1. k \in Holders(q, va)
      BY <2>4, <1>5, <1>2
    <3> QED BY <3>1, <2>4 DEF Holders, Own
  <2> QED BY <2>2, <2>3, <2>4, <1>4, <1>5
<1> QED BY <1>1, <1>2, <1>3, <1>5 DEF Refs

\* A step of p leaves the cache of another process right.
LEMMA OtherTlb ==
    ASSUME CowInv, TlbInv, NEW p \in Proc, NEW q \in Proc, p # q,
           WritesMine(p), state'[q] = state[q], pc'[q] = pc[q],
           loc'[q] = loc[q], sz'[q] = sz[q], tlb'[q] = tlb[q]
    PROVE  TlbOf(q)'
<1>1. TlbOf(q)
  BY DEF TlbInv
<1>2. /\ state'[q] # "RUNNABLE" => tlb'[q] = NoTlb
      /\ pc'[q] = "shrink" =>
           /\ loc'[q].ret \in {"sbrk", "rollback"}
           /\ loc'[q].ret = "rollback" => loc'[q].to = sz'[q]
  BY <1>1 DEF TlbOf
<1>3. ASSUME Tracked(q)'
      PROVE  \A va \in Va : EntryOK(q, va)'
  <2>1. Alive(q)
    BY <1>3 DEF Tracked, Alive
  <2>2. /\ \A l \in Loc : ptr'[l] = ptr[l] \/ (l \in Mine(p) /\ Source(p, ptr'[l]))
        /\ Pgdir(q) \in Loc /\ Dir(q) \in Loc /\ Local(q) \in Loc
        /\ \A va \in Va : Own(q, va) \in Loc
    BY <2>1, LocFacts, LiveDir DEF WritesMine, Own, Alive
  <2>3. /\ Pgdir(q) \notin Mine(p) /\ Dir(q) \notin Mine(p)
        /\ Local(q) \notin Mine(p)
        /\ \A va \in Va : Own(q, va) \notin Mine(p)
    BY <2>1, MineApart
  <2>4. /\ ptr'[Pgdir(q)] = ptr[Pgdir(q)] /\ ptr'[Dir(q)] = ptr[Dir(q)]
        /\ ptr'[Local(q)] = ptr[Local(q)]
        /\ \A va \in Va : ptr'[Own(q, va)] = ptr[Own(q, va)]
    BY <2>2, <2>3
  <2>5. Tracked(q)
    <3>1. ASSUME pc[q] \in {"share", "map"}
          PROVE  ptr[Ptab(ptr[Dir(q)])] = NoPage
      <4>1. ptr'[Ptab(ptr[Dir(q)])] = NoPage
        BY <3>1, <1>3, <2>4 DEF Tracked
      <4>2. Ptab(ptr[Dir(q)]) \in Loc
        BY <3>1, <2>2, InvCovers, LocFacts
           DEF CowInv, DirsPresent, Pointers, PageOrNull
      <4>3. Ptab(ptr[Dir(q)]) \notin Mine(p)
        BY <3>1, <2>1, MineApart
      <4> QED BY <4>1, <4>2, <4>3, <2>2
    <3> QED BY <3>1, <1>3 DEF Tracked
  <2>6. \A va \in Va : EntryOK(q, va)
    BY <2>5, <1>1 DEF TlbOf
  <2>7. ASSUME NEW l \in Loc
        PROVE  \/ ptr'[l] = ptr[l] \/ ptr'[l] = NoPage \/ ptr'[l] \in free
               \/ \E k \in Loc : /\ ptr'[l] = ptr[k]
                                 /\ k # Local(q)
                                 /\ \A va \in Va : k # Own(q, va)
    BY <2>2, <2>3 DEF Source
  <2> QED BY <2>1, <2>4, <2>6, <2>7, KeepEntries
<1> QED BY <1>2, <1>3 DEF TlbOf

-----------------------------------------------------------------------------
(* What holds of the cache of the process that takes the step. *)

\* An empty cache is right.
LEMMA Flushed ==
    ASSUME NEW q \in Proc, tlb'[q] = NoTlb, pc'[q] # "shrink"
    PROVE  TlbOf(q)'
BY DEF TlbOf, EntryOK, NoTlb

\* A slot no process runs on has an empty cache.
LEMMA IdleSlot ==
    ASSUME CowInv, TlbInv, NEW c \in Proc, state[c] # "RUNNABLE"
    PROVE  tlb[c] = NoTlb /\ pc[c] \in {"none", "zombie"}
BY DEF TlbInv, TlbOf, CowInv, SlotsOwned

\* Outside fork's loop and deallocuvm a living process's cache is right.
LEMMA Right ==
    ASSUME CowInv, TlbInv, NEW q \in Proc, Alive(q),
           pc[q] \notin {"share", "map", "shrink"}
    PROVE  Tracked(q) /\ \A va \in Va : EntryOK(q, va)
BY DEF TlbInv, TlbOf, Tracked, Alive

\* A process in the middle of a system call is alive, but for the freevm of
\* Cow_handler's bad path.
LEMMA InKernel ==
    ASSUME CowInv, NEW p \in Proc, pc[p] \notin {"none", "zombie", "freevm", "halt"}
    PROVE  Alive(p)
BY DEF CowInv, SlotsOwned, ReturnsMatch, Alive

\* The cache of p stays right over a step that leaves its directory and its
\* entries alone and hands none of its pages on.
LEMMA OwnKept ==
    ASSUME CowInv, TlbInv, NEW p \in Proc, Alive(p), state'[p] = "RUNNABLE",
           pc[p] \notin {"share", "map", "shrink"}, pc'[p] # "shrink",
           \A va \in Va : tlb'[p][va] = tlb[p][va] \/ tlb'[p][va] = NoEntry,
           ptr'[Pgdir(p)] = ptr[Pgdir(p)], sz'[p] = sz[p],
           \A va \in Va : tlb[p][va] # NoEntry => ptr'[Own(p, va)] = ptr[Own(p, va)],
           \A l \in Loc : \/ ptr'[l] = ptr[l] \/ ptr'[l] = NoPage \/ ptr'[l] \in free
                          \/ \E k \in Loc : /\ ptr'[l] = ptr[k]
                                            /\ \A va \in Va : k # Own(p, va)
    PROVE  TlbOf(p)'
<1>1. \A va \in Va : EntryOK(p, va)
  BY Right
<1>2. \A va \in Va : EntryOK(p, va)'
  BY <1>1, KeepEntries
<1> QED BY <1>2 DEF TlbOf

\* The caches together.
LEMMA AllTlb ==
    ASSUME CowInv, TlbInv, NEW p \in Proc, WritesMine(p), TlbOf(p)',
           NEW c, c \in Proc /\ c # p => TlbOf(c)',
           \A q \in Proc : q # p /\ q # c =>
             /\ state'[q] = state[q] /\ pc'[q] = pc[q] /\ loc'[q] = loc[q]
             /\ sz'[q] = sz[q] /\ tlb'[q] = tlb[q]
    PROVE  TlbInv'
<1>1. ASSUME NEW q \in Proc
      PROVE  TlbOf(q)'
  <2>1. CASE q = p \/ q = c
    BY <2>1
  <2>2. CASE q # p /\ q # c
    BY <2>2, OtherTlb
  <2> QED BY <2>1, <2>2
<1> QED BY <1>1 DEF TlbInv

\* A step that leaves every pointer alone writes nothing.
LEMMA NoWrites ==
    ASSUME NEW p \in Proc, ptr' = ptr
    PROVE  WritesMine(p)
BY DEF WritesMine

-----------------------------------------------------------------------------
(* The steps that change no pointer. *)

\* fork() claims a slot; its cache is empty already.
LEMMA ForkAllocprocTlb ==
    ASSUME CowInv, TlbInv, NEW p \in Proc, ForkAllocproc(p)
    PROVE  TlbInv' /\ WritesMine(p)
<1>1. PICK c \in Proc : /\ state[c] = "UNUSED"
                        /\ state' = [state EXCEPT ![c] = "EMBRYO"]
                        /\ loc' = [loc EXCEPT ![p].child = c]
  BY DEF ForkAllocproc
<1>2. /\ UNCHANGED <<ptr, tlb, sz>> /\ pc' = [pc EXCEPT ![p] = "kstack"]
      /\ state[p] = "RUNNABLE" /\ pc[p] = "user" /\ c # p /\ Alive(p)
  BY <1>1, InKernel DEF ForkAllocproc, EnterKernel, InUser, CowInv, ReturnsMatch
<1>3. TlbOf(c)'
  BY <1>1, <1>2, IdleSlot, InvTypes, Flushed
<1>4. TlbOf(p)'
  BY <1>1, <1>2, InvTypes, OwnKept
<1> QED BY <1>1, <1>2, <1>3, <1>4, NoWrites, InvTypes, AllTlb

\* A step of p alone that neither changes a pointer nor the size of the process.
LEMMA QuietStep ==
    ASSUME CowInv, TlbInv, NEW p \in Proc, Alive(p), ptr' = ptr, sz' = sz,
           state' = state, pc[p] \notin {"share", "map", "shrink"},
           pc'[p] # "shrink",
           \A va \in Va : tlb'[p][va] = tlb[p][va] \/ tlb'[p][va] = NoEntry,
           \A q \in Proc : q # p =>
             pc'[q] = pc[q] /\ loc'[q] = loc[q] /\ tlb'[q] = tlb[q]
    PROVE  TlbInv' /\ WritesMine(p)
<1>1. TlbOf(p)'
  BY OwnKept DEF Alive
<1> QED BY <1>1, NoWrites, AllTlb

\* sbrk() starts to grow the memory.
LEMMA SbrkGrowTlb ==
    ASSUME CowInv, TlbInv, NEW p \in Proc, SbrkGrow(p)
    PROVE  TlbInv' /\ WritesMine(p)
<1>1. pc[p] = "user"
  BY DEF SbrkGrow, EnterKernel, InUser
<1> QED BY <1>1, InKernel, InvTypes, QuietStep DEF SbrkGrow, procVars

\* sbrk() starts to shrink it: the cache may disagree until the flush.
LEMMA SbrkShrinkTlb ==
    ASSUME CowInv, TlbInv, NEW p \in Proc, SbrkShrink(p)
    PROVE  TlbInv' /\ WritesMine(p)
<1>1. /\ state[p] = "RUNNABLE" /\ UNCHANGED <<ptr, tlb, state, sz>>
      /\ pc' = [pc EXCEPT ![p] = "shrink"]
      /\ \E new \in 1 .. sz[p] - 1 :
           loc' = [loc EXCEPT ![p] = [@ EXCEPT !.to = new, !.ret = "sbrk"]]
  BY DEF SbrkShrink, EnterKernel, InUser, procVars
<1>2. /\ loc'[p].ret = "sbrk" /\ pc'[p] = "shrink" /\ state'[p] = "RUNNABLE"
      /\ \A q \in Proc : q # p => pc'[q] = pc[q] /\ loc'[q] = loc[q]
  BY <1>1, InvTypes DEF LocRecord
<1>3. TlbOf(p)'
  BY <1>2 DEF TlbOf, Tracked
<1> QED BY <1>1, <1>2, <1>3, NoWrites, AllTlb

\* growproc() reloads the page table after it grew.
LEMMA SbrkGrownTlb ==
    ASSUME CowInv, TlbInv, NEW p \in Proc, SbrkGrown(p)
    PROVE  TlbInv' /\ WritesMine(p)
<1>1. TlbOf(p)'
  BY InvTypes, Flushed DEF SbrkGrown, FlushTlb, CowInv, TypeOK
<1> QED BY <1>1, NoWrites, InvTypes, AllTlb DEF SbrkGrown, FlushTlb, CowInv, TypeOK

\* After a shrink it reloads the page table; after a rollback the size is what
\* it was and nothing below it has changed.
LEMMA SbrkShrunkTlb ==
    ASSUME CowInv, TlbInv, NEW p \in Proc, SbrkShrunk(p)
    PROVE  TlbInv' /\ WritesMine(p)
<1>1. /\ pc[p] = "shrink" /\ UNCHANGED <<ptr, state>> /\ Alive(p)
      /\ sz' = [sz EXCEPT ![p] = loc[p].to] /\ pc' = [pc EXCEPT ![p] = "user"]
      /\ loc' = [loc EXCEPT ![p] = NoLoc]
      /\ IF loc[p].ret = "sbrk" THEN FlushTlb(p) ELSE UNCHANGED tlb
  BY InKernel DEF SbrkShrunk
<1>2. /\ \A q \in Proc : q # p => /\ pc'[q] = pc[q] /\ loc'[q] = loc[q]
                                  /\ sz'[q] = sz[q] /\ tlb'[q] = tlb[q]
      /\ sz'[p] = loc[p].to /\ pc'[p] = "user"
  BY <1>1, InvTypes DEF FlushTlb, CowInv, TypeOK
<1>3. TlbOf(p)'
  <2>1. CASE loc[p].ret = "sbrk"
    BY <2>1, <1>1, <1>2, Flushed DEF FlushTlb, CowInv, TypeOK
  <2>2. CASE loc[p].ret # "sbrk"
    <3>1. TlbOf(p)
      BY DEF TlbInv
    <3>2. /\ loc[p].ret = "rollback" /\ sz'[p] = sz[p] /\ tlb' = tlb /\ Tracked(p)
      BY <3>1, <2>2, <1>1, <1>2 DEF TlbOf, Tracked, Alive
    <3>3. \A va \in Va : EntryOK(p, va)
      BY <3>1, <3>2 DEF TlbOf
    <3>4. \A va \in Va : EntryOK(p, va)'
      BY <3>2, <3>3, <1>1, <1>2, KeepEntries
    <3> QED BY <3>4, <1>1, <1>2 DEF TlbOf, Alive
  <2> QED BY <2>1, <2>2
<1> QED BY <1>1, <1>2, <1>3, NoWrites, AllTlb

\* A process that runs user code is alive.
LEMMA UserAlive ==
    ASSUME CowInv, NEW p \in Proc, InUser(p)
    PROVE  Alive(p) /\ pc[p] = "user"
BY InKernel DEF InUser

\* A step of p that refills one entry of its cache as the table has it.
LEMMA EntryFilled ==
    ASSUME CowInv, TlbInv, NEW p \in Proc, NEW va \in Va, InUser(p), va < sz[p],
           NEW e, e = Entry(ptr[Pgdir(p)], va) \/ e = tlb[p][va],
           tlb' = [tlb EXCEPT ![p][va] = e],
           UNCHANGED <<ptr, procVars, pc, loc>>
    PROVE  TlbInv' /\ WritesMine(p)
<1>1. /\ Alive(p) /\ pc[p] = "user" /\ \A vb \in Va : EntryOK(p, vb)
      /\ UNCHANGED <<ptr, state, sz, pc, loc>>
  BY UserAlive, Right DEF procVars
<1>2. /\ \A q \in Proc : q # p => tlb'[q] = tlb[q]
      /\ \A vb \in Va : vb # va => tlb'[p][vb] = tlb[p][vb]
      /\ tlb'[p][va] = e
  BY DEF CowInv, TypeOK
<1>3. \A vb \in Va : EntryOK(p, vb)' <=>
        LET x == tlb'[p][vb]
        IN  x # NoEntry =>
              /\ vb < sz[p] /\ x.pg \in Page /\ x.pg = ptr[Pte(ptr[Pgdir(p)], vb)]
              /\ x.w => Refs(ptr, x.pg) \subseteq Holders(p, vb)
  BY <1>1 DEF EntryOK, Holders, Refs
<1>4. ASSUME NEW vb \in Va, vb # va \/ e = tlb[p][va]
      PROVE  EntryOK(p, vb)'
  <2>1. tlb'[p][vb] = tlb[p][vb] /\ EntryOK(p, vb)
    BY <1>1, <1>2, <1>4
  <2> QED BY <2>1, <1>3 DEF EntryOK
<1>5. ASSUME e = Entry(ptr[Pgdir(p)], va)
      PROVE  EntryOK(p, va)'
  <2> DEFINE own == Pte(ptr[Pgdir(p)], va)
  <2>1. e.pg = ptr[own] /\ e.w = (own \in writable) /\ own \in Loc
    BY <1>1, <1>5, LiveDir DEF Entry, Alive
  <2>2. CASE ptr[own] = NoPage
    <3>1. own \notin writable
      BY <2>2, CowAssumption DEF CowInv, WritablePageUnshared
    <3>2. (own \in writable) = FALSE
      BY <3>1
    <3>3. e = NoEntry
      BY <3>2, <2>2, <1>5, Zenon DEF Entry, NoEntry
    <3> QED BY <3>3, <1>2, <1>3
  <2>3. CASE ptr[own] # NoPage
    <3>1. e.pg \in Page
      BY <2>1, <2>3, InvCovers DEF Pointers, PageOrNull
    <3>2. ASSUME e.w
          PROVE  Refs(ptr, e.pg) \subseteq {own}
      <4>1. refc[ptr[own]] = 1
        BY <3>2, <2>1 DEF CowInv, WritablePageUnshared
      <4>2. \A l \in Loc : ptr[l] = ptr[own] => l = own
        BY <4>1, <3>1, <2>1, Unique
      <4> QED BY <4>2, <2>1 DEF Refs
    <3> QED BY <3>1, <3>2, <2>1, <1>2, <1>3 DEF Holders
  <2> QED BY <2>2, <2>3
<1>6. TlbOf(p)'
  BY <1>1, <1>4, <1>5 DEF TlbOf, Alive
<1> QED BY <1>1, <1>2, <1>6, NoWrites, AllTlb

\* A load fills the cache from the table.
LEMMA LoadTlb ==
    ASSUME CowInv, TlbInv, NEW p \in Proc, NEW va \in Va, Load(p, va)
    PROVE  TlbInv' /\ WritesMine(p)
BY EntryFilled DEF Load

\* A store goes through a writable entry of the cache or of the table.
LEMMA StoreTlb ==
    ASSUME CowInv, TlbInv, NEW p \in Proc, NEW va \in Va, NEW v \in Val,
           Store(p, va, v)
    PROVE  TlbInv' /\ WritesMine(p)
<1>1. StoreEntry(p, va) = Entry(ptr[Pgdir(p)], va) \/ StoreEntry(p, va) = tlb[p][va]
  BY DEF StoreEntry
<1> QED BY <1>1, EntryFilled DEF Store

\* A store that faults drops the entry.
LEMMA FaultTlb ==
    ASSUME CowInv, TlbInv, NEW p \in Proc, NEW va \in Va,
           StoreFault(p, va) \/ KernelStoreFault(p, va)
    PROVE  TlbInv' /\ WritesMine(p)
<1>1. /\ Alive(p) /\ pc[p] = "user" /\ UNCHANGED <<ptr, state, sz>>
      /\ tlb' = [tlb EXCEPT ![p][va] = NoEntry]
      /\ pc' = [pc EXCEPT ![p] = "cow"] \/ pc' = [pc EXCEPT ![p] = "kfault"]
      /\ loc' = [loc EXCEPT ![p].va = va] \/ loc' = loc
  BY UserAlive DEF StoreFault, KernelStoreFault, EnterKernel, procVars
<1>2. /\ \A vb \in Va : tlb'[p][vb] = tlb[p][vb] \/ tlb'[p][vb] = NoEntry
      /\ \A q \in Proc : q # p =>
           pc'[q] = pc[q] /\ loc'[q] = loc[q] /\ tlb'[q] = tlb[q]
      /\ pc'[p] # "shrink"
  BY <1>1, InvTypes DEF CowInv, TypeOK
<1> QED BY <1>1, <1>2, QuietStep

\* A step of p that flushes its cache and changes nothing of the others.
LEMMA FlushStep ==
    ASSUME CowInv, TlbInv, NEW p \in Proc, WritesMine(p), FlushTlb(p),
           pc'[p] # "shrink",
           \A q \in Proc : q # p =>
             /\ state'[q] = state[q] /\ pc'[q] = pc[q]
             /\ loc'[q] = loc[q] /\ sz'[q] = sz[q]
    PROVE  TlbInv' /\ WritesMine(p)
<1>1. tlb'[p] = NoTlb /\ \A q \in Proc : q # p => tlb'[q] = tlb[q]
  BY DEF FlushTlb, CowInv, TypeOK
<1> QED BY <1>1, Flushed, AllTlb

\* A process switched out and in again.
LEMMA SwitchTlbTlb ==
    ASSUME CowInv, TlbInv, NEW p \in Proc, SwitchTlb(p)
    PROVE  TlbInv' /\ WritesMine(p)
<1>1. FlushTlb(p) /\ UNCHANGED <<ptr, state, pc, loc, sz>> /\ pc[p] = "user"
  BY DEF SwitchTlb, procVars, InUser
<1> QED BY <1>1, NoWrites, FlushStep

\* exit() stops using the cache.
LEMMA ExitTlb ==
    ASSUME CowInv, TlbInv, NEW p \in Proc, Exit(p)
    PROVE  TlbInv' /\ WritesMine(p)
<1>1. /\ FlushTlb(p) /\ UNCHANGED <<ptr, loc, sz>>
      /\ state' = [state EXCEPT ![p] = "ZOMBIE"]
      /\ pc' = [pc EXCEPT ![p] = "zombie"]
  BY DEF Exit
<1> QED BY <1>1, NoWrites, InvTypes, FlushStep

\* Cow_handler makes the page writable in place and flushes.
LEMMA CowReuseTlb ==
    ASSUME CowInv, TlbInv, NEW p \in Proc, CowReuse(p)
    PROVE  TlbInv' /\ WritesMine(p)
<1>1. /\ FlushTlb(p) /\ UNCHANGED <<ptr, state, sz>>
      /\ pc' = [pc EXCEPT ![p] = "user"] /\ loc' = [loc EXCEPT ![p] = NoLoc]
  BY DEF CowReuse, procVars
<1> QED BY <1>1, NoWrites, InvTypes, FlushStep

\* Cow_handler reads the count.
LEMMA CowGetRefcTlb ==
    ASSUME CowInv, TlbInv, NEW p \in Proc, CowGetRefc(p)
    PROVE  TlbInv' /\ WritesMine(p)
<1>1. /\ Alive(p) /\ pc[p] = "cow" /\ UNCHANGED <<ptr, tlb, state, sz>>
      /\ pc' = [pc EXCEPT ![p] = "copy"]
      /\ \E n : loc' = [loc EXCEPT ![p].cnt = n]
  BY InKernel DEF CowGetRefc, procVars
<1>2. /\ \A q \in Proc : q # p => pc'[q] = pc[q] /\ loc'[q] = loc[q]
      /\ pc'[p] = "copy"
  BY <1>1, InvTypes
<1> QED BY <1>1, <1>2, QuietStep

\* trap() marks the process killed.
LEMMA KernelFaultTrapTlb ==
    ASSUME CowInv, TlbInv, NEW p \in Proc, KernelFaultTrap(p)
    PROVE  TlbInv' /\ WritesMine(p)
<1>1. /\ Alive(p) /\ pc[p] = "kfault" /\ UNCHANGED <<ptr, tlb, state, sz, pc, loc>>
  BY InKernel DEF KernelFaultTrap
<1> QED BY <1>1, QuietStep

\* wait() clears a slot whose cache is empty.
LEMMA WaitDoneTlb ==
    ASSUME CowInv, TlbInv, NEW p \in Proc, WaitDone(p)
    PROVE  TlbInv' /\ WritesMine(p)
<1>0. PICK c : c = loc[p].child
  OBVIOUS
<1>1. /\ Alive(p) /\ pc[p] = "reaped" /\ UNCHANGED <<ptr, tlb, sz>>
      /\ state' = [state EXCEPT ![c] = "UNUSED"]
      /\ pc' = [pc EXCEPT ![c] = "none", ![p] = "user"]
      /\ loc' = [loc EXCEPT ![p] = NoLoc]
  BY <1>0, InKernel DEF WaitDone
<1>2. c \in Proc /\ state[c] = "ZOMBIE" /\ c # p
  BY <1>0, <1>1 DEF CowInv, SlotsOwned, Reaping, Alive
<1>3. TlbOf(c)'
  BY <1>1, <1>2, IdleSlot, InvTypes, Flushed
<1>4. pc'[p] = "user" /\ state'[p] = "RUNNABLE"
  BY <1>1, <1>2, InvTypes DEF Alive
<1>5. TlbOf(p)'
  BY <1>1, <1>4, OwnKept
<1> QED BY <1>1, <1>2, <1>3, <1>5, NoWrites, InvTypes, AllTlb

-----------------------------------------------------------------------------
(* The steps that store pointers. *)

\* Where p's own variables and tables are.
LEMMA MineHas ==
    ASSUME CowInv, NEW p \in Proc
    PROVE  /\ Dir(p) \in Mine(p) /\ Local(p) \in Mine(p) /\ Pgdir(p) \in Mine(p)
           /\ Dir(p) \in Loc /\ Local(p) \in Loc /\ Pgdir(p) \in Loc
           /\ \A c \in Proc : Kstack(c) \in Mine(p) /\ Kstack(c) \in Loc
           /\ \A c \in Proc : state[c] # "RUNNABLE" => Pgdir(c) \in Mine(p)
           /\ \A c \in Proc : Pgdir(c) \in Loc
           /\ \A d \in {ptr[Dir(p)], ptr[Pgdir(p)]} : d # NoPage =>
                /\ Ptab(d) \in Mine(p) /\ Ptab(d) \in Loc
                /\ \A va \in Va : Pte(d, va) \in Mine(p) /\ Pte(d, va) \in Loc
<1>1. /\ Dir(p) \in Loc /\ Local(p) \in Loc /\ Pgdir(p) \in Loc
      /\ \A c \in Proc : Kstack(c) \in Loc /\ Pgdir(c) \in Loc
  BY LocFacts
<1>2. \A d \in {ptr[Dir(p)], ptr[Pgdir(p)]} : d # NoPage =>
        Ptab(d) \in Loc /\ \A va \in Va : Pte(d, va) \in Loc
  BY <1>1, InvCovers, LocFacts DEF Pointers, PageOrNull
<1> QED BY <1>1, <1>2 DEF Mine

\* An entry of p's own table is no variable, no kernel page, and no entry of
\* another directory.
LEMMA OwnApart ==
    ASSUME CowInv, NEW p \in Proc, Alive(p), NEW va \in Va
    PROVE  /\ Own(p, va) # Dir(p) /\ Own(p, va) # Local(p)
           /\ \A c : Own(p, va) # Kstack(c) /\ Own(p, va) # Pgdir(c)
           /\ \A d : Own(p, va) # Ptab(d)
           /\ \A vb : Own(p, va) # Pte(ptr[Dir(p)], vb)
           /\ \A d, vb : vb # va => Own(p, va) # Pte(d, vb)
           /\ Pgdir(p) # Dir(p) /\ Pgdir(p) # Local(p)
           /\ \A c : Pgdir(p) # Kstack(c)
           /\ \A c : c # p => Pgdir(p) # Pgdir(c)
           /\ \A d : Pgdir(p) # Ptab(d)
           /\ \A d, vb : Pgdir(p) # Pte(d, vb)
           /\ Own(p, va) \in Loc
<1>1. ptr[Dir(p)] # ptr[Pgdir(p)] /\ Own(p, va) \in Loc
  <2>1. Dir(p) \in Loc /\ Dir(p) # Pgdir(p)
    BY LocFacts
  <2> QED BY <2>1, LiveDir DEF Alive, Own
<1> QED BY <1>1, LocFacts DEF Own

\* fork() takes a kernel stack for the child, or gives the slot back.
LEMMA ForkKstackTlb ==
    ASSUME CowInv, TlbInv, NEW p \in Proc, ForkKstack(p)
    PROVE  TlbInv' /\ WritesMine(p)
<1>0. PICK c : c = loc[p].child
  OBVIOUS
<1>1. /\ Alive(p) /\ pc[p] = "kstack" /\ UNCHANGED <<tlb, sz>>
      /\ c \in Proc /\ state[c] = "EMBRYO" /\ c # p
  BY <1>0, InKernel DEF ForkKstack, CowInv, SlotsOwned, Forking, Alive
<1>2. \/ /\ \E pg \in Page : Kalloc(pg) /\ ptr' = [ptr EXCEPT ![Kstack(c)] = pg]
         /\ pc' = [pc EXCEPT ![p] = "setupkvm"] /\ state' = state /\ loc' = loc
      \/ /\ ptr' = ptr /\ state' = [state EXCEPT ![c] = "UNUSED"]
         /\ pc' = [pc EXCEPT ![p] = "user"] /\ loc' = [loc EXCEPT ![p] = NoLoc]
  BY <1>0 DEF ForkKstack
<1>3. /\ pc'[p] # "shrink" /\ state'[p] = "RUNNABLE" /\ pc'[c] = pc[c]
      /\ \A q \in Proc : q # p /\ q # c =>
           pc'[q] = pc[q] /\ loc'[q] = loc[q] /\ state'[q] = state[q]
  BY <1>1, <1>2, InvTypes DEF Alive
<1>4. \A l \in Loc : ptr'[l] = ptr[l] \/ (l = Kstack(c) /\ ptr'[l] \in free)
  BY <1>1, <1>2, InvCovers, KallocOK, CowAssumption DEF Kalloc, Pointers
<1>5. WritesMine(p)
  BY <1>1, <1>4, MineHas DEF WritesMine, Source
<1>6. /\ ptr'[Pgdir(p)] = ptr[Pgdir(p)]
      /\ \A va \in Va : ptr'[Own(p, va)] = ptr[Own(p, va)]
  BY <1>1, <1>4, OwnApart, LocFacts
<1>7. TlbOf(p)'
  BY <1>1, <1>3, <1>4, <1>6, OwnKept
<1>8. TlbOf(c)'
  BY <1>1, <1>3, IdleSlot, Flushed
<1> QED BY <1>1, <1>3, <1>5, <1>7, <1>8, AllTlb

\* shareuvm() takes a directory for the child.
LEMMA ForkSetupkvmTlb ==
    ASSUME CowInv, TlbInv, NEW p \in Proc, ForkSetupkvm(p)
    PROVE  TlbInv' /\ WritesMine(p)
<1>1. /\ Alive(p) /\ pc[p] = "setupkvm" /\ UNCHANGED <<tlb, sz, state, loc>>
  BY InKernel DEF ForkSetupkvm, procVars
<1>2. \/ /\ \E pg \in Page : Kalloc(pg) /\ ptr' = [ptr EXCEPT ![Dir(p)] = pg]
         /\ pc' = [pc EXCEPT ![p] = "share"]
      \/ /\ ptr' = ptr /\ pc' = [pc EXCEPT ![p] = "unfork"]
  BY DEF ForkSetupkvm
<1>3. pc'[p] # "shrink" /\ \A q \in Proc : q # p => pc'[q] = pc[q]
  BY <1>1, <1>2, InvTypes
<1>4. \A l \in Loc : ptr'[l] = ptr[l] \/ (l = Dir(p) /\ ptr'[l] \in free)
  BY <1>1, <1>2, InvCovers, KallocOK, CowAssumption DEF Kalloc, Pointers
<1>5. WritesMine(p)
  BY <1>1, <1>4, MineHas DEF WritesMine, Source
<1>6. /\ ptr'[Pgdir(p)] = ptr[Pgdir(p)]
      /\ \A va \in Va : ptr'[Own(p, va)] = ptr[Own(p, va)]
  BY <1>1, <1>4, OwnApart, LocFacts
<1>7. TlbOf(p)'
  BY <1>1, <1>3, <1>4, <1>6, OwnKept DEF Alive
<1> QED BY <1>1, <1>3, <1>5, <1>7, AllTlb

\* exec() takes a directory.
LEMMA ExecSetupkvmTlb ==
    ASSUME CowInv, TlbInv, NEW p \in Proc, ExecSetupkvm(p)
    PROVE  TlbInv' /\ WritesMine(p)
<1>1. /\ Alive(p) /\ pc[p] = "user" /\ UNCHANGED <<tlb, sz, state>>
      /\ pc' = [pc EXCEPT ![p] = "grow"]
      /\ \E x : loc' = [loc EXCEPT ![p] = x]
  BY UserAlive DEF ExecSetupkvm, procVars, EnterKernel
<1>2. \E pg \in Page : Kalloc(pg) /\ ptr' = [ptr EXCEPT ![Dir(p)] = pg]
  BY DEF ExecSetupkvm
<1>3. /\ pc'[p] # "shrink"
      /\ \A q \in Proc : q # p => pc'[q] = pc[q] /\ loc'[q] = loc[q]
  BY <1>1, InvTypes
<1>4. \A l \in Loc : ptr'[l] = ptr[l] \/ (l = Dir(p) /\ ptr'[l] \in free)
  BY <1>1, <1>2, InvCovers, KallocOK, CowAssumption DEF Kalloc, Pointers
<1>5. WritesMine(p)
  BY <1>1, <1>4, MineHas DEF WritesMine, Source
<1>6. /\ ptr'[Pgdir(p)] = ptr[Pgdir(p)]
      /\ \A va \in Va : ptr'[Own(p, va)] = ptr[Own(p, va)]
  BY <1>1, <1>4, OwnApart, LocFacts
<1>7. TlbOf(p)'
  BY <1>1, <1>3, <1>4, <1>6, OwnKept DEF Alive
<1> QED BY <1>1, <1>3, <1>5, <1>7, AllTlb

\* fork()'s loop takes a reference: only the first time, while the child has no
\* page table, may the cache still agree with the table.
LEMMA ShareIncrTlb ==
    ASSUME CowInv, TlbInv, NEW p \in Proc, ShareIncr(p)
    PROVE  TlbInv' /\ WritesMine(p)
<1> DEFINE pte == Own(p, loc[p].va)
<1>1. /\ Alive(p) /\ pc[p] = "share" /\ UNCHANGED <<tlb, sz, state, loc>>
      /\ pc' = [pc EXCEPT ![p] = "map"]
      /\ ptr' = [ptr EXCEPT ![Local(p)] = ptr[pte]]
      /\ loc[p].va < sz[p]
  BY InKernel DEF ShareIncr, procVars, Own
<1>2. pc'[p] = "map" /\ \A q \in Proc : q # p => pc'[q] = pc[q]
  BY <1>1, InvTypes
<1>3. loc[p].va \in Va
  BY <1>1, InvTypes, CowAssumption DEF Va
<1>4. /\ ptr'[Local(p)] = ptr[pte] /\ pte \in Loc /\ pte \in Mine(p)
      /\ \A l \in Loc : l # Local(p) => ptr'[l] = ptr[l]
  BY <1>1, <1>3, InvCovers, LiveDir, MineHas, CowAssumption
     DEF Alive, Own, Pointers
<1>5. WritesMine(p)
  BY <1>4, MineHas DEF WritesMine, Source
<1>6. /\ ptr'[Pgdir(p)] = ptr[Pgdir(p)]
      /\ \A va \in Va : ptr'[Own(p, va)] = ptr[Own(p, va)]
  BY <1>1, <1>4, OwnApart, LocFacts
<1>7. ASSUME Tracked(p)'
      PROVE  \A va \in Va : EntryOK(p, va)'
  <2>1. Dir(p) \in Loc /\ Dir(p) # Local(p) /\ ptr'[Dir(p)] = ptr[Dir(p)]
    BY <1>4, LocFacts
  <2>2. ptr'[Ptab(ptr[Dir(p)])] = NoPage
    BY <1>2, <1>7, <2>1 DEF Tracked
  <2>3. Ptab(ptr[Dir(p)]) \in Loc /\ Ptab(ptr[Dir(p)]) # Local(p)
    BY <1>1, MineHas, LocFacts DEF CowInv, DirsPresent
  <2>4. Tracked(p)
    BY <1>1, <1>4, <2>2, <2>3 DEF Tracked, Alive
  <2>5. \A va \in Va : EntryOK(p, va)
    BY <2>4 DEF TlbInv, TlbOf
  <2> QED BY <1>1, <1>2, <1>4, <1>6, <2>5, KeepEntries
<1>8. TlbOf(p)'
  BY <1>1, <1>2, <1>7 DEF TlbOf, Alive
<1> QED BY <1>1, <1>2, <1>5, <1>8, AllTlb

\* mappages on the child's directory: once its page table is there the
\* parent's cache waits for the flush; without a page for the table the
\* reference is dropped again and the cache is as good as before.
LEMMA ShareMapTlb ==
    ASSUME CowInv, TlbInv, NEW p \in Proc, ShareMap(p)
    PROVE  TlbInv' /\ WritesMine(p)
<1>0. PICK d, pte : d = ptr[Dir(p)] /\ pte = Pte(d, loc[p].va)
  OBVIOUS
<1>1. /\ Alive(p) /\ pc[p] = "map" /\ UNCHANGED <<tlb, sz, state>>
      /\ loc[p].va \in Va /\ d # NoPage
  BY <1>0, InKernel DEF ShareMap, procVars, CowInv, ReturnsMatch, DirsPresent
<1>2. /\ Local(p) \in Loc /\ Dir(p) \in Loc /\ Ptab(d) \in Loc /\ pte \in Loc
      /\ Local(p) \in Mine(p) /\ Ptab(d) \in Mine(p) /\ pte \in Mine(p)
      /\ pte # Local(p) /\ pte # Ptab(d) /\ Ptab(d) # Local(p)
      /\ Dir(p) # Local(p) /\ Dir(p) # pte /\ Dir(p) # Ptab(d)
  BY <1>0, <1>1, MineHas, LocFacts
<1>3. CASE /\ pc' = [pc EXCEPT ![p] = "share"]
           /\ loc' = [loc EXCEPT ![p].va = @ + 1]
           /\ \/ /\ ptr[Ptab(d)] # NoPage
                 /\ ptr' = [ptr EXCEPT ![pte] = ptr[Local(p)], ![Local(p)] = NoPage]
              \/ \E pg \in Page :
                   /\ Kalloc(pg)
                   /\ ptr' = [ptr EXCEPT ![pte] = ptr[Local(p)],
                                         ![Local(p)] = NoPage,
                                         ![Ptab(d)] = pg]
  <2>1. /\ pc'[p] = "share"
        /\ \A q \in Proc : q # p => pc'[q] = pc[q] /\ loc'[q] = loc[q]
    BY <1>3, InvTypes
  <2>2. /\ ptr'[Local(p)] = NoPage /\ ptr'[pte] = ptr[Local(p)]
        /\ ptr'[Ptab(d)] = ptr[Ptab(d)] \/ ptr'[Ptab(d)] \in free
        /\ ptr'[Ptab(d)] # NoPage /\ ptr'[Dir(p)] = d
        /\ \A l \in Loc : l \notin {pte, Local(p), Ptab(d)} => ptr'[l] = ptr[l]
    <3>1. CASE /\ ptr[Ptab(d)] # NoPage
               /\ ptr' = [ptr EXCEPT ![pte] = ptr[Local(p)], ![Local(p)] = NoPage]
      BY <3>1, <1>0, <1>2, InvCovers DEF Pointers
    <3>2. ASSUME NEW pg \in Page, Kalloc(pg),
                 ptr' = [ptr EXCEPT ![pte] = ptr[Local(p)], ![Local(p)] = NoPage,
                                    ![Ptab(d)] = pg]
          PROVE  /\ ptr'[Local(p)] = NoPage /\ ptr'[pte] = ptr[Local(p)]
                 /\ ptr'[Ptab(d)] = pg /\ ptr'[Dir(p)] = d
                 /\ pg \in free /\ pg # NoPage
                 /\ \A l \in Loc : l \notin {pte, Local(p), Ptab(d)} => ptr'[l] = ptr[l]
      BY <3>2, <1>0, <1>2, InvCovers, KallocOK DEF Pointers, Kalloc
    <3> QED BY <3>1, <3>2, <1>3
  <2>3. WritesMine(p)
    BY <2>2, <1>2 DEF WritesMine, Source
  <2>4. ~Tracked(p)'
    BY <2>1, <2>2 DEF Tracked
  <2>5. TlbOf(p)'
    BY <2>1, <2>4, <1>1 DEF TlbOf, Alive
  <2> QED BY <1>1, <2>1, <2>3, <2>5, AllTlb
<1>4. CASE /\ ptr[Ptab(d)] = NoPage /\ ptr' = [ptr EXCEPT ![Local(p)] = NoPage]
           /\ loc' = [loc EXCEPT ![p].ret = "unfork"]
           /\ pc' = [pc EXCEPT ![p] = "freevm"]
  <2>1. /\ pc'[p] = "freevm"
        /\ \A q \in Proc : q # p => pc'[q] = pc[q] /\ loc'[q] = loc[q]
    BY <1>4, InvTypes
  <2>2. /\ ptr'[Local(p)] = NoPage
        /\ \A l \in Loc : l # Local(p) => ptr'[l] = ptr[l]
    BY <1>4, <1>2, InvCovers DEF Pointers
  <2>3. WritesMine(p)
    BY <2>2, <1>2 DEF WritesMine, Source
  <2>4. \A va \in Va : EntryOK(p, va)
    BY <1>0, <1>1, <1>4 DEF TlbInv, TlbOf, Tracked, Alive
  <2>5. /\ ptr'[Pgdir(p)] = ptr[Pgdir(p)]
        /\ \A va \in Va : ptr'[Own(p, va)] = ptr[Own(p, va)]
    BY <1>1, <2>2, OwnApart, LocFacts
  <2>6. \A va \in Va : EntryOK(p, va)'
    BY <1>1, <2>1, <2>2, <2>4, <2>5, KeepEntries
  <2>7. TlbOf(p)'
    BY <2>1, <2>6, <1>1 DEF TlbOf, Alive
  <2> QED BY <1>1, <2>1, <2>3, <2>7, AllTlb
<1> QED BY <1>0, <1>3, <1>4 DEF ShareMap

\* fork() flushes the parent's cache, and the child starts with an empty one.
LEMMA ForkDoneTlb ==
    ASSUME CowInv, TlbInv, NEW p \in Proc, ForkDone(p)
    PROVE  TlbInv' /\ WritesMine(p)
<1>0. PICK c : c = loc[p].child
  OBVIOUS
<1>1. /\ Alive(p) /\ pc[p] = "share" /\ c \in Proc /\ state[c] = "EMBRYO" /\ c # p
  BY <1>0, InKernel DEF ForkDone, CowInv, SlotsOwned, Forking, Alive
<1>2. /\ ptr' = [ptr EXCEPT ![Pgdir(c)] = ptr[Dir(p)], ![Dir(p)] = NoPage]
      /\ sz' = [sz EXCEPT ![c] = sz[p]]
      /\ state' = [state EXCEPT ![c] = "RUNNABLE"]
      /\ pc' = [pc EXCEPT ![c] = "user", ![p] = "user"]
      /\ loc' = [loc EXCEPT ![p] = NoLoc] /\ tlb' = [tlb EXCEPT ![p] = NoTlb]
  BY <1>0 DEF ForkDone, FlushTlb
<1>3. /\ pc'[p] = "user" /\ pc'[c] = "user" /\ tlb'[p] = NoTlb /\ tlb'[c] = tlb[c]
      /\ \A q \in Proc : q # p /\ q # c =>
           /\ state'[q] = state[q] /\ pc'[q] = pc[q] /\ loc'[q] = loc[q]
           /\ sz'[q] = sz[q] /\ tlb'[q] = tlb[q]
  BY <1>1, <1>2, InvTypes DEF CowInv, TypeOK
<1>4. WritesMine(p)
  <2>1. /\ Pgdir(c) \in Mine(p) /\ Dir(p) \in Mine(p)
        /\ Pgdir(c) \in Loc /\ Dir(p) \in Loc
    BY <1>1, MineHas
  <2>2. \A l \in Loc : \/ ptr'[l] = ptr[l] \/ (l = Dir(p) /\ ptr'[l] = NoPage)
                       \/ (l = Pgdir(c) /\ ptr'[l] = ptr[Dir(p)])
    BY <2>1, <1>2, InvCovers DEF Pointers
  <2> QED BY <2>1, <2>2 DEF WritesMine, Source
<1>5. TlbOf(p)' /\ TlbOf(c)'
  BY <1>1, <1>3, IdleSlot, Flushed
<1> QED BY <1>1, <1>3, <1>4, <1>5, AllTlb

\* A failed fork frees the child's kernel stack.
LEMMA ForkUndoTlb ==
    ASSUME CowInv, TlbInv, NEW p \in Proc, ForkUndo(p)
    PROVE  TlbInv' /\ WritesMine(p)
<1>0. PICK c : c = loc[p].child
  OBVIOUS
<1>1. /\ Alive(p) /\ pc[p] = "unfork" /\ UNCHANGED <<tlb, sz>>
      /\ c \in Proc /\ state[c] = "EMBRYO" /\ c # p
      /\ ptr' = [ptr EXCEPT ![Kstack(c)] = NoPage]
      /\ state' = [state EXCEPT ![c] = "UNUSED"]
      /\ pc' = [pc EXCEPT ![p] = "user"] /\ loc' = [loc EXCEPT ![p] = NoLoc]
  BY <1>0, InKernel DEF ForkUndo, CowInv, SlotsOwned, Forking, Alive
<1>3. /\ pc'[p] = "user" /\ state'[p] = "RUNNABLE" /\ pc'[c] = pc[c]
      /\ \A q \in Proc : q # p /\ q # c =>
           pc'[q] = pc[q] /\ loc'[q] = loc[q] /\ state'[q] = state[q]
  BY <1>1, InvTypes DEF Alive
<1>4. \A l \in Loc : ptr'[l] = ptr[l] \/ (l = Kstack(c) /\ ptr'[l] = NoPage)
  BY <1>1, InvCovers DEF Pointers
<1>5. WritesMine(p)
  BY <1>1, <1>4, MineHas DEF WritesMine, Source
<1>6. /\ ptr'[Pgdir(p)] = ptr[Pgdir(p)]
      /\ \A va \in Va : ptr'[Own(p, va)] = ptr[Own(p, va)]
  BY <1>1, <1>4, OwnApart, LocFacts
<1>7. TlbOf(p)'
  BY <1>1, <1>3, <1>4, <1>6, OwnKept
<1>8. TlbOf(c)'
  BY <1>1, <1>3, IdleSlot, Flushed
<1> QED BY <1>1, <1>3, <1>5, <1>7, <1>8, AllTlb

\* A step of freevm clears one pointer of the directory it takes down, which is
\* not the one p runs on, or p runs no more.
LEMMA FreevmStep ==
    ASSUME CowInv, TlbInv, NEW p \in Proc, pc[p] = "freevm", NEW x \in Loc,
           ptr' = [ptr EXCEPT ![x] = NoPage], ptr[Dir(p)] # NoPage,
           \/ x = Dir(p) \/ x = Ptab(ptr[Dir(p)])
           \/ \E va \in Va : x = Pte(ptr[Dir(p)], va),
           UNCHANGED <<tlb, sz, state>>, pc'[p] # "shrink",
           loc[p].ret = "halt" => loc'[p].ret = "halt",
           \A q \in Proc : q # p => pc'[q] = pc[q] /\ loc'[q] = loc[q]
    PROVE  TlbInv' /\ WritesMine(p)
<1>1. state[p] = "RUNNABLE"
  BY DEF CowInv, SlotsOwned
<1>2. \A l \in Loc : ptr'[l] = ptr[l] \/ (l = x /\ ptr'[l] = NoPage)
  BY InvCovers DEF Pointers
<1>3. WritesMine(p)
  BY <1>2, MineHas DEF WritesMine, Source
<1>4. CASE Alive(p)
  <2>1. /\ ptr'[Pgdir(p)] = ptr[Pgdir(p)]
        /\ \A va \in Va : ptr'[Own(p, va)] = ptr[Own(p, va)]
    <3>1. Pgdir(p) # x /\ Pgdir(p) \in Loc
      BY LocFacts
    <3>2. ASSUME NEW va \in Va
          PROVE  Own(p, va) # x /\ Own(p, va) \in Loc
      BY <1>4, OwnApart
    <3> QED BY <1>2, <3>1, <3>2
  <2>2. TlbOf(p)'
    BY <1>1, <1>2, <1>4, <2>1, OwnKept
  <2> QED BY <1>3, <2>2, AllTlb
<1>5. CASE ~Alive(p)
  <2>1. TlbOf(p)'
    BY <1>1, <1>5 DEF TlbOf, Tracked, Alive
  <2> QED BY <1>3, <2>1, AllTlb
<1> QED BY <1>4, <1>5

\* freevm frees a page of the user half, its table, and the directory.
LEMMA FreevmTlb ==
    ASSUME CowInv, TlbInv, NEW p \in Proc,
           FreevmPage(p) \/ FreevmTable(p) \/ FreevmDir(p)
    PROVE  TlbInv' /\ WritesMine(p)
<1>1. pc[p] = "freevm" /\ ptr[Dir(p)] # NoPage /\ UNCHANGED <<tlb, state, sz>>
  BY DEF FreevmPage, FreevmTable, FreevmDir, InFreevm, procVars
<1>2. CASE FreevmPage(p)
  <2>1. /\ UNCHANGED <<pc, loc>>
        /\ \E va \in Va : ptr' = [ptr EXCEPT ![Pte(ptr[Dir(p)], va)] = NoPage]
    BY <1>2 DEF FreevmPage, Mapped
  <2> QED BY <1>1, <2>1, MineHas, FreevmStep
<1>3. CASE FreevmTable(p)
  <2>1. UNCHANGED <<pc, loc>> /\ ptr' = [ptr EXCEPT ![Ptab(ptr[Dir(p)])] = NoPage]
    BY <1>3 DEF FreevmTable
  <2> QED BY <1>1, <2>1, MineHas, FreevmStep
<1>4. CASE FreevmDir(p)
  <2>1. /\ ptr' = [ptr EXCEPT ![Dir(p)] = NoPage]
        /\ pc' = [pc EXCEPT ![p] = loc[p].ret]
        /\ loc' = IF loc[p].ret = "user" THEN [loc EXCEPT ![p] = NoLoc] ELSE loc
    BY <1>4 DEF FreevmDir
  <2>2. /\ pc'[p] # "shrink" /\ (loc[p].ret = "halt" => loc'[p].ret = "halt")
        /\ \A q \in Proc : q # p => pc'[q] = pc[q] /\ loc'[q] = loc[q]
    BY <1>1, <2>1, InvTypes DEF CowInv, ReturnsMatch
  <2> QED BY <1>1, <2>1, <2>2, MineHas, FreevmStep
<1> QED BY <1>2, <1>3, <1>4

\* wait() takes the zombie's directory over.
LEMMA WaitReapTlb ==
    ASSUME CowInv, TlbInv, NEW p \in Proc, WaitReap(p)
    PROVE  TlbInv' /\ WritesMine(p)
<1>1. PICK c \in Proc :
        /\ state[c] = "ZOMBIE"
        /\ ptr' = [ptr EXCEPT ![Kstack(c)] = NoPage, ![Dir(p)] = ptr[Pgdir(c)],
                              ![Pgdir(c)] = NoPage]
        /\ \E x : loc' = [loc EXCEPT ![p] = x]
  BY DEF WaitReap
<1>2. /\ Alive(p) /\ pc[p] = "user" /\ UNCHANGED <<tlb, sz, state>> /\ c # p
      /\ pc' = [pc EXCEPT ![p] = "freevm"]
  BY <1>1, UserAlive DEF WaitReap, EnterKernel, InUser, procVars
<1>3. /\ pc'[p] = "freevm"
      /\ \A q \in Proc : q # p => pc'[q] = pc[q] /\ loc'[q] = loc[q]
  BY <1>1, <1>2, InvTypes
<1>4. /\ Kstack(c) \in Loc /\ Dir(p) \in Loc /\ Pgdir(c) \in Loc
      /\ Kstack(c) \in Mine(p) /\ Dir(p) \in Mine(p) /\ Pgdir(c) \in Mine(p)
  BY <1>1, MineHas
<1>5. \A l \in Loc : \/ ptr'[l] = ptr[l]
                     \/ l \in {Kstack(c), Pgdir(c)} /\ ptr'[l] = NoPage
                     \/ l = Dir(p) /\ ptr'[l] = ptr[Pgdir(c)]
  BY <1>1, <1>4, InvCovers DEF Pointers
<1>6. WritesMine(p)
  BY <1>4, <1>5 DEF WritesMine, Source
<1>7. /\ ptr'[Pgdir(p)] = ptr[Pgdir(p)]
      /\ \A va \in Va : ptr'[Own(p, va)] = ptr[Own(p, va)] /\ Own(p, va) # Pgdir(c)
  <2>1. Pgdir(p) \notin {Kstack(c), Pgdir(c), Dir(p)} /\ Pgdir(p) \in Loc
    BY <1>2, LocFacts
  <2>2. \A va \in Va : Own(p, va) \notin {Kstack(c), Pgdir(c), Dir(p)}
    BY <1>2, OwnApart
  <2> QED BY <1>2, <1>5, <2>1, <2>2, OwnApart
<1>8. TlbOf(p)'
  BY <1>2, <1>3, <1>4, <1>5, <1>7, OwnKept DEF Alive
<1> QED BY <1>2, <1>3, <1>6, <1>8, AllTlb

\* exec() commits and flushes.
LEMMA ExecCommitTlb ==
    ASSUME CowInv, TlbInv, NEW p \in Proc, ExecCommit(p)
    PROVE  TlbInv' /\ WritesMine(p)
<1>1. /\ ptr' = [ptr EXCEPT ![Pgdir(p)] = ptr[Dir(p)], ![Dir(p)] = ptr[Pgdir(p)]]
      /\ sz' = [sz EXCEPT ![p] = loc[p].to] /\ state' = state
      /\ FlushTlb(p) /\ loc' = [loc EXCEPT ![p].ret = "user"]
      /\ pc' = [pc EXCEPT ![p] = "freevm"]
  BY DEF ExecCommit
<1>2. WritesMine(p)
  <2>1. \A l \in Loc : \/ ptr'[l] = ptr[l]
                       \/ l = Pgdir(p) /\ ptr'[l] = ptr[Dir(p)]
                       \/ l = Dir(p) /\ ptr'[l] = ptr[Pgdir(p)]
    BY <1>1, MineHas, InvCovers DEF Pointers
  <2> QED BY <2>1, MineHas DEF WritesMine, Source
<1> QED BY <1>1, <1>2, InvTypes, FlushStep

\* Cow_handler maps its copy and flushes.
LEMMA CowRemapTlb ==
    ASSUME CowInv, TlbInv, NEW p \in Proc, CowRemap(p)
    PROVE  TlbInv' /\ WritesMine(p)
<1> DEFINE pte == Own(p, loc[p].va)
<1>1. /\ ptr' = [ptr EXCEPT ![pte] = ptr[Local(p)], ![Local(p)] = ptr[pte]]
      /\ FlushTlb(p) /\ UNCHANGED <<sz, state, loc>>
      /\ pc' = [pc EXCEPT ![p] = "release"] /\ pc[p] = "remap"
  BY DEF CowRemap, procVars, Own
<1>2. pte \in Loc /\ pte \in Mine(p)
  <2>1. Alive(p) /\ loc[p].va \in Va /\ ptr[Pgdir(p)] # NoPage
    BY <1>1, CowPtePresent, CowAssumption DEF Alive
  <2> QED BY <2>1, MineHas DEF Own
<1>3. WritesMine(p)
  <2>0. Local(p) \in Loc /\ ptr \in [Loc -> Page \cup {NoPage}] /\ pte # Local(p)
    BY LocFacts, InvCovers DEF Pointers, PageOrNull, Own
  <2> HIDE DEF pte
  <2>1. \A l \in Loc : \/ ptr'[l] = ptr[l] \/ (l = pte /\ ptr'[l] = ptr[Local(p)])
                       \/ l = Local(p) /\ ptr'[l] = ptr[pte]
    BY <1>1, <1>2, <2>0
  <2> QED BY <1>2, <2>1, MineHas DEF WritesMine, Source
<1> QED BY <1>1, <1>3, InvTypes, FlushStep

\* Cow_handler drops the shared page and flushes.
LEMMA CowReleaseTlb ==
    ASSUME CowInv, TlbInv, NEW p \in Proc, CowRelease(p)
    PROVE  TlbInv' /\ WritesMine(p)
<1>1. /\ ptr' = [ptr EXCEPT ![Local(p)] = NoPage]
      /\ FlushTlb(p) /\ UNCHANGED <<sz, state>>
      /\ pc' = [pc EXCEPT ![p] = "user"] /\ loc' = [loc EXCEPT ![p] = NoLoc]
  BY DEF CowRelease, procVars
<1>2. WritesMine(p)
  BY <1>1, MineHas, InvCovers DEF Pointers, WritesMine, Source
<1> QED BY <1>1, <1>2, InvTypes, FlushStep

\* Cow_handler takes a page for the copy, or tears down the directory it runs on.
LEMMA CowKallocTlb ==
    ASSUME CowInv, TlbInv, NEW p \in Proc, CowKalloc(p)
    PROVE  TlbInv' /\ WritesMine(p)
<1>1. /\ Alive(p) /\ pc[p] = "copy" /\ UNCHANGED <<tlb, sz, state>>
  BY InKernel DEF CowKalloc, procVars
<1>2. CASE /\ \E pg \in Page : Kalloc(pg) /\ ptr' = [ptr EXCEPT ![Local(p)] = pg]
           /\ pc' = [pc EXCEPT ![p] = "remap"] /\ loc' = loc
  <2>1. pc'[p] # "shrink" /\ \A q \in Proc : q # p => pc'[q] = pc[q]
    BY <1>1, <1>2, InvTypes
  <2>2. \A l \in Loc : ptr'[l] = ptr[l] \/ (l = Local(p) /\ ptr'[l] \in free)
    BY <1>2, InvCovers, KallocOK, CowAssumption DEF Kalloc, Pointers
  <2>3. WritesMine(p)
    BY <2>2, MineHas DEF WritesMine, Source
  <2>4. /\ ptr'[Pgdir(p)] = ptr[Pgdir(p)]
        /\ \A va \in Va : ptr'[Own(p, va)] = ptr[Own(p, va)]
    BY <1>1, <2>2, OwnApart, LocFacts
  <2>5. TlbOf(p)'
    BY <1>1, <2>1, <2>2, <2>4, OwnKept DEF Alive
  <2> QED BY <1>1, <1>2, <2>1, <2>3, <2>5, AllTlb
<1>3. CASE /\ ptr' = [ptr EXCEPT ![Dir(p)] = ptr[Pgdir(p)], ![Pgdir(p)] = NoPage]
           /\ loc' = [loc EXCEPT ![p].ret = "halt"]
           /\ pc' = [pc EXCEPT ![p] = "freevm"]
  <2>1. /\ pc'[p] = "freevm" /\ loc'[p].ret = "halt"
        /\ \A q \in Proc : q # p => pc'[q] = pc[q] /\ loc'[q] = loc[q]
    BY <1>1, <1>3, InvTypes DEF LocRecord
  <2>2. \A l \in Loc : \/ ptr'[l] = ptr[l] \/ (l = Pgdir(p) /\ ptr'[l] = NoPage)
                       \/ l = Dir(p) /\ ptr'[l] = ptr[Pgdir(p)]
    <3>1. Dir(p) \in Loc /\ Pgdir(p) \in Loc /\ Dir(p) # Pgdir(p)
      BY LocFacts
    <3> QED BY <1>3, <3>1, InvCovers DEF Pointers
  <2>3. WritesMine(p)
    BY <2>2, MineHas DEF WritesMine, Source
  <2>4. TlbOf(p)'
    BY <1>1, <2>1 DEF TlbOf, Tracked, Alive
  <2> QED BY <1>1, <2>1, <2>3, <2>4, AllTlb
<1> QED BY <1>2, <1>3 DEF CowKalloc

\* allocuvm takes a page; growproc without one rolls back to the size it had.
LEMMA AllocuvmPageTlb ==
    ASSUME CowInv, TlbInv, NEW p \in Proc, AllocuvmPage(p)
    PROVE  TlbInv' /\ WritesMine(p)
<1>1. /\ Alive(p) /\ pc[p] = "grow" /\ UNCHANGED <<tlb, sz, state>>
      /\ \A va \in Va : EntryOK(p, va)
  BY InKernel, Right DEF AllocuvmPage, procVars
<1>2. CASE /\ \E pg \in Page : Kalloc(pg) /\ ptr' = [ptr EXCEPT ![Local(p)] = pg]
           /\ pc' = [pc EXCEPT ![p] = "growmap"] /\ loc' = loc
  <2>1. pc'[p] # "shrink" /\ \A q \in Proc : q # p => pc'[q] = pc[q]
    BY <1>1, <1>2, InvTypes
  <2>2. \A l \in Loc : ptr'[l] = ptr[l] \/ (l = Local(p) /\ ptr'[l] \in free)
    BY <1>2, InvCovers, KallocOK, CowAssumption DEF Kalloc, Pointers
  <2>3. WritesMine(p)
    BY <2>2, MineHas DEF WritesMine, Source
  <2>4. /\ ptr'[Pgdir(p)] = ptr[Pgdir(p)]
        /\ \A va \in Va : ptr'[Own(p, va)] = ptr[Own(p, va)]
    BY <1>1, <2>2, OwnApart, LocFacts
  <2>5. TlbOf(p)'
    BY <1>1, <2>1, <2>2, <2>4, OwnKept DEF Alive
  <2> QED BY <1>1, <1>2, <2>1, <2>3, <2>5, AllTlb
<1>3. CASE /\ ptr' = ptr
           /\ loc' = [loc EXCEPT ![p].ret = "user"]
           /\ pc' = [pc EXCEPT ![p] = "freevm"]
  <2>1. /\ pc'[p] = "freevm"
        /\ \A q \in Proc : q # p => pc'[q] = pc[q] /\ loc'[q] = loc[q]
    BY <1>1, <1>3, InvTypes
  <2> QED BY <1>1, <1>3, <2>1, QuietStep
<1>4. CASE /\ ptr' = ptr
           /\ loc' = [loc EXCEPT ![p] = [@ EXCEPT !.to = sz[p], !.ret = "rollback"]]
           /\ pc' = [pc EXCEPT ![p] = "shrink"]
  <2>1. /\ pc'[p] = "shrink" /\ loc'[p].ret = "rollback" /\ loc'[p].to = sz[p]
        /\ \A q \in Proc : q # p => pc'[q] = pc[q] /\ loc'[q] = loc[q]
    BY <1>1, <1>4, InvTypes DEF LocRecord
  <2>2. \A va \in Va : EntryOK(p, va)'
    BY <1>1, <1>4, <2>1, KeepEntries
  <2>3. TlbOf(p)'
    BY <1>1, <2>1, <2>2 DEF TlbOf, Alive
  <2> QED BY <1>1, <1>4, <2>1, <2>3, NoWrites, AllTlb
<1> QED BY <1>2, <1>3, <1>4 DEF AllocuvmPage

\* mappages of the new page fills an entry nobody can have cached.
LEMMA AllocuvmMapTlb ==
    ASSUME CowInv, TlbInv, NEW p \in Proc, AllocuvmMap(p)
    PROVE  TlbInv' /\ WritesMine(p)
<1>0. PICK d, va, pte : d = Target(p) /\ va = loc[p].va /\ pte = Pte(d, va)
  OBVIOUS
<1>1. /\ Alive(p) /\ pc[p] = "growmap" /\ UNCHANGED <<tlb, sz, state>>
      /\ va \in Va /\ \A vb \in Va : EntryOK(p, vb)
  BY <1>0, InKernel, Right DEF AllocuvmMap, procVars, CowInv, ReturnsMatch
<1>2. d # NoPage /\ d \in Page /\ d \in {ptr[Dir(p)], ptr[Pgdir(p)]}
  BY <1>0, <1>1, MineHas, InvCovers
     DEF Target, CowInv, DirsPresent, Alive, Pointers, PageOrNull
<1>3. /\ Local(p) \in Loc /\ Ptab(d) \in Loc /\ pte \in Loc
      /\ Local(p) \in Mine(p) /\ Ptab(d) \in Mine(p) /\ pte \in Mine(p)
      /\ pte # Local(p) /\ pte # Ptab(d) /\ Ptab(d) # Local(p)
  BY <1>0, <1>1, <1>2, MineHas, LocFacts
<1>4. ASSUME ptr[pte] = NoPage, NEW vb \in Va, Own(p, vb) = pte
      PROVE  tlb[p][vb] = NoEntry
  BY <1>1, <1>4, CowAssumption DEF EntryOK, Own
<1>5. ASSUME ptr[pte] = NoPage \/ ptr'[pte] = ptr[pte],
             ptr'[Local(p)] = NoPage,
             ptr'[pte] = ptr[Local(p)] \/ ptr'[pte] = ptr[pte],
             ptr'[Ptab(d)] = ptr[Ptab(d)] \/ ptr'[Ptab(d)] \in free,
             \A l \in Loc : l \notin {pte, Local(p), Ptab(d)} => ptr'[l] = ptr[l],
             pc'[p] # "shrink",
             \A q \in Proc : q # p => pc'[q] = pc[q] /\ loc'[q] = loc[q]
      PROVE  TlbInv' /\ WritesMine(p)
  <2>1. WritesMine(p)
    BY <1>3, <1>5 DEF WritesMine, Source
  <2>2. ptr'[Pgdir(p)] = ptr[Pgdir(p)]
    BY <1>0, <1>5, LocFacts
  <2>3. ASSUME NEW vb \in Va, tlb[p][vb] # NoEntry
        PROVE  ptr'[Own(p, vb)] = ptr[Own(p, vb)]
    BY <1>1, <1>4, <1>5, <2>3, OwnApart
  <2>4. \A vb \in Va : Own(p, vb) # Local(p)
    BY <1>1, OwnApart
  <2>5. ASSUME NEW l \in Loc
        PROVE  \/ ptr'[l] = ptr[l] \/ ptr'[l] = NoPage \/ ptr'[l] \in free
               \/ \E k \in Loc : ptr'[l] = ptr[k] /\ \A vb \in Va : k # Own(p, vb)
    BY <1>3, <1>5, <2>4
  <2>6. TlbOf(p)'
    BY <1>1, <1>5, <2>2, <2>3, <2>5, OwnKept DEF Alive
  <2> QED BY <1>1, <1>5, <2>1, <2>6, AllTlb
<1>6. ptr[Ptab(d)] = NoPage => ptr[pte] = NoPage
  BY <1>0, <1>1, <1>2 DEF CowInv, EntriesHaveTable
<1>7. CASE /\ ptr[pte] = NoPage
           /\ ptr' = [ptr EXCEPT ![pte] = ptr[Local(p)], ![Local(p)] = NoPage]
           /\ loc' = [loc EXCEPT ![p].va = @ + 1]
           /\ pc' = [pc EXCEPT ![p] = "grow"]
  <2>1. /\ pc'[p] # "shrink"
        /\ \A q \in Proc : q # p => pc'[q] = pc[q] /\ loc'[q] = loc[q]
    BY <1>1, <1>7, InvTypes
  <2>2. /\ ptr'[Local(p)] = NoPage /\ ptr'[pte] = ptr[Local(p)]
        /\ ptr'[Ptab(d)] = ptr[Ptab(d)]
        /\ \A l \in Loc : l \notin {pte, Local(p), Ptab(d)} => ptr'[l] = ptr[l]
    BY <1>3, <1>7, InvCovers DEF Pointers
  <2> QED BY <1>5, <1>7, <2>1, <2>2
<1>8. ASSUME ptr[pte] = NoPage, NEW pg \in Page, Kalloc(pg),
             ptr' = [ptr EXCEPT ![pte] = ptr[Local(p)], ![Local(p)] = NoPage,
                                ![Ptab(d)] = pg],
             loc' = [loc EXCEPT ![p].va = @ + 1],
             pc' = [pc EXCEPT ![p] = "grow"]
      PROVE  TlbInv' /\ WritesMine(p)
  <2>1. /\ pc'[p] # "shrink"
        /\ \A q \in Proc : q # p => pc'[q] = pc[q] /\ loc'[q] = loc[q]
    BY <1>1, <1>8, InvTypes
  <2>2. /\ ptr'[Local(p)] = NoPage /\ ptr'[pte] = ptr[Local(p)]
        /\ ptr'[Ptab(d)] \in free
        /\ \A l \in Loc : l \notin {pte, Local(p), Ptab(d)} => ptr'[l] = ptr[l]
    BY <1>3, <1>8, InvCovers, KallocOK, CowAssumption DEF Kalloc, Pointers
  <2> QED BY <1>5, <1>8, <2>1, <2>2
<1>9. CASE /\ ptr' = [ptr EXCEPT ![Local(p)] = NoPage]
           /\ loc' = [loc EXCEPT ![p].ret = "user"]
           /\ pc' = [pc EXCEPT ![p] = "freevm"]
  <2>1. /\ pc'[p] # "shrink"
        /\ \A q \in Proc : q # p => pc'[q] = pc[q] /\ loc'[q] = loc[q]
    BY <1>1, <1>9, InvTypes
  <2>2. /\ ptr'[Local(p)] = NoPage /\ ptr'[pte] = ptr[pte]
        /\ ptr'[Ptab(d)] = ptr[Ptab(d)]
        /\ \A l \in Loc : l \notin {pte, Local(p), Ptab(d)} => ptr'[l] = ptr[l]
    BY <1>3, <1>9, InvCovers DEF Pointers
  <2> QED BY <1>5, <2>1, <2>2
<1> QED BY <1>0, <1>6, <1>7, <1>8, <1>9 DEF AllocuvmMap

\* deallocuvm clears an entry above the size a rollback returns to; a shrinking
\* process flushes at the end.
LEMMA DeallocuvmPageTlb ==
    ASSUME CowInv, TlbInv, NEW p \in Proc, DeallocuvmPage(p)
    PROVE  TlbInv' /\ WritesMine(p)
<1>1. /\ Alive(p) /\ pc[p] = "shrink" /\ UNCHANGED <<tlb, sz, state, pc, loc>>
  BY InKernel DEF DeallocuvmPage, procVars
<1>2. PICK va \in Va : /\ loc[p].to <= va
                       /\ ptr' = [ptr EXCEPT ![Own(p, va)] = NoPage]
  BY DEF DeallocuvmPage, Mapped, Own
<1>3. /\ Own(p, va) \in Loc /\ Own(p, va) \in Mine(p)
      /\ \A l \in Loc : ptr'[l] = ptr[l] \/ (l = Own(p, va) /\ ptr'[l] = NoPage)
  BY <1>1, <1>2, MineHas, LiveDir, InvCovers, CowAssumption
     DEF Pointers, Alive, Own
<1>4. WritesMine(p)
  BY <1>3 DEF WritesMine, Source
<1>5. ASSUME Tracked(p)'
      PROVE  \A vb \in Va : EntryOK(p, vb)'
  <2>1. Tracked(p) /\ loc[p].to = sz[p]
    BY <1>1, <1>5 DEF Tracked, TlbInv, TlbOf
  <2>2. \A vb \in Va : EntryOK(p, vb)
    BY <2>1 DEF TlbInv, TlbOf
  <2>3. ptr'[Pgdir(p)] = ptr[Pgdir(p)]
    BY <1>3, LocFacts DEF Own
  <2>4. ASSUME NEW vb \in Va, tlb[p][vb] # NoEntry
        PROVE  ptr'[Own(p, vb)] = ptr[Own(p, vb)]
    <3>1. vb < sz[p]
      BY <2>2, <2>4 DEF EntryOK
    <3>2. vb # va
      BY <3>1, <2>1, <1>2, InvTypes DEF Va
    <3> QED BY <3>2, <1>1, <1>3, OwnApart DEF Own
  <2> QED BY <1>1, <1>3, <2>2, <2>3, <2>4, KeepEntries
<1>6. TlbOf(p)'
  <2>1. TlbOf(p)
    BY DEF TlbInv
  <2> QED BY <1>1, <1>5, <2>1 DEF TlbOf, Alive
<1> QED BY <1>1, <1>4, <1>6, AllTlb

-----------------------------------------------------------------------------
(* The start, the steps together, and the theorem. *)

\* The invariant of the caches is inductive together with CowInv.
LEMMA TlbNext ==
    ASSUME CowInv, TlbInv, [Next]_vars
    PROVE  TlbInv'
<1>1. ASSUME NEW p \in Proc, UserStep(p)
      PROVE  TlbInv'
  <2>1. CASE ForkAllocproc(p) \/ Exit(p) \/ WaitReap(p)
    BY <2>1, ForkAllocprocTlb, ExitTlb, WaitReapTlb
  <2>2. CASE SbrkGrow(p) \/ SbrkShrink(p) \/ ExecSetupkvm(p) \/ SwitchTlb(p)
    BY <2>2, SbrkGrowTlb, SbrkShrinkTlb, ExecSetupkvmTlb, SwitchTlbTlb
  <2>3. ASSUME NEW va \in Va,
               Load(p, va) \/ StoreFault(p, va) \/ KernelStoreFault(p, va)
        PROVE  TlbInv'
    BY <2>3, LoadTlb, FaultTlb
  <2>4. ASSUME NEW va \in Va, NEW v \in Val, Store(p, va, v)
        PROVE  TlbInv'
    BY <2>4, StoreTlb
  <2> QED BY <1>1, <2>1, <2>2, <2>3, <2>4 DEF UserStep
<1>2. ASSUME NEW p \in Proc, KernelStep(p)
      PROVE  TlbInv'
  <2>1. CASE \/ ForkKstack(p) \/ ForkSetupkvm(p) \/ ShareIncr(p) \/ ShareMap(p)
             \/ ForkDone(p) \/ ForkUndo(p)
    BY <2>1, ForkKstackTlb, ForkSetupkvmTlb, ShareIncrTlb, ShareMapTlb,
       ForkDoneTlb, ForkUndoTlb
  <2>2. CASE FreevmPage(p) \/ FreevmTable(p) \/ FreevmDir(p) \/ WaitDone(p)
    BY <2>2, FreevmTlb, WaitDoneTlb
  <2>3. CASE \/ AllocuvmPage(p) \/ AllocuvmMap(p) \/ SbrkGrown(p) \/ ExecCommit(p)
             \/ DeallocuvmPage(p) \/ SbrkShrunk(p)
    BY <2>3, AllocuvmPageTlb, AllocuvmMapTlb, SbrkGrownTlb, ExecCommitTlb,
       DeallocuvmPageTlb, SbrkShrunkTlb
  <2>4. CASE \/ KernelFaultTrap(p) \/ CowGetRefc(p) \/ CowReuse(p)
             \/ CowKalloc(p) \/ CowRemap(p) \/ CowRelease(p)
    BY <2>4, KernelFaultTrapTlb, CowGetRefcTlb, CowReuseTlb, CowKallocTlb,
       CowRemapTlb, CowReleaseTlb
  <2> QED BY <1>2, <2>1, <2>2, <2>3, <2>4 DEF KernelStep
<1>3. CASE UNCHANGED vars
  BY <1>3 DEF vars, TlbInv, TlbOf, Tracked, EntryOK, Holders, Refs
<1> QED BY <1>1, <1>2, <1>3 DEF Next

\* The caches start empty.
LEMMA TlbInit ==
    ASSUME Init
    PROVE  TlbInv
<1>1. \A p \in Proc : tlb[p] = NoTlb /\ pc[p] # "shrink"
  BY DEF Init
<1> QED BY <1>1 DEF TlbInv, TlbOf, EntryOK, NoTlb

\* No flush is missing: what a CPU has cached while it runs user code is what
\* the page table names, and what it may write through the cache nothing else
\* points at.  However many processes fork, grow, shrink and fault, and
\* wherever one of them runs out of memory.
THEOREM CachesAgree == Spec => []TlbSafe
<1>1. Init => CowInv /\ TlbInv
  BY InitInv, TlbInit
<1>2. CowInv /\ TlbInv /\ [Next]_vars => CowInv' /\ TlbInv'
  BY NextInv, TlbNext
<1>3. ASSUME CowInv, TlbInv
      PROVE  TlbSafe
  <2> SUFFICES ASSUME NEW p \in Proc, NEW va \in Va, InUser(p),
                      tlb[p][va] # NoEntry
               PROVE  /\ tlb[p][va].pg = ptr[Own(p, va)]
                      /\ tlb[p][va].w => Refs(ptr, tlb[p][va].pg) = {Own(p, va)}
    BY DEF TlbSafe, Own
  <2>1. Alive(p) /\ pc[p] = "user"
    BY <1>3, UserAlive
  <2>2. EntryOK(p, va) /\ Own(p, va) \in Loc
    BY <1>3, <2>1, Right, LiveDir DEF Alive, Own
  <2> QED BY <2>1, <2>2 DEF EntryOK, Own, Holders, Refs
<1> QED BY <1>1, <1>2, <1>3, PTL DEF Spec

-----------------------------------------------------------------------------
(* The memories that user code sees. *)

\* The memory of p as its page table has it.
Mem(p) ==
    IF Alive(p) THEN [va \in 0 .. Limit(p) - 1 |-> data[ptr[Own(p, va)]]] ELSE <<>>

\* The pages that something other than l points at keep what they hold.
DataExcept(l) ==
    \A k \in Loc : k # l /\ ptr[k] \in Page => data'[ptr[k]] = data[ptr[k]]

\* A step leaves the process itself alone.
Kept(q) == /\ state'[q] = state[q] /\ pc'[q] = pc[q] /\ loc'[q] = loc[q]
           /\ sz'[q] = sz[q]

-----------------------------------------------------------------------------
(* What happens to the contents of the pages. *)

\* A page that l alone points at may be written.
LEMMA OneWritten ==
    ASSUME CowInv, NEW l \in Loc, NEW v, ptr[l] \in Page,
           \A k \in Loc : ptr[k] = ptr[l] => k = l,
           data' = [data EXCEPT ![ptr[l]] = v]
    PROVE  DataExcept(l)
BY DEF DataExcept

\* kfree() writes a page only when it drops the last pointer.
LEMMA KfreeData ==
    ASSUME CowInv, NEW l \in Loc, Kfree(ptr[l])
    PROVE  DataExcept(l)
<1>1. CASE refc[ptr[l]] > 1
  BY <1>1 DEF Kfree, DataExcept
<1>2. CASE ~(refc[ptr[l]] > 1)
  <2>1. ptr[l] \in Page /\ refc[ptr[l]] >= 1 /\ refc[ptr[l]] \in Nat
    BY InvCovers, PointedCounted DEF Kfree, Counts
  <2>2. \A k \in Loc : ptr[k] = ptr[l] => k = l
    BY <2>1, <1>2, Unique
  <2>3. data' = [data EXCEPT ![ptr[l]] = Junk]
    BY <1>2 DEF Kfree
  <2> QED BY <2>1, <2>2, <2>3, OneWritten
<1> QED BY <1>1, <1>2

\* A page kalloc() just returned may be written.
LEMMA FreshData ==
    ASSUME CowInv, NEW pg, Kalloc(pg), NEW v, data' = [data EXCEPT ![pg] = v],
           NEW l
    PROVE  DataExcept(l)
BY KallocOK DEF DataExcept

\* A step that writes no page.
LEMMA SameData ==
    ASSUME data' = data, NEW l
    PROVE  DataExcept(l)
BY DEF DataExcept

-----------------------------------------------------------------------------
(* The processes that do not take the step. *)

\* The table another process's fork or exec builds is none of p's.
LEMMA DirApart ==
    ASSUME CowInv, NEW p \in Proc, NEW q \in Proc, p # q, ptr[Dir(q)] # NoPage,
           NEW va \in Va
    PROVE  /\ Pte(ptr[Dir(q)], va) \notin Mine(p) /\ Pte(ptr[Dir(q)], va) \in Loc
           /\ Dir(q) \in Loc
<1>1. /\ UniqueLoc(Dir(q)) /\ Dir(q) \in Loc
      /\ Dir(p) \in Loc /\ Dir(p) # Dir(q)
      /\ Pgdir(p) \in Loc /\ Pgdir(p) # Dir(q)
  BY LocFacts DEF UniqueLoc
<1>2. ptr[Dir(q)] # ptr[Dir(p)] /\ ptr[Dir(q)] # ptr[Pgdir(p)]
  BY <1>1, OneHome
<1>3. ptr[Dir(q)] \in Page
  BY <1>1, InvCovers DEF Pointers, PageOrNull
<1>4. Pte(ptr[Dir(q)], va) \notin Mine(p)
  BY <1>2, LocFacts DEF Mine
<1> QED BY <1>1, <1>3, <1>4, LocFacts

\* Neither p's own writes nor the pages it frees reach the memory of another.
LEMMA OtherMem ==
    ASSUME CowInv, NEW p \in Proc, NEW q \in Proc, p # q, MemOf(q), Kept(q),
           WritesMine(p), NEW l \in Mine(p), DataExcept(l)
    PROVE  MemOf(q)' /\ Mem(q)' = Mem(q)
<1>1. CASE state[q] # "RUNNABLE"
  <2>1. pc[q] \in {"none", "zombie"}
    BY <1>1 DEF CowInv, SlotsOwned
  <2> QED BY <1>1, <2>1 DEF MemOf, MappedOK, ShareOK, GrowOK, Mem, Alive, Kept
<1>2. CASE state[q] = "RUNNABLE" /\ ~Alive(q)
  <2>1. pc[q] \in {"freevm", "halt"} /\ ptr[Pgdir(q)] = NoPage
    BY <1>2 DEF Alive, CowInv, ReturnsMatch, MemOf, MappedOK
  <2>2. Pgdir(q) \in Loc /\ Pgdir(q) \notin Mine(p)
    BY <1>2, LocFacts DEF Mine
  <2>3. ptr'[Pgdir(q)] = NoPage
    BY <2>1, <2>2 DEF WritesMine
  <2> QED BY <1>2, <2>1, <2>3 DEF MemOf, MappedOK, ShareOK, GrowOK, Mem, Alive, Kept
<1>3. CASE Alive(q)
  <2>1. /\ Pgdir(q) \in Loc /\ Dir(q) \in Loc /\ Local(q) \in Loc
        /\ \A va \in Va : Own(q, va) \in Loc
    BY <1>3, LocFacts, LiveDir DEF Alive, Own
  <2>2. /\ Pgdir(q) \notin Mine(p) /\ Dir(q) \notin Mine(p) /\ Local(q) \notin Mine(p)
        /\ \A va \in Va : Own(q, va) \notin Mine(p)
    BY <1>3, MineApart
  <2>3. /\ ptr'[Pgdir(q)] = ptr[Pgdir(q)] /\ ptr'[Dir(q)] = ptr[Dir(q)]
        /\ ptr'[Local(q)] = ptr[Local(q)]
        /\ \A va \in Va : ptr'[Own(q, va)] = ptr[Own(q, va)]
        /\ \A va \in Va : ptr[Own(q, va)] \in Page
             => data'[ptr[Own(q, va)]] = data[ptr[Own(q, va)]]
        /\ ptr[Local(q)] \in Page => data'[ptr[Local(q)]] = data[ptr[Local(q)]]
    BY <2>1, <2>2 DEF WritesMine, DataExcept
  <2>4. ASSUME ptr[Dir(q)] # NoPage, NEW va \in Va
        PROVE  /\ ptr'[Pte(ptr[Dir(q)], va)] = ptr[Pte(ptr[Dir(q)], va)]
               /\ ptr[Pte(ptr[Dir(q)], va)] \in Page
                    => data'[ptr[Pte(ptr[Dir(q)], va)]] = data[ptr[Pte(ptr[Dir(q)], va)]]
    BY <2>4, DirApart DEF WritesMine, DataExcept
  <2>5. MappedOK(q) /\ ShareOK(q) /\ GrowOK(q)
    BY DEF MemOf
  <2>6. /\ Limit(q) \in 1 .. MaxVa /\ Limit(q)' = Limit(q) /\ Alive(q)'
        /\ \A va \in 0 .. Limit(q) - 1 : va \in Va /\ ptr[Own(q, va)] \in Page
    BY <1>3, <2>5, CowAssumption DEF MappedOK, Limit, Kept, Alive, Va
  <2>7. \A va \in Va : Own(q, va)' = Own(q, va)
    BY <2>3 DEF Own
  <2>8. MappedOK(q)'
    BY <1>3, <2>3, <2>5, <2>6, <2>7 DEF MappedOK, Kept, Alive
  <2>9. ShareOK(q)'
    <3> SUFFICES ASSUME pc[q] \in {"share", "map"}
                 PROVE  ShareOK(q)'
      BY DEF ShareOK, Kept
    <3>1. ptr[Dir(q)] # NoPage /\ sz[q] \in 0 .. MaxVa
      BY InvTypes DEF CowInv, DirsPresent
    <3>2. \A va \in Va : Childs(q, va)' = Childs(q, va)
                         /\ ptr'[Childs(q, va)] = ptr[Childs(q, va)]
      BY <3>1, <2>3, <2>4 DEF Childs
    <3>3. \A va \in 0 .. sz[q] - 1 : va \in Va
      BY <3>1, CowAssumption DEF Va
    <3> QED BY <3>1, <3>2, <3>3, <2>3, <2>5, <2>7, CowAssumption DEF ShareOK, Kept
  <2>10. GrowOK(q)'
    <3> SUFFICES ASSUME pc[q] \in {"grow", "growmap"}
                 PROVE  GrowOK(q)'
      BY DEF GrowOK, Kept
    <3>1. /\ Target(q)' = Target(q) /\ First(q)' = First(q)
          /\ loc[q].ret = "exec" => ptr[Dir(q)] # NoPage
      BY <2>3 DEF Target, First, Kept, CowInv, DirsPresent
    <3>2. /\ loc[q].to \in 1 .. MaxVa /\ First(q) \in Nat
          /\ loc[q].va \in First(q) .. loc[q].to
      BY <2>5, InvTypes, CowAssumption DEF GrowOK, First
    <3>3. \A va \in First(q) .. loc[q].va - 1 : va \in Va
      BY <3>2, CowAssumption DEF Va
    <3>4. ASSUME NEW va \in First(q) .. loc[q].va - 1
          PROVE  LET pg == ptr'[Pte(Target(q)', va)] IN pg \in Page /\ data'[pg] = Zero
      <4>1. ptr[Pte(Target(q), va)] \in Page /\ data[ptr[Pte(Target(q), va)]] = Zero
        BY <2>5 DEF GrowOK
      <4>2. /\ ptr'[Pte(Target(q), va)] = ptr[Pte(Target(q), va)]
            /\ data'[ptr[Pte(Target(q), va)]] = data[ptr[Pte(Target(q), va)]]
        BY <4>1, <3>1, <3>3, <2>3, <2>4 DEF Target, Own
      <4> QED BY <4>1, <4>2, <3>1
    <3>5. ASSUME pc[q] = "growmap"
          PROVE  loc[q].va < loc[q].to /\ data'[ptr'[Local(q)]] = Zero
      <4>1. ptr[Local(q)] \in Page
        BY <3>5, <2>1, InvCovers
           DEF CowInv, KernelPagesUnshared, FreshLoc, Pointers, PageOrNull
      <4> QED BY <4>1, <3>5, <2>3, <2>5 DEF GrowOK
    <3> QED BY <3>1, <3>2, <3>4, <3>5 DEF GrowOK, Kept
  <2>11. Mem(q)' = Mem(q)
    BY <1>3, <2>3, <2>6, <2>7 DEF Mem
  <2> QED BY <2>8, <2>9, <2>10, <2>11 DEF MemOf
<1> QED BY <1>1, <1>2, <1>3 DEF Alive

\* No memory but p's changes, and none at all.
Others(p) == \A q \in Proc : q # p => Mem(q)' = Mem(q)
Same == \A q \in Proc : Mem(q)' = Mem(q)

\* A slot no process runs on has no memory.
LEMMA IdleMem ==
    ASSUME CowInv, NEW c \in Proc, MemOf(c), state[c] # "RUNNABLE",
           state'[c] # "RUNNABLE", loc'[c] = loc[c], pc'[c] \in {"none", "zombie"}
    PROVE  MemOf(c)' /\ Mem(c)' = Mem(c)
<1>1. pc[c] \in {"none", "zombie"}
  BY DEF CowInv, SlotsOwned
<1> QED BY <1>1 DEF MemOf, MappedOK, ShareOK, GrowOK, Mem, Alive

\* The memories together, when the step touches p and a slot c alone.
LEMMA AllMem ==
    ASSUME CowInv, MemInv, NEW p \in Proc, WritesMine(p),
           NEW l \in Mine(p), DataExcept(l), MemOf(p)',
           NEW c, c \in Proc /\ c # p => MemOf(c)' /\ Mem(c)' = Mem(c),
           \A q \in Proc : q # p /\ q # c => Kept(q)
    PROVE  MemInv' /\ Others(p)
<1>1. ASSUME NEW q \in Proc, q # p
      PROVE  MemOf(q)' /\ Mem(q)' = Mem(q)
  <2>1. CASE q = c
    BY <1>1, <2>1
  <2>2. CASE q # c
    BY <1>1, <2>2, OtherMem DEF MemInv
  <2> QED BY <2>1, <2>2
<1> QED BY <1>1 DEF MemInv, Others

-----------------------------------------------------------------------------
(* The process that takes the step. *)

\* What a living process's memory consists of.
LEMMA Held ==
    ASSUME CowInv, MemInv, NEW p \in Proc, Alive(p)
    PROVE  /\ MappedOK(p) /\ ShareOK(p) /\ GrowOK(p)
           /\ Limit(p) \in 1 .. MaxVa
           /\ \A va \in 0 .. Limit(p) - 1 :
                va \in Va /\ ptr[Own(p, va)] \in Page /\ Own(p, va) \in Loc
<1>1. MappedOK(p) /\ ShareOK(p) /\ GrowOK(p)
  BY DEF MemInv, MemOf
<1>2. Limit(p) \in 1 .. MaxVa /\ \A va \in 0 .. Limit(p) - 1 : ptr[Own(p, va)] \in Page
  BY <1>1 DEF MappedOK
<1>3. \A va \in 0 .. Limit(p) - 1 : va \in Va
  BY <1>2, CowAssumption DEF Va
<1> QED BY <1>1, <1>2, <1>3, LiveDir DEF Alive, Own

\* The memory of p is what it was when its directory, the entries below its
\* limit and the pages they name are.
LEMMA OwnSame ==
    ASSUME CowInv, MemInv, NEW p \in Proc, Alive(p),
           state'[p] = "RUNNABLE", loc'[p].ret # "halt", Limit(p)' = Limit(p),
           ptr'[Pgdir(p)] = ptr[Pgdir(p)],
           \A va \in 0 .. Limit(p) - 1 :
             /\ ptr'[Own(p, va)] = ptr[Own(p, va)]
             /\ data'[ptr[Own(p, va)]] = data[ptr[Own(p, va)]],
           pc'[p] \in {"user", "none", "zombie", "kstack", "setupkvm"}
             => loc'[p].va = 0,
           pc'[p] = "shrink" => loc'[p].to \in 1 .. sz'[p]
    PROVE  MappedOK(p)' /\ Mem(p)' = Mem(p)
<1>1. /\ Limit(p) \in 1 .. MaxVa
      /\ \A va \in 0 .. Limit(p) - 1 : ptr[Own(p, va)] \in Page
  BY Held
<1>2. Alive(p)' /\ \A va : Own(p, va)' = Own(p, va)
  BY DEF Alive, Own
<1> QED BY <1>1, <1>2 DEF MappedOK, Mem

\* A step of p that no memory shows, to a point of the code the loops of
\* shareuvm and allocuvm do not contain.
LEMMA PlainStep ==
    ASSUME CowInv, MemInv, NEW p \in Proc, Alive(p), WritesMine(p),
           NEW l \in Mine(p), DataExcept(l),
           state'[p] = "RUNNABLE", loc'[p].ret # "halt", Limit(p)' = Limit(p),
           ptr'[Pgdir(p)] = ptr[Pgdir(p)],
           \A va \in 0 .. Limit(p) - 1 :
             ptr'[Own(p, va)] = ptr[Own(p, va)] /\ l # Own(p, va),
           pc'[p] \notin {"share", "map", "grow", "growmap"},
           pc'[p] \in {"user", "none", "zombie", "kstack", "setupkvm"}
             => loc'[p].va = 0,
           pc'[p] = "shrink" => loc'[p].to \in 1 .. sz'[p],
           NEW c, c \in Proc /\ c # p =>
             /\ state[c] # "RUNNABLE" /\ state'[c] # "RUNNABLE"
             /\ loc'[c] = loc[c] /\ pc'[c] \in {"none", "zombie"},
           \A q \in Proc : q # p /\ q # c => Kept(q)
    PROVE  MemInv' /\ Same
<1>1. \A va \in 0 .. Limit(p) - 1 : data'[ptr[Own(p, va)]] = data[ptr[Own(p, va)]]
  BY Held DEF DataExcept
<1>2. MappedOK(p)' /\ Mem(p)' = Mem(p)
  BY <1>1, OwnSame
<1>3. MemOf(p)'
  BY <1>2 DEF MemOf, ShareOK, GrowOK
<1>4. c \in Proc /\ c # p => MemOf(c)' /\ Mem(c)' = Mem(c)
  BY IdleMem DEF MemInv
<1>5. MemInv' /\ Others(p)
  BY <1>3, <1>4, AllMem
<1> QED BY <1>2, <1>5 DEF Others, Same

\* The same when the step changes no pointer and no page.
LEMMA QuietMem ==
    ASSUME CowInv, MemInv, NEW p \in Proc, Alive(p), ptr' = ptr, data' = data,
           state'[p] = "RUNNABLE", loc'[p].ret # "halt", Limit(p)' = Limit(p),
           pc'[p] \notin {"share", "map", "grow", "growmap"},
           pc'[p] \in {"user", "none", "zombie", "kstack", "setupkvm"}
             => loc'[p].va = 0,
           pc'[p] = "shrink" => loc'[p].to \in 1 .. sz'[p],
           NEW c, c \in Proc /\ c # p =>
             /\ state[c] # "RUNNABLE" /\ state'[c] # "RUNNABLE"
             /\ loc'[c] = loc[c] /\ pc'[c] \in {"none", "zombie"},
           \A q \in Proc : q # p /\ q # c => Kept(q)
    PROVE  MemInv' /\ Same
<1>1. Local(p) \in Mine(p) /\ DataExcept(Local(p)) /\ WritesMine(p)
  BY MineHas, SameData, NoWrites
<1>2. \A va \in 0 .. Limit(p) - 1 : Local(p) # Own(p, va)
  BY LocFacts DEF Own
<1> QED BY <1>1, <1>2, PlainStep

-----------------------------------------------------------------------------
(* The steps that change neither a pointer nor a page. *)

\* Where user code is between two system calls.
LEMMA UserMem ==
    ASSUME CowInv, MemInv, NEW p \in Proc, InUser(p)
    PROVE  /\ Alive(p) /\ pc[p] = "user" /\ state[p] = "RUNNABLE"
           /\ loc[p].va = 0 /\ loc[p].ret # "halt" /\ sz[p] \in 1 .. MaxVa
           /\ Limit(p) = sz[p]
<1>1. Alive(p) /\ pc[p] = "user"
  BY UserAlive
<1> QED BY <1>1, Held DEF Alive, Limit, MappedOK

\* fork() claims a slot.
LEMMA ForkAllocprocMem ==
    ASSUME CowInv, TlbInv, MemInv, NEW p \in Proc, ForkAllocproc(p)
    PROVE  MemInv' /\ Same
<1>1. PICK c \in Proc : /\ state[c] = "UNUSED"
                        /\ state' = [state EXCEPT ![c] = "EMBRYO"]
                        /\ loc' = [loc EXCEPT ![p].child = c]
  BY DEF ForkAllocproc
<1>2. /\ UNCHANGED <<ptr, data, sz>> /\ pc' = [pc EXCEPT ![p] = "kstack"]
      /\ Alive(p) /\ pc[p] = "user" /\ state[p] = "RUNNABLE" /\ loc[p].va = 0
      /\ loc[p].ret # "halt" /\ c # p
  <2>1. /\ UNCHANGED <<ptr, data, sz>> /\ pc' = [pc EXCEPT ![p] = "kstack"]
        /\ InUser(p)
    BY DEF ForkAllocproc, EnterKernel, memVars
  <2>2. state[p] = "RUNNABLE"
    BY <2>1, UserMem
  <2>3. c # p
    BY <1>1, <2>2
  <2> QED BY <2>1, <2>3, UserMem
<1>3. /\ state'[p] = "RUNNABLE" /\ state'[c] = "EMBRYO" /\ pc'[p] = "kstack"
      /\ pc'[c] = pc[c] /\ loc'[c] = loc[c]
      /\ loc'[p].va = 0 /\ loc'[p].ret # "halt" /\ Limit(p)' = Limit(p)
      /\ \A q \in Proc : q # p /\ q # c => Kept(q)
  BY <1>1, <1>2, InvTypes DEF LocRecord, Limit, Kept
<1>4. pc[c] \in {"none", "zombie"}
  BY <1>1, IdleSlot
<1> QED BY <1>1, <1>2, <1>3, <1>4, QuietMem

\* A step inside user code, or to a fault.
LEMMA UserQuiet ==
    ASSUME CowInv, MemInv, NEW p \in Proc, InUser(p), ptr' = ptr, data' = data,
           state'[p] = "RUNNABLE", sz'[p] = sz[p],
           \/ pc'[p] = "user" /\ loc'[p] = loc[p]
           \/ pc'[p] \in {"cow", "kfault"} /\ loc'[p].ret # "halt",
           \A q \in Proc : q # p => Kept(q)
    PROVE  MemInv' /\ Same
<1>1. /\ Alive(p) /\ loc[p].va = 0 /\ loc[p].ret # "halt" /\ Limit(p) = sz[p]
  BY UserMem
<1>2. Limit(p)' = Limit(p)
  BY <1>1 DEF Limit
<1> QED BY <1>1, <1>2, QuietMem

\* A load, a switch and a fault leave the memory alone.
LEMMA LoadMem ==
    ASSUME CowInv, MemInv, NEW p \in Proc, NEW va \in Va,
           \/ Load(p, va) \/ SwitchTlb(p)
           \/ StoreFault(p, va) \/ KernelStoreFault(p, va)
    PROVE  MemInv' /\ Same
<1>1. /\ InUser(p) /\ UNCHANGED <<ptr, data, state, sz>>
      /\ \/ UNCHANGED <<pc, loc>>
         \/ /\ pc' = [pc EXCEPT ![p] = "cow"] \/ pc' = [pc EXCEPT ![p] = "kfault"]
            /\ loc' = [loc EXCEPT ![p].va = va] \/ loc' = loc
  <2>1. CASE Load(p, va) \/ SwitchTlb(p)
    BY <2>1 DEF Load, SwitchTlb, memVars, procVars
  <2>2. CASE StoreFault(p, va)
    BY <2>2 DEF StoreFault, EnterKernel, memVars, procVars
  <2>3. CASE KernelStoreFault(p, va)
    BY <2>3 DEF KernelStoreFault, EnterKernel, memVars, procVars
  <2> QED BY <2>1, <2>2, <2>3
<1>2. loc[p].ret # "halt" /\ pc[p] = "user" /\ state[p] = "RUNNABLE"
  BY <1>1, UserMem
<1>3. /\ \/ pc'[p] = "user" /\ loc'[p] = loc[p]
         \/ pc'[p] \in {"cow", "kfault"} /\ loc'[p].ret # "halt"
      /\ \A q \in Proc : q # p => Kept(q)
  BY <1>1, <1>2, InvTypes DEF LocRecord, Kept
<1> QED BY <1>1, <1>2, <1>3, UserQuiet

\* A step of Cow_handler or trap() that reads, or that returns to user code.
LEMMA HandlerMem ==
    ASSUME CowInv, MemInv, NEW p \in Proc,
           CowGetRefc(p) \/ CowReuse(p) \/ KernelFaultTrap(p)
    PROVE  MemInv' /\ Same
<1>1. /\ Alive(p) /\ pc[p] \in {"cow", "copy", "kfault"}
      /\ UNCHANGED <<ptr, data, state, sz>>
      /\ \/ pc' = [pc EXCEPT ![p] = "copy"] /\ \E n : loc' = [loc EXCEPT ![p].cnt = n]
         \/ pc' = [pc EXCEPT ![p] = "user"] /\ loc' = [loc EXCEPT ![p] = NoLoc]
         \/ pc[p] = "kfault" /\ UNCHANGED <<pc, loc>>
  <2>1. CASE CowGetRefc(p)
    BY <2>1, InKernel DEF CowGetRefc, memVars, procVars
  <2>2. CASE CowReuse(p)
    BY <2>2, InKernel DEF CowReuse, memVars, procVars
  <2>3. CASE KernelFaultTrap(p)
    BY <2>3, InKernel DEF KernelFaultTrap, memVars
  <2> QED BY <2>1, <2>2, <2>3
<1>2. /\ pc'[p] \in {"copy", "user", "kfault"} /\ loc'[p].ret # "halt"
      /\ pc'[p] = "user" => loc'[p].va = 0
      /\ \A q \in Proc : q # p => Kept(q)
  <2>1. loc[p].ret # "halt"
    BY <1>1 DEF Alive
  <2>2. \A q \in Proc : q # p => Kept(q)
    BY <1>1, InvTypes DEF Kept
  <2>3. CASE pc' = [pc EXCEPT ![p] = "copy"] /\ \E n : loc' = [loc EXCEPT ![p].cnt = n]
    BY <2>1, <2>2, <2>3, InvTypes DEF LocRecord
  <2>4. CASE pc' = [pc EXCEPT ![p] = "user"] /\ loc' = [loc EXCEPT ![p] = NoLoc]
    BY <2>2, <2>4, InvTypes
  <2> QED BY <1>1, <2>1, <2>2, <2>3, <2>4
<1>3. Limit(p)' = Limit(p)
  BY <1>1, <1>2 DEF Limit
<1> QED BY <1>1, <1>2, <1>3, QuietMem DEF Alive

\* wait() clears the slot.
LEMMA WaitDoneMem ==
    ASSUME CowInv, TlbInv, MemInv, NEW p \in Proc, WaitDone(p)
    PROVE  MemInv' /\ Same
<1>0. PICK c : c = loc[p].child
  OBVIOUS
<1>1. /\ Alive(p) /\ pc[p] = "reaped" /\ UNCHANGED <<ptr, data, sz>>
      /\ state' = [state EXCEPT ![c] = "UNUSED"]
      /\ pc' = [pc EXCEPT ![c] = "none", ![p] = "user"]
      /\ loc' = [loc EXCEPT ![p] = NoLoc]
  BY <1>0, InKernel DEF WaitDone, memVars
<1>2. c \in Proc /\ state[c] = "ZOMBIE" /\ c # p
  BY <1>0, <1>1 DEF CowInv, SlotsOwned, Reaping, Alive
<1>3. /\ pc'[p] = "user" /\ state'[p] = "RUNNABLE" /\ pc'[c] = "none"
      /\ state'[c] = "UNUSED" /\ loc'[c] = loc[c]
      /\ loc'[p].va = 0 /\ loc'[p].ret # "halt" /\ Limit(p)' = Limit(p)
      /\ \A q \in Proc : q # p /\ q # c => Kept(q)
  <2>1. /\ pc'[p] = "user" /\ state'[p] = "RUNNABLE" /\ pc'[c] = "none"
        /\ state'[c] = "UNUSED" /\ loc'[c] = loc[c] /\ loc'[p] = NoLoc
    BY <1>1, <1>2, InvTypes DEF Alive
  <2>2. \A q \in Proc : q # p /\ q # c => Kept(q)
    BY <1>1, InvTypes DEF Kept
  <2>3. Limit(p)' = Limit(p)
    BY <1>1, <2>1 DEF Limit
  <2> QED BY <2>1, <2>2, <2>3
<1> QED BY <1>1, <1>2, <1>3, QuietMem

\* exit() gives the memory up.
LEMMA ExitMem ==
    ASSUME CowInv, MemInv, NEW p \in Proc, Exit(p)
    PROVE  MemInv' /\ Others(p) /\ Alive(p) /\ Mem(p)' = <<>>
<1>1. /\ InUser(p) /\ UNCHANGED <<ptr, data, loc, sz>>
      /\ state' = [state EXCEPT ![p] = "ZOMBIE"]
      /\ pc' = [pc EXCEPT ![p] = "zombie"]
  BY DEF Exit, memVars
<1>2. /\ Alive(p) /\ loc[p].va = 0
  BY <1>1, UserMem
<1>3. /\ state'[p] = "ZOMBIE" /\ pc'[p] = "zombie" /\ loc'[p].va = 0
      /\ \A q \in Proc : q # p => Kept(q)
  BY <1>1, <1>2, InvTypes DEF Kept
<1>4. MemOf(p)' /\ Mem(p)' = <<>>
  BY <1>3 DEF MemOf, MappedOK, ShareOK, GrowOK, Mem, Alive
<1>5. Local(p) \in Mine(p) /\ DataExcept(Local(p)) /\ WritesMine(p)
  BY <1>1, MineHas, SameData, NoWrites
<1> QED BY <1>2, <1>3, <1>4, <1>5, AllMem

\* sbrk() starts to grow the memory: nothing is mapped yet.
LEMMA SbrkGrowMem ==
    ASSUME CowInv, MemInv, NEW p \in Proc, SbrkGrow(p)
    PROVE  MemInv' /\ Same
<1>1. PICK new \in sz[p] + 1 .. MaxVa :
        loc' = [loc EXCEPT ![p] = [@ EXCEPT !.va = sz[p], !.to = new, !.ret = "sbrk"]]
  BY DEF SbrkGrow
<1>2. /\ InUser(p) /\ UNCHANGED <<ptr, data, state, sz>>
      /\ pc' = [pc EXCEPT ![p] = "grow"]
  BY DEF SbrkGrow, EnterKernel, memVars, procVars
<1>3. /\ Alive(p) /\ pc[p] = "user" /\ state[p] = "RUNNABLE" /\ loc[p].va = 0
      /\ sz[p] \in 1 .. MaxVa /\ Limit(p) = sz[p]
  BY <1>2, UserMem
<1>4. /\ pc'[p] = "grow" /\ loc'[p].va = sz[p] /\ loc'[p].to = new
      /\ loc'[p].ret = "sbrk"
      /\ \A q \in Proc : q # p => Kept(q)
  BY <1>1, <1>2, InvTypes DEF LocRecord, Kept
<1>5. Limit(p)' = Limit(p) /\ new \in 1 .. MaxVa /\ new >= sz[p]
  BY <1>1, <1>2, <1>3, <1>4, CowAssumption DEF Limit
<1>6. MappedOK(p)' /\ Mem(p)' = Mem(p)
  BY <1>2, <1>3, <1>4, <1>5, OwnSame
<1>7. GrowOK(p)'
  BY <1>2, <1>3, <1>4, <1>5, CowAssumption DEF GrowOK, First
<1>8. MemOf(p)'
  BY <1>4, <1>6, <1>7 DEF MemOf, ShareOK
<1>9. Local(p) \in Mine(p) /\ DataExcept(Local(p)) /\ WritesMine(p)
  BY <1>2, MineHas, SameData, NoWrites
<1>10. MemInv' /\ Others(p)
  BY <1>4, <1>8, <1>9, AllMem
<1> QED BY <1>6, <1>10 DEF Others, Same

\* The memory with a new size: what was there stays, the rest is zero.
Resized(p) ==
    \E n \in 1 .. MaxVa :
      Mem(p)' = [a \in 0 .. n - 1 |-> IF a < Limit(p) THEN Mem(p)[a] ELSE Zero]

\* sbrk() that shrinks gives the tail up at once.
LEMMA SbrkShrinkMem ==
    ASSUME CowInv, MemInv, NEW p \in Proc, SbrkShrink(p)
    PROVE  MemInv' /\ Others(p) /\ Alive(p) /\ Resized(p)
<1>1. PICK new \in 1 .. sz[p] - 1 :
        loc' = [loc EXCEPT ![p] = [@ EXCEPT !.to = new, !.ret = "sbrk"]]
  BY DEF SbrkShrink
<1>2. /\ InUser(p) /\ UNCHANGED <<ptr, data, state, sz>>
      /\ pc' = [pc EXCEPT ![p] = "shrink"]
  BY DEF SbrkShrink, EnterKernel, memVars, procVars
<1>3. /\ Alive(p) /\ pc[p] = "user" /\ state[p] = "RUNNABLE"
      /\ sz[p] \in 1 .. MaxVa /\ Limit(p) = sz[p]
      /\ \A va \in 0 .. sz[p] - 1 : va \in Va /\ ptr[Own(p, va)] \in Page
  BY <1>2, UserMem, Held
<1>4. /\ pc'[p] = "shrink" /\ loc'[p].to = new /\ loc'[p].ret = "sbrk"
      /\ \A q \in Proc : q # p => Kept(q)
  BY <1>1, <1>2, InvTypes DEF LocRecord, Kept
<1>5. /\ Limit(p)' = new /\ new \in 1 .. MaxVa /\ new \in 1 .. sz[p] /\ Alive(p)'
      /\ \A va : Own(p, va)' = Own(p, va)
  BY <1>1, <1>2, <1>3, <1>4, CowAssumption DEF Limit, Alive, Own
<1>6. MappedOK(p)'
  BY <1>2, <1>3, <1>4, <1>5 DEF MappedOK
<1>7. MemOf(p)'
  BY <1>4, <1>6 DEF MemOf, ShareOK, GrowOK
<1>8. Mem(p)' = [a \in 0 .. new - 1 |-> data[ptr[Own(p, a)]]]
  BY <1>2, <1>5 DEF Mem
<1>9. \A a \in 0 .. new - 1 : a < sz[p] /\ Mem(p)[a] = data[ptr[Own(p, a)]]
  BY <1>3, <1>5 DEF Mem
<1>10. Resized(p)
  BY <1>3, <1>5, <1>8, <1>9 DEF Resized
<1>11. Local(p) \in Mine(p) /\ DataExcept(Local(p)) /\ WritesMine(p)
  BY <1>2, MineHas, SameData, NoWrites
<1> QED BY <1>3, <1>4, <1>7, <1>10, <1>11, AllMem

\* growproc() publishes the new size: the pages allocuvm mapped are zero.
LEMMA SbrkGrownMem ==
    ASSUME CowInv, MemInv, NEW p \in Proc, SbrkGrown(p)
    PROVE  MemInv' /\ Others(p) /\ Alive(p) /\ Resized(p)
<1>1. /\ pc[p] = "grow" /\ loc[p].va = loc[p].to /\ loc[p].ret = "sbrk"
      /\ sz' = [sz EXCEPT ![p] = loc[p].to] /\ pc' = [pc EXCEPT ![p] = "user"]
      /\ loc' = [loc EXCEPT ![p] = NoLoc] /\ UNCHANGED <<ptr, data, state>>
  BY DEF SbrkGrown, memVars
<1>2. Alive(p)
  BY <1>1, InKernel
<1>3. /\ loc[p].to \in 1 .. MaxVa /\ sz[p] \in 1 .. MaxVa /\ Limit(p) = sz[p]
      /\ \A va \in 0 .. sz[p] - 1 : ptr[Own(p, va)] \in Page
      /\ \A va \in sz[p] .. loc[p].to - 1 :
           ptr[Own(p, va)] \in Page /\ data[ptr[Own(p, va)]] = Zero
      /\ sz[p] <= loc[p].to
  BY <1>1, <1>2, Held, CowAssumption DEF GrowOK, First, Target, Own, Limit
<1>4. /\ pc'[p] = "user" /\ loc'[p] = NoLoc /\ sz'[p] = loc[p].to
      /\ \A q \in Proc : q # p => Kept(q)
  BY <1>1, InvTypes DEF Kept
<1>5. /\ Limit(p)' = loc[p].to /\ Alive(p)' /\ \A va : Own(p, va)' = Own(p, va)
  BY <1>1, <1>2, <1>4 DEF Limit, Alive, Own
<1>6. MappedOK(p)'
  BY <1>1, <1>3, <1>4, <1>5 DEF MappedOK
<1>7. MemOf(p)'
  BY <1>4, <1>6 DEF MemOf, ShareOK, GrowOK
<1>8. Mem(p)' = [a \in 0 .. loc[p].to - 1 |-> data[ptr[Own(p, a)]]]
  BY <1>1, <1>5 DEF Mem
<1>9. ASSUME NEW a \in 0 .. loc[p].to - 1
      PROVE  data[ptr[Own(p, a)]] = IF a < sz[p] THEN Mem(p)[a] ELSE Zero
  BY <1>2, <1>3 DEF Mem
<1>10. Resized(p)
  BY <1>3, <1>8, <1>9 DEF Resized
<1>11. Local(p) \in Mine(p) /\ DataExcept(Local(p)) /\ WritesMine(p)
  BY <1>1, MineHas, SameData, NoWrites
<1> QED BY <1>2, <1>4, <1>7, <1>10, <1>11, AllMem

\* After the last page of the tail is freed the size is the limit.
LEMMA SbrkShrunkMem ==
    ASSUME CowInv, MemInv, NEW p \in Proc, SbrkShrunk(p)
    PROVE  MemInv' /\ Same
<1>1. /\ pc[p] = "shrink" /\ UNCHANGED <<ptr, data, state>>
      /\ sz' = [sz EXCEPT ![p] = loc[p].to] /\ pc' = [pc EXCEPT ![p] = "user"]
      /\ loc' = [loc EXCEPT ![p] = NoLoc]
  BY DEF SbrkShrunk, memVars
<1>2. Alive(p)
  BY <1>1, InKernel
<1>3. /\ pc'[p] = "user" /\ loc'[p] = NoLoc /\ sz'[p] = loc[p].to
      /\ \A q \in Proc : q # p => Kept(q)
  BY <1>1, InvTypes DEF Kept
<1>4. Limit(p)' = Limit(p)
  BY <1>1, <1>3 DEF Limit
<1> QED BY <1>1, <1>2, <1>3, <1>4, QuietMem DEF Alive

-----------------------------------------------------------------------------
(* The steps that write a page or a pointer. *)

\* A store is seen in the memory of p alone: nobody else points at the page.
LEMMA StoreMem ==
    ASSUME CowInv, TlbInv, MemInv, NEW p \in Proc, NEW va \in Va, NEW v \in Val,
           Store(p, va, v)
    PROVE  /\ MemInv' /\ Others(p) /\ Alive(p) /\ va \in 0 .. Limit(p) - 1
           /\ Mem(p)' = [Mem(p) EXCEPT ![va] = v]
<1>1. /\ InUser(p) /\ va < sz[p] /\ StoreEntry(p, va).w
      /\ data' = [data EXCEPT ![StoreEntry(p, va).pg] = v]
      /\ UNCHANGED <<ptr, state, sz, pc, loc>>
  BY DEF Store, procVars
<1>2. /\ Alive(p) /\ pc[p] = "user" /\ loc[p].va = 0 /\ Limit(p) = sz[p]
      /\ sz[p] \in 1 .. MaxVa /\ va \in 0 .. sz[p] - 1
  BY <1>1, UserMem, CowAssumption DEF Va
<1>3. /\ \A vb \in 0 .. sz[p] - 1 :
           vb \in Va /\ ptr[Own(p, vb)] \in Page /\ Own(p, vb) \in Loc
      /\ MemOf(p)
  BY <1>2, Held DEF MemInv
<1>4. /\ StoreEntry(p, va).pg = ptr[Own(p, va)]
      /\ \A k \in Loc : ptr[k] = ptr[Own(p, va)] => k = Own(p, va)
  <2>1. CASE tlb[p][va].w
    <3>1. StoreEntry(p, va) = tlb[p][va] /\ tlb[p][va] # NoEntry
      BY <2>1 DEF StoreEntry, NoEntry
    <3>2. EntryOK(p, va)
      BY <1>2, Right
    <3> QED BY <1>2, <2>1, <3>1, <3>2, CachedHeld DEF Holders, Own
  <2>2. CASE ~tlb[p][va].w
    <3>1. StoreEntry(p, va) = Entry(ptr[Pgdir(p)], va)
      BY <2>2 DEF StoreEntry
    <3>2. StoreEntry(p, va).pg = ptr[Own(p, va)] /\ Own(p, va) \in writable
      <4>1. /\ StoreEntry(p, va).pg = ptr[Own(p, va)]
            /\ StoreEntry(p, va).w = (Own(p, va) \in writable)
        BY <3>1 DEF Entry, Own
      <4> QED BY <1>1, <4>1
    <3>3. refc[ptr[Own(p, va)]] = 1
      BY <3>2 DEF CowInv, WritablePageUnshared
    <3> QED BY <1>2, <1>3, <3>2, <3>3, Unique
  <2> QED BY <2>1, <2>2
<1>5. DataExcept(Own(p, va)) /\ Own(p, va) \in Mine(p) /\ WritesMine(p)
  <2>1. Own(p, va) \in Mine(p)
    BY <1>2, <1>3, MineHas, LiveDir, CowAssumption DEF Own, Alive
  <2> QED BY <1>1, <1>2, <1>3, <1>4, <2>1, OneWritten, NoWrites
<1>6. \A vb \in 0 .. sz[p] - 1 :
        data'[ptr[Own(p, vb)]] = IF vb = va THEN v ELSE data[ptr[Own(p, vb)]]
  <2> SUFFICES ASSUME NEW vb \in 0 .. sz[p] - 1
               PROVE  data'[ptr[Own(p, vb)]]
                        = IF vb = va THEN v ELSE data[ptr[Own(p, vb)]]
    OBVIOUS
  <2>1. CASE vb = va
    BY <1>1, <1>3, <1>4, <2>1 DEF CowInv, TypeOK
  <2>2. CASE vb # va
    <3>1. Own(p, vb) # Own(p, va)
      BY <2>2, LocFacts DEF Own
    <3> QED BY <1>3, <1>5, <2>2, <3>1 DEF DataExcept
  <2> QED BY <2>1, <2>2
<1>7. /\ Limit(p)' = sz[p] /\ Alive(p)' /\ \A vb : Own(p, vb)' = Own(p, vb)
  BY <1>1, <1>2 DEF Limit, Alive, Own
<1>8. Mem(p)' = [vb \in 0 .. sz[p] - 1 |-> data'[ptr[Own(p, vb)]]]
  BY <1>1, <1>7 DEF Mem
<1>9. Mem(p) = [vb \in 0 .. sz[p] - 1 |-> data[ptr[Own(p, vb)]]]
  BY <1>2 DEF Mem
<1>10. Mem(p)' = [Mem(p) EXCEPT ![va] = v]
  <2>1. PICK m : m = Mem(p)
    OBVIOUS
  <2>2. /\ m = [vb \in DOMAIN m |-> m[vb]] /\ DOMAIN m = 0 .. sz[p] - 1
        /\ \A vb \in 0 .. sz[p] - 1 : m[vb] = data[ptr[Own(p, vb)]]
    BY <1>9, <2>1
  <2>3. [m EXCEPT ![va] = v]
          = [vb \in 0 .. sz[p] - 1 |-> IF vb = va THEN v ELSE m[vb]]
    BY <1>2, <2>2
  <2>4. Mem(p)' = [vb \in 0 .. sz[p] - 1 |-> IF vb = va THEN v ELSE m[vb]]
    BY <1>6, <1>8, <2>2
  <2> QED BY <2>1, <2>3, <2>4
<1>11. MemOf(p)'
  BY <1>1, <1>2, <1>3, <1>7 DEF MemOf, MappedOK, ShareOK, GrowOK
<1> QED BY <1>1, <1>2, <1>5, <1>10, <1>11, AllMem DEF Kept

\* fork() takes a kernel stack for the child, or gives the slot back.
LEMMA ForkKstackMem ==
    ASSUME CowInv, TlbInv, MemInv, NEW p \in Proc, ForkKstack(p)
    PROVE  MemInv' /\ Same
<1>0. PICK c : c = loc[p].child
  OBVIOUS
<1>1. /\ Alive(p) /\ pc[p] = "kstack" /\ UNCHANGED <<sz, data>>
      /\ c \in Proc /\ state[c] = "EMBRYO" /\ c # p /\ state[p] = "RUNNABLE"
  BY <1>0, InKernel DEF ForkKstack, CowInv, SlotsOwned, Forking, Alive
<1>2. \/ /\ \E pg \in Page : ptr' = [ptr EXCEPT ![Kstack(c)] = pg]
         /\ pc' = [pc EXCEPT ![p] = "setupkvm"] /\ state' = state /\ loc' = loc
      \/ /\ ptr' = ptr /\ state' = [state EXCEPT ![c] = "UNUSED"]
         /\ pc' = [pc EXCEPT ![p] = "user"] /\ loc' = [loc EXCEPT ![p] = NoLoc]
  BY <1>0 DEF ForkKstack
<1>3. loc[p].va = 0 /\ loc[p].ret # "halt"
  BY <1>1, Held DEF MappedOK, Alive
<1>4. /\ pc'[p] \in {"setupkvm", "user"} /\ state'[p] = "RUNNABLE" /\ pc'[c] = pc[c]
      /\ state'[c] # "RUNNABLE" /\ loc'[c] = loc[c]
      /\ loc'[p].va = 0 /\ loc'[p].ret # "halt"
      /\ \A q \in Proc : q # p /\ q # c => Kept(q)
  BY <1>1, <1>2, <1>3, InvTypes DEF Kept
<1>5. \A l \in Loc : l \notin {Kstack(c)} => ptr'[l] = ptr[l]
  BY <1>1, <1>2, InvCovers DEF Pointers
<1>6. /\ ptr'[Pgdir(p)] = ptr[Pgdir(p)]
      /\ \A va \in 0 .. Limit(p) - 1 : ptr'[Own(p, va)] = ptr[Own(p, va)]
  <2>1. Kstack(c) # Pgdir(p) /\ \A va : Kstack(c) # Own(p, va)
    BY LocFacts DEF Own
  <2> QED BY <1>1, <1>5, <2>1, Held, LocFacts
<1>7. Local(p) \in Mine(p) /\ DataExcept(Local(p)) /\ WritesMine(p)
  BY <1>1, MineHas, SameData, ForkKstackTlb
<1>8. Limit(p)' = Limit(p)
  BY <1>1, <1>4 DEF Limit
<1>9. pc[c] \in {"none", "zombie"}
  BY <1>1, IdleSlot
<1>10. \A va \in 0 .. Limit(p) - 1 : Local(p) # Own(p, va)
  BY LocFacts DEF Own
<1> QED BY <1>1, <1>4, <1>6, <1>7, <1>8, <1>9, <1>10, PlainStep

\* shareuvm() takes a directory for the child.
LEMMA ForkSetupkvmMem ==
    ASSUME CowInv, TlbInv, MemInv, NEW p \in Proc, ForkSetupkvm(p)
    PROVE  MemInv' /\ Same
<1>1. /\ Alive(p) /\ pc[p] = "setupkvm" /\ UNCHANGED <<sz, state, loc, data>>
      /\ state[p] = "RUNNABLE" /\ loc[p].ret # "halt"
  BY InKernel DEF ForkSetupkvm, procVars, Alive
<1>2. \/ /\ \E pg \in Page : ptr' = [ptr EXCEPT ![Dir(p)] = pg]
         /\ pc' = [pc EXCEPT ![p] = "share"]
      \/ /\ ptr' = ptr /\ pc' = [pc EXCEPT ![p] = "unfork"]
  BY DEF ForkSetupkvm
<1>3. /\ pc'[p] \in {"share", "unfork"} /\ \A q \in Proc : q # p => Kept(q)
  BY <1>1, <1>2, InvTypes DEF Kept
<1>4. \A l \in Loc : l \notin {Dir(p)} => ptr'[l] = ptr[l]
  BY <1>1, <1>2, InvCovers DEF Pointers
<1>5. /\ ptr'[Pgdir(p)] = ptr[Pgdir(p)]
      /\ \A va \in 0 .. Limit(p) - 1 : ptr'[Own(p, va)] = ptr[Own(p, va)]
  <2>1. Dir(p) # Pgdir(p) /\ \A va : Dir(p) # Own(p, va)
    BY LocFacts DEF Own
  <2> QED BY <1>1, <1>4, <2>1, Held, LocFacts
<1>6. Local(p) \in Mine(p) /\ DataExcept(Local(p)) /\ WritesMine(p)
  BY <1>1, MineHas, SameData, ForkSetupkvmTlb
<1>7. Limit(p)' = Limit(p)
  BY <1>1, <1>3 DEF Limit
<1>8. MappedOK(p)' /\ Mem(p)' = Mem(p)
  BY <1>1, <1>3, <1>5, <1>7, OwnSame
<1>9. loc[p].va = 0 /\ sz[p] \in 0 .. MaxVa
  BY <1>1, Held, InvTypes DEF MappedOK
<1>10. ShareOK(p)'
  BY <1>1, <1>3, <1>9 DEF ShareOK
<1>11. MemOf(p)'
  BY <1>3, <1>8, <1>10 DEF MemOf, GrowOK
<1>12. MemInv' /\ Others(p)
  BY <1>3, <1>6, <1>11, AllMem
<1> QED BY <1>8, <1>12 DEF Same, Others

\* exec() takes a directory.
LEMMA ExecSetupkvmMem ==
    ASSUME CowInv, TlbInv, MemInv, NEW p \in Proc, ExecSetupkvm(p)
    PROVE  MemInv' /\ Same
<1>1. /\ InUser(p) /\ UNCHANGED <<sz, state, data>>
      /\ pc' = [pc EXCEPT ![p] = "grow"]
      /\ \E pg \in Page : ptr' = [ptr EXCEPT ![Dir(p)] = pg]
  BY DEF ExecSetupkvm, procVars, EnterKernel
<1>2. PICK new \in 1 .. MaxVa :
        loc' = [loc EXCEPT ![p] = [@ EXCEPT !.va = 0, !.to = new, !.ret = "exec"]]
  BY DEF ExecSetupkvm
<1>3. /\ Alive(p) /\ pc[p] = "user" /\ state[p] = "RUNNABLE"
      /\ Limit(p) = sz[p]
  BY <1>1, UserMem
<1>4. /\ pc'[p] = "grow" /\ loc'[p].va = 0 /\ loc'[p].to = new
      /\ loc'[p].ret = "exec" /\ \A q \in Proc : q # p => Kept(q)
  BY <1>1, <1>2, InvTypes DEF Kept, LocRecord
<1>5. \A l \in Loc : l \notin {Dir(p)} => ptr'[l] = ptr[l]
  BY <1>1, InvCovers DEF Pointers
<1>6. /\ ptr'[Pgdir(p)] = ptr[Pgdir(p)]
      /\ \A va \in 0 .. Limit(p) - 1 : ptr'[Own(p, va)] = ptr[Own(p, va)]
  <2>1. Dir(p) # Pgdir(p) /\ \A va : Dir(p) # Own(p, va)
    BY LocFacts DEF Own
  <2> QED BY <1>3, <1>5, <2>1, Held, LocFacts
<1>7. Local(p) \in Mine(p) /\ DataExcept(Local(p)) /\ WritesMine(p)
  BY <1>1, MineHas, SameData, ExecSetupkvmTlb
<1>8. Limit(p)' = Limit(p)
  BY <1>1, <1>3, <1>4 DEF Limit
<1>9. MappedOK(p)' /\ Mem(p)' = Mem(p)
  BY <1>1, <1>3, <1>4, <1>6, <1>8, OwnSame
<1>10. GrowOK(p)'
  BY <1>2, <1>4 DEF GrowOK, First
<1>11. MemOf(p)'
  BY <1>4, <1>9, <1>10 DEF MemOf, ShareOK
<1>12. MemInv' /\ Others(p)
  BY <1>4, <1>7, <1>11, AllMem
<1> QED BY <1>9, <1>12 DEF Same, Others

\* fork()'s loop holds the parent's page in a local variable.
LEMMA ShareIncrMem ==
    ASSUME CowInv, TlbInv, MemInv, NEW p \in Proc, ShareIncr(p)
    PROVE  MemInv' /\ Same
<1>1. /\ Alive(p) /\ pc[p] = "share" /\ UNCHANGED <<sz, state, loc, data>>
      /\ pc' = [pc EXCEPT ![p] = "map"] /\ loc[p].va < sz[p]
      /\ ptr' = [ptr EXCEPT ![Local(p)] = ptr[Own(p, loc[p].va)]]
      /\ state[p] = "RUNNABLE" /\ loc[p].ret # "halt"
  BY InKernel DEF ShareIncr, procVars, Own, Alive
<1>2. /\ pc'[p] = "map" /\ \A q \in Proc : q # p => Kept(q)
  BY <1>1, InvTypes DEF Kept
<1>3. /\ Limit(p) = sz[p] /\ loc[p].va \in 0 .. sz[p] /\ sz[p] \in 1 .. MaxVa
      /\ ShareOK(p)
      /\ \A va \in 0 .. sz[p] - 1 : va \in Va /\ Own(p, va) \in Loc
  BY <1>1, Held DEF ShareOK, Limit
<1>4. /\ Local(p) \in Loc /\ ptr'[Local(p)] = ptr[Own(p, loc[p].va)]
      /\ \A l \in Loc : l # Local(p) => ptr'[l] = ptr[l]
  BY <1>1, LocFacts, InvCovers DEF Pointers
<1>5. /\ ptr'[Pgdir(p)] = ptr[Pgdir(p)] /\ ptr'[Dir(p)] = ptr[Dir(p)]
      /\ \A va \in 0 .. sz[p] - 1 : ptr'[Own(p, va)] = ptr[Own(p, va)]
  BY <1>3, <1>4, LocFacts DEF Own
<1>6. Local(p) \in Mine(p) /\ DataExcept(Local(p)) /\ WritesMine(p)
  BY <1>1, MineHas, SameData, ShareIncrTlb
<1>7. Limit(p)' = Limit(p)
  BY <1>1, <1>2 DEF Limit
<1>8. MappedOK(p)' /\ Mem(p)' = Mem(p)
  BY <1>1, <1>2, <1>3, <1>5, <1>7, OwnSame
<1>9. ShareOK(p)'
  <2>1. /\ \A va : Childs(p, va)' = Childs(p, va) /\ Own(p, va)' = Own(p, va)
    BY <1>5 DEF Childs, Own
  <2>2. ASSUME NEW va \in 0 .. loc[p].va - 1
        PROVE  ptr'[Childs(p, va)] = ptr'[Own(p, va)]
    <3>1. va \in 0 .. sz[p] - 1
      BY <1>3
    <3>2. Childs(p, va) \in Loc /\ Childs(p, va) # Local(p)
      BY <1>1, <1>3, <3>1, MineHas, LocFacts DEF Childs, CowInv, DirsPresent
    <3> QED BY <1>1, <1>3, <1>4, <1>5, <3>1, <3>2 DEF ShareOK
  <2>3. ptr'[Local(p)] = ptr'[Own(p, loc[p].va)]
    BY <1>1, <1>3, <1>4, <1>5
  <2> QED BY <1>1, <1>2, <1>3, <2>1, <2>2, <2>3 DEF ShareOK
<1>10. MemOf(p)'
  BY <1>2, <1>8, <1>9 DEF MemOf, GrowOK
<1>11. MemInv' /\ Others(p)
  BY <1>2, <1>6, <1>10, AllMem
<1> QED BY <1>8, <1>11 DEF Same, Others

\* mappages on the child's directory: one more page of the parent in it.
LEMMA ShareMapMem ==
    ASSUME CowInv, TlbInv, MemInv, NEW p \in Proc, ShareMap(p)
    PROVE  MemInv' /\ Same
<1>0. PICK d, va, pte : d = ptr[Dir(p)] /\ va = loc[p].va /\ pte = Pte(d, va)
  OBVIOUS
<1>1. /\ Alive(p) /\ pc[p] = "map" /\ UNCHANGED <<sz, state, data>>
      /\ va \in Va /\ d # NoPage /\ state[p] = "RUNNABLE" /\ loc[p].ret # "halt"
  BY <1>0, InKernel DEF ShareMap, procVars, CowInv, ReturnsMatch, DirsPresent, Alive
<1>2. /\ Local(p) \in Loc /\ Dir(p) \in Loc /\ Ptab(d) \in Loc /\ pte \in Loc
      /\ pte # Local(p) /\ pte # Ptab(d) /\ Ptab(d) # Local(p)
      /\ Dir(p) # Local(p) /\ Dir(p) # pte /\ Dir(p) # Ptab(d)
  BY <1>0, <1>1, MineHas, LocFacts
<1>3. /\ Limit(p) = sz[p] /\ va \in 0 .. sz[p] - 1 /\ sz[p] \in 1 .. MaxVa
      /\ ptr[Local(p)] = ptr[Own(p, va)]
      /\ \A vb \in 0 .. va - 1 : ptr[Childs(p, vb)] = ptr[Own(p, vb)]
      /\ \A vb \in 0 .. sz[p] - 1 : vb \in Va /\ Own(p, vb) \in Loc
  BY <1>0, <1>1, Held DEF ShareOK, Limit
<1>4. /\ Pgdir(p) \notin {pte, Local(p), Ptab(d)} /\ Pgdir(p) \in Loc
      /\ \A vb \in 0 .. sz[p] - 1 : Own(p, vb) \notin {pte, Local(p), Ptab(d)}
  BY <1>0, <1>1, <1>3, OwnApart, LocFacts
<1>5. Local(p) \in Mine(p) /\ DataExcept(Local(p)) /\ WritesMine(p)
  BY <1>1, MineHas, SameData, ShareMapTlb
<1>6. CASE /\ pc' = [pc EXCEPT ![p] = "share"]
           /\ loc' = [loc EXCEPT ![p].va = @ + 1]
           /\ \/ ptr' = [ptr EXCEPT ![pte] = ptr[Local(p)], ![Local(p)] = NoPage]
              \/ \E pg \in Page :
                   ptr' = [ptr EXCEPT ![pte] = ptr[Local(p)],
                                      ![Local(p)] = NoPage,
                                      ![Ptab(d)] = pg]
  <2>1. /\ pc'[p] = "share" /\ loc'[p].va = va + 1 /\ loc'[p].ret # "halt"
        /\ \A q \in Proc : q # p => Kept(q)
    BY <1>0, <1>1, <1>6, InvTypes DEF LocRecord, Kept
  <2>2. /\ ptr'[pte] = ptr[Local(p)]
        /\ \A l \in Loc : l \notin {pte, Local(p), Ptab(d)} => ptr'[l] = ptr[l]
    BY <1>2, <1>6, InvCovers DEF Pointers
  <2>3. /\ ptr'[Pgdir(p)] = ptr[Pgdir(p)] /\ ptr'[Dir(p)] = d
        /\ \A vb \in 0 .. sz[p] - 1 : ptr'[Own(p, vb)] = ptr[Own(p, vb)]
    BY <1>0, <1>2, <1>3, <1>4, <2>2
  <2>4. Limit(p)' = Limit(p)
    BY <1>1, <2>1 DEF Limit
  <2>5. MappedOK(p)' /\ Mem(p)' = Mem(p)
    BY <1>1, <1>3, <2>1, <2>3, <2>4, OwnSame
  <2>6. ASSUME NEW vb \in 0 .. va
        PROVE  ptr'[Childs(p, vb)] = ptr'[Own(p, vb)]
    <3>1. vb \in 0 .. sz[p] - 1
      BY <1>3
    <3>2. CASE vb = va
      BY <1>0, <1>3, <2>2, <2>3, <3>2 DEF Childs
    <3>3. CASE vb # va
      <4>1. vb \in 0 .. va - 1
        BY <1>3, <3>3
      <4>2. Childs(p, vb) \in Loc /\ Childs(p, vb) \notin {pte, Local(p), Ptab(d)}
        BY <1>0, <1>1, <1>3, <3>1, <3>3, MineHas, LocFacts DEF Childs
      <4> QED BY <1>3, <2>2, <2>3, <3>1, <4>1, <4>2
    <3> QED BY <3>2, <3>3
  <2>7. \A vb : Childs(p, vb)' = Childs(p, vb) /\ Own(p, vb)' = Own(p, vb)
    BY <1>0, <2>3 DEF Childs, Own
  <2>8. ShareOK(p)'
    BY <1>1, <1>3, <2>1, <2>6, <2>7 DEF ShareOK
  <2>9. MemOf(p)'
    BY <2>1, <2>5, <2>8 DEF MemOf, GrowOK
  <2>10. MemInv' /\ Others(p)
    BY <1>5, <2>1, <2>9, AllMem
  <2> QED BY <2>5, <2>10 DEF Same, Others
<1>7. CASE /\ ptr' = [ptr EXCEPT ![Local(p)] = NoPage]
           /\ loc' = [loc EXCEPT ![p].ret = "unfork"]
           /\ pc' = [pc EXCEPT ![p] = "freevm"]
  <2>1. /\ pc'[p] = "freevm" /\ loc'[p].ret # "halt"
        /\ \A q \in Proc : q # p => Kept(q)
    BY <1>1, <1>7, InvTypes DEF LocRecord, Kept
  <2>2. \A l \in Loc : l # Local(p) => ptr'[l] = ptr[l]
    BY <1>7, InvCovers DEF Pointers
  <2>3. /\ ptr'[Pgdir(p)] = ptr[Pgdir(p)]
        /\ \A vb \in 0 .. sz[p] - 1 : ptr'[Own(p, vb)] = ptr[Own(p, vb)]
    BY <1>3, <1>4, <2>2
  <2>4. Limit(p)' = Limit(p)
    BY <1>1, <2>1 DEF Limit
  <2> QED BY <1>1, <1>3, <1>4, <1>5, <2>1, <2>3, <2>4, PlainStep
<1> QED BY <1>0, <1>6, <1>7 DEF ShareMap

\* fork() hands the child the memory of the parent as it is.
LEMMA ForkDoneMem ==
    ASSUME CowInv, TlbInv, MemInv, NEW p \in Proc, ForkDone(p)
    PROVE  /\ MemInv' /\ Alive(p)
           /\ \E c \in Proc : /\ c # p /\ ~Alive(c) /\ Mem(c)' = Mem(p)
                              /\ \A q \in Proc : q # c => Mem(q)' = Mem(q)
<1>0. PICK c : c = loc[p].child
  OBVIOUS
<1>1. /\ Alive(p) /\ pc[p] = "share" /\ c \in Proc /\ state[c] = "EMBRYO" /\ c # p
      /\ loc[p].va = sz[p] /\ state[p] = "RUNNABLE" /\ ptr[Dir(p)] # NoPage
  BY <1>0, InKernel
     DEF ForkDone, CowInv, SlotsOwned, DirsPresent, Forking, Alive
<1>2. /\ ptr' = [ptr EXCEPT ![Pgdir(c)] = ptr[Dir(p)], ![Dir(p)] = NoPage]
      /\ sz' = [sz EXCEPT ![c] = sz[p]]
      /\ state' = [state EXCEPT ![c] = "RUNNABLE"]
      /\ pc' = [pc EXCEPT ![c] = "user", ![p] = "user"]
      /\ loc' = [loc EXCEPT ![p] = NoLoc] /\ data' = data
  BY <1>0 DEF ForkDone, memVars
<1>3. /\ pc'[p] = "user" /\ pc'[c] = "user" /\ sz'[c] = sz[p] /\ sz'[p] = sz[p]
      /\ state'[c] = "RUNNABLE" /\ state'[p] = "RUNNABLE" /\ loc'[p] = NoLoc
      /\ loc'[c] = loc[c]
      /\ \A q \in Proc : q # p /\ q # c => Kept(q)
  BY <1>1, <1>2, InvTypes DEF Kept
<1>4. /\ Dir(p) \in Loc /\ Pgdir(c) \in Loc /\ Pgdir(p) \in Loc
      /\ Dir(p) # Pgdir(c) /\ Pgdir(p) # Pgdir(c) /\ Pgdir(p) # Dir(p)
      /\ \A d, va : Pte(d, va) # Dir(p) /\ Pte(d, va) # Pgdir(c)
  BY <1>1, LocFacts
<1>5. /\ ptr'[Pgdir(c)] = ptr[Dir(p)] /\ ptr'[Pgdir(p)] = ptr[Pgdir(p)]
      /\ \A l \in Loc : l \notin {Pgdir(c), Dir(p)} => ptr'[l] = ptr[l]
  BY <1>2, <1>4, InvCovers DEF Pointers
<1>6. /\ Limit(p) = sz[p] /\ sz[p] \in 1 .. MaxVa
      /\ \A va \in 0 .. sz[p] - 1 : /\ va \in Va /\ ptr[Own(p, va)] \in Page
                                    /\ Own(p, va) \in Loc
                                    /\ ptr[Childs(p, va)] = ptr[Own(p, va)]
  BY <1>1, Held DEF ShareOK, Limit
<1>7. \A va \in 0 .. sz[p] - 1 : /\ ptr'[Own(p, va)] = ptr[Own(p, va)]
                                 /\ Childs(p, va) \in Loc
                                 /\ ptr'[Childs(p, va)] = ptr[Own(p, va)]
  <2> SUFFICES ASSUME NEW va \in 0 .. sz[p] - 1
               PROVE  /\ ptr'[Own(p, va)] = ptr[Own(p, va)]
                      /\ Childs(p, va) \in Loc
                      /\ ptr'[Childs(p, va)] = ptr[Own(p, va)]
    OBVIOUS
  <2>1. Childs(p, va) \in Loc
    BY <1>1, <1>6, MineHas DEF Childs
  <2>2. Childs(p, va) \notin {Pgdir(c), Dir(p)} /\ Own(p, va) \notin {Pgdir(c), Dir(p)}
    BY <1>4 DEF Childs, Own
  <2> QED BY <1>5, <1>6, <2>1, <2>2
<1>8. Limit(p)' = sz[p] /\ Limit(c)' = sz[p] /\ loc[c].ret # "halt" /\ loc[c].va = 0
  <2>1. pc[c] \in {"none", "zombie"}
    BY <1>1, IdleSlot
  <2>2. MappedOK(c)
    BY <1>1 DEF MemInv, MemOf
  <2> QED BY <1>1, <1>3, <2>1, <2>2 DEF Limit, MappedOK, CowInv, ReturnsMatch
<1>9. Alive(p)' /\ Alive(c)'
  BY <1>3, <1>8 DEF Alive
<1>10. \A va : Own(p, va)' = Own(p, va) /\ Own(c, va)' = Childs(p, va)
  BY <1>5 DEF Own, Childs
<1>11. MappedOK(p)' /\ MappedOK(c)'
  BY <1>3, <1>6, <1>7, <1>8, <1>9, <1>10 DEF MappedOK
<1>12. MemOf(p)' /\ MemOf(c)'
  BY <1>3, <1>11 DEF MemOf, ShareOK, GrowOK
<1>13. /\ Mem(p) = [va \in 0 .. sz[p] - 1 |-> data[ptr[Own(p, va)]]]
       /\ Mem(p)' = [va \in 0 .. sz[p] - 1 |-> data'[ptr'[Own(p, va)]]]
       /\ Mem(c)' = [va \in 0 .. sz[p] - 1 |-> data'[ptr'[Childs(p, va)]]]
  BY <1>1, <1>6, <1>8, <1>9, <1>10 DEF Mem
<1>14. Mem(p)' = Mem(p) /\ Mem(c)' = Mem(p)
  <2>1. \A va \in 0 .. sz[p] - 1 : /\ data'[ptr'[Own(p, va)]] = data[ptr[Own(p, va)]]
                                   /\ data'[ptr'[Childs(p, va)]] = data[ptr[Own(p, va)]]
    BY <1>2, <1>7
  <2>2. Mem(p)' = Mem(p)
    BY <1>13, <2>1, Zenon
  <2>3. Mem(c)' = Mem(p)
    BY <1>13, <2>1, Zenon
  <2> QED BY <2>2, <2>3
<1>15. Local(p) \in Mine(p) /\ DataExcept(Local(p)) /\ WritesMine(p)
  BY <1>2, MineHas, SameData, ForkDoneTlb
<1>16. ASSUME NEW q \in Proc, q # p, q # c
       PROVE  MemOf(q)' /\ Mem(q)' = Mem(q)
  BY <1>3, <1>15, <1>16, OtherMem DEF MemInv
<1> QED BY <1>1, <1>12, <1>14, <1>16 DEF MemInv, Alive

\* A failed fork frees the child's kernel stack.
LEMMA ForkUndoMem ==
    ASSUME CowInv, TlbInv, MemInv, NEW p \in Proc, ForkUndo(p)
    PROVE  MemInv' /\ Same
<1>0. PICK c : c = loc[p].child
  OBVIOUS
<1>1. /\ Alive(p) /\ pc[p] = "unfork" /\ sz' = sz
      /\ c \in Proc /\ state[c] = "EMBRYO" /\ c # p /\ state[p] = "RUNNABLE"
      /\ Kfree(ptr[Kstack(c)]) /\ ptr' = [ptr EXCEPT ![Kstack(c)] = NoPage]
      /\ state' = [state EXCEPT ![c] = "UNUSED"]
      /\ pc' = [pc EXCEPT ![p] = "user"] /\ loc' = [loc EXCEPT ![p] = NoLoc]
  BY <1>0, InKernel DEF ForkUndo, CowInv, SlotsOwned, Forking, Alive
<1>2. /\ pc'[p] = "user" /\ state'[p] = "RUNNABLE" /\ pc'[c] = pc[c]
      /\ state'[c] # "RUNNABLE" /\ loc'[c] = loc[c] /\ loc'[p] = NoLoc
      /\ \A q \in Proc : q # p /\ q # c => Kept(q)
  BY <1>1, InvTypes DEF Kept
<1>3. /\ ptr'[Pgdir(p)] = ptr[Pgdir(p)]
      /\ \A va \in 0 .. Limit(p) - 1 :
           ptr'[Own(p, va)] = ptr[Own(p, va)] /\ Kstack(c) # Own(p, va)
  BY <1>1, Held, LocFacts, InvCovers DEF Pointers, Own
<1>4. Kstack(c) \in Mine(p) /\ DataExcept(Kstack(c)) /\ WritesMine(p)
  BY <1>1, MineHas, KfreeData, ForkUndoTlb
<1>5. Limit(p)' = Limit(p) /\ pc[c] \in {"none", "zombie"}
  BY <1>1, <1>2, IdleSlot DEF Limit
<1> QED BY <1>1, <1>2, <1>3, <1>4, <1>5, PlainStep

\* A step of freevm frees one page of a directory p does not run on, or p has
\* no memory any more.
LEMMA FreevmStepMem ==
    ASSUME CowInv, MemInv, NEW p \in Proc, pc[p] = "freevm", NEW x \in Loc,
           ptr' = [ptr EXCEPT ![x] = NoPage], ptr[Dir(p)] # NoPage,
           \/ x = Dir(p) \/ x = Ptab(ptr[Dir(p)])
           \/ \E va \in Va : x = Pte(ptr[Dir(p)], va),
           Kfree(ptr[x]), WritesMine(p), UNCHANGED <<sz, state>>,
           \/ pc'[p] = "freevm" /\ loc'[p] = loc[p]
           \/ pc'[p] = "user" /\ loc'[p] = NoLoc /\ loc[p].ret # "halt"
           \/ pc'[p] \in {"unfork", "reaped"} /\ loc'[p] = loc[p]
           \/ pc'[p] = "halt" /\ loc'[p] = loc[p] /\ loc[p].ret = "halt",
           \A q \in Proc : q # p => Kept(q)
    PROVE  MemInv' /\ Same
<1>1. state[p] = "RUNNABLE"
  BY DEF CowInv, SlotsOwned
<1>2. \A l \in Loc : l # x => ptr'[l] = ptr[l]
  BY InvCovers DEF Pointers
<1>3. x \in Mine(p) /\ DataExcept(x)
  BY MineHas, KfreeData
<1>4. Pgdir(p) # x /\ Pgdir(p) \in Loc
  BY LocFacts
<1>5. CASE Alive(p)
  <2>1. \A va \in 0 .. Limit(p) - 1 : Own(p, va) # x /\ Own(p, va) \in Loc
    <3> SUFFICES ASSUME NEW va \in 0 .. Limit(p) - 1
                 PROVE  Own(p, va) # x /\ Own(p, va) \in Loc
      OBVIOUS
    <3>1. va \in Va
      BY <1>5, Held
    <3> QED BY <3>1, <1>5, OwnApart
  <2>2. Limit(p)' = Limit(p) /\ loc'[p].ret # "halt"
    BY <1>5 DEF Limit, Alive
  <2> QED BY <1>1, <1>2, <1>3, <1>4, <1>5, <2>1, <2>2, PlainStep
<1>6. CASE ~Alive(p)
  <2>1. loc[p].ret = "halt" /\ ptr[Pgdir(p)] = NoPage
    BY <1>1, <1>6 DEF Alive, MemInv, MemOf, MappedOK
  <2>3. ptr'[Pgdir(p)] = NoPage /\ loc'[p].ret = "halt"
    BY <2>1, <1>2, <1>4
  <2>4. pc'[p] \in {"freevm", "halt", "unfork", "reaped"}
    BY <2>1
  <2>5. MemOf(p)' /\ Mem(p)' = Mem(p)
    BY <1>1, <2>1, <2>3, <2>4
       DEF MemOf, MappedOK, ShareOK, GrowOK, Mem, Alive
  <2>6. MemInv' /\ Others(p)
    BY <1>3, <2>5, AllMem
  <2> QED BY <2>5, <2>6 DEF Same, Others
<1> QED BY <1>5, <1>6

\* freevm frees a page of the user half, its table, and the directory.
LEMMA FreevmMem ==
    ASSUME CowInv, TlbInv, MemInv, NEW p \in Proc,
           FreevmPage(p) \/ FreevmTable(p) \/ FreevmDir(p)
    PROVE  MemInv' /\ Same
<1>1. /\ pc[p] = "freevm" /\ ptr[Dir(p)] # NoPage /\ UNCHANGED <<state, sz>>
      /\ WritesMine(p)
  BY FreevmTlb DEF FreevmPage, FreevmTable, FreevmDir, InFreevm, procVars
<1>2. CASE FreevmPage(p)
  <2>1. UNCHANGED <<pc, loc>>
    BY <1>2 DEF FreevmPage
  <2>2. PICK va \in Va : /\ Kfree(ptr[Pte(ptr[Dir(p)], va)])
                         /\ ptr' = [ptr EXCEPT ![Pte(ptr[Dir(p)], va)] = NoPage]
    BY <1>2 DEF FreevmPage, Mapped
  <2>3. \A q \in Proc : Kept(q)
    BY <1>1, <2>1 DEF Kept
  <2> QED BY <1>1, <2>1, <2>2, <2>3, MineHas, FreevmStepMem
<1>3. CASE FreevmTable(p)
  <2>1. /\ UNCHANGED <<pc, loc>> /\ Kfree(ptr[Ptab(ptr[Dir(p)])])
        /\ ptr' = [ptr EXCEPT ![Ptab(ptr[Dir(p)])] = NoPage]
    BY <1>3 DEF FreevmTable
  <2>2. \A q \in Proc : Kept(q)
    BY <1>1, <2>1 DEF Kept
  <2> QED BY <1>1, <2>1, <2>2, MineHas, FreevmStepMem
<1>4. CASE FreevmDir(p)
  <2>1. /\ Kfree(ptr[Dir(p)]) /\ ptr' = [ptr EXCEPT ![Dir(p)] = NoPage]
        /\ pc' = [pc EXCEPT ![p] = loc[p].ret]
        /\ loc' = IF loc[p].ret = "user" THEN [loc EXCEPT ![p] = NoLoc] ELSE loc
    BY <1>4 DEF FreevmDir
  <2>2. loc[p].ret \in {"user", "unfork", "reaped", "halt"}
    BY <1>1 DEF CowInv, ReturnsMatch
  <2>3. /\ pc'[p] = loc[p].ret
        /\ loc'[p] = IF loc[p].ret = "user" THEN NoLoc ELSE loc[p]
        /\ \A q \in Proc : q # p => Kept(q)
    BY <1>1, <2>1, InvTypes DEF Kept
  <2> QED BY <1>1, <2>1, <2>2, <2>3, MineHas, FreevmStepMem
<1> QED BY <1>2, <1>3, <1>4

\* wait() takes the zombie's directory over.
LEMMA WaitReapMem ==
    ASSUME CowInv, TlbInv, MemInv, NEW p \in Proc, WaitReap(p)
    PROVE  MemInv' /\ Same
<1>1. PICK c \in Proc :
        /\ state[c] = "ZOMBIE" /\ Kfree(ptr[Kstack(c)])
        /\ ptr' = [ptr EXCEPT ![Kstack(c)] = NoPage, ![Dir(p)] = ptr[Pgdir(c)],
                              ![Pgdir(c)] = NoPage]
        /\ loc' = [loc EXCEPT ![p] = [@ EXCEPT !.child = c, !.ret = "reaped"]]
  BY DEF WaitReap
<1>2. /\ InUser(p) /\ UNCHANGED <<sz, state>> /\ pc' = [pc EXCEPT ![p] = "freevm"]
  BY DEF WaitReap, EnterKernel, procVars
<1>3. /\ Alive(p) /\ pc[p] = "user" /\ state[p] = "RUNNABLE"
  BY <1>2, UserMem
<1>4. c # p
  BY <1>1, <1>3
<1>5. /\ pc'[p] = "freevm" /\ loc'[p].ret = "reaped"
      /\ \A q \in Proc : q # p => Kept(q)
  BY <1>1, <1>2, InvTypes DEF Kept, LocRecord
<1>6. \A l \in Loc : l \notin {Kstack(c), Dir(p), Pgdir(c)} => ptr'[l] = ptr[l]
  BY <1>1, InvCovers DEF Pointers
<1>7. /\ ptr'[Pgdir(p)] = ptr[Pgdir(p)]
      /\ \A va \in 0 .. Limit(p) - 1 :
           ptr'[Own(p, va)] = ptr[Own(p, va)] /\ Kstack(c) # Own(p, va)
  BY <1>3, <1>4, <1>6, Held, LocFacts DEF Own
<1>8. Kstack(c) \in Mine(p) /\ DataExcept(Kstack(c)) /\ WritesMine(p)
  BY <1>1, MineHas, KfreeData, WaitReapTlb
<1>9. Limit(p)' = Limit(p)
  BY <1>2, <1>3, <1>5 DEF Limit
<1> QED BY <1>2, <1>3, <1>5, <1>7, <1>8, <1>9, PlainStep

\* exec() commits: the new memory is zero.
LEMMA ExecCommitMem ==
    ASSUME CowInv, TlbInv, MemInv, NEW p \in Proc, ExecCommit(p)
    PROVE  /\ MemInv' /\ Others(p) /\ Alive(p)
           /\ \E n \in 1 .. MaxVa : Mem(p)' = [a \in 0 .. n - 1 |-> Zero]
<1>1. /\ pc[p] = "grow" /\ loc[p].va = loc[p].to /\ loc[p].ret = "exec"
      /\ ptr' = [ptr EXCEPT ![Pgdir(p)] = ptr[Dir(p)], ![Dir(p)] = ptr[Pgdir(p)]]
      /\ sz' = [sz EXCEPT ![p] = loc[p].to] /\ UNCHANGED <<state, data>>
      /\ loc' = [loc EXCEPT ![p].ret = "user"]
      /\ pc' = [pc EXCEPT ![p] = "freevm"]
  BY DEF ExecCommit, memVars
<1>2. Alive(p) /\ state[p] = "RUNNABLE" /\ ptr[Dir(p)] # NoPage
  BY <1>1, InKernel DEF Alive, CowInv, DirsPresent
<1>3. /\ pc'[p] = "freevm" /\ loc'[p].ret = "user" /\ sz'[p] = loc[p].to
      /\ \A q \in Proc : q # p => Kept(q)
  BY <1>1, InvTypes DEF Kept, LocRecord
<1>4. /\ loc[p].to \in 1 .. MaxVa
      /\ \A va \in 0 .. loc[p].to - 1 :
           ptr[Childs(p, va)] \in Page /\ data[ptr[Childs(p, va)]] = Zero
  BY <1>1, <1>2, Held DEF GrowOK, First, Target, Childs
<1>5. /\ ptr'[Pgdir(p)] = ptr[Dir(p)]
      /\ \A l \in Loc : l \notin {Pgdir(p), Dir(p)} => ptr'[l] = ptr[l]
  BY <1>1, LocFacts, InvCovers DEF Pointers
<1>6. \A va \in 0 .. loc[p].to - 1 : ptr'[Childs(p, va)] = ptr[Childs(p, va)]
  <2> SUFFICES ASSUME NEW va \in 0 .. loc[p].to - 1
               PROVE  ptr'[Childs(p, va)] = ptr[Childs(p, va)]
    OBVIOUS
  <2>1. va \in Va
    BY <1>4, CowAssumption DEF Va
  <2>2. Childs(p, va) \in Loc /\ Childs(p, va) \notin {Pgdir(p), Dir(p)}
    BY <1>2, <2>1, MineHas, LocFacts DEF Childs
  <2> QED BY <1>5, <2>2
<1>7. /\ Limit(p)' = loc[p].to /\ Alive(p)' /\ \A va : Own(p, va)' = Childs(p, va)
  BY <1>1, <1>2, <1>3, <1>5 DEF Limit, Alive, Own, Childs
<1>8. MappedOK(p)'
  BY <1>3, <1>4, <1>6, <1>7 DEF MappedOK
<1>9. MemOf(p)'
  BY <1>3, <1>8 DEF MemOf, ShareOK, GrowOK
<1>10. Mem(p)' = [va \in 0 .. loc[p].to - 1 |-> data'[ptr'[Childs(p, va)]]]
  BY <1>7 DEF Mem
<1>11. Mem(p)' = [va \in 0 .. loc[p].to - 1 |-> Zero]
  BY <1>1, <1>4, <1>6, <1>10
<1>12. Local(p) \in Mine(p) /\ DataExcept(Local(p)) /\ WritesMine(p)
  BY <1>1, MineHas, SameData, ExecCommitTlb
<1>13. MemInv' /\ Others(p)
  BY <1>3, <1>9, <1>12, AllMem
<1> QED BY <1>2, <1>4, <1>11, <1>13

\* Cow_handler maps the copy in the place of the page it copied.
LEMMA CowRemapMem ==
    ASSUME CowInv, TlbInv, MemInv, NEW p \in Proc, CowRemap(p)
    PROVE  MemInv' /\ Same
<1>0. PICK va, pte : va = loc[p].va /\ pte = Own(p, va)
  OBVIOUS
<1>1. /\ pc[p] = "remap" /\ UNCHANGED <<sz, state, loc>>
      /\ data' = [data EXCEPT ![ptr[Local(p)]] = data[ptr[pte]]]
      /\ ptr' = [ptr EXCEPT ![pte] = ptr[Local(p)], ![Local(p)] = ptr[pte]]
      /\ pc' = [pc EXCEPT ![p] = "release"]
  BY <1>0 DEF CowRemap, procVars, Own
<1>2. /\ Alive(p) /\ state[p] = "RUNNABLE" /\ va \in Va /\ ptr[pte] \in Page
      /\ pte \in Loc
  BY <1>0, <1>1, CowPtePresent DEF Alive, Own, CowPte
<1>3. /\ pc'[p] = "release" /\ loc'[p].ret # "halt"
      /\ \A q \in Proc : q # p => Kept(q)
  BY <1>1, <1>2, InvTypes DEF Kept, Alive
<1>4. /\ Local(p) \in Loc /\ ptr[Local(p)] \in Page
      /\ \A k \in Loc : ptr[k] = ptr[Local(p)] => k = Local(p)
  <2>1. Local(p) \in Loc /\ ptr[Local(p)] \in Page /\ refc[ptr[Local(p)]] = 1
    BY <1>1, LocFacts, InvCovers
       DEF CowInv, KernelPagesUnshared, FreshLoc, Pointers, PageOrNull
  <2> QED BY <2>1, Unique
<1>5. DataExcept(Local(p)) /\ Local(p) \in Mine(p) /\ WritesMine(p)
  BY <1>1, <1>4, MineHas, OneWritten, CowRemapTlb
<1>6. /\ pte # Local(p) /\ Pgdir(p) \notin {pte, Local(p)} /\ Pgdir(p) \in Loc
      /\ \A vb \in Va : Own(p, vb) # Local(p) /\ (vb # va => Own(p, vb) # pte)
  BY <1>0, <1>1, LocFacts DEF Own
<1>7. /\ ptr'[pte] = ptr[Local(p)]
      /\ \A l \in Loc : l \notin {pte, Local(p)} => ptr'[l] = ptr[l]
  BY <1>1, <1>2, <1>4, <1>6, InvCovers DEF Pointers
<1>8. /\ Limit(p) \in 1 .. MaxVa
      /\ \A vb \in 0 .. Limit(p) - 1 :
           vb \in Va /\ ptr[Own(p, vb)] \in Page /\ Own(p, vb) \in Loc
  BY <1>2, Held
<1>9. \A vb \in 0 .. Limit(p) - 1 :
        ptr'[Own(p, vb)] \in Page /\ data'[ptr'[Own(p, vb)]] = data[ptr[Own(p, vb)]]
  <2> SUFFICES ASSUME NEW vb \in 0 .. Limit(p) - 1
               PROVE  /\ ptr'[Own(p, vb)] \in Page
                      /\ data'[ptr'[Own(p, vb)]] = data[ptr[Own(p, vb)]]
    OBVIOUS
  <2>1. CASE vb = va
    <3>1. data'[ptr[Local(p)]] = data[ptr[pte]]
      BY <1>1, <1>4 DEF CowInv, TypeOK
    <3> QED BY <1>0, <1>4, <1>7, <2>1, <3>1
  <2>2. CASE vb # va
    BY <1>5, <1>6, <1>7, <1>8, <2>2 DEF DataExcept
  <2> QED BY <2>1, <2>2
<1>10. /\ Limit(p)' = Limit(p) /\ Alive(p)' /\ \A vb : Own(p, vb)' = Own(p, vb)
  BY <1>1, <1>2, <1>3, <1>6, <1>7 DEF Limit, Alive, Own
<1>11. MappedOK(p)'
  BY <1>3, <1>8, <1>9, <1>10 DEF MappedOK
<1>12. MemOf(p)'
  BY <1>3, <1>11 DEF MemOf, ShareOK, GrowOK
<1>13. /\ Mem(p) = [vb \in 0 .. Limit(p) - 1 |-> data[ptr[Own(p, vb)]]]
       /\ Mem(p)' = [vb \in 0 .. Limit(p) - 1 |-> data'[ptr'[Own(p, vb)]]]
  BY <1>2, <1>10 DEF Mem
<1>14. Mem(p)' = Mem(p)
  BY <1>9, <1>13
<1>15. MemInv' /\ Others(p)
  BY <1>3, <1>5, <1>12, AllMem
<1> QED BY <1>14, <1>15 DEF Same, Others

\* Cow_handler drops its reference to the page that was shared.
LEMMA CowReleaseMem ==
    ASSUME CowInv, TlbInv, MemInv, NEW p \in Proc, CowRelease(p)
    PROVE  MemInv' /\ Same
<1>1. /\ pc[p] = "release" /\ UNCHANGED <<sz, state>> /\ Kfree(ptr[Local(p)])
      /\ ptr' = [ptr EXCEPT ![Local(p)] = NoPage]
      /\ pc' = [pc EXCEPT ![p] = "user"] /\ loc' = [loc EXCEPT ![p] = NoLoc]
  BY DEF CowRelease, procVars
<1>2. Alive(p) /\ state[p] = "RUNNABLE"
  BY <1>1, InKernel DEF Alive
<1>3. /\ pc'[p] = "user" /\ loc'[p] = NoLoc
      /\ \A q \in Proc : q # p => Kept(q)
  BY <1>1, InvTypes DEF Kept
<1>4. /\ ptr'[Pgdir(p)] = ptr[Pgdir(p)]
      /\ \A va \in 0 .. Limit(p) - 1 :
           ptr'[Own(p, va)] = ptr[Own(p, va)] /\ Local(p) # Own(p, va)
  BY <1>1, <1>2, Held, LocFacts, InvCovers DEF Pointers, Own
<1>5. Local(p) \in Mine(p) /\ DataExcept(Local(p)) /\ WritesMine(p)
  BY <1>1, MineHas, KfreeData, CowReleaseTlb
<1>6. Limit(p)' = Limit(p)
  BY <1>1, <1>3 DEF Limit
<1> QED BY <1>1, <1>2, <1>3, <1>4, <1>5, <1>6, PlainStep

\* Cow_handler takes a page for the copy; without one the memory is lost.
LEMMA CowKallocMem ==
    ASSUME CowInv, TlbInv, MemInv, NEW p \in Proc, CowKalloc(p)
    PROVE  /\ MemInv' /\ Alive(p)
           /\ Same \/ (Others(p) /\ Mem(p)' = <<>>)
<1>1. /\ Alive(p) /\ pc[p] = "copy" /\ UNCHANGED <<sz, state, data>>
      /\ state[p] = "RUNNABLE" /\ loc[p].ret # "halt"
  BY InKernel DEF CowKalloc, procVars, Alive
<1>2. Local(p) \in Mine(p) /\ DataExcept(Local(p)) /\ WritesMine(p)
  BY <1>1, MineHas, SameData, CowKallocTlb
<1>3. CASE /\ \E pg \in Page : ptr' = [ptr EXCEPT ![Local(p)] = pg]
           /\ pc' = [pc EXCEPT ![p] = "remap"] /\ loc' = loc
  <2>1. pc'[p] = "remap" /\ \A q \in Proc : q # p => Kept(q)
    BY <1>1, <1>3, InvTypes DEF Kept
  <2>2. /\ ptr'[Pgdir(p)] = ptr[Pgdir(p)]
        /\ \A va \in 0 .. Limit(p) - 1 :
             ptr'[Own(p, va)] = ptr[Own(p, va)] /\ Local(p) # Own(p, va)
    BY <1>1, <1>3, Held, LocFacts, InvCovers DEF Pointers, Own
  <2>3. Limit(p)' = Limit(p)
    BY <1>1, <2>1 DEF Limit
  <2> QED BY <1>1, <1>2, <1>3, <2>1, <2>2, <2>3, PlainStep
<1>4. CASE /\ ptr' = [ptr EXCEPT ![Dir(p)] = ptr[Pgdir(p)], ![Pgdir(p)] = NoPage]
           /\ loc' = [loc EXCEPT ![p].ret = "halt"]
           /\ pc' = [pc EXCEPT ![p] = "freevm"]
  <2>1. /\ pc'[p] = "freevm" /\ loc'[p].ret = "halt"
        /\ \A q \in Proc : q # p => Kept(q)
    BY <1>1, <1>4, InvTypes DEF Kept, LocRecord
  <2>2. ptr'[Pgdir(p)] = NoPage
    BY <1>4, LocFacts, InvCovers DEF Pointers
  <2>3. MemOf(p)' /\ Mem(p)' = <<>>
    BY <2>1, <2>2 DEF MemOf, MappedOK, ShareOK, GrowOK, Mem, Alive
  <2> QED BY <1>1, <1>2, <2>1, <2>3, AllMem
<1> QED BY <1>1, <1>3, <1>4 DEF CowKalloc

\* deallocuvm frees a page above the limit.
LEMMA DeallocuvmPageMem ==
    ASSUME CowInv, TlbInv, MemInv, NEW p \in Proc, DeallocuvmPage(p)
    PROVE  MemInv' /\ Same
<1>1. /\ Alive(p) /\ pc[p] = "shrink" /\ UNCHANGED <<sz, state, pc, loc>>
      /\ state[p] = "RUNNABLE" /\ loc[p].ret # "halt"
  BY InKernel DEF DeallocuvmPage, procVars, Alive
<1>2. PICK va \in Va : /\ loc[p].to <= va /\ Kfree(ptr[Own(p, va)])
                       /\ ptr' = [ptr EXCEPT ![Own(p, va)] = NoPage]
  BY DEF DeallocuvmPage, Mapped, Own
<1>3. /\ Limit(p) = loc[p].to /\ loc[p].to \in 1 .. sz[p] /\ sz[p] \in 0 .. MaxVa
      /\ \A vb \in 0 .. Limit(p) - 1 : vb \in Va /\ Own(p, vb) \in Loc
  BY <1>1, Held, InvTypes DEF Limit, MappedOK
<1>4. /\ Own(p, va) \in Loc /\ Own(p, va) \in Mine(p) /\ ptr[Pgdir(p)] \in Page
      /\ Pgdir(p) \in Loc
  BY <1>1, MineHas, LiveDir, CowAssumption DEF Alive, Own
<1>5. /\ ptr'[Pgdir(p)] = ptr[Pgdir(p)]
      /\ \A vb \in 0 .. Limit(p) - 1 :
           ptr'[Own(p, vb)] = ptr[Own(p, vb)] /\ Own(p, va) # Own(p, vb)
  <2>1. Pgdir(p) # Own(p, va)
    BY LocFacts DEF Own
  <2>2. ASSUME NEW vb \in 0 .. Limit(p) - 1
        PROVE  Own(p, va) # Own(p, vb)
    <3>1. vb # va
      BY <1>2, <1>3 DEF Va
    <3> QED BY <3>1, LocFacts DEF Own
  <2> QED BY <1>2, <1>3, <1>4, <2>1, <2>2, InvCovers DEF Pointers
<1>6. DataExcept(Own(p, va)) /\ WritesMine(p)
  BY <1>2, <1>4, KfreeData, DeallocuvmPageTlb
<1>7. /\ pc'[p] = "shrink" /\ loc'[p].to \in 1 .. sz'[p] /\ Limit(p)' = Limit(p)
      /\ \A q \in Proc : Kept(q)
  BY <1>1, <1>3 DEF Limit, Kept
<1> QED BY <1>1, <1>4, <1>5, <1>6, <1>7, PlainStep

\* Where allocuvm stands.
LEMMA GrowHeld ==
    ASSUME CowInv, MemInv, NEW p \in Proc, pc[p] \in {"grow", "growmap"}
    PROVE  /\ Alive(p) /\ state[p] = "RUNNABLE" /\ loc[p].ret # "halt"
           /\ Limit(p) = sz[p] /\ sz[p] \in 1 .. MaxVa
           /\ loc[p].to \in 1 .. MaxVa /\ First(p) \in Nat
           /\ loc[p].va \in First(p) .. loc[p].to
           /\ Target(p) \in {ptr[Dir(p)], ptr[Pgdir(p)]} /\ Target(p) # NoPage
           /\ \A va \in First(p) .. loc[p].va - 1 :
                /\ va \in Va /\ Pte(Target(p), va) \in Loc
                /\ ptr[Pte(Target(p), va)] \in Page
                /\ data[ptr[Pte(Target(p), va)]] = Zero
           /\ \A va \in 0 .. sz[p] - 1 :
                va \in Va /\ Own(p, va) \in Loc /\ ptr[Own(p, va)] \in Page
<1>1. Alive(p) /\ GrowOK(p)
  BY InKernel, Held
<1>2. Limit(p) = sz[p] /\ sz[p] \in 1 .. MaxVa
      /\ \A va \in 0 .. sz[p] - 1 :
           va \in Va /\ Own(p, va) \in Loc /\ ptr[Own(p, va)] \in Page
  BY <1>1, Held DEF Limit
<1>3. /\ loc[p].to \in 1 .. MaxVa /\ First(p) \in Nat
      /\ loc[p].va \in First(p) .. loc[p].to
  BY <1>1, <1>2 DEF GrowOK, First
<1>4. Target(p) \in {ptr[Dir(p)], ptr[Pgdir(p)]} /\ Target(p) # NoPage
  BY <1>1, LiveDir, CowAssumption DEF Target, CowInv, DirsPresent, Alive
<1>5. ASSUME NEW va \in First(p) .. loc[p].va - 1
      PROVE  /\ va \in Va /\ Pte(Target(p), va) \in Loc
             /\ ptr[Pte(Target(p), va)] \in Page
             /\ data[ptr[Pte(Target(p), va)]] = Zero
  <2>1. va \in Va
    BY <1>3, CowAssumption DEF Va
  <2> QED BY <1>1, <1>4, <2>1, MineHas DEF GrowOK
<1> QED BY <1>1, <1>2, <1>3, <1>4, <1>5 DEF Alive

\* allocuvm takes a page and fills it with zeros, or gives up.
LEMMA AllocuvmPageMem ==
    ASSUME CowInv, TlbInv, MemInv, NEW p \in Proc, AllocuvmPage(p)
    PROVE  MemInv' /\ Same
<1>1. /\ pc[p] = "grow" /\ loc[p].va < loc[p].to /\ UNCHANGED <<sz, state>>
      /\ WritesMine(p) /\ Local(p) \in Mine(p)
  BY AllocuvmPageTlb, MineHas DEF AllocuvmPage, procVars
<1>2. ASSUME NEW pg \in Page, Kalloc(pg), data' = [data EXCEPT ![pg] = Zero],
             ptr' = [ptr EXCEPT ![Local(p)] = pg],
             pc' = [pc EXCEPT ![p] = "growmap"], loc' = loc
      PROVE  MemInv' /\ Same
  <2>1. pc'[p] = "growmap" /\ \A q \in Proc : q # p => Kept(q)
    BY <1>1, <1>2, InvTypes DEF Kept
  <2>2. /\ ptr'[Local(p)] = pg /\ data'[pg] = Zero
        /\ \A l \in Loc : l # Local(p) => ptr'[l] = ptr[l]
    BY <1>2, LocFacts, InvCovers DEF Pointers, CowInv, TypeOK
  <2>3. DataExcept(Local(p))
    BY <1>2, FreshData
  <2>4. /\ ptr'[Pgdir(p)] = ptr[Pgdir(p)] /\ ptr'[Dir(p)] = ptr[Dir(p)]
        /\ \A d, va : Pte(d, va) \in Loc => ptr'[Pte(d, va)] = ptr[Pte(d, va)]
        /\ \A d, va : Pte(d, va) \in Loc /\ ptr[Pte(d, va)] \in Page
             => data'[ptr[Pte(d, va)]] = data[ptr[Pte(d, va)]]
    BY <2>2, <2>3, LocFacts DEF DataExcept
  <2>5. Limit(p)' = Limit(p)
    BY <1>1, <2>1 DEF Limit
  <2>6. MappedOK(p)' /\ Mem(p)' = Mem(p)
    <3>1. \A va \in 0 .. Limit(p) - 1 :
            /\ ptr'[Own(p, va)] = ptr[Own(p, va)]
            /\ data'[ptr[Own(p, va)]] = data[ptr[Own(p, va)]]
      BY <1>1, <2>4, GrowHeld DEF Own
    <3> QED BY <1>1, <1>2, <2>1, <2>4, <2>5, <3>1, GrowHeld, OwnSame
  <2>7. GrowOK(p)'
    <3>1. Target(p)' = Target(p) /\ First(p)' = First(p)
      BY <1>1, <1>2, <2>4 DEF Target, First
    <3>2. \A va \in First(p) .. loc[p].va - 1 :
            /\ ptr'[Pte(Target(p), va)] \in Page
            /\ data'[ptr'[Pte(Target(p), va)]] = Zero
      BY <1>1, <2>4, GrowHeld
    <3> QED BY <1>1, <1>2, <2>1, <2>2, <3>1, <3>2, GrowHeld DEF GrowOK
  <2>8. MemOf(p)'
    BY <2>1, <2>6, <2>7 DEF MemOf, ShareOK
  <2>9. MemInv' /\ Others(p)
    BY <1>1, <2>1, <2>3, <2>8, AllMem
  <2> QED BY <2>6, <2>9 DEF Same, Others
<1>3. CASE /\ UNCHANGED <<ptr, data>> /\ loc' = [loc EXCEPT ![p].ret = "user"]
           /\ pc' = [pc EXCEPT ![p] = "freevm"]
  <2>1. /\ pc'[p] = "freevm" /\ loc'[p].ret = "user"
        /\ \A q \in Proc : q # p => Kept(q)
    BY <1>1, <1>3, InvTypes DEF Kept, LocRecord
  <2>2. Limit(p)' = Limit(p)
    BY <1>1, <2>1 DEF Limit
  <2> QED BY <1>1, <1>3, <2>1, <2>2, GrowHeld, QuietMem
<1>4. CASE /\ UNCHANGED <<ptr, data>> /\ pc' = [pc EXCEPT ![p] = "shrink"]
           /\ loc' = [loc EXCEPT ![p] = [@ EXCEPT !.to = sz[p], !.ret = "rollback"]]
  <2>1. /\ pc'[p] = "shrink" /\ loc'[p].ret = "rollback" /\ loc'[p].to = sz[p]
        /\ \A q \in Proc : q # p => Kept(q)
    BY <1>1, <1>4, InvTypes DEF Kept, LocRecord
  <2>2. Limit(p)' = Limit(p) /\ sz[p] \in 1 .. sz'[p]
    BY <1>1, <2>1, GrowHeld DEF Limit
  <2> QED BY <1>1, <1>4, <2>1, <2>2, GrowHeld, QuietMem
<1> QED BY <1>2, <1>3, <1>4 DEF AllocuvmPage

\* mappages of that page, or the end of exec() without a page for the table.
LEMMA AllocuvmMapMem ==
    ASSUME CowInv, TlbInv, MemInv, NEW p \in Proc, AllocuvmMap(p)
    PROVE  MemInv' /\ Same
<1>0. PICK d, va, pte : d = Target(p) /\ va = loc[p].va /\ pte = Pte(d, va)
  OBVIOUS
<1>1. /\ pc[p] = "growmap" /\ UNCHANGED <<sz, state>>
      /\ WritesMine(p) /\ Local(p) \in Mine(p) /\ Local(p) \in Loc
  BY AllocuvmMapTlb, MineHas DEF AllocuvmMap, procVars
<1>2. /\ va \in First(p) .. loc[p].to - 1 /\ va \in Va /\ data[ptr[Local(p)]] = Zero
      /\ loc[p].to \in 1 .. MaxVa /\ First(p) \in Nat
      /\ loc[p].ret = "exec" \/ va >= sz[p]
  BY <1>0, <1>1, GrowHeld, Held, CowAssumption DEF GrowOK, First, Va
<1>3. ptr[Local(p)] \in Page
  BY <1>1, InvCovers
     DEF CowInv, KernelPagesUnshared, FreshLoc, Pointers, PageOrNull
<1>4. /\ Ptab(d) \in Loc /\ pte \in Loc
      /\ pte # Local(p) /\ pte # Ptab(d) /\ Ptab(d) # Local(p)
      /\ \A x \in {Pgdir(p), Dir(p)} : x \in Loc /\ x \notin {pte, Local(p), Ptab(d)}
  <2>1. Ptab(d) \in Loc /\ pte \in Loc
    BY <1>0, <1>1, <1>2, MineHas, GrowHeld
  <2> QED BY <1>0, <2>1, LocFacts
<1>5. \A vb \in 0 .. sz[p] - 1 : Own(p, vb) \notin {pte, Local(p), Ptab(d)}
  <2> SUFFICES ASSUME NEW vb \in 0 .. sz[p] - 1
               PROVE  Own(p, vb) \notin {pte, Local(p), Ptab(d)}
    OBVIOUS
  <2>1. vb \in Va /\ Alive(p)
    BY <1>1, GrowHeld
  <2>2. CASE loc[p].ret = "exec"
    BY <1>0, <2>1, <2>2, OwnApart DEF Target
  <2>3. CASE va >= sz[p]
    <3>1. vb # va
      BY <1>1, <1>2, <2>3, GrowHeld DEF Va
    <3> QED BY <1>0, <2>1, <3>1, OwnApart
  <2> QED BY <1>2, <2>2, <2>3
<1>6. CASE /\ \/ ptr' = [ptr EXCEPT ![pte] = ptr[Local(p)], ![Local(p)] = NoPage]
              \/ \E pg \in Page :
                   ptr' = [ptr EXCEPT ![pte] = ptr[Local(p)], ![Local(p)] = NoPage,
                                      ![Ptab(d)] = pg]
           /\ data' = data
           /\ loc' = [loc EXCEPT ![p].va = @ + 1]
           /\ pc' = [pc EXCEPT ![p] = "grow"]
  <2>1. /\ pc'[p] = "grow" /\ loc'[p].va = va + 1 /\ loc'[p].to = loc[p].to
        /\ loc'[p].ret = loc[p].ret /\ \A q \in Proc : q # p => Kept(q)
    BY <1>0, <1>1, <1>6, InvTypes DEF Kept, LocRecord
  <2>2. /\ ptr'[pte] = ptr[Local(p)]
        /\ \A l \in Loc : l \notin {pte, Local(p), Ptab(d)} => ptr'[l] = ptr[l]
    BY <1>1, <1>4, <1>6, InvCovers DEF Pointers
  <2>3. /\ ptr'[Pgdir(p)] = ptr[Pgdir(p)] /\ ptr'[Dir(p)] = ptr[Dir(p)]
        /\ \A vb \in 0 .. sz[p] - 1 : ptr'[Own(p, vb)] = ptr[Own(p, vb)]
    BY <1>1, <1>4, <1>5, <2>2, GrowHeld
  <2>4. Limit(p)' = Limit(p)
    BY <1>1, <2>1 DEF Limit
  <2>5. MappedOK(p)' /\ Mem(p)' = Mem(p)
    BY <1>1, <1>6, <2>1, <2>3, <2>4, GrowHeld, OwnSame
  <2>6. Target(p)' = d /\ First(p)' = First(p)
    BY <1>0, <1>1, <2>1, <2>3 DEF Target, First
  <2>7. ASSUME NEW vb \in First(p) .. va
        PROVE  ptr'[Pte(d, vb)] \in Page /\ data'[ptr'[Pte(d, vb)]] = Zero
    <3>1. CASE vb = va
      BY <1>0, <1>2, <1>3, <1>6, <2>2, <3>1
    <3>2. CASE vb # va
      <4>1. vb \in First(p) .. loc[p].va - 1
        BY <1>0, <1>2, <3>2
      <4>2. /\ Pte(d, vb) \in Loc /\ ptr[Pte(d, vb)] \in Page
            /\ data[ptr[Pte(d, vb)]] = Zero
        BY <1>0, <1>1, <4>1, GrowHeld
      <4>3. Pte(d, vb) \notin {pte, Local(p), Ptab(d)}
        BY <1>0, <3>2, LocFacts
      <4> QED BY <1>6, <2>2, <4>2, <4>3
    <3> QED BY <3>1, <3>2
  <2>8. GrowOK(p)'
    BY <1>2, <2>1, <2>6, <2>7 DEF GrowOK
  <2>9. MemOf(p)'
    BY <2>1, <2>5, <2>8 DEF MemOf, ShareOK
  <2>10. DataExcept(Local(p))
    BY <1>6, SameData
  <2>11. MemInv' /\ Others(p)
    BY <1>1, <2>1, <2>9, <2>10, AllMem
  <2> QED BY <2>5, <2>11 DEF Same, Others
<1>7. CASE /\ Kfree(ptr[Local(p)]) /\ ptr' = [ptr EXCEPT ![Local(p)] = NoPage]
           /\ loc' = [loc EXCEPT ![p].ret = "user"]
           /\ pc' = [pc EXCEPT ![p] = "freevm"]
  <2>1. /\ pc'[p] = "freevm" /\ loc'[p].ret = "user"
        /\ \A q \in Proc : q # p => Kept(q)
    BY <1>1, <1>7, InvTypes DEF Kept, LocRecord
  <2>2. \A l \in Loc : l # Local(p) => ptr'[l] = ptr[l]
    BY <1>7, InvCovers DEF Pointers
  <2>3. /\ ptr'[Pgdir(p)] = ptr[Pgdir(p)]
        /\ \A vb \in 0 .. Limit(p) - 1 :
             ptr'[Own(p, vb)] = ptr[Own(p, vb)] /\ Local(p) # Own(p, vb)
    BY <1>1, <1>4, <1>5, <2>2, GrowHeld
  <2>4. Limit(p)' = Limit(p) /\ DataExcept(Local(p))
    BY <1>1, <1>7, <2>1, KfreeData DEF Limit
  <2> QED BY <1>1, <2>1, <2>3, <2>4, GrowHeld, PlainStep
<1> QED BY <1>0, <1>6, <1>7 DEF AllocuvmMap, memVars

-----------------------------------------------------------------------------
(* The steps together. *)

\* What a step of p does to the memories, as PrivateMemory has it.
MemStep(p) ==
    \/ Same
    \/ /\ Alive(p)
       /\ \/ /\ Others(p)
             /\ \/ \E va \in 0 .. Limit(p) - 1, v \in Val :
                     Mem(p)' = [Mem(p) EXCEPT ![va] = v]
                \/ Resized(p)
                \/ \E n \in 1 .. MaxVa : Mem(p)' = [a \in 0 .. n - 1 |-> Zero]
                \/ Mem(p)' = <<>>
          \/ \E c \in Proc : /\ c # p /\ ~Alive(c) /\ Mem(c)' = Mem(p)
                             /\ \A q \in Proc : q # c => Mem(q)' = Mem(q)

\* MemInv is inductive, and every step is one of those of PrivateMemory.
LEMMA MemNext ==
    ASSUME CowInv, TlbInv, MemInv, Next
    PROVE  MemInv' /\ \E p \in Proc : MemStep(p)
<1>1. ASSUME NEW p \in Proc, UserStep(p)
      PROVE  MemInv' /\ MemStep(p)
  <2>1. CASE ForkAllocproc(p) \/ WaitReap(p) \/ SbrkGrow(p) \/ ExecSetupkvm(p)
    BY <2>1, ForkAllocprocMem, WaitReapMem, SbrkGrowMem, ExecSetupkvmMem DEF MemStep
  <2>2. CASE Exit(p) \/ SbrkShrink(p)
    BY <2>2, ExitMem, SbrkShrinkMem DEF MemStep
  <2>3. CASE SwitchTlb(p)
    <3>1. 0 \in Va
      BY CowAssumption DEF Va
    <3> QED BY <2>3, <3>1, LoadMem DEF MemStep
  <2>4. ASSUME NEW va \in Va,
               Load(p, va) \/ StoreFault(p, va) \/ KernelStoreFault(p, va)
        PROVE  MemInv' /\ MemStep(p)
    BY <2>4, LoadMem DEF MemStep
  <2>5. ASSUME NEW va \in Va, NEW v \in Val, Store(p, va, v)
        PROVE  MemInv' /\ MemStep(p)
    BY <2>5, StoreMem DEF MemStep
  <2> QED BY <1>1, <2>1, <2>2, <2>3, <2>4, <2>5 DEF UserStep
<1>2. ASSUME NEW p \in Proc, KernelStep(p)
      PROVE  MemInv' /\ MemStep(p)
  <2>1. CASE \/ ForkKstack(p) \/ ForkSetupkvm(p) \/ ShareIncr(p) \/ ShareMap(p)
             \/ ForkUndo(p)
    BY <2>1, ForkKstackMem, ForkSetupkvmMem, ShareIncrMem, ShareMapMem, ForkUndoMem
       DEF MemStep
  <2>2. CASE ForkDone(p)
    BY <2>2, ForkDoneMem DEF MemStep
  <2>3. CASE \/ FreevmPage(p) \/ FreevmTable(p) \/ FreevmDir(p) \/ WaitDone(p)
             \/ AllocuvmPage(p) \/ AllocuvmMap(p)
             \/ DeallocuvmPage(p) \/ SbrkShrunk(p)
    BY <2>3, FreevmMem, WaitDoneMem, AllocuvmPageMem, AllocuvmMapMem,
       DeallocuvmPageMem, SbrkShrunkMem DEF MemStep
  <2>4. CASE SbrkGrown(p) \/ ExecCommit(p) \/ CowKalloc(p)
    BY <2>4, SbrkGrownMem, ExecCommitMem, CowKallocMem DEF MemStep
  <2>5. CASE \/ KernelFaultTrap(p) \/ CowGetRefc(p) \/ CowReuse(p)
             \/ CowRemap(p) \/ CowRelease(p)
    BY <2>5, HandlerMem, CowRemapMem, CowReleaseMem DEF MemStep
  <2> QED BY <1>2, <2>1, <2>2, <2>3, <2>4, <2>5 DEF KernelStep
<1> QED BY <1>1, <1>2 DEF Next

\* What user code of p sees, through the cache or the table, is that memory.
MemRight == \A p \in Proc : UserMemory(p) = Mem(p)

\* The caches being those of the page tables, that is what user code sees.
LEMMA SeenMem ==
    ASSUME CowInv, TlbInv, MemInv
    PROVE  MemRight
<1> SUFFICES ASSUME NEW p \in Proc
             PROVE  UserMemory(p) = Mem(p)
  BY DEF MemRight
<1>1. CASE Alive(p)
  <2>1. state[p] = "RUNNABLE" /\ ptr[Pgdir(p)] # NoPage
    BY <1>1, LiveDir, CowAssumption DEF Alive
  <2>2. ASSUME NEW va \in 0 .. Limit(p) - 1
        PROVE  Seen(p, va) = data[ptr[Own(p, va)]]
    <3>1. va \in Va
      BY <1>1, Held
    <3>2. CASE pc[p] = "user" /\ tlb[p][va] # NoEntry
      <4>1. EntryOK(p, va)
        BY <1>1, <3>1, <3>2, Right
      <4> QED BY <3>2, <4>1 DEF EntryOK, Seen, Own
    <3>3. CASE ~(pc[p] = "user" /\ tlb[p][va] # NoEntry)
      BY <3>3 DEF Seen, Own
    <3> QED BY <3>2, <3>3
  <2>3. UserMemory(p) = [va \in 0 .. Limit(p) - 1 |-> Seen(p, va)]
    BY <2>1 DEF UserMemory, Limit
  <2> QED BY <1>1, <2>2, <2>3 DEF Mem
<1>2. CASE ~Alive(p)
  <2>1. state[p] # "RUNNABLE" \/ ptr[Pgdir(p)] = NoPage
    BY <1>2 DEF Alive, MemInv, MemOf, MappedOK
  <2> QED BY <1>2, <2>1 DEF UserMemory, Mem
<1> QED BY <1>1, <1>2

\* The size PrivateMemory gives a memory is its number of pages.
LEMMA SizeIs ==
    ASSUME NEW m, NEW L \in 1 .. MaxVa, DOMAIN m = 0 .. L - 1
    PROVE  Private!Size(m) = L
<1>1. ASSUME NEW n \in 1 .. MaxVa, DOMAIN m = 0 .. n - 1
      PROVE  n = L
  <2>1. n - 1 \in 0 .. L - 1 /\ L - 1 \in 0 .. n - 1
    BY <1>1, CowAssumption
  <2> QED BY <2>1, CowAssumption
<1>2. Private!Size(m) \in 1 .. MaxVa /\ DOMAIN m = 0 .. Private!Size(m) - 1
  BY DEF Private!Size
<1> QED BY <1>1, <1>2

\* Who has a memory.
LEMMA AliveMem ==
    ASSUME CowInv, MemInv, NEW p \in Proc
    PROVE  Alive(p) <=> Mem(p) # <<>>
<1>1. ASSUME Alive(p)
      PROVE  Mem(p) # <<>>
  <2>1. DOMAIN Mem(p) = 0 .. Limit(p) - 1 /\ 0 \in 0 .. Limit(p) - 1
    BY <1>1, Held DEF Mem
  <2>2. 0 \notin DOMAIN <<>>
    OBVIOUS
  <2> QED BY <2>1, <2>2
<1> QED BY <1>1 DEF Mem

\* The abstract memories of all processes.
Memories == [p \in Proc |-> UserMemory(p)]

\* Such a step is one of PrivateMemory, or stutters there.
LEMMA StepRefines ==
    ASSUME CowInv, MemInv, MemRight, MemRight', NEW p \in Proc, MemStep(p)
    PROVE  [Private!Next]_Memories
<1>1. /\ Memories \in [Proc -> {UserMemory(q) : q \in Proc}]
      /\ \A q \in Proc : Memories[q] = Mem(q) /\ Memories'[q] = Mem(q)'
      /\ Memories = [q \in Proc |-> Mem(q)]
      /\ Memories' = [q \in Proc |-> Mem(q)']
  BY DEF MemRight, Memories
<1>2. ASSUME NEW q \in Proc
      PROVE  Private!Alive(q) <=> Alive(q)
  BY <1>1, AliveMem DEF Private!Alive, Private!NoMemory, Memories
<1>3. ASSUME NEW c \in Proc, \A q \in Proc : q # c => Mem(q)' = Mem(q)
      PROVE  Memories' = [Memories EXCEPT ![c] = Mem(c)']
  BY <1>1, <1>3
<1>4. CASE Same
  BY <1>1, <1>4 DEF Same
<1>5. ASSUME Alive(p), Others(p), NEW va \in 0 .. Limit(p) - 1, NEW v \in Val,
             Mem(p)' = [Mem(p) EXCEPT ![va] = v]
      PROVE  Private!Next
  <2>1. va \in DOMAIN Memories[p]
    BY <1>1, <1>5 DEF Mem
  <2>2. Memories' = [Memories EXCEPT ![p] = [Memories[p] EXCEPT ![va] = v]]
    BY <1>1, <1>3, <1>5 DEF Others
  <2>3. Memories' = [Memories EXCEPT ![p][va] = v]
    BY <2>2
  <2>4. Private!Write(p)
    BY <1>2, <1>5, <2>1, <2>3 DEF Private!Write, Memories
  <2> QED BY <2>4 DEF Private!Next
<1>6. CASE Alive(p) /\ Others(p) /\ Resized(p)
  <2>1. PICK n \in 1 .. MaxVa :
          Mem(p)' = [a \in 0 .. n - 1 |-> IF a < Limit(p) THEN Mem(p)[a] ELSE Zero]
    BY <1>6 DEF Resized
  <2>2. Private!Size(Memories[p]) = Limit(p)
    BY <1>1, <1>6, Held, SizeIs DEF Mem
  <2>3. Memories' = [Memories EXCEPT ![p] =
                       [a \in 0 .. n - 1 |->
                          IF a < Private!Size(Memories[p]) THEN Memories[p][a] ELSE Zero]]
    BY <1>1, <1>3, <1>6, <2>1, <2>2 DEF Others
  <2>4. Private!Resize(p)
    BY <1>2, <1>6, <2>3 DEF Private!Resize, Memories
  <2> QED BY <2>4 DEF Private!Next
<1>7. ASSUME Alive(p), Others(p), NEW n \in 1 .. MaxVa,
             Mem(p)' = [a \in 0 .. n - 1 |-> Zero]
      PROVE  Private!Next
  <2>1. Memories' = [Memories EXCEPT ![p] = [a \in 0 .. n - 1 |-> Zero]]
    BY <1>3, <1>7 DEF Others
  <2>2. Private!Replace(p)
    BY <1>2, <1>7, <2>1 DEF Private!Replace, Memories
  <2> QED BY <2>2 DEF Private!Next
<1>8. CASE Alive(p) /\ Others(p) /\ Mem(p)' = <<>>
  <2>1. Memories' = [Memories EXCEPT ![p] = <<>>]
    BY <1>3, <1>8 DEF Others
  <2>2. Private!Lose(p)
    BY <1>2, <1>8, <2>1 DEF Private!Lose, Private!NoMemory, Memories
  <2> QED BY <2>2 DEF Private!Next
<1>9. ASSUME Alive(p), NEW c \in Proc, ~Alive(c), Mem(c)' = Mem(p),
             \A q \in Proc : q # c => Mem(q)' = Mem(q)
      PROVE  Private!Next
  <2>1. Memories' = [Memories EXCEPT ![c] = Memories[p]]
    BY <1>1, <1>3, <1>9
  <2>2. Private!Fork(p)
    BY <1>2, <1>9, <2>1 DEF Private!Fork, Memories
  <2> QED BY <2>2 DEF Private!Next
<1> QED BY <1>4, <1>5, <1>6, <1>7, <1>8, <1>9 DEF MemStep

\* The first process has one page of zeros and nobody else has any.
LEMMA MemInit ==
    ASSUME Init
    PROVE  MemInv /\ Private!Init
<1>1. PICK ks, d, tab, u \in Page :
        /\ ptr = InitPtr(ks, d, tab, u)
        /\ data = [pg \in Page |-> IF pg = u THEN Zero ELSE Junk]
  BY DEF Init
<1>2. /\ state = [p \in Proc |-> IF p = initproc THEN "RUNNABLE" ELSE "UNUSED"]
      /\ sz = [p \in Proc |-> IF p = initproc THEN 1 ELSE 0]
      /\ pc = [p \in Proc |-> IF p = initproc THEN "user" ELSE "none"]
      /\ loc = [p \in Proc |-> NoLoc] /\ tlb = [p \in Proc |-> NoTlb]
  BY DEF Init
<1>3. initproc \in Proc /\ 0 \in Va /\ 1 \in 1 .. MaxVa
  BY CowAssumption DEF Va
<1>4. ptr[Pgdir(initproc)] = d /\ ptr[Pte(d, 0)] = u /\ data[u] = Zero
  <2>1. Pgdir(initproc) \in Loc /\ Pte(d, 0) \in Loc
    BY <1>3, LocFacts
  <2> QED BY <1>1, <2>1, LocFacts DEF InitPtr
<1>5. \A p \in Proc : Alive(p) <=> p = initproc
  BY <1>2 DEF Alive
<1>6. Limit(initproc) = 1 /\ \A va : Own(initproc, va) = Pte(d, va)
  BY <1>2, <1>3, <1>4 DEF Limit, Own
<1>7. ASSUME NEW p \in Proc
      PROVE  MemOf(p)
  <2>1. pc[p] \in {"user", "none"} /\ loc[p].va = 0
    BY <1>2
  <2>2. Alive(p) => /\ Limit(p) \in 1 .. MaxVa
                    /\ \A va \in 0 .. Limit(p) - 1 : ptr[Own(p, va)] \in Page
    <3>1. Alive(p) => \A va \in 0 .. Limit(p) - 1 : va = 0
      BY <1>5, <1>6
    <3> QED BY <1>3, <1>4, <1>5, <1>6, <3>1
  <2>3. ~(state[p] = "RUNNABLE" /\ ~Alive(p))
    BY <1>2, <1>5
  <2> QED BY <2>1, <2>2, <2>3 DEF MemOf, MappedOK, ShareOK, GrowOK
<1>8. MemInv
  BY <1>7 DEF MemInv
<1>9. MemRight
  BY <1>8, InitInv, TlbInit, SeenMem
<1>10. Mem(initproc) = [a \in 0 .. 0 |-> Zero]
  <2>1. Mem(initproc) = [va \in 0 .. 0 |-> data[ptr[Pte(d, va)]]]
    BY <1>3, <1>5, <1>6 DEF Mem
  <2>2. \A va \in 0 .. 0 : data[ptr[Pte(d, va)]] = Zero
    BY <1>4
  <2> QED BY <2>1, <2>2
<1>11. \A p \in Proc : p # initproc => Mem(p) = <<>>
  BY <1>5 DEF Mem
<1>12. Private!Init
  BY <1>9, <1>10, <1>11 DEF MemRight, Private!Init, Private!NoMemory
<1> QED BY <1>8, <1>12

\* Every process has a memory of its own, whatever the kernel shares: at each
\* step user code sees what a step of PrivateMemory shows it, or no change.
THEOREM Invisible == Spec => ImplementsPrivateMemory
<1> DEFINE Inv == CowInv /\ TlbInv /\ MemInv
<1>1. Init => Inv /\ Private!Init
  BY InitInv, TlbInit, MemInit
<1>2. Inv /\ [Next]_vars => Inv'
  <2>1. CASE Next
    BY <2>1, NextInv, TlbNext, MemNext
  <2>2. CASE UNCHANGED vars
    BY <2>2, NextInv, TlbNext
       DEF vars, memVars, procVars, MemInv, MemOf, MappedOK, ShareOK, GrowOK,
           Alive, Limit, Own, Childs, First, Target
  <2> QED BY <2>1, <2>2
<1>3. Inv => MemRight
  BY SeenMem
<1>4. Inv /\ MemRight /\ MemRight' /\ [Next]_vars => [Private!Next]_Memories
  <2>1. CASE Next
    BY <2>1, MemNext, StepRefines
  <2>2. CASE UNCHANGED vars
    <3>1. \A p \in Proc : UserMemory(p)' = UserMemory(p)
      BY <2>2 DEF vars, UserMemory, Seen
    <3> QED BY <3>1 DEF Memories
  <2> QED BY <2>1, <2>2
<1> HIDE DEF Inv
<1>5. Spec => []Inv
  BY <1>1, <1>2, PTL DEF Spec
<1>6. Spec => [](MemRight)
  BY <1>3, <1>5, PTL
<1> QED BY <1>1, <1>4, <1>5, <1>6, PTL
        DEF Spec, ImplementsPrivateMemory, Private!Spec, Memories
=============================================================================
