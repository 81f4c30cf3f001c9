---------------------------- MODULE KallocProofs ----------------------------
(***************************************************************************)
(* Proofs about Kalloc, for every number of CPUs, pages and threads.       *)
(*                                                                         *)
(* IndInv is inductive.  CountsReferences alone is not: that the count of  *)
(* a page kalloc returns may be set to 1 rests on nobody referring to a    *)
(* page on a free list, which is NoDoubleUse, and NoDoubleUse rests on     *)
(* CountsReferences, because kfree puts a page on a list when its count    *)
(* reaches 0.                                                              *)
(***************************************************************************)
EXTENDS Kalloc, FiniteSetTheorems, TLAPS

\* A thread inside kfree has a real page, and one that searches has none yet.
PageByPc ==
    \A t \in Threads :
        /\ pc[t] \in {"kfree_ref", "kfree_push"} => page[t] \in Pages
        /\ pc[t] = "ksteal" => page[t] = NoPage

IndInv ==
    /\ TypeOK
    /\ PageByPc
    /\ CountsReferences
    /\ NoDoubleUse
    /\ NoLeak
    /\ OnlyExhaustionPanics

-----------------------------------------------------------------------------
\* The threads that drop a page are finitely many; removing one lowers their
\* number by one, adding one raises it by one.
LEMMA DroppersFinite ==
    \A p \in Pages : IsFiniteSet(Droppers(p)) /\ Cardinality(Droppers(p)) \in Nat
BY ThreadsAssumption, FS_Subset, FS_CardinalityType DEF Droppers

\* One thread more is counted once.
LEMMA AddOne ==
    ASSUME NEW S, IsFiniteSet(S), NEW x, x \notin S
    PROVE  Cardinality(S \cup {x}) = Cardinality(S) + 1
BY FS_AddElement

\* One thread less is counted once.
LEMMA RemoveOne ==
    ASSUME NEW S, IsFiniteSet(S), NEW x \in S
    PROVE  /\ Cardinality(S \ {x}) = Cardinality(S) - 1
           /\ Cardinality(S) \in Nat
           /\ Cardinality(S) > 0
<1>1. IsFiniteSet(S \ {x}) /\ Cardinality(S \ {x}) = Cardinality(S) - 1
  BY FS_RemoveElement
<1>2. Cardinality(S) \in Nat /\ Cardinality(S \ {x}) \in Nat
  BY <1>1, FS_CardinalityType
<1> QED
  BY <1>1, <1>2

\* A set without elements, and only such a set, has cardinality 0.
LEMMA EmptyIffZero ==
    ASSUME NEW S, IsFiniteSet(S)
    PROVE  Cardinality(S) = 0 <=> S = {}
BY FS_EmptySet

-----------------------------------------------------------------------------
\* The initial state: every page is out and counted once.
LEMMA InitInv == Init => IndInv
<1> SUFFICES ASSUME Init PROVE IndInv
  OBVIOUS
<1> USE DEF Init
<1>1. TypeOK
  <2>1. NCPU \in Nat /\ NCPU > 0 /\ 0 \in CPUs
    BY NCPUAssumption DEF CPUs
  <2>2. freelist \in [CPUs -> Seq(Pages)]
    OBVIOUS
  <2>3. idx \in [Threads -> 0 .. NCPU] /\ cpu \in [Threads -> CPUs]
    BY <2>1
  <2>4. panicked \in BOOLEAN
    OBVIOUS
  <2>5. refcnt \in [Pages -> Int] /\ refs \in [Pages -> Nat] /\ pc \in [Threads -> PCs]
    BY DEF PCs
  <2>6. page \in [Threads -> Pages \cup {NoPage}]
    OBVIOUS
  <2> QED
    BY <2>2, <2>3, <2>4, <2>5, <2>6, Zenon DEF TypeOK
<1>2. \A p \in Pages : Droppers(p) = {}
  BY DEF Droppers
<1>3. CountsReferences
  <2>1. Cardinality({}) = 0
    BY FS_EmptySet
  <2> QED
    <3> SUFFICES ASSUME NEW p \in Pages PROVE refcnt[p] = refs[p] + Cardinality(Droppers(p))
      BY DEF CountsReferences
    <3>1. Cardinality(Droppers(p)) = 0
      BY <1>2, <2>1
    <3> QED
      BY <3>1
<1>4. \A p \in Pages : ~InList(p) /\ ~Carried(p) /\ Out(p)
  BY DEF InList, Carried, Carrying, Out
<1>5. NoDoubleUse
  BY <1>4 DEF NoDoubleUse, ListsDisjoint, Carrying
<1>6. NoLeak
  BY <1>4 DEF NoLeak
<1> QED
  BY <1>1, <1>3, <1>5, <1>6 DEF IndInv, PageByPc, OnlyExhaustionPanics
-----------------------------------------------------------------------------
\* Taking the first page off a list: that page, and no other, leaves the lists.
LEMMA Pop ==
    ASSUME TypeOK, ListsDisjoint, NEW c \in CPUs, freelist[c] # <<>>,
           freelist' = [freelist EXCEPT ![c] = Unlink(@)]
    PROVE  /\ freelist' \in [CPUs -> Seq(Pages)]
           /\ Head(freelist[c]) \in Pages
           /\ InList(Head(freelist[c]))
           /\ \A q \in Pages : InList(q)' <=> InList(q) /\ q # Head(freelist[c])
           /\ ListsDisjoint'
<1> DEFINE l == freelist[c]
           p == Head(l)
<1>1. l \in Seq(Pages) /\ Len(l) \in Nat /\ Len(l) > 0 /\ l[1] = p /\ p \in Pages
  BY DEF TypeOK
<1>2. /\ Tail(l) \in Seq(Pages)
      /\ Len(Tail(l)) = Len(l) - 1
      /\ \A i \in 1 .. Len(l) - 1 : Tail(l)[i] = l[i + 1]
  BY <1>1
<1>3. /\ freelist' \in [CPUs -> Seq(Pages)]
      /\ freelist'[c] = Tail(l)
      /\ \A d \in CPUs \ {c} : freelist'[d] = freelist[d]
  BY <1>2 DEF TypeOK, Unlink
<1>4. InList(p)
  BY <1>1 DEF InList
<1>5. ASSUME NEW q \in Pages PROVE InList(q)' <=> InList(q) /\ q # p
  <2>1. ASSUME InList(q)' PROVE InList(q) /\ q # p
    <3>1. PICK d \in CPUs : \E i \in 1 .. Len(freelist'[d]) : freelist'[d][i] = q
      BY <2>1 DEF InList
    <3>2. PICK i \in 1 .. Len(freelist'[d]) : freelist'[d][i] = q
      BY <3>1
    <3>3. CASE d = c
      <4>1. i + 1 \in 1 .. Len(l) /\ l[i + 1] = q /\ i + 1 # 1
        BY <3>2, <3>3, <1>1, <1>2, <1>3
      <4>2. 1 \in 1 .. Len(l)
        BY <1>1
      <4> QED
        BY <4>1, <4>2, <1>1 DEF InList, ListsDisjoint
    <3>4. CASE d # c
      <4>1. freelist[d] = freelist'[d]
        BY <3>4, <1>3
      <4>2. 1 \in 1 .. Len(l)
        BY <1>1
      <4> QED
        BY <4>1, <4>2, <3>2, <3>4, <1>1 DEF InList, ListsDisjoint
    <3> QED
      BY <3>3, <3>4
  <2>2. ASSUME InList(q), q # p PROVE InList(q)'
    <3>1. PICK d \in CPUs : \E i \in 1 .. Len(freelist[d]) : freelist[d][i] = q
      BY <2>2 DEF InList
    <3>2. PICK i \in 1 .. Len(freelist[d]) : freelist[d][i] = q
      BY <3>1
    <3>3. CASE d = c
      <4>1. i # 1 /\ i - 1 \in 1 .. Len(l) - 1 /\ (i - 1) + 1 = i
        BY <3>2, <3>3, <2>2, <1>1
      <4>2. Tail(l)[i - 1] = q
        BY <4>1, <1>2, <3>2, <3>3
      <4> QED
        BY <4>1, <4>2, <1>2, <1>3 DEF InList
    <3>4. CASE d # c
      BY <3>2, <3>4, <1>3 DEF InList
    <3> QED
      BY <3>3, <3>4
  <2> QED
    BY <2>1, <2>2
<1>6. ListsDisjoint'
  <2> SUFFICES ASSUME NEW d \in CPUs, NEW e \in CPUs,
                      NEW i \in 1 .. Len(freelist'[d]), NEW j \in 1 .. Len(freelist'[e]),
                      freelist'[d][i] = freelist'[e][j]
               PROVE  d = e /\ i = j
    BY DEF ListsDisjoint
  <2> DEFINE up(x, k) == IF x = c THEN k + 1 ELSE k
  <2>1. ASSUME NEW x \in CPUs, NEW k \in 1 .. Len(freelist'[x])
        PROVE  up(x, k) \in 1 .. Len(freelist[x]) /\ freelist[x][up(x, k)] = freelist'[x][k]
    <3>1. CASE x = c
      <4>1. k \in 1 .. Len(l) - 1
        BY <3>1, <1>2, <1>3
      <4>2. Tail(l)[k] = l[k + 1] /\ k + 1 \in 1 .. Len(l)
        BY <4>1, <1>1, <1>2
      <4>3. up(x, k) = k + 1
        BY <3>1
      <4> QED
        BY <4>2, <4>3, <3>1, <1>3
    <3>2. CASE x # c
      BY <3>2, <1>3
    <3> QED
      BY <3>1, <3>2
  <2>2. up(d, i) = up(e, j) => d # e \/ i = j
    OBVIOUS
  <2> HIDE DEF up
  <2>3. /\ up(d, i) \in 1 .. Len(freelist[d]) /\ up(e, j) \in 1 .. Len(freelist[e])
        /\ freelist[d][up(d, i)] = freelist[e][up(e, j)]
    BY <2>1
  <2>4. d = e /\ up(d, i) = up(e, j)
    BY <2>3 DEF ListsDisjoint
  <2> QED
    BY <2>2, <2>4
<1> QED
  BY <1>1, <1>3, <1>4, <1>5, <1>6

\* Putting a page that is on no list in front of a list adds that page only.
LEMMA Push ==
    ASSUME TypeOK, ListsDisjoint, NEW c \in CPUs, NEW p \in Pages, ~InList(p),
           freelist' = [freelist EXCEPT ![c] = <<p>> \o @]
    PROVE  /\ freelist' \in [CPUs -> Seq(Pages)]
           /\ \A q \in Pages : InList(q)' <=> InList(q) \/ q = p
           /\ ListsDisjoint'
<1> DEFINE l == freelist[c]
           m == <<p>> \o l
<1>1. /\ l \in Seq(Pages) /\ Len(l) \in Nat
      /\ m \in Seq(Pages) /\ Len(m) = Len(l) + 1
      /\ m[1] = p /\ \A i \in 1 .. Len(l) : m[i + 1] = l[i]
  BY DEF TypeOK
<1>2. /\ freelist' \in [CPUs -> Seq(Pages)]
      /\ freelist'[c] = m
      /\ \A d \in CPUs \ {c} : freelist'[d] = freelist[d]
  BY <1>1 DEF TypeOK
<1> HIDE DEF m
<1>3. \A d \in CPUs : \A i \in 1 .. Len(freelist[d]) : freelist[d][i] # p
  BY DEF InList
<1>4. ASSUME NEW q \in Pages PROVE InList(q)' <=> InList(q) \/ q = p
  <2>1. ASSUME InList(q)', q # p PROVE InList(q)
    <3>1. PICK d \in CPUs : \E i \in 1 .. Len(freelist'[d]) : freelist'[d][i] = q
      BY <2>1 DEF InList
    <3>2. PICK i \in 1 .. Len(freelist'[d]) : freelist'[d][i] = q
      BY <3>1
    <3>3. CASE d = c
      <4>1. i # 1 /\ i - 1 \in 1 .. Len(l) /\ (i - 1) + 1 = i
        BY <3>2, <3>3, <2>1, <1>1, <1>2
      <4> QED
        BY <4>1, <3>2, <3>3, <1>1, <1>2 DEF InList
    <3>4. CASE d # c
      BY <3>2, <3>4, <1>2 DEF InList
    <3> QED
      BY <3>3, <3>4
  <2>2. ASSUME InList(q) PROVE InList(q)'
    <3>1. PICK d \in CPUs : \E i \in 1 .. Len(freelist[d]) : freelist[d][i] = q
      BY <2>2 DEF InList
    <3>2. PICK i \in 1 .. Len(freelist[d]) : freelist[d][i] = q
      BY <3>1
    <3>3. CASE d = c
      <4>1. i + 1 \in 1 .. Len(m) /\ m[i + 1] = q
        BY <3>2, <3>3, <1>1
      <4> QED
        BY <4>1, <1>2 DEF InList
    <3>4. CASE d # c
      BY <3>2, <3>4, <1>2 DEF InList
    <3> QED
      BY <3>3, <3>4
  <2>3. ASSUME q = p PROVE InList(q)'
    <3>1. 1 \in 1 .. Len(m)
      BY <1>1
    <3> QED
      BY <3>1, <2>3, <1>1, <1>2 DEF InList
  <2> QED
    BY <2>1, <2>2, <2>3
<1>5. ListsDisjoint'
  <2> SUFFICES ASSUME NEW d \in CPUs, NEW e \in CPUs,
                      NEW i \in 1 .. Len(freelist'[d]), NEW j \in 1 .. Len(freelist'[e]),
                      freelist'[d][i] = freelist'[e][j]
               PROVE  d = e /\ i = j
    BY DEF ListsDisjoint
  <2> DEFINE down(x, k) == IF x = c THEN k - 1 ELSE k
  <2>1. ASSUME NEW x \in CPUs, NEW k \in 1 .. Len(freelist'[x])
        PROVE  \/ x = c /\ k = 1 /\ freelist'[x][k] = p
               \/ /\ down(x, k) \in 1 .. Len(freelist[x])
                  /\ freelist[x][down(x, k)] = freelist'[x][k]
                  /\ freelist'[x][k] # p
    <3>1. CASE x = c /\ k = 1
      BY <3>1, <1>1, <1>2
    <3>2. CASE x = c /\ k # 1
      <4>1. k - 1 \in 1 .. Len(l) /\ (k - 1) + 1 = k
        BY <3>2, <1>1, <1>2
      <4> QED
        BY <4>1, <3>2, <1>1, <1>2, <1>3
    <3>3. CASE x # c
      BY <3>3, <1>2, <1>3
    <3> QED
      BY <3>1, <3>2, <3>3
  <2>2. CASE freelist'[d][i] = p
    BY <2>1, <2>2
  <2>3. CASE freelist'[d][i] # p
    <3>1. d = e /\ down(d, i) = down(e, j)
      BY <2>1, <2>3 DEF ListsDisjoint
    <3> QED
      BY <3>1
  <2> QED
    BY <2>2, <2>3
<1> QED
  BY <1>2, <1>4, <1>5

-----------------------------------------------------------------------------
\* Each step preserves the types.
LEMMA TypeStep ==
    ASSUME TypeOK, PageByPc, ~panicked, Step PROVE TypeOK' /\ PageByPc'
<1>1. NCPU \in Nat /\ NCPU > 0
  BY NCPUAssumption
<1>2. ASSUME NEW t \in Threads, NEW p \in Pages, KfreeCall(t, p) PROVE TypeOK' /\ PageByPc'
  BY <1>2 DEF KfreeCall, TypeOK, PageByPc, PCs
<1>3. ASSUME NEW t \in Threads, KfreeRef(t) PROVE TypeOK' /\ PageByPc'
  <2>1. page[t] \in Pages /\ refcnt[page[t]] \in Int
    BY <1>3 DEF KfreeRef, TypeOK, PageByPc
  <2>2. refcnt' \in [Pages -> Int]
    BY <1>3, <2>1 DEF KfreeRef, TypeOK
  <2>3. pc' \in [Threads -> PCs] /\ PageByPc'
    BY <1>3, <2>1 DEF KfreeRef, TypeOK, PageByPc, PCs
  <2>4. panicked' \in BOOLEAN
    BY <1>3 DEF KfreeRef
  <2> QED
    BY <1>3, <2>2, <2>3, <2>4 DEF KfreeRef, TypeOK
<1>4. ASSUME NEW t \in Threads, NEW c \in CPUs, KfreePush(t, c) PROVE TypeOK' /\ PageByPc'
  <2>1. page[t] \in Pages
    BY <1>4 DEF KfreePush, PageByPc
  <2>2. <<page[t]>> \o freelist[c] \in Seq(Pages)
    BY <2>1 DEF TypeOK
  <2>3. freelist' \in [CPUs -> Seq(Pages)]
    BY <1>4, <2>2 DEF KfreePush, TypeOK
  <2> QED
    BY <1>4, <2>3 DEF KfreePush, TypeOK, PageByPc, PCs
<1>5. ASSUME NEW t \in Threads, NEW c \in CPUs, KallocLocal(t, c) PROVE TypeOK' /\ PageByPc'
  <2>1. freelist[c] # <<>> => Head(freelist[c]) \in Pages /\ Tail(freelist[c]) \in Seq(Pages)
    BY DEF TypeOK
  <2>2. freelist' \in [CPUs -> Seq(Pages)] /\ page' \in [Threads -> Pages \cup {NoPage}]
    <3>1. CASE freelist[c] # <<>>
      <4>1. freelist' = [freelist EXCEPT ![c] = Tail(freelist[c])] /\ page' = [page EXCEPT ![t] = Head(freelist[c])]
        BY <1>5, <3>1 DEF KallocLocal, Unlink
      <4> QED
        BY <2>1, <3>1, <4>1 DEF TypeOK
    <3>2. CASE freelist[c] = <<>>
      <4>1. freelist' = freelist /\ page' = [page EXCEPT ![t] = NoPage]
        BY <1>5, <3>2 DEF KallocLocal
      <4> QED
        BY <4>1 DEF TypeOK
    <3> QED
      BY <3>1, <3>2
  <2>3. idx' \in [Threads -> 0 .. NCPU]
    <3>1. 1 \in 0 .. NCPU
      BY <1>1
    <3>2. idx' = [idx EXCEPT ![t] = 1] \/ idx' = idx
      BY <1>5 DEF KallocLocal
    <3> QED
      BY <3>1, <3>2 DEF TypeOK
  <2>4. cpu' \in [Threads -> CPUs] /\ UNCHANGED <<refcnt, refs, panicked>>
    BY <1>5 DEF KallocLocal, TypeOK
  <2>5. pc' \in [Threads -> PCs]
    <3>1. pc' = [pc EXCEPT ![t] = "kalloc_ref"] \/ pc' = [pc EXCEPT ![t] = "ksteal"]
      BY <1>5 DEF KallocLocal
    <3> QED
      BY <3>1 DEF TypeOK, PCs
  <2>6. PageByPc'
    BY <1>5, <2>1 DEF KallocLocal, TypeOK, PageByPc
  <2> QED
    BY <2>2, <2>3, <2>4, <2>5, <2>6 DEF TypeOK
<1>6. ASSUME NEW t \in Threads, Ksteal(t) PROVE TypeOK' /\ PageByPc'
  <2> DEFINE n == (cpu[t] + idx[t]) % NCPU
  <2>1. n \in CPUs
    <3>1. cpu[t] + idx[t] \in Int
      BY <1>1 DEF CPUs, TypeOK
    <3>2. \A a \in Int : a % NCPU \in 0 .. NCPU - 1
      BY <1>1
    <3> QED
      BY <3>1, <3>2 DEF CPUs
  <2> HIDE DEF n
  <2>2. freelist[n] # <<>> => Head(freelist[n]) \in Pages /\ Tail(freelist[n]) \in Seq(Pages)
    BY <2>1 DEF TypeOK
  <2>3. freelist' \in [CPUs -> Seq(Pages)] /\ page' \in [Threads -> Pages \cup {NoPage}]
    <3>1. \/ freelist[n] # <<>> /\ freelist' = [freelist EXCEPT ![n] = Tail(freelist[n])]
                /\ page' = [page EXCEPT ![t] = Head(freelist[n])]
          \/ UNCHANGED <<freelist, page>>
      BY <1>6 DEF Ksteal, Unlink, n
    <3>2. freelist \in [CPUs -> Seq(Pages)] /\ page \in [Threads -> Pages \cup {NoPage}]
      BY DEF TypeOK
    <3>3. CASE freelist[n] # <<>> /\ freelist' = [freelist EXCEPT ![n] = Tail(freelist[n])]
                /\ page' = [page EXCEPT ![t] = Head(freelist[n])]
      BY <2>1, <2>2, <3>2, <3>3
    <3>4. CASE UNCHANGED <<freelist, page>>
      BY <3>2, <3>4
    <3> QED
      BY <3>1, <3>3, <3>4
  <2>4. idx' \in [Threads -> 0 .. NCPU]
    BY <1>1, <1>6 DEF Ksteal, TypeOK, ScanDone
  <2>5. pc' \in [Threads -> PCs] /\ PageByPc'
    BY <1>6 DEF Ksteal, TypeOK, PageByPc, PCs
  <2> QED
    BY <1>6, <2>3, <2>4, <2>5 DEF Ksteal, TypeOK
<1>7. ASSUME NEW t \in Threads, KallocRef(t) PROVE TypeOK' /\ PageByPc'
  BY <1>7 DEF KallocRef, TypeOK, PageByPc, PCs, NewCount
<1>8. ASSUME NEW t \in Threads, KallocNull(t) PROVE TypeOK' /\ PageByPc'
  BY <1>8 DEF KallocNull, TypeOK, PageByPc
<1>9. ASSUME NEW p \in Pages, Kaddref(p) PROVE TypeOK' /\ PageByPc'
  BY <1>9 DEF Kaddref, TypeOK, PageByPc, AddedCount
<1> QED
  BY <1>2, <1>3, <1>4, <1>5, <1>6, <1>7, <1>8, <1>9 DEF Step

-----------------------------------------------------------------------------
\* What the safety part of IndInv says about one page in one state.
Safe == CountsReferences /\ NoDoubleUse /\ NoLeak

\* kfree is called: a reference becomes a dropper.
LEMMA KfreeCallStep ==
    ASSUME TypeOK, TypeOK', Safe, NEW t \in Threads, NEW p \in Pages, KfreeCall(t, p)
    PROVE  Safe'
<1> USE DEF KfreeCall
<1>1. \A q \in Pages : InList(q)' <=> InList(q)
  BY DEF InList
<1>2. \A u \in Threads : Carrying(u)' <=> Carrying(u)
  BY DEF Carrying, TypeOK
<1>3. \A u \in Threads : Carrying(u) => page'[u] = page[u]
  BY DEF Carrying, TypeOK
<1>4. \A q \in Pages : Carried(q)' <=> Carried(q)
  BY <1>2, <1>3 DEF Carried
<1>5. Droppers(p)' = Droppers(p) \cup {t} /\ t \notin Droppers(p)
  BY DEF Droppers, TypeOK
<1>6. \A q \in Pages \ {p} : Droppers(q)' = Droppers(q)
  BY DEF Droppers, TypeOK
<1>7. \A q \in Pages : Out(q)' <=> Out(q)
  BY <1>5, <1>6 DEF Out, TypeOK
<1>8. CountsReferences'
  <2>1. Cardinality(Droppers(p)') = Cardinality(Droppers(p)) + 1
    BY <1>5, DroppersFinite, AddOne
  <2>2. refcnt'[p] = refs'[p] + Cardinality(Droppers(p)')
    BY <2>1, DroppersFinite DEF TypeOK, Safe, CountsReferences
  <2>3. ASSUME NEW q \in Pages \ {p} PROVE refcnt'[q] = refs'[q] + Cardinality(Droppers(q)')
    BY <1>6 DEF TypeOK, Safe, CountsReferences
  <2> QED
    BY <2>2, <2>3 DEF CountsReferences
<1>9. ListsDisjoint'
  BY DEF Safe, NoDoubleUse, ListsDisjoint
<1> QED
  BY <1>1, <1>2, <1>3, <1>4, <1>7, <1>8, <1>9 DEF Safe, NoDoubleUse, NoLeak

\* kfree drops a reference: the page stays out, or this thread carries it.
LEMMA KfreeRefStep ==
    ASSUME TypeOK, TypeOK', PageByPc, Safe, NEW t \in Threads, KfreeRef(t)
    PROVE  Safe' /\ ~panicked'
<1> USE DEF KfreeRef
<1>0. PICK p \in Pages : p = page[t]
  BY DEF PageByPc
<1>1. t \in Droppers(p)
  BY <1>0 DEF Droppers
<1>2. /\ Cardinality(Droppers(p)) \in Nat /\ Cardinality(Droppers(p)) > 0
      /\ Cardinality(Droppers(p) \ {t}) = Cardinality(Droppers(p)) - 1
      /\ IsFiniteSet(Droppers(p) \ {t})
  BY <1>1, DroppersFinite, RemoveOne, FS_RemoveElement
<1>3. /\ refcnt[p] = refs[p] + Cardinality(Droppers(p))
      /\ refcnt[p] \in Int /\ refs[p] \in Nat /\ refcnt[p] > 0
  BY <1>1, <1>2 DEF TypeOK, Safe, CountsReferences
<1>4. /\ refcnt' = [refcnt EXCEPT ![p] = refcnt[p] - 1]
      /\ pc' = [pc EXCEPT ![t] = IF refcnt[p] > 1 THEN "idle" ELSE "kfree_push"]
      /\ UNCHANGED <<freelist, refs, page>>
      /\ pc[t] = "kfree_ref"
  <2>1. ~(refcnt[p] <= 0)
    BY <1>3
  <2>2. StillReferenced(refcnt[p]) <=> refcnt[p] > 1
    BY <1>3 DEF StillReferenced
  <2>3. refcnt' = [refcnt EXCEPT ![p] = refcnt[p] - 1]
    BY <2>1, <1>0
  <2> QED
    BY <2>2, <2>3, <1>0
<1>5. ~panicked'
  <2>1. ~(refcnt[p] <= 0)
    BY <1>3
  <2> QED
    BY <2>1, <1>0, Zenon
<1> HIDE DEF KfreeRef
<1>6. \A q \in Pages : InList(q)' <=> InList(q)
  BY <1>4 DEF InList
<1>7. Droppers(p)' = Droppers(p) \ {t}
  BY <1>0, <1>4 DEF Droppers, TypeOK
<1>8. \A q \in Pages \ {p} : Droppers(q)' = Droppers(q)
  BY <1>0, <1>4 DEF Droppers, TypeOK
<1>9. CountsReferences'
  <2>1. refcnt'[p] = refs'[p] + Cardinality(Droppers(p)')
    BY <1>1, <1>2, <1>3, <1>4, <1>7 DEF TypeOK
  <2>2. ASSUME NEW q \in Pages \ {p} PROVE refcnt'[q] = refs'[q] + Cardinality(Droppers(q)')
    BY <1>4, <1>8 DEF TypeOK, Safe, CountsReferences
  <2> QED
    BY <2>1, <2>2 DEF CountsReferences
<1>10. Out(p) /\ ~InList(p) /\ ~Carried(p)
  BY <1>1 DEF Out, Safe, NoDoubleUse
<1>11. \A q \in Pages \ {p} : Out(q)' <=> Out(q)
  BY <1>4, <1>8 DEF Out
<1>12. Out(p)' <=> refcnt[p] > 1
  <2>1. Cardinality(Droppers(p)') = 0 <=> Droppers(p)' = {}
    BY <1>2, <1>7, EmptyIffZero
  <2> QED
    BY <2>1, <1>1, <1>2, <1>3, <1>4, <1>7 DEF Out
<1>13. \A u \in Threads \ {t} : Carrying(u)' <=> Carrying(u)
  BY <1>4 DEF Carrying, TypeOK
<1>14. ~Carrying(t) /\ (Carrying(t)' <=> ~(refcnt[p] > 1))
  BY <1>4 DEF Carrying, TypeOK
<1>15. \A q \in Pages : Carried(q)' <=> Carried(q) \/ (q = p /\ ~(refcnt[p] > 1))
  BY <1>0, <1>4, <1>13, <1>14 DEF Carried
<1>16. NoDoubleUse'
  <2>1. ListsDisjoint'
    BY <1>4 DEF Safe, NoDoubleUse, ListsDisjoint
  <2>2. ASSUME NEW u \in Threads, NEW v \in Threads, Carrying(u)', Carrying(v)',
               page'[u] = page'[v], page'[u] # NoPage
        PROVE  u = v
    <3>1. page[u] = page[v] /\ page[u] # NoPage
      BY <2>2, <1>4
    <3>2. \A w \in Threads : Carrying(w) => page[w] # p
      BY <1>10 DEF Carried
    <3> QED
      BY <2>2, <3>1, <3>2, <1>0, <1>13 DEF Safe, NoDoubleUse
  <2>3. \A q \in Pages : /\ ~(InList(q) /\ Carried(q))'
                         /\ ~(InList(q) /\ Out(q))'
                         /\ ~(Carried(q) /\ Out(q))'
    <3> TAKE q \in Pages
    <3>1. CASE q = p
      BY <3>1, <1>1, <1>6, <1>10, <1>12, <1>15
    <3>2. CASE q # p
      BY <3>2, <1>6, <1>11, <1>15 DEF Safe, NoDoubleUse
    <3> QED
      BY <3>1, <3>2
  <2> QED
    BY <2>1, <2>2, <2>3 DEF NoDoubleUse
<1>17. NoLeak'
  <2> SUFFICES ASSUME NEW q \in Pages PROVE (InList(q) \/ Carried(q) \/ Out(q))'
    BY DEF NoLeak
  <2>1. CASE q = p
    BY <2>1, <1>1, <1>12, <1>15
  <2>2. CASE q # p
    BY <2>2, <1>6, <1>11, <1>15 DEF Safe, NoLeak
  <2> QED
    BY <2>1, <2>2
<1> QED
  BY <1>5, <1>9, <1>16, <1>17 DEF Safe

\* kfree puts the page it carries on a list.
LEMMA KfreePushStep ==
    ASSUME TypeOK, TypeOK', PageByPc, Safe, NEW t \in Threads, NEW c \in CPUs, KfreePush(t, c)
    PROVE  Safe'
<1> DEFINE p == page[t]
<1> USE DEF KfreePush
<1>1. p \in Pages /\ Carrying(t) /\ Carried(p)
  BY DEF PageByPc, Carrying, Carried
<1>2. p # NoPage
  BY <1>1, NoPageAssumption
<1>3. ~InList(p) /\ ~Out(p)
  BY <1>1 DEF Safe, NoDoubleUse
<1>4. (\A q \in Pages : InList(q)' <=> InList(q) \/ q = p) /\ ListsDisjoint'
  BY <1>1, <1>3, Push DEF Safe, NoDoubleUse
<1>5. \A q \in Pages : Droppers(q)' = Droppers(q)
  BY DEF Droppers, TypeOK
<1>6. \A q \in Pages : Out(q)' <=> Out(q)
  BY <1>5 DEF Out
<1>7. \A u \in Threads : Carrying(u)' <=> Carrying(u) /\ u # t
  BY DEF Carrying, TypeOK
<1>8. \A q \in Pages : Carried(q)' <=> Carried(q) /\ q # p
  BY <1>1, <1>2, <1>7 DEF Carried, Safe, NoDoubleUse
<1>9. CountsReferences'
  BY <1>5 DEF Safe, CountsReferences
<1>10. NoDoubleUse'
  BY <1>3, <1>4, <1>6, <1>7, <1>8 DEF Safe, NoDoubleUse
<1>11. NoLeak'
  BY <1>4, <1>6, <1>8 DEF Safe, NoLeak
<1> QED
  BY <1>9, <1>10, <1>11 DEF Safe

\* kalloc or ksteal takes the first page of a list.
LEMMA PopStep ==
    ASSUME TypeOK, TypeOK', Safe, NEW t \in Threads, NEW c \in CPUs,
           pc[t] \in {"idle", "ksteal"},
           freelist[c] # <<>>,
           freelist' = [freelist EXCEPT ![c] = Unlink(@)],
           page' = [page EXCEPT ![t] = Head(freelist[c])],
           pc' = [pc EXCEPT ![t] = "kalloc_ref"],
           UNCHANGED <<refcnt, refs>>
    PROVE  Safe'
<1>1. PICK p : p = Head(freelist[c])
  OBVIOUS
<1>2. /\ p \in Pages
      /\ InList(p)
      /\ \A q \in Pages : InList(q)' <=> InList(q) /\ q # p
      /\ ListsDisjoint'
  BY <1>1, Pop DEF Safe, NoDoubleUse
<1>3. ~Carried(p) /\ ~Out(p)
  BY <1>2 DEF Safe, NoDoubleUse
<1>4. \A q \in Pages : Droppers(q)' = Droppers(q)
  BY DEF Droppers, TypeOK
<1>5. \A q \in Pages : Out(q)' <=> Out(q)
  BY <1>4 DEF Out
<1>6. /\ ~Carrying(t) /\ Carrying(t)' /\ page'[t] = p
      /\ \A u \in Threads \ {t} : (Carrying(u)' <=> Carrying(u)) /\ page'[u] = page[u]
  BY <1>1 DEF Carrying, TypeOK
<1>7. \A q \in Pages : Carried(q)' <=> Carried(q) \/ q = p
  BY <1>6 DEF Carried
<1>8. \A u \in Threads : Carrying(u) => page[u] # p
  BY <1>3 DEF Carried
<1>9. CountsReferences'
  BY <1>4 DEF Safe, CountsReferences
<1>10. NoDoubleUse'
  <2>1. ASSUME NEW u \in Threads, NEW v \in Threads, Carrying(u)', Carrying(v)',
               page'[u] = page'[v], page'[u] # NoPage
        PROVE  u = v
    BY <2>1, <1>6, <1>8 DEF Safe, NoDoubleUse
  <2>2. \A q \in Pages : /\ ~(InList(q) /\ Carried(q))'
                         /\ ~(InList(q) /\ Out(q))'
                         /\ ~(Carried(q) /\ Out(q))'
    BY <1>2, <1>3, <1>5, <1>7 DEF Safe, NoDoubleUse
  <2> QED
    BY <1>2, <2>1, <2>2 DEF NoDoubleUse
<1>11. NoLeak'
  BY <1>2, <1>5, <1>7 DEF Safe, NoLeak
<1> QED
  BY <1>9, <1>10, <1>11 DEF Safe

\* A step of the search that finds no page changes no page's place.
LEMMA SearchStep ==
    ASSUME TypeOK, TypeOK', Safe, NEW t \in Threads,
           pc[t] \in {"idle", "ksteal"}, pc'[t] \in {"ksteal", "kalloc_ref"},
           page'[t] = NoPage,
           \A u \in Threads \ {t} : pc'[u] = pc[u] /\ page'[u] = page[u],
           UNCHANGED <<freelist, refcnt, refs>>
    PROVE  Safe'
<1>1. \A q \in Pages : InList(q)' <=> InList(q)
  BY DEF InList
<1>2. \A q \in Pages : q # NoPage
  BY NoPageAssumption
<1>3. \A q \in Pages : Droppers(q)' = Droppers(q)
  BY DEF Droppers
<1>4. \A q \in Pages : Out(q)' <=> Out(q)
  BY <1>3 DEF Out
<1>5. \A u \in Threads \ {t} : Carrying(u)' <=> Carrying(u)
  BY DEF Carrying
<1>6. ~Carrying(t)
  BY DEF Carrying
<1>7. \A q \in Pages : Carried(q)' <=> Carried(q)
  BY <1>2, <1>5, <1>6 DEF Carried
<1>8. CountsReferences'
  BY <1>3 DEF Safe, CountsReferences
<1>9. ListsDisjoint'
  BY DEF Safe, NoDoubleUse, ListsDisjoint
<1>10. NoDoubleUse'
  BY <1>1, <1>4, <1>5, <1>7, <1>9 DEF Safe, NoDoubleUse
<1>11. NoLeak'
  BY <1>1, <1>4, <1>7 DEF Safe, NoLeak
<1> QED
  BY <1>8, <1>10, <1>11 DEF Safe

\* kalloc hands the page it carries to its caller, the only one to refer to it.
LEMMA KallocRefStep ==
    ASSUME TypeOK, TypeOK', Safe, NEW t \in Threads, KallocRef(t)
    PROVE  Safe'
<1> USE DEF KallocRef
<1>0. PICK p \in Pages : p = page[t]
  BY DEF TypeOK
<1>1. Carrying(t) /\ Carried(p) /\ p # NoPage
  BY <1>0 DEF Carrying, Carried
<1>2. ~InList(p) /\ ~Out(p)
  BY <1>1 DEF Safe, NoDoubleUse
<1>3. refs[p] = 0 /\ Droppers(p) = {}
  <2>1. refs[p] \in Nat
    BY DEF TypeOK
  <2> QED
    BY <1>2, <2>1 DEF Out
<1>4. \A q \in Pages : Droppers(q)' = Droppers(q)
  BY DEF Droppers, TypeOK
<1>5. refcnt'[p] = 1 /\ refs'[p] = 1
  BY <1>0, <1>3 DEF TypeOK, NewCount
<1>6. \A q \in Pages \ {p} : refcnt'[q] = refcnt[q] /\ refs'[q] = refs[q]
  BY <1>0 DEF TypeOK
<1>7. \A q \in Pages : InList(q)' <=> InList(q)
  BY DEF InList
<1>8. \A q \in Pages : Out(q)' <=> Out(q) \/ q = p
  BY <1>4, <1>5, <1>6 DEF Out
<1>9. \A u \in Threads : Carrying(u)' <=> Carrying(u) /\ u # t
  BY DEF Carrying, TypeOK
<1>10. \A q \in Pages : Carried(q)' <=> Carried(q) /\ q # p
  BY <1>0, <1>1, <1>9 DEF Carried, Safe, NoDoubleUse
<1>11. CountsReferences'
  <2>1. Cardinality(Droppers(p)') = 0
    BY <1>3, <1>4, FS_EmptySet
  <2>2. refcnt'[p] = refs'[p] + Cardinality(Droppers(p)')
    BY <2>1, <1>5
  <2>3. ASSUME NEW q \in Pages \ {p} PROVE refcnt'[q] = refs'[q] + Cardinality(Droppers(q)')
    BY <1>4, <1>6 DEF Safe, CountsReferences
  <2> QED
    BY <2>2, <2>3 DEF CountsReferences
<1>12. ListsDisjoint'
  BY DEF Safe, NoDoubleUse, ListsDisjoint
<1>13. NoDoubleUse'
  BY <1>2, <1>7, <1>8, <1>9, <1>10, <1>12 DEF Safe, NoDoubleUse
<1>14. NoLeak'
  BY <1>7, <1>8, <1>10 DEF Safe, NoLeak
<1> QED
  BY <1>11, <1>13, <1>14 DEF Safe

\* kaddref adds a reference to a page that is out.
LEMMA KaddrefStep ==
    ASSUME TypeOK, TypeOK', Safe, NEW p \in Pages, Kaddref(p)
    PROVE  Safe'
<1> USE DEF Kaddref
<1>0. refs[p] \in Nat /\ refs[p] > 0 /\ refcnt[p] \in Int
  BY MaxRefAssumption DEF TypeOK
<1>1. \A q \in Pages : (InList(q)' <=> InList(q)) /\ (Carried(q)' <=> Carried(q))
  BY DEF InList, Carried, Carrying
<1>2. \A q \in Pages : Droppers(q)' = Droppers(q)
  BY DEF Droppers
<1>3. \A q \in Pages : Out(q)' <=> Out(q)
  BY <1>0, <1>2 DEF Out, TypeOK
<1>4. CountsReferences'
  <2>1. refcnt'[p] = refs'[p] + Cardinality(Droppers(p)')
    BY <1>0, <1>2, DroppersFinite DEF Safe, CountsReferences, AddedCount, TypeOK
  <2>2. ASSUME NEW q \in Pages \ {p} PROVE refcnt'[q] = refs'[q] + Cardinality(Droppers(q)')
    BY <1>2 DEF Safe, CountsReferences, TypeOK
  <2> QED
    BY <2>1, <2>2 DEF CountsReferences
<1>5. NoDoubleUse'
  <2>1. ListsDisjoint'
    BY DEF Safe, NoDoubleUse, ListsDisjoint
  <2>2. \A t, u \in Threads :
            Carrying(t)' /\ Carrying(u)' /\ page'[t] = page'[u] /\ page'[t] # NoPage => t = u
    BY DEF Safe, NoDoubleUse, Carrying
  <2>3. \A q \in Pages : ~(InList(q)' /\ Carried(q)') /\ ~(InList(q)' /\ Out(q)') /\ ~(Carried(q)' /\ Out(q)')
    BY <1>1, <1>3 DEF Safe, NoDoubleUse
  <2> QED
    BY <2>1, <2>2, <2>3 DEF NoDoubleUse
<1>6. NoLeak'
  BY <1>1, <1>3 DEF Safe, NoLeak
<1> QED
  BY <1>4, <1>5, <1>6 DEF Safe

-----------------------------------------------------------------------------
\* A step that leaves the lists, the counts and the threads alone.
LEMMA SafeStutter ==
    ASSUME Safe, UNCHANGED <<freelist, refcnt, refs, pc, page>> PROVE Safe'
<1>1. \A q \in Pages : InList(q)' <=> InList(q)
  BY DEF InList
<1>2. \A t \in Threads : Carrying(t)' <=> Carrying(t)
  BY DEF Carrying
<1>3. \A q \in Pages : Carried(q)' <=> Carried(q)
  BY <1>2 DEF Carried
<1>4. \A q \in Pages : Droppers(q)' = Droppers(q) /\ (Out(q)' <=> Out(q))
  BY DEF Droppers, Out
<1>5. CountsReferences'
  BY <1>4 DEF Safe, CountsReferences
<1>6. NoDoubleUse'
  <2>1. ListsDisjoint'
    BY DEF Safe, NoDoubleUse, ListsDisjoint
  <2>2. \A t, u \in Threads :
            Carrying(t)' /\ Carrying(u)' /\ page'[t] = page'[u] /\ page'[t] # NoPage => t = u
    BY <1>2 DEF Safe, NoDoubleUse
  <2>3. \A p \in Pages : ~(InList(p)' /\ Carried(p)') /\ ~(InList(p)' /\ Out(p)') /\ ~(Carried(p)' /\ Out(p)')
    BY <1>1, <1>3, <1>4 DEF Safe, NoDoubleUse
  <2> QED
    BY <2>1, <2>2, <2>3 DEF NoDoubleUse
<1>7. NoLeak'
  BY <1>1, <1>3, <1>4 DEF Safe, NoLeak
<1> QED
  BY <1>5, <1>6, <1>7 DEF Safe

\* Every step of the allocator preserves the inductive invariant.
LEMMA StepInv == IndInv /\ [Next]_vars => IndInv'
<1> SUFFICES ASSUME IndInv, [Next]_vars PROVE IndInv'
  OBVIOUS
<1>1. CASE UNCHANGED vars
  <2>1. UNCHANGED <<freelist, refcnt, refs, pc, page, cpu, idx, panicked>>
    BY <1>1 DEF vars
  <2>2. TypeOK' /\ PageByPc'
    BY <2>1 DEF IndInv, TypeOK, PageByPc
  <2>3. Safe'
    BY <2>1, SafeStutter DEF IndInv, Safe
  <2>4. OnlyExhaustionPanics'
    BY <2>1 DEF IndInv, OnlyExhaustionPanics
  <2> QED
    BY <2>2, <2>3, <2>4 DEF IndInv, Safe
<1>2. CASE ~panicked /\ Step
  <2>1. TypeOK /\ PageByPc /\ Safe
    BY DEF IndInv, Safe
  <2>2. TypeOK' /\ PageByPc'
    BY <1>2, <2>1, TypeStep
  <2>3. ASSUME NEW t \in Threads, NEW p \in Pages, KfreeCall(t, p) PROVE Safe' /\ ~panicked'
    BY <1>2, <2>1, <2>2, <2>3, KfreeCallStep DEF KfreeCall
  <2>4. ASSUME NEW t \in Threads, KfreeRef(t) PROVE Safe' /\ ~panicked'
    BY <2>1, <2>2, <2>4, KfreeRefStep
  <2>5. ASSUME NEW t \in Threads, NEW c \in CPUs, KfreePush(t, c) PROVE Safe' /\ ~panicked'
    BY <1>2, <2>1, <2>2, <2>5, KfreePushStep DEF KfreePush
  <2>6. ASSUME NEW t \in Threads, NEW c \in CPUs, KallocLocal(t, c) PROVE Safe' /\ ~panicked'
    <3>1. CASE freelist[c] # <<>>
      <4>1. /\ pc[t] \in {"idle", "ksteal"}
            /\ freelist' = [freelist EXCEPT ![c] = Unlink(@)]
            /\ page' = [page EXCEPT ![t] = Head(freelist[c])]
            /\ pc' = [pc EXCEPT ![t] = "kalloc_ref"]
            /\ UNCHANGED <<refcnt, refs, panicked>>
        BY <2>6, <3>1 DEF KallocLocal
      <4> QED
        BY <1>2, <2>1, <2>2, <3>1, <4>1, PopStep
    <3>2. CASE freelist[c] = <<>>
      <4>1. /\ pc[t] \in {"idle", "ksteal"} /\ pc'[t] \in {"ksteal", "kalloc_ref"}
            /\ page'[t] = NoPage
            /\ \A u \in Threads \ {t} : pc'[u] = pc[u] /\ page'[u] = page[u]
            /\ UNCHANGED <<freelist, refcnt, refs, panicked>>
        BY <2>1, <2>6, <3>2 DEF KallocLocal, TypeOK
      <4> QED
        BY <1>2, <2>1, <2>2, <4>1, SearchStep
    <3> QED
      BY <3>1, <3>2
  <2>7. ASSUME NEW t \in Threads, Ksteal(t) PROVE Safe' /\ ~panicked'
    <3>1. PICK n : n = (cpu[t] + idx[t]) % NCPU
      OBVIOUS
    <3>2. n \in CPUs
      <4>1. NCPU \in Nat /\ NCPU > 0
        BY NCPUAssumption
      <4>2. cpu[t] + idx[t] \in Int
        BY <2>1, <4>1 DEF CPUs, TypeOK
      <4>3. \A a \in Int : a % NCPU \in 0 .. NCPU - 1
        BY <4>1
      <4> QED
        BY <3>1, <4>2, <4>3 DEF CPUs
    <3>3. CASE freelist[n] # <<>> /\ ~ScanDone(idx[t])
      <4>1. /\ pc[t] \in {"idle", "ksteal"}
            /\ freelist' = [freelist EXCEPT ![n] = Unlink(@)]
            /\ page' = [page EXCEPT ![t] = Head(freelist[n])]
            /\ pc' = [pc EXCEPT ![t] = "kalloc_ref"]
            /\ UNCHANGED <<refcnt, refs, panicked>>
        BY <2>7, <3>1, <3>3 DEF Ksteal
      <4> QED
        BY <1>2, <2>1, <2>2, <3>2, <3>3, <4>1, PopStep
    <3>4. CASE freelist[n] = <<>> \/ ScanDone(idx[t])
      <4>1. /\ pc[t] = "ksteal" /\ pc'[t] \in {"ksteal", "kalloc_ref"}
            /\ \A u \in Threads \ {t} : pc'[u] = pc[u] /\ page'[u] = page[u]
            /\ UNCHANGED <<freelist, refcnt, refs, page, panicked>>
        BY <2>1, <2>7, <3>1, <3>4 DEF Ksteal, TypeOK
      <4>2. page'[t] = NoPage
        BY <2>1, <4>1 DEF PageByPc
      <4> QED
        BY <1>2, <2>1, <2>2, <4>1, <4>2, SearchStep
    <3> QED
      BY <3>3, <3>4
  <2>8. ASSUME NEW t \in Threads, KallocRef(t) PROVE Safe' /\ ~panicked'
    BY <1>2, <2>1, <2>2, <2>8, KallocRefStep DEF KallocRef
  <2>9. ASSUME NEW t \in Threads, KallocNull(t) PROVE Safe' /\ OnlyExhaustionPanics'
    <3>1. Safe'
      BY <2>1, <2>9, SafeStutter DEF KallocNull
    <3>2. OnlyExhaustionPanics'
      BY <2>9 DEF KallocNull, OnlyExhaustionPanics
    <3> QED
      BY <3>1, <3>2
  <2>10. ASSUME NEW p \in Pages, Kaddref(p) PROVE Safe' /\ ~panicked'
    BY <1>2, <2>1, <2>2, <2>10, KaddrefStep DEF Kaddref
  <2>11. Safe' /\ OnlyExhaustionPanics'
    BY <1>2, <2>3, <2>4, <2>5, <2>6, <2>7, <2>8, <2>9, <2>10 DEF Step, OnlyExhaustionPanics
  <2> QED
    BY <2>2, <2>11 DEF IndInv, Safe
<1> QED
  BY <1>1, <1>2 DEF Next, Halted

\* The invariant holds in every reachable state, whatever the number of CPUs,
\* pages and threads.
THEOREM Invariance == Spec => []IndInv
BY InitInv, StepInv, PTL DEF Spec

\* kalloc, ksteal, kfree and kaddref keep every value in its type.
THEOREM TypeCorrect == Spec => []TypeOK
<1>1. IndInv => TypeOK
  BY DEF IndInv
<1> QED
  BY <1>1, Invariance, PTL

\* The reference count of a page is the number of references to it.
THEOREM CountsCorrect == Spec => []CountsReferences
<1>1. IndInv => CountsReferences
  BY DEF IndInv
<1> QED
  BY <1>1, Invariance, PTL

\* The allocator never hands out a page twice.
THEOREM NoDoubleUseCorrect == Spec => []NoDoubleUse
<1>1. IndInv => NoDoubleUse
  BY DEF IndInv
<1> QED
  BY <1>1, Invariance, PTL

\* The allocator loses no page.
THEOREM NoLeakCorrect == Spec => []NoLeak
<1>1. IndInv => NoLeak
  BY DEF IndInv
<1> QED
  BY <1>1, Invariance, PTL

\* The panic of kfree is never reached; only exhaustion stops the kernel.
THEOREM PanicsCorrect == Spec => []OnlyExhaustionPanics
<1>1. IndInv => OnlyExhaustionPanics
  BY DEF IndInv
<1> QED
  BY <1>1, Invariance, PTL

\* kalloc returns only pages that nobody refers to.
THEOREM FreshCorrect == Spec => FreshWhenAllocated
<1> DEFINE A == \A p \in Pages : refs[p] = 0 /\ refs'[p] > 0
                    => Droppers(p) = {} /\ refcnt[p] = 0 /\ refcnt'[p] = 1
<1>1. IndInv /\ [Next]_vars => [A]_vars
  <2> SUFFICES ASSUME IndInv, ~panicked, Step, NEW p \in Pages, refs[p] = 0, refs'[p] > 0
               PROVE  Droppers(p) = {} /\ refcnt[p] = 0 /\ refcnt'[p] = 1
    BY DEF Next, Halted
  <2>1. PICK t \in Threads : KallocRef(t) /\ page[t] = p
    <3>1. refs' # refs
      OBVIOUS
    <3>2. ASSUME NEW q \in Pages, refs' = [refs EXCEPT ![q] = @ - 1], refs[q] > 0 PROVE FALSE
      BY <3>2 DEF IndInv, TypeOK
    <3>3. ASSUME NEW q \in Pages, Kaddref(q) PROVE FALSE
      BY <3>3, MaxRefAssumption DEF Kaddref, IndInv, TypeOK
    <3>4. \E t \in Threads : KallocRef(t)
      <4>1. ASSUME NEW t \in Threads, NEW q \in Pages, KfreeCall(t, q) PROVE FALSE
        BY <4>1, <3>2 DEF KfreeCall
      <4>2. ASSUME NEW t \in Threads, KfreeRef(t) \/ Ksteal(t) \/ KallocNull(t) PROVE FALSE
        BY <4>2, <3>1 DEF KfreeRef, Ksteal, KallocNull
      <4>3. ASSUME NEW t \in Threads, NEW c \in CPUs, KfreePush(t, c) \/ KallocLocal(t, c) PROVE FALSE
        BY <4>3, <3>1 DEF KfreePush, KallocLocal
      <4> QED
        BY <4>1, <4>2, <4>3, <3>3 DEF Step
    <3> QED
      <4>1. PICK t \in Threads : KallocRef(t)
        BY <3>4
      <4>2. refs' = [refs EXCEPT ![page[t]] = @ + 1] /\ refs \in [Pages -> Nat]
        BY <4>1 DEF KallocRef, IndInv, TypeOK
      <4>3. page[t] = p
        BY <4>2
      <4> QED
        BY <4>1, <4>3
  <2>2. Carried(p) /\ ~Out(p)
    BY <2>1 DEF KallocRef, Carried, Carrying, IndInv, NoDoubleUse
  <2>3. Droppers(p) = {}
    BY <2>2 DEF Out
  <2>4. refcnt[p] = 0
    <3>1. Cardinality(Droppers(p)) = 0
      BY <2>3, FS_EmptySet
    <3> QED
      BY <3>1 DEF IndInv, CountsReferences
  <2>5. refcnt'[p] = 1
    BY <2>1 DEF KallocRef, NewCount, IndInv, TypeOK
  <2> QED
    BY <2>3, <2>4, <2>5
<1>2. Spec => [][A]_vars
  BY <1>1, Invariance, PTL DEF Spec
<1> QED
  BY <1>2 DEF FreshWhenAllocated
=============================================================================
