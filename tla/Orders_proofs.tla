--------------------------- MODULE Orders_proofs ---------------------------
(***************************************************************************)
(* Proofs about Orders, for any placements, cancellations, items, stock    *)
(* and number of failures.  SumFunction is defined by recursion over the   *)
(* subsets of a finite set, so its facts come first.                       *)
(***************************************************************************)
EXTENDS Orders, Lists_proofs, TLAPS

-----------------------------------------------------------------------------
(* Sums over a finite set                                                   *)

\* How SumFunctionOnSet adds: an element that it picks, and the sum of the others.
Pick(t) == CHOOSE x \in t : TRUE
SumStep(f, g, t) == IF t = {} THEN 0 ELSE f[Pick(t)] + g[t \ {Pick(t)}]
IsSums(f, S, g) == g = [t \in SUBSET S |-> SumStep(f, g, t)]

\* A sum is one value of the function that holds the sum over every subset.
LEMMA SumUnfolds ==
    ASSUME NEW S, NEW f
    PROVE  SumFunctionOnSet(f, S) = (CHOOSE g : IsSums(f, S, g))[S]
BY DEF SumFunctionOnSet, FoldFunctionOnSet, MapThenFoldSet, IsSums, SumStep, Pick

\* The subsets of at most n elements, and partial sums over them.
Small(S, n) == {t \in SUBSET S : Cardinality(t) <= n}

SumsUpTo(f, S, n, g) ==
    /\ g \in [Small(S, n) -> Nat]
    /\ \A t \in Small(S, n) : g[t] = SumStep(f, g, t)

\* Without the element picked, a set is smaller.
LEMMA PickSmaller ==
    ASSUME NEW S, IsFiniteSet(S), NEW t \in SUBSET S, t # {}
    PROVE  /\ Pick(t) \in t
           /\ t \ {Pick(t)} \in SUBSET S
           /\ Cardinality(t) \in Nat
           /\ Cardinality(t \ {Pick(t)}) \in Nat
           /\ Cardinality(t) = Cardinality(t \ {Pick(t)}) + 1
<1>1. Pick(t) \in t
  BY DEF Pick
<1>2. IsFiniteSet(t)
  BY FS_Subset
<1>3. IsFiniteSet(t \ {Pick(t)}) /\ Cardinality(t \ {Pick(t)}) = Cardinality(t) - 1
  BY <1>1, <1>2, FS_RemoveElement
<1>4. Cardinality(t) \in Nat /\ Cardinality(t \ {Pick(t)}) \in Nat
  BY <1>2, <1>3, FS_CardinalityType
<1> QED
  BY <1>1, <1>3, <1>4

\* A set of subsets with the empty one, and with each that it has without the
\* element picked, has them all.
LEMMA EverySubset ==
    ASSUME NEW S, IsFiniteSet(S), NEW T \in SUBSET (SUBSET S), {} \in T,
           \A t \in SUBSET S : t # {} /\ t \ {Pick(t)} \in T => t \in T
    PROVE  T = SUBSET S
<1> DEFINE sizes == {n \in Nat : \A t \in SUBSET S : Cardinality(t) = n => t \in T}
<1>0. \A t \in SUBSET S : Cardinality(t) \in Nat /\ (Cardinality(t) = 0 => t = {})
  BY FS_Subset, FS_CardinalityType, FS_EmptySet
<1>1. 0 \in sizes
  BY <1>0
<1>2. ASSUME NEW n \in sizes PROVE n + 1 \in sizes
  <2>1. SUFFICES ASSUME NEW t \in SUBSET S, Cardinality(t) = n + 1 PROVE t \in T
    OBVIOUS
  <2>2. t # {}
    BY <2>1, FS_EmptySet
  <2>3. t \ {Pick(t)} \in SUBSET S /\ Cardinality(t \ {Pick(t)}) = n
    <3>1. /\ t \ {Pick(t)} \in SUBSET S
          /\ Cardinality(t \ {Pick(t)}) \in Nat
          /\ n + 1 = Cardinality(t \ {Pick(t)}) + 1
      BY <2>1, <2>2, PickSmaller
    <3> DEFINE k == Cardinality(t \ {Pick(t)})
    <3>2. k \in Nat /\ n \in Nat /\ n + 1 = k + 1
      BY <3>1
    <3> HIDE DEF k
    <3>3. k = n
      BY <3>2
    <3> QED
      BY <3>1, <3>3 DEF k
  <2> QED
    BY <2>2, <2>3
<1>3. sizes = Nat
  <2>1. sizes \in SUBSET Nat
    OBVIOUS
  <2> HIDE DEF sizes
  <2> QED
    BY <1>1, <1>2, <2>1, EveryNatural
<1> QED
  BY <1>0, <1>3

\* Partial sums extend to the subsets with one element more.
LEMMA SumsExtend ==
    ASSUME NEW S, IsFiniteSet(S), NEW f \in [S -> Nat], NEW n \in Nat,
           NEW g, SumsUpTo(f, S, n, g)
    PROVE  \E h : SumsUpTo(f, S, n + 1, h)
<1> DEFINE h == [t \in Small(S, n + 1) |-> SumStep(f, g, t)]
<1>1. ASSUME NEW t \in Small(S, n + 1), t # {}
      PROVE  /\ t \ {Pick(t)} \in Small(S, n)
             /\ f[Pick(t)] \in Nat
  <2>1. t \in SUBSET S /\ Cardinality(t) <= n + 1
    BY DEF Small
  <2>2. /\ Pick(t) \in t
        /\ t \ {Pick(t)} \in SUBSET S
        /\ Cardinality(t \ {Pick(t)}) \in Nat
        /\ Cardinality(t) = Cardinality(t \ {Pick(t)}) + 1
    BY <1>1, <2>1, PickSmaller
  <2> QED
    BY <2>1, <2>2 DEF Small
<1>2. \A t \in Small(S, n) : t \in Small(S, n + 1)
  <2>1. SUFFICES ASSUME NEW t \in Small(S, n) PROVE t \in Small(S, n + 1)
    OBVIOUS
  <2>2. t \in SUBSET S /\ Cardinality(t) <= n
    BY DEF Small
  <2>3. Cardinality(t) \in Nat
    BY <2>2, FS_Subset, FS_CardinalityType
  <2> QED
    BY <2>2, <2>3 DEF Small
<1>3. \A t \in Small(S, n) : h[t] = g[t]
  BY <1>2 DEF SumsUpTo
<1>4. ASSUME NEW t \in Small(S, n + 1) PROVE h[t] \in Nat /\ h[t] = SumStep(f, h, t)
  <2>0. h[t] = SumStep(f, g, t)
    OBVIOUS
  <2>1. CASE t = {}
    BY <2>0, <2>1 DEF SumStep
  <2>2. CASE t # {}
    <3>1. t \ {Pick(t)} \in Small(S, n) /\ f[Pick(t)] \in Nat
      BY <1>1, <2>2
    <3>2. g[t \ {Pick(t)}] \in Nat /\ h[t \ {Pick(t)}] = g[t \ {Pick(t)}]
      BY <1>3, <3>1 DEF SumsUpTo
    <3> HIDE DEF h
    <3> QED
      BY <2>0, <2>2, <3>1, <3>2 DEF SumStep
  <2> QED
    BY <2>1, <2>2
<1>5. SumsUpTo(f, S, n + 1, h)
  BY <1>4 DEF SumsUpTo
<1> QED
  BY <1>5

\* The partial sum over the empty set.
LEMMA SumsStart ==
    ASSUME NEW S, IsFiniteSet(S), NEW f \in [S -> Nat]
    PROVE  \E g : SumsUpTo(f, S, 0, g)
<1> DEFINE g == [t \in Small(S, 0) |-> 0]
<1>1. ASSUME NEW t \in Small(S, 0) PROVE t = {}
  <2>1. t \in SUBSET S /\ Cardinality(t) <= 0
    BY DEF Small
  <2>2. IsFiniteSet(t) /\ Cardinality(t) \in Nat
    BY <2>1, FS_Subset, FS_CardinalityType
  <2> QED
    BY <2>1, <2>2, FS_EmptySet
<1>2. SumsUpTo(f, S, 0, g)
  BY <1>1 DEF SumsUpTo, SumStep
<1> QED
  BY <1>2

\* So there are partial sums up to any number of elements.
LEMMA SumsExist ==
    ASSUME NEW S, IsFiniteSet(S), NEW f \in [S -> Nat], NEW n \in Nat
    PROVE  \E g : SumsUpTo(f, S, n, g)
<1> DEFINE T == {k \in Nat : \E g : SumsUpTo(f, S, k, g)}
<1>1. 0 \in T
  BY SumsStart
<1>2. ASSUME NEW k \in T PROVE k + 1 \in T
  BY SumsExtend
<1>3. T = Nat
  <2>1. T \in SUBSET Nat
    OBVIOUS
  <2> HIDE DEF T
  <2> QED
    BY <1>1, <1>2, <2>1, EveryNatural
<1> QED
  BY <1>3

\* What the sums over the subsets of a finite set are.
LEMMA SumsOfSubsets ==
    ASSUME NEW S, IsFiniteSet(S), NEW f \in [S -> Nat]
    PROVE  \E g : /\ SumFunctionOnSet(f, S) = g[S]
                  /\ \A t \in SUBSET S : g[t] \in Nat /\ g[t] = SumStep(f, g, t)
<1> DEFINE n == Cardinality(S)
<1>1. n \in Nat
  BY FS_CardinalityType
<1>2. PICK g : SumsUpTo(f, S, n, g)
  BY <1>1, SumsExist
<1>3. Small(S, n) = SUBSET S
  BY FS_Subset DEF Small
<1>4. g \in [SUBSET S -> Nat] /\ \A t \in SUBSET S : g[t] = SumStep(f, g, t)
  BY <1>2, <1>3 DEF SumsUpTo
<1>5. IsSums(f, S, g)
  BY <1>4 DEF IsSums
<1> DEFINE h == CHOOSE h : IsSums(f, S, h)
<1>6. IsSums(f, S, h)
  BY <1>5
<1>7. SumFunctionOnSet(f, S) = h[S]
  BY SumUnfolds
<1> HIDE DEF h
<1>8. \A t \in SUBSET S : h[t] = SumStep(f, h, t)
  BY <1>6 DEF IsSums
<1>9. \A t \in SUBSET S : h[t] = g[t]
  <2> DEFINE T == {t \in SUBSET S : h[t] = g[t]}
  <2>1. {} \in T
    BY <1>4, <1>8 DEF SumStep
  <2>2. ASSUME NEW t \in SUBSET S, t # {}, t \ {Pick(t)} \in T PROVE t \in T
    <3>1. h[t \ {Pick(t)}] = g[t \ {Pick(t)}]
      BY <2>2
    <3> QED
      BY <1>4, <1>8, <2>2, <3>1 DEF SumStep
  <2>3. T = SUBSET S
    <3>1. T \in SUBSET (SUBSET S)
      OBVIOUS
    <3> HIDE DEF T
    <3> QED
      BY <2>1, <2>2, <3>1, EverySubset
  <2> QED
    BY <2>3
<1>10. S \in SUBSET S
  OBVIOUS
<1> QED
  BY <1>4, <1>7, <1>9, <1>10
\* A sum of naturals is one.
LEMMA SumType ==
    ASSUME NEW S, IsFiniteSet(S), NEW f \in [S -> Nat]
    PROVE  SumFunction(f) \in Nat
<1>1. SumFunction(f) = SumFunctionOnSet(f, S)
  BY DEF SumFunction
<1> QED
  BY <1>1, SumsOfSubsets

\* A sum of zeros is zero.
LEMMA SumOfZeros ==
    ASSUME NEW S, IsFiniteSet(S), NEW f \in [S -> Nat], \A x \in S : f[x] = 0
    PROVE  SumFunction(f) = 0
<1>1. PICK g : /\ SumFunctionOnSet(f, S) = g[S]
               /\ \A t \in SUBSET S : g[t] \in Nat /\ g[t] = SumStep(f, g, t)
  BY SumsOfSubsets
<1> DEFINE T == {t \in SUBSET S : g[t] = 0}
<1>2. {} \in T
  BY <1>1 DEF SumStep
<1>3. ASSUME NEW t \in SUBSET S, t # {}, t \ {Pick(t)} \in T PROVE t \in T
  <2>1. g[t \ {Pick(t)}] = 0 /\ f[Pick(t)] = 0
    BY <1>3, PickSmaller
  <2>2. g[t] = f[Pick(t)] + g[t \ {Pick(t)}]
    BY <1>1, <1>3 DEF SumStep
  <2> QED
    BY <2>1, <2>2
<1>4. T = SUBSET S
  <2>1. T \in SUBSET (SUBSET S)
    OBVIOUS
  <2> HIDE DEF T
  <2> QED
    BY <1>2, <1>3, <2>1, EverySubset
<1>5. S \in SUBSET S
  OBVIOUS
<1>6. SumFunction(f) = SumFunctionOnSet(f, S)
  BY DEF SumFunction
<1> QED
  BY <1>1, <1>4, <1>5, <1>6

\* A sum changes by what one of its terms does.
LEMMA SumChange ==
    ASSUME NEW S, IsFiniteSet(S), NEW f \in [S -> Nat], NEW h \in [S -> Nat],
           NEW p \in S, \A x \in S \ {p} : f[x] = h[x]
    PROVE  SumFunction(f) + h[p] = SumFunction(h) + f[p]
<1>1. PICK g : /\ SumFunctionOnSet(f, S) = g[S]
               /\ \A t \in SUBSET S : g[t] \in Nat /\ g[t] = SumStep(f, g, t)
  BY SumsOfSubsets
<1>2. PICK k : /\ SumFunctionOnSet(h, S) = k[S]
               /\ \A t \in SUBSET S : k[t] \in Nat /\ k[t] = SumStep(h, k, t)
  BY SumsOfSubsets
<1> DEFINE T == {t \in SUBSET S : IF p \in t THEN g[t] + h[p] = k[t] + f[p]
                                             ELSE g[t] = k[t]}
<1>3. {} \in T
  <2>1. g[{}] = SumStep(f, g, {}) /\ k[{}] = SumStep(h, k, {})
    BY <1>1, <1>2
  <2>2. g[{}] = k[{}]
    BY <2>1 DEF SumStep
  <2> QED
    BY <2>2
<1>4. ASSUME NEW t \in SUBSET S, t # {}, t \ {Pick(t)} \in T PROVE t \in T
  <2> DEFINE x == Pick(t)
             u == t \ {Pick(t)}
  <2>1. /\ g[t] = f[x] + g[u]
        /\ k[t] = h[x] + k[u]
    BY <1>1, <1>2, <1>4 DEF SumStep
  <2>2. x \in t /\ x \in S /\ u \in SUBSET S
    BY <1>4, PickSmaller
  <2>3. /\ p \in u <=> p \in t /\ p # x
        /\ x # p => f[x] = h[x]
    BY <2>2
  <2>4. IF p \in u THEN g[u] + h[p] = k[u] + f[p] ELSE g[u] = k[u]
    BY <1>4
  <2>5. g[u] \in Nat /\ k[u] \in Nat
    BY <1>1, <1>2, <2>2
  <2>6. f[x] \in Nat /\ h[x] \in Nat /\ f[p] \in Nat /\ h[p] \in Nat
    BY <2>2
  <2> HIDE DEF x, u
  <2>7. CASE p = x
    BY <2>1, <2>2, <2>3, <2>4, <2>5, <2>6, <2>7
  <2>8. CASE p # x
    BY <2>1, <2>2, <2>3, <2>4, <2>5, <2>6, <2>8
  <2> QED
    BY <2>7, <2>8
<1>5. T = SUBSET S
  <2>1. T \in SUBSET (SUBSET S)
    OBVIOUS
  <2> HIDE DEF T
  <2> QED
    BY <1>3, <1>4, <2>1, EverySubset
<1>6. S \in SUBSET S
  OBVIOUS
<1>7. SumFunction(f) = SumFunctionOnSet(f, S) /\ SumFunction(h) = SumFunctionOnSet(h, S)
  BY DEF SumFunction
<1>8. g[S] + h[p] = k[S] + f[p]
  BY <1>5, <1>6
<1> QED
  BY <1>1, <1>2, <1>7, <1>8

\* The sum over the placements changes by what one of them does.
LEMMA HeldChange ==
    ASSUME NEW p \in Placement, NEW f \in [Placement -> Nat], NEW h \in [Placement -> Nat],
           \A q \in Placement \ {p} : f[q] = h[q]
    PROVE  SumFunction(f) + h[p] = SumFunction(h) + f[p]
<1>1. IsFiniteSet(Placement)
  BY OrdersAssumption
<1> QED
  BY <1>1, SumChange

-----------------------------------------------------------------------------
(* Types, ids and cancellations                                             *)

USE OrdersAssumption

Cancelled(c) == cancelling[c] \in {"save", "cancelled", "unsaved"}

\* Ids are given once, and the repository holds placed orders under their ids.
IdsInv ==
    /\ \A p \in Placement :
          /\ placing[p] = "items" => taken[p] < Len(Items[p])
          /\ orderId[p] <= lastId
          /\ placing[p] \in {"items", "id"} => orderId[p] = 0
          /\ placing[p] \in {"save", "placed"} => orderId[p] > 0
    /\ \A p, q \in Placement : orderId[p] = orderId[q] /\ orderId[p] > 0 => p = q
    /\ \A id \in DOMAIN repository :
          orderId[repository[id]] = id /\ placing[repository[id]] = "placed"

\* A cancellation works on a placed order of its buyer, and has cancelled it
\* exactly if it says so.
TargetsInv ==
    \A c \in Cancellation :
        /\ cancelling[c] = "load" => target[c] = None
        /\ target[c] # None => placing[target[c]] = "placed" /\ BuyerOf[target[c]] = BuyerOf[c]
        /\ cancelling[c] = "lookup" \/ Cancelled(c) => target[c] # None
        /\ Cancelled(c) => status[target[c]] = "CANCELLED"

IInv == TypeOK /\ IdsInv /\ TargetsInv /\ OrderKept /\ CancelledOnce /\ CancelledByOwner

\* What an item names and asks for.
LEMMA ItemType ==
    ASSUME NEW p \in Placement, NEW i \in 1..Len(Items[p])
    PROVE  Items[p][i].sku \in Sku /\ Items[p][i].quantity \in Nat \ {0}
<1>1. Items[p] \in Seq(Item)
  OBVIOUS
<1>2. Items[p][i] \in Item
  BY <1>1
<1> QED
  BY <1>2 DEF Item

\* A restored stock is a stock.
LEMMA RestoredType == \A p \in Placement : TypeOK => Restored(p) \in [Sku -> Nat]
BY DEF TypeOK, Restored

\* The initial states satisfy the inductive invariant.
LEMMA InitIInv == Init => IInv
<1> SUFFICES ASSUME Init PROVE IInv
  OBVIOUS
<1> QED
  BY DEF Init, IInv, TypeOK, IdsInv, TargetsInv, OrderKept, CancelledOnce, CancelledByOwner, Cancelled

\* A deduction.
LEMMA DeductItemStep ==
    ASSUME IInv, NEW p \in Placement, DeductItem(p)
    PROVE  IInv'
<1> USE DEF IInv, DeductItem, Goto, IsAvailable
<1>1. TypeOK'
  <2> DEFINE item == Items[p][taken[p] + 1]
  <2>1. item.sku \in Sku /\ item.quantity \in Nat
    <3>1. taken[p] + 1 \in 1..Len(Items[p])
      BY DEF TypeOK, IdsInv
    <3> QED
      BY <3>1, ItemType
  <2> HIDE DEF item
  <2>a. /\ stock' = [stock EXCEPT ![item.sku] = @ - item.quantity]
        /\ lines' = [lines EXCEPT ![p][item.sku] = @ + item.quantity]
        /\ stock[item.sku] >= item.quantity
    BY DEF item
  <2>2. stock' \in [Sku -> Nat] /\ lines' \in [Placement -> [Sku -> Nat]]
    <3> HIDE DEF DeductItem, IInv
    <3>1. TypeOK
      BY DEF IInv
    <3> QED
      BY <2>1, <2>a, <3>1 DEF TypeOK
  <2>3. \A q \in Placement : taken'[q] \in 0..Len(Items[q])
    BY DEF TypeOK, IdsInv
  <2>4. placing' \in [Placement -> {"items", "id", "save", "placed", "failed"}]
    BY DEF TypeOK
  <2> QED
    BY <2>2, <2>3, <2>4 DEF TypeOK
<1>2. IdsInv'
  BY DEF TypeOK, IdsInv
<1>3. TargetsInv'
  BY DEF TypeOK, IdsInv, TargetsInv, Cancelled
<1>4. OrderKept'
  BY DEF TypeOK, IdsInv, OrderKept
<1>5. CancelledOnce'
  BY DEF TypeOK, TargetsInv, CancelledOnce, Cancelled
<1>6. CancelledByOwner'
  BY DEF TypeOK, TargetsInv, CancelledByOwner, Cancelled
<1> QED
  BY <1>1, <1>2, <1>3, <1>4, <1>5, <1>6

\* A refused item.
LEMMA RejectItemStep ==
    ASSUME IInv, NEW p \in Placement, RejectItem(p)
    PROVE  IInv'
<1> USE DEF IInv, RejectItem, Goto, Rollback
<1>1. TypeOK'
  <2>1. stock' \in [Sku -> Nat]
    BY RestoredType
  <2> QED
    BY <2>1 DEF TypeOK
<1>2. IdsInv'
  BY DEF TypeOK, IdsInv
<1>3. TargetsInv'
  BY DEF TypeOK, IdsInv, TargetsInv, Cancelled
<1>4. OrderKept'
  BY DEF TypeOK, IdsInv, OrderKept
<1>5. CancelledOnce'
  BY DEF TypeOK, TargetsInv, CancelledOnce, Cancelled
<1>6. CancelledByOwner'
  BY DEF TypeOK, TargetsInv, CancelledByOwner, Cancelled
<1> QED
  BY <1>1, <1>2, <1>3, <1>4, <1>5, <1>6

\* The making of an order: its id is new.
LEMMA MakeOrderStep ==
    ASSUME IInv, NEW p \in Placement, MakeOrder(p)
    PROVE  IInv'
<1> USE DEF IInv, MakeOrder, Goto, Rollback, NextOrderId
<1>1. TypeOK'
  <2>1. stock' \in [Sku -> Nat]
    BY RestoredType DEF TypeOK
  <2>2. orderId' \in [Placement -> Nat] /\ lastId' \in Nat
    <3>1. CASE Cardinality(Currencies(p)) = 1
      <4>1. orderId' = [orderId EXCEPT ![p] = lastId + 1] /\ lastId' = lastId + 1
        BY <3>1
      <4>2. orderId \in [Placement -> Nat] /\ lastId \in Nat
        BY DEF TypeOK
      <4> QED
        BY <4>1, <4>2
    <3>2. CASE Cardinality(Currencies(p)) # 1
      BY <3>2 DEF TypeOK
    <3> QED
      BY <3>1, <3>2
  <2>3. /\ status' \in [Placement -> {"DRAFT", "CONFIRMED", "CANCELLED"}]
        /\ placing' \in [Placement -> {"items", "id", "save", "placed", "failed"}]
    BY DEF TypeOK
  <2> QED
    BY <2>1, <2>2, <2>3 DEF TypeOK
<1>a. /\ \A q \in Placement \ {p} :
            placing'[q] = placing[q] /\ orderId'[q] = orderId[q] /\ status'[q] = status[q]
      /\ placing'[p] \in {"save", "failed"}
      /\ orderId'[p] \in {0, lastId + 1}
      /\ placing'[p] = "save" => orderId'[p] = lastId + 1
  BY DEF TypeOK, IdsInv
<1>b. repository' = repository /\ taken' = taken /\ lastId' = lastId + 1
  OBVIOUS
<1>c. cancelling' = cancelling /\ target' = target
  OBVIOUS
<1>d. placing[p] = "id" /\ (status'[p] = "CONFIRMED" \/ status'[p] = status[p])
  BY DEF TypeOK
<1> HIDE DEF MakeOrder, Goto, Rollback, NextOrderId
<1>2. IdsInv'
  <2>1. \A q \in Placement : orderId[q] \in Nat /\ orderId[q] <= lastId /\ lastId \in Nat
    BY DEF TypeOK, IdsInv
  <2>2. \A id \in DOMAIN repository : repository[id] \in Placement \ {p}
    BY <1>d DEF TypeOK, IdsInv
  <2>3. \A q \in Placement :
          /\ placing'[q] = "items" => taken'[q] < Len(Items[q])
          /\ orderId'[q] <= lastId'
          /\ placing'[q] \in {"items", "id"} => orderId'[q] = 0
          /\ placing'[q] \in {"save", "placed"} => orderId'[q] > 0
    BY <1>a, <1>b, <2>1 DEF IdsInv
  <2>4. \A q, r \in Placement : orderId'[q] = orderId'[r] /\ orderId'[q] > 0 => q = r
    BY <1>a, <2>1 DEF IdsInv
  <2>5. \A id \in DOMAIN repository' :
          orderId'[repository'[id]] = id /\ placing'[repository'[id]] = "placed"
    BY <1>a, <1>b, <2>2 DEF IdsInv
  <2> QED
    BY <2>3, <2>4, <2>5 DEF IdsInv
<1>3. TargetsInv'
  BY <1>a, <1>c, <1>d DEF TypeOK, TargetsInv, Cancelled
<1>4. OrderKept'
  BY <1>a, <1>b, <1>d DEF TypeOK, OrderKept
<1>5. CancelledOnce'
  BY <1>c DEF TypeOK, CancelledOnce, Cancelled
<1>6. CancelledByOwner'
  <2>1. status'[p] # "CANCELLED"
    BY <1>d DEF CancelledByOwner
  <2>2. \A q \in Placement \ {p} :
            status'[q] = "CANCELLED" =>
                /\ placing'[q] = "placed"
                /\ \E c \in Cancellation : target'[c] = q /\ BuyerOf[c] = BuyerOf[q]
    BY <1>a, <1>c DEF CancelledByOwner
  <2> QED
    BY <2>1, <2>2 DEF CancelledByOwner
<1> QED
  BY <1>1, <1>2, <1>3, <1>4, <1>5, <1>6

\* The save of an order.
LEMMA SaveOrderStep ==
    ASSUME IInv, NEW p \in Placement, SaveOrder(p)
    PROVE  IInv'
<1> USE DEF IInv, SaveOrder, Goto
<1>1. TypeOK'
  BY DEF TypeOK, IdsInv, Item
<1>2. IdsInv'
  BY DEF TypeOK, IdsInv
<1>3. TargetsInv'
  BY DEF TypeOK, IdsInv, TargetsInv, Cancelled
<1>4. OrderKept'
  BY DEF TypeOK, IdsInv, OrderKept
<1>5. CancelledOnce'
  BY DEF TypeOK, TargetsInv, CancelledOnce, Cancelled
<1>6. CancelledByOwner'
  BY DEF TypeOK, TargetsInv, CancelledByOwner, Cancelled
<1> QED
  BY <1>1, <1>2, <1>3, <1>4, <1>5, <1>6

\* A placement that fails.
LEMMA PlacementFailsStep ==
    ASSUME IInv, NEW p \in Placement, PlacementFails(p)
    PROVE  IInv'
<1> USE DEF IInv, PlacementFails, Goto, Rollback
<1>1. TypeOK'
  <2>1. stock' \in [Sku -> Nat]
    BY RestoredType
  <2> QED
    BY <2>1 DEF TypeOK
<1>2. IdsInv'
  BY DEF TypeOK, IdsInv
<1>3. TargetsInv'
  BY DEF TypeOK, IdsInv, TargetsInv, Cancelled
<1>4. OrderKept'
  BY DEF TypeOK, IdsInv, OrderKept
<1>5. CancelledOnce'
  BY DEF TypeOK, TargetsInv, CancelledOnce, Cancelled
<1>6. CancelledByOwner'
  BY DEF TypeOK, TargetsInv, CancelledByOwner, Cancelled
<1> QED
  BY <1>1, <1>2, <1>3, <1>4, <1>5, <1>6

\* The lookup of a line.
LEMMA LookUpLineStep ==
    ASSUME IInv, NEW c \in Cancellation, LookUpLine(c)
    PROVE  IInv'
<1> USE DEF IInv, LookUpLine
<1>1. TypeOK'
  BY DEF TypeOK
<1>2. IdsInv'
  BY DEF TypeOK, IdsInv
<1>3. TargetsInv'
  BY DEF TypeOK, IdsInv, TargetsInv, Cancelled
<1>4. OrderKept'
  BY DEF TypeOK, IdsInv, OrderKept
<1>5. CancelledOnce'
  BY DEF TypeOK, TargetsInv, CancelledOnce, Cancelled
<1>6. CancelledByOwner'
  BY DEF TypeOK, TargetsInv, CancelledByOwner, Cancelled
<1> QED
  BY <1>1, <1>2, <1>3, <1>4, <1>5, <1>6

\* The cancellation itself: its order was not cancelled before.
LEMMA CancelOrderStep ==
    ASSUME IInv, NEW c \in Cancellation, CancelOrder(c)
    PROVE  IInv'
<1> USE DEF IInv, CancelOrder, MayCancel
<1>1. TypeOK'
  <2>1. stock' \in [Sku -> Nat]
    <3>1. stock \in [Sku -> Nat] /\ target[c] \in Placement
      BY DEF TargetsInv, TypeOK
    <3>2. Restored(target[c]) \in [Sku -> Nat]
      BY <3>1, RestoredType
    <3>3. stock' = Restored(target[c]) \/ stock' = stock
      OBVIOUS
    <3> QED
      BY <3>1, <3>2, <3>3
  <2> QED
    BY <2>1 DEF TypeOK
<1>2. IdsInv'
  BY DEF TypeOK, IdsInv
<1>3. TargetsInv'
  BY DEF TypeOK, IdsInv, TargetsInv, Cancelled
<1>4. OrderKept'
  BY DEF TypeOK, IdsInv, OrderKept
<1>5. CancelledOnce'
  <2>1. target' = target /\ \A d \in Cancellation \ {c} : cancelling'[d] = cancelling[d]
    BY DEF TypeOK
  <2>2. CASE MayCancel(target[c])
    <3>1. \A d \in Cancellation : Cancelled(d) => target[d] # target[c]
      BY <2>2 DEF TargetsInv
    <3> QED
      BY <2>1, <3>1 DEF CancelledOnce, Cancelled
  <2>3. CASE ~ MayCancel(target[c])
    <3>1. ~ Cancelled(c)'
      BY <2>3 DEF TypeOK, Cancelled
    <3> QED
      BY <2>1, <3>1 DEF CancelledOnce, Cancelled
  <2> QED
    BY <2>2, <2>3
<1>6. CancelledByOwner'
  BY DEF TypeOK, TargetsInv, CancelledByOwner, Cancelled
<1> QED
  BY <1>1, <1>2, <1>3, <1>4, <1>5, <1>6

\* The save of a cancelled order.
LEMMA SaveCancelledStep ==
    ASSUME IInv, NEW c \in Cancellation, SaveCancelled(c)
    PROVE  IInv'
<1> USE DEF IInv, SaveCancelled
<1>1. TypeOK'
  BY DEF TypeOK
<1>2. IdsInv'
  BY DEF TypeOK, IdsInv
<1>3. TargetsInv'
  BY DEF TypeOK, IdsInv, TargetsInv, Cancelled
<1>4. OrderKept'
  BY DEF TypeOK, IdsInv, OrderKept
<1>5. CancelledOnce'
  BY DEF TypeOK, TargetsInv, CancelledOnce, Cancelled
<1>6. CancelledByOwner'
  BY DEF TypeOK, TargetsInv, CancelledByOwner, Cancelled
<1> QED
  BY <1>1, <1>2, <1>3, <1>4, <1>5, <1>6

\* A cancellation that fails.
LEMMA CancellationFailsStep ==
    ASSUME IInv, NEW c \in Cancellation, CancellationFails(c)
    PROVE  IInv'
<1> USE DEF IInv, CancellationFails
<1>1. TypeOK'
  BY DEF TypeOK
<1>2. IdsInv'
  BY DEF TypeOK, IdsInv
<1>3. TargetsInv'
  BY DEF TypeOK, IdsInv, TargetsInv, Cancelled
<1>4. OrderKept'
  BY DEF TypeOK, IdsInv, OrderKept
<1>5. CancelledOnce'
  BY DEF TypeOK, TargetsInv, CancelledOnce, Cancelled
<1>6. CancelledByOwner'
  BY DEF TypeOK, TargetsInv, CancelledByOwner, Cancelled
<1> QED
  BY <1>1, <1>2, <1>3, <1>4, <1>5, <1>6

\* The loading of an order.
LEMMA LoadOrderStep ==
    ASSUME IInv, NEW c \in Cancellation, NEW id \in Nat \ {0}, LoadOrder(c, id)
    PROVE  IInv'
<1> USE DEF IInv, LoadOrder, MayLoad, MayAccess
<1>1. TypeOK'
  BY DEF TypeOK
<1>2. IdsInv'
  BY DEF TypeOK, IdsInv
<1>3. TargetsInv'
  <2>1. /\ \A d \in Cancellation \ {c} : cancelling'[d] = cancelling[d] /\ target'[d] = target[d]
        /\ placing' = placing /\ status' = status
    BY DEF TypeOK
  <2>2. ASSUME NEW d \in Cancellation, d # c
        PROVE  /\ cancelling'[d] = "load" => target'[d] = None
               /\ target'[d] # None =>
                      placing'[target'[d]] = "placed" /\ BuyerOf[target'[d]] = BuyerOf[d]
               /\ cancelling'[d] = "lookup" \/ Cancelled(d)' => target'[d] # None
               /\ Cancelled(d)' => status'[target'[d]] = "CANCELLED"
    <3> HIDE DEF LoadOrder
    <3> QED
      BY <2>1, <2>2 DEF TargetsInv, Cancelled
  <2>3. CASE MayLoad(c, id)
    <3>1. /\ target'[c] = repository[id] /\ cancelling'[c] = "lookup" /\ ~ Cancelled(c)'
          /\ repository[id] \in Placement
          /\ placing[repository[id]] = "placed" /\ BuyerOf[repository[id]] = BuyerOf[c]
      BY <2>3 DEF TypeOK, IdsInv, Cancelled
    <3> QED
      BY <2>1, <2>2, <3>1 DEF TargetsInv
  <2>4. CASE ~ MayLoad(c, id)
    <3>1. target'[c] = target[c] /\ cancelling'[c] = "refused" /\ ~ Cancelled(c)'
          /\ target[c] = None
      BY <2>4 DEF TypeOK, TargetsInv, Cancelled
    <3> QED
      BY <2>1, <2>2, <3>1 DEF TargetsInv
  <2> QED
    BY <2>3, <2>4
<1>4. OrderKept'
  BY DEF TypeOK, IdsInv, OrderKept
<1>5. CancelledOnce'
  <2>1. ~ Cancelled(c)'
    BY DEF TypeOK, Cancelled
  <2>2. \A d \in Cancellation \ {c} : cancelling'[d] = cancelling[d] /\ target'[d] = target[d]
    BY DEF TypeOK
  <2> QED
    BY <2>1, <2>2 DEF CancelledOnce, Cancelled
<1>6. CancelledByOwner'
  BY DEF TypeOK, TargetsInv, CancelledByOwner, Cancelled
<1> QED
  BY <1>1, <1>2, <1>3, <1>4, <1>5, <1>6

\* The inductive invariant holds in every reachable state.
THEOREM Invariance == Spec => []IInv
<1>1. Init => IInv
  BY InitIInv
<1>2. IInv /\ [Next]_vars => IInv'
  <2> SUFFICES ASSUME IInv, [Next]_vars PROVE IInv'
    OBVIOUS
  <2>1. ASSUME NEW p \in Placement, Place(p) PROVE IInv'
    BY <2>1, DeductItemStep, RejectItemStep, MakeOrderStep, SaveOrderStep, PlacementFailsStep
    DEF Place
  <2>2. ASSUME NEW c \in Cancellation, Cancel(c) PROVE IInv'
    <3>1. \A id \in 1..(lastId + 1) : id \in Nat \ {0}
      BY DEF IInv, TypeOK
    <3> QED
      BY <2>2, <3>1, LoadOrderStep, LookUpLineStep, CancelOrderStep, SaveCancelledStep,
         CancellationFailsStep
      DEF Cancel
  <2>3. CASE UNCHANGED vars
    BY <2>3 DEF vars, IInv, TypeOK, IdsInv, TargetsInv, OrderKept, CancelledOnce,
       CancelledByOwner, Cancelled
  <2> QED
    BY <2>1, <2>2, <2>3 DEF Next
<1> QED
  BY <1>1, <1>2, PTL DEF Spec

\* Nothing is ever oversold: every stock is a natural number.
THEOREM NothingOversold == Spec => []TypeOK
<1>1. IInv => TypeOK
  BY DEF IInv
<1> QED
  BY <1>1, Invariance, PTL

\* A placed order is never overwritten by another.
THEOREM OrdersAreKept == Spec => []OrderKept
<1>1. IInv => OrderKept
  BY DEF IInv
<1> QED
  BY <1>1, Invariance, PTL

\* However many calls cancel an order, its stock is returned once, and by a
\* call of its own buyer.
THEOREM OneCancellation == Spec => []CancelledOnceByOwner
<1>1. IInv => CancelledOnceByOwner
  BY DEF IInv, CancelledOnceByOwner
<1> QED
  BY <1>1, Invariance, PTL

-----------------------------------------------------------------------------
(* No unit is lost or invented                                              *)

\* What a placement keeps of a SKU, and of each SKU what all of them keep.
Held(p, s) == IF Keeps(p) THEN lines[p][s] ELSE 0
HeldBy(s) == [p \in Placement |-> Held(p, s)]

\* Only a confirmed order is saved.
ConfirmedInv ==
    \A p \in Placement : placing[p] = "save" => status[p] = "CONFIRMED"

\* Conservation with what it rests on.
StockInv == StockConserved /\ ConfirmedInv

\* What a step takes from the stock one placement has more, and no other.
Moves(p, s) ==
    /\ stock'[s] + Held(p, s)' = stock[s] + Held(p, s)
    /\ \A q \in Placement \ {p} : Held(q, s)' = Held(q, s)

\* What is held is counted.
LEMMA HeldType == TypeOK => \A s \in Sku : HeldBy(s) \in [Placement -> Nat]
<1> SUFFICES ASSUME TypeOK, NEW s \in Sku, NEW p \in Placement PROVE Held(p, s) \in Nat
  BY DEF HeldBy
<1>1. lines[p][s] \in Nat
  BY DEF TypeOK
<1> QED
  BY <1>1 DEF Held

\* And so after a step.
LEMMA HeldTypeNext == TypeOK' => \A s \in Sku : HeldBy(s)' \in [Placement -> Nat]
<1> SUFFICES ASSUME TypeOK', NEW s \in Sku, NEW p \in Placement PROVE Held(p, s)' \in Nat
  BY DEF HeldBy
<1>1. lines'[p][s] \in Nat
  BY DEF TypeOK
<1> QED
  BY <1>1 DEF Held

\* Such a step keeps the balance.
LEMMA MoveConserves ==
    ASSUME TypeOK, TypeOK', StockConserved, NEW p \in Placement,
           \A s \in Sku : Moves(p, s)
    PROVE  StockConserved'
<1>1. SUFFICES ASSUME NEW s \in Sku
               PROVE  stock'[s] + SumFunction(HeldBy(s)') = Initial[s]
  BY DEF StockConserved, HeldBy, Held
<1>2. stock[s] + SumFunction(HeldBy(s)) = Initial[s]
  BY DEF StockConserved, HeldBy, Held
<1>3. HeldBy(s) \in [Placement -> Nat] /\ HeldBy(s)' \in [Placement -> Nat]
  BY HeldType, HeldTypeNext
<1>4. /\ HeldBy(s)[p] = Held(p, s) /\ HeldBy(s)'[p] = Held(p, s)'
      /\ \A q \in Placement \ {p} : HeldBy(s)[q] = HeldBy(s)'[q]
  BY DEF HeldBy, Moves
<1>5. PICK f \in [Placement -> Nat], h \in [Placement -> Nat] : f = HeldBy(s) /\ h = HeldBy(s)'
  BY <1>3
<1>6. f[p] = Held(p, s) /\ h[p] = Held(p, s)' /\ \A q \in Placement \ {p} : f[q] = h[q]
  BY <1>4, <1>5
<1>7. SumFunction(f) + h[p] = SumFunction(h) + f[p]
  <2>1. IsFiniteSet(Placement) /\ \A q \in Placement \ {p} : f[q] = h[q]
    BY <1>6
  <2> QED
    BY <2>1, HeldChange
<1>8. SumFunction(f) \in Nat /\ SumFunction(h) \in Nat
  BY SumType
<1>9. stock[s] \in Nat /\ stock'[s] \in Nat /\ Initial[s] \in Nat
  BY DEF TypeOK
<1>10. stock'[s] + h[p] = stock[s] + f[p]
  BY <1>6 DEF Moves
<1>11. stock[s] + SumFunction(f) = Initial[s]
  BY <1>2, <1>5
<1>12. stock'[s] + SumFunction(h) = Initial[s]
  <2>1. PICK a \in Nat, b \in Nat : a = SumFunction(f) /\ b = SumFunction(h)
    BY <1>8
  <2>2. PICK k \in Nat, l \in Nat : k = f[p] /\ l = h[p]
    OBVIOUS
  <2>3. PICK m \in Nat, n \in Nat, i \in Nat : m = stock[s] /\ n = stock'[s] /\ i = Initial[s]
    BY <1>9
  <2>4. a + l = b + k /\ m + a = i /\ n + l = m + k
    BY <1>7, <1>10, <1>11, <2>1, <2>2, <2>3
  <2>5. n + b = i
    BY <2>4
  <2> QED
    BY <2>1, <2>3, <2>5
<1> QED
  BY <1>5, <1>12

\* A step that touches neither the stock nor what is kept of it.
LEMMA RestConserves ==
    ASSUME StockInv, UNCHANGED <<stock, lines, placing, status>>
    PROVE  StockInv'
<1>1. StockConserved'
  BY DEF StockInv, StockConserved, Keeps
<1>2. ConfirmedInv'
  BY DEF StockInv, ConfirmedInv
<1> QED
  BY <1>1, <1>2 DEF StockInv

\* The initial states are in balance.
LEMMA InitStock == Init => StockInv
<1> SUFFICES ASSUME Init PROVE StockInv
  OBVIOUS
<1>1. ASSUME NEW s \in Sku
      PROVE  stock[s] + SumFunction([p \in Placement |-> IF Keeps(p) THEN lines[p][s] ELSE 0])
                 = Initial[s]
  <2> DEFINE f == [p \in Placement |-> IF Keeps(p) THEN lines[p][s] ELSE 0]
  <2>1. f \in [Placement -> Nat] /\ \A p \in Placement : f[p] = 0
    BY DEF Init
  <2>2. SumFunction(f) = 0
    <3> HIDE DEF f
    <3> QED
      BY <2>1, SumOfZeros
  <2>3. stock[s] = Initial[s] /\ Initial[s] \in Nat
    BY DEF Init
  <2> QED
    BY <2>2, <2>3
<1>2. StockConserved
  BY <1>1 DEF StockConserved
<1>3. ConfirmedInv
  BY DEF Init, ConfirmedInv
<1> QED
  BY <1>2, <1>3 DEF StockInv

\* A deduction moves units from the stock to the placement.
LEMMA DeductMoves ==
    ASSUME IInv, NEW p \in Placement, DeductItem(p), NEW s \in Sku
    PROVE  Moves(p, s)
<1> DEFINE item == Items[p][taken[p] + 1]
<1>1. item.sku \in Sku /\ item.quantity \in Nat
  <2>1. taken[p] + 1 \in 1..Len(Items[p])
    BY DEF IInv, TypeOK, IdsInv, DeductItem
  <2> QED
    BY <2>1, ItemType
<1>2. TypeOK
  BY DEF IInv
<1>3. /\ stock' = [stock EXCEPT ![item.sku] = @ - item.quantity]
      /\ lines' = [lines EXCEPT ![p][item.sku] = @ + item.quantity]
      /\ stock[item.sku] >= item.quantity
      /\ placing[p] = "items"
      /\ placing' = [placing EXCEPT ![p] = IF taken[p] + 1 = Len(Items[p]) THEN "id" ELSE "items"]
      /\ status' = status
  BY DEF DeductItem, Goto, IsAvailable
<1> HIDE DEF item
<1>4. Keeps(p) /\ Keeps(p)'
  BY <1>2, <1>3 DEF Keeps, TypeOK
<1>5. stock'[s] + lines'[p][s] = stock[s] + lines[p][s]
  BY <1>1, <1>2, <1>3 DEF TypeOK
<1>6. ASSUME NEW q \in Placement \ {p} PROVE Held(q, s)' = Held(q, s)
  <2>1. lines'[q] = lines[q] /\ placing'[q] = placing[q]
    BY <1>2, <1>3 DEF TypeOK
  <2> QED
    BY <1>3, <2>1 DEF Held, Keeps
<1> QED
  BY <1>4, <1>5, <1>6 DEF Moves, Held

\* A compensation moves them back.
LEMMA RollbackMoves ==
    ASSUME TypeOK, NEW p \in Placement, placing[p] \in {"items", "id", "save"},
           Rollback(p), UNCHANGED <<lines, status>>, NEW s \in Sku
    PROVE  Moves(p, s)
<1>1. Keeps(p) /\ ~ Keeps(p)'
  BY DEF Keeps, Rollback, Goto, TypeOK
<1>2. stock'[s] = stock[s] + lines[p][s] /\ stock[s] \in Nat /\ lines[p][s] \in Nat
  BY DEF Rollback, Restored, TypeOK
<1>3. ASSUME NEW q \in Placement \ {p} PROVE Held(q, s)' = Held(q, s)
  <2>1. placing'[q] = placing[q]
    BY DEF Rollback, Goto, TypeOK
  <2> QED
    BY <2>1 DEF Held, Keeps
<1> QED
  BY <1>1, <1>2, <1>3 DEF Moves, Held

\* A step of a placement.
LEMMA PlaceConserves ==
    ASSUME IInv, IInv', StockInv, NEW p \in Placement, Place(p)
    PROVE  StockInv'
<1>0. TypeOK /\ TypeOK' /\ StockConserved
  BY DEF IInv, StockInv
<1>1. CASE DeductItem(p)
  <2>1. StockConserved'
    BY <1>0, <1>1, DeductMoves, MoveConserves
  <2>2. ConfirmedInv'
    BY <1>0, <1>1 DEF DeductItem, Goto, StockInv, ConfirmedInv, TypeOK
  <2> QED
    BY <2>1, <2>2 DEF StockInv
<1>2. ASSUME placing[p] \in {"items", "id", "save"}, Rollback(p), UNCHANGED <<lines, status>>
      PROVE  StockInv'
  <2>1. StockConserved'
    BY <1>0, <1>2, RollbackMoves, MoveConserves
  <2>2. ConfirmedInv'
    BY <1>0, <1>2 DEF Rollback, Goto, StockInv, ConfirmedInv, TypeOK
  <2> QED
    BY <2>1, <2>2 DEF StockInv
<1>3. CASE RejectItem(p)
  BY <1>2, <1>3 DEF RejectItem
<1>4. CASE PlacementFails(p)
  BY <1>2, <1>4 DEF PlacementFails
<1>5. CASE MakeOrder(p)
  <2>1. CASE Cardinality(Currencies(p)) = 1
    <3>1. /\ placing[p] = "id"
          /\ placing' = [placing EXCEPT ![p] = "save"]
          /\ status' = [status EXCEPT ![p] = "CONFIRMED"]
          /\ stock' = stock /\ lines' = lines
      BY <1>5, <2>1 DEF MakeOrder, Goto
    <3>2. ASSUME NEW s \in Sku PROVE Moves(p, s)
      <4>1. \A q \in Placement : Keeps(q)' <=> Keeps(q)
        BY <1>0, <3>1 DEF Keeps, TypeOK
      <4> QED
        BY <3>1, <4>1 DEF Moves, Held
    <3>3. StockConserved'
      BY <1>0, <3>2, MoveConserves
    <3>4. ConfirmedInv'
      BY <1>0, <3>1 DEF StockInv, ConfirmedInv, TypeOK
    <3> QED
      BY <3>3, <3>4 DEF StockInv
  <2>2. CASE Cardinality(Currencies(p)) # 1
    BY <1>2, <1>5, <2>2 DEF MakeOrder
  <2> QED
    BY <2>1, <2>2
<1>6. CASE SaveOrder(p)
  <2>1. /\ placing[p] = "save" /\ status[p] = "CONFIRMED"
        /\ placing' = [placing EXCEPT ![p] = "placed"]
        /\ stock' = stock /\ lines' = lines /\ status' = status
    BY <1>6 DEF SaveOrder, Goto, StockInv, ConfirmedInv
  <2>2. ASSUME NEW s \in Sku PROVE Moves(p, s)
    <3>1. \A q \in Placement : Keeps(q)' <=> Keeps(q)
      BY <1>0, <2>1 DEF Keeps, TypeOK
    <3> QED
      BY <2>1, <3>1 DEF Moves, Held
  <2>3. StockConserved'
    BY <1>0, <2>2, MoveConserves
  <2>4. ConfirmedInv'
    BY <1>0, <2>1 DEF StockInv, ConfirmedInv, TypeOK
  <2> QED
    BY <2>3, <2>4 DEF StockInv
<1> QED
  BY <1>1, <1>3, <1>4, <1>5, <1>6 DEF Place

\* A step of a cancellation: what it returns, its order no longer keeps.
LEMMA CancelConserves ==
    ASSUME IInv, IInv', StockInv, NEW c \in Cancellation, Cancel(c)
    PROVE  StockInv'
<1>0. TypeOK /\ TypeOK' /\ StockConserved
  BY DEF IInv, StockInv
<1>1. CASE CancelOrder(c) /\ MayCancel(target[c])
  <2>1. PICK p \in Placement : p = target[c] /\ placing[p] = "placed"
    BY <1>0, <1>1 DEF IInv, TargetsInv, TypeOK, CancelOrder
  <2>2. /\ status[p] = "CONFIRMED"
        /\ status' = [status EXCEPT ![p] = "CANCELLED"]
        /\ stock' = Restored(p)
        /\ lines' = lines /\ placing' = placing
    BY <1>1, <2>1 DEF CancelOrder, MayCancel
  <2>3. ASSUME NEW s \in Sku PROVE Moves(p, s)
    <3>1. /\ Keeps(p)
          /\ ~ Keeps(p)'
          /\ \A q \in Placement \ {p} : Keeps(q)' <=> Keeps(q)
      <4>1. status'[p] = "CANCELLED" /\ \A q \in Placement \ {p} : status'[q] = status[q]
        BY <1>0, <2>1, <2>2 DEF TypeOK
      <4>2. Keeps(p)
        BY <2>1, <2>2 DEF Keeps
      <4>3. ~ Keeps(p)'
        BY <2>1, <2>2, <4>1 DEF Keeps
      <4>4. \A q \in Placement \ {p} : Keeps(q)' <=> Keeps(q)
        BY <2>2, <4>1 DEF Keeps
      <4> QED
        BY <4>2, <4>3, <4>4
    <3>2. stock'[s] = stock[s] + lines[p][s] /\ stock[s] \in Nat /\ lines[p][s] \in Nat
      BY <1>0, <2>1, <2>2 DEF Restored, TypeOK
    <3> QED
      BY <2>2, <3>1, <3>2 DEF Moves, Held
  <2>4. StockConserved'
    BY <1>0, <2>1, <2>3, MoveConserves
  <2>5. ConfirmedInv'
    BY <1>0, <2>1, <2>2 DEF StockInv, ConfirmedInv, TypeOK
  <2> QED
    BY <2>4, <2>5 DEF StockInv
<1>2. CASE ~ (CancelOrder(c) /\ MayCancel(target[c]))
  <2>1. UNCHANGED <<stock, lines, placing, status>>
    BY <1>2 DEF Cancel, LoadOrder, LookUpLine, CancelOrder, SaveCancelled, CancellationFails
  <2> QED
    BY <2>1, RestConserves
<1> QED
  BY <1>1, <1>2

\* No unit is lost or invented, whichever calls overlap, fail or are cancelled:
\* what is missing from the stock is in a placement under way or in an order
\* that was placed and not cancelled.
THEOREM StockIsConserved == Spec => []StockConserved
<1>1. Init => StockInv
  BY InitStock
<1>2. IInv /\ IInv' /\ StockInv /\ [Next]_vars => StockInv'
  <2> SUFFICES ASSUME IInv, IInv', StockInv, [Next]_vars PROVE StockInv'
    OBVIOUS
  <2>1. CASE UNCHANGED vars
    BY <2>1, RestConserves DEF vars
  <2> QED
    BY <2>1, PlaceConserves, CancelConserves DEF Next
<1>3. StockInv => StockConserved
  BY DEF StockInv
<1> QED
  BY <1>1, <1>2, <1>3, Invariance, PTL DEF Spec

=============================================================================
