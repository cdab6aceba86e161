-------------------------- MODULE FolioLedger_proofs --------------------------
(***************************************************************************)
(* Proofs about the serial consumption ledger, for any number of voyages,   *)
(* guests, items and lines.                                                *)
(***************************************************************************)
EXTENDS FolioLedger, FiniteSetTheorems, WellFoundedInduction, TLAPS

-----------------------------------------------------------------------------
(***************************************************************************)
(* Sums over finite sets: what SumFunction computes.  A smallest            *)
(* counterexample stands in for the induction.                             *)
(***************************************************************************)
\* A nonempty set of naturals has a least member.
LEMMA Smallest ==
  ASSUME NEW T \in SUBSET Nat, T # {}
  PROVE  \E n \in T : \A m \in T : n <= m
  <1>1. IsWellFoundedOn({ss \in Nat \X Nat : ss[1] < ss[2]}, Nat)
    BY NatLessThanWellFounded DEF OpToRel
  <1>2. PICK n \in T : \A m \in T : ~(<<m, n>> \in {ss \in Nat \X Nat : ss[1] < ss[2]})
    BY <1>1, WFMin
  <1>3. \A m \in T : ~(m < n)
    BY <1>2
  <1> QED BY <1>3

\* Of the subsets of a finite set with some property, one has no smaller one.
LEMMA SmallestSubset ==
  ASSUME NEW S, IsFiniteSet(S), NEW Bad \in SUBSET SUBSET S, Bad # {}
  PROVE  \E T \in Bad : \A x \in T : T \ {x} \notin Bad
  <1> DEFINE Sizes == {Cardinality(T) : T \in Bad}
  <1>1. \A T \in SUBSET S : IsFiniteSet(T) /\ Cardinality(T) \in Nat
    BY FS_Subset, FS_CardinalityType
  <1>2. PICK n \in Sizes : \A m \in Sizes : n <= m
    <2>1. Sizes \in SUBSET Nat /\ Sizes # {}
      BY <1>1
    <2> QED BY <2>1, Smallest
  <1>3. PICK T \in Bad : Cardinality(T) = n
    BY <1>2
  <1>4. ASSUME NEW x \in T, T \ {x} \in Bad PROVE FALSE
    <2>1. Cardinality(T \ {x}) = Cardinality(T) - 1
      BY <1>1, FS_RemoveElement
    <2> QED BY <1>1, <1>2, <1>3, <1>4, <2>1
  <1> QED BY <1>4

\* h adds up f over every subset of S.
IsSum(h, S, f) ==
  /\ h \in [SUBSET S -> Int]
  /\ h[{}] = 0
  /\ \A T \in SUBSET S : \A x \in T : h[T] = f[x] + h[T \ {x}]

\* Any amounts on a finite set have such a sum.
LEMMA SumExists ==
  ASSUME NEW S, IsFiniteSet(S), NEW f, \A x \in S : f[x] \in Int
  PROVE  \E h : IsSum(h, S, f)
  <1> DEFINE Bad == {T \in SUBSET S : ~ \E h : IsSum(h, T, f)}
  <1>1. SUFFICES ASSUME Bad # {} PROVE FALSE
    OBVIOUS
  <1>2. PICK T \in Bad : \A x \in T : T \ {x} \notin Bad
    <2>1. Bad \in SUBSET SUBSET S
      OBVIOUS
    <2> HIDE DEF Bad
    <2> QED BY <1>1, <2>1, SmallestSubset
  <1>3. CASE T = {}
    <2> DEFINE h == [U \in SUBSET {} |-> 0]
    <2>1. IsSum(h, {}, f)
      BY DEF IsSum
    <2> QED BY <1>2, <1>3, <2>1
  <1>4. ASSUME NEW a \in T PROVE FALSE
    <2>1. PICK h : IsSum(h, T \ {a}, f)
      BY <1>2
    <2> DEFINE k == [U \in SUBSET T |-> IF a \in U THEN f[a] + h[U \ {a}] ELSE h[U]]
    <2>2. k \in [SUBSET T -> Int] /\ k[{}] = 0
      BY <2>1 DEF IsSum
    <2>3. ASSUME NEW U \in SUBSET T, NEW x \in U PROVE k[U] = f[x] + k[U \ {x}]
      <3>1. f[x] \in Int /\ f[a] \in Int
        OBVIOUS
      <3>2. CASE a \notin U
        <4>1. U \in SUBSET (T \ {a}) /\ a \notin U \ {x}
          BY <3>2
        <4> QED BY <2>1, <3>2, <4>1 DEF IsSum
      <3>3. CASE a \in U /\ x = a
        BY <3>3
      <3>4. CASE a \in U /\ x # a
        <4>1. /\ U \ {a} \in SUBSET (T \ {a}) /\ x \in U \ {a}
              /\ (U \ {a}) \ {x} = (U \ {x}) \ {a} /\ (U \ {x}) \ {a} \in SUBSET (T \ {a})
          BY <3>4
        <4>2. h[U \ {a}] = f[x] + h[(U \ {a}) \ {x}]
          BY <2>1, <4>1 DEF IsSum
        <4>3. h[(U \ {x}) \ {a}] \in Int
          BY <2>1, <4>1 DEF IsSum
        <4>4. k[U] = f[a] + h[U \ {a}] /\ k[U \ {x}] = f[a] + h[(U \ {x}) \ {a}]
          BY <3>4
        <4>5. h[U \ {a}] = f[x] + h[(U \ {x}) \ {a}]
          BY <4>1, <4>2
        <4> HIDE DEF k
        <4> QED BY <3>1, <4>3, <4>4, <4>5
      <3> QED BY <3>2, <3>3, <3>4
    <2>4. IsSum(k, T, f)
      BY <2>2, <2>3 DEF IsSum
    <2> QED BY <1>2, <2>4
  <1> QED BY <1>3, <1>4

\* And SumFunction, which takes the elements in an order of its own, computes it.
LEMMA SumIs ==
  ASSUME NEW S, IsFiniteSet(S), NEW f, DOMAIN f = S, \A x \in S : f[x] \in Int,
         NEW h, IsSum(h, S, f)
  PROVE  SumFunction(f) = h[S]
  <1> DEFINE Fold(g) ==
               [T \in SUBSET S |-> IF T = {} THEN 0
                                   ELSE f[CHOOSE x \in T : TRUE]
                                          + g[T \ {CHOOSE x \in T : TRUE}]]
             iter == CHOOSE g : g = Fold(g)
  <1>1. SumFunction(f) = iter[S]
    BY DEF SumFunction, SumFunctionOnSet, FoldFunction, FoldFunctionOnSet, MapThenFoldSet
  <1>2. h = Fold(h)
    <2>1. \A T \in SUBSET S : h[T] = Fold(h)[T]
      <3> TAKE T \in SUBSET S
      <3>1. CASE T = {}
        BY <3>1 DEF IsSum
      <3>2. CASE T # {}
        <4>1. (CHOOSE x \in T : TRUE) \in T
          BY <3>2
        <4> QED BY <3>2, <4>1 DEF IsSum
      <3> QED BY <3>1, <3>2
    <2> QED BY <2>1 DEF IsSum
  <1>3. iter = Fold(iter)
    <2>1. \E g : g = Fold(g)
      BY <1>2
    <2> HIDE DEF Fold
    <2> QED BY <2>1
  <1>4. \A T \in SUBSET S : iter[T] = h[T]
    <2> DEFINE Bad == {T \in SUBSET S : iter[T] # h[T]}
    <2>1. SUFFICES ASSUME Bad # {} PROVE FALSE
      OBVIOUS
    <2> HIDE DEF iter
    <2>2. PICK T \in Bad : \A x \in T : T \ {x} \notin Bad
      <3>1. Bad \in SUBSET SUBSET S
        OBVIOUS
      <3> HIDE DEF Bad
      <3> QED BY <2>1, <3>1, SmallestSubset
    <2> DEFINE a == CHOOSE x \in T : TRUE
    <2>3. CASE T = {}
      BY <1>3, <2>2, <2>3 DEF IsSum
    <2>4. CASE T # {}
      <3>1. a \in T
        BY <2>4
      <3>2. iter[T] = f[a] + iter[T \ {a}]
        BY <1>3, <2>4
      <3>3. h[T] = f[a] + h[T \ {a}]
        BY <3>1 DEF IsSum
      <3>4. iter[T \ {a}] = h[T \ {a}]
        BY <2>2, <3>1
      <3> QED BY <2>2, <3>2, <3>3, <3>4
    <2> QED BY <2>3, <2>4
  <1> QED BY <1>1, <1>4

\* What f adds up to over the set A.
Total(f, A) == SumFunction([x \in A |-> f[x]])

\* A total is its members one by one, in any order.
LEMMA TotalUnfold ==
  ASSUME NEW A, IsFiniteSet(A), NEW f, \A x \in A : f[x] \in Int
  PROVE  /\ Total(f, A) \in Int
         /\ A = {} => Total(f, A) = 0
         /\ \A a \in A : Total(f, A) = f[a] + Total(f, A \ {a})
  <1> DEFINE On(B) == [x \in B |-> f[x]]
  <1>1. PICK h : IsSum(h, A, f)
    BY SumExists
  <1>2. ASSUME NEW B \in SUBSET A PROVE Total(f, B) = h[B]
    <2> DEFINE k == [T \in SUBSET B |-> h[T]]
    <2>1. IsSum(k, B, On(B))
      <3>1. k \in [SUBSET B -> Int] /\ k[{}] = 0
        BY <1>1 DEF IsSum
      <3>2. ASSUME NEW T \in SUBSET B, NEW x \in T PROVE k[T] = On(B)[x] + k[T \ {x}]
        BY <1>1 DEF IsSum
      <3> QED BY <3>1, <3>2 DEF IsSum
    <2>2. IsFiniteSet(B)
      BY FS_Subset
    <2>3. /\ DOMAIN On(B) = B
          /\ \A x \in B : On(B)[x] \in Int
      OBVIOUS
    <2>4. SumFunction(On(B)) = k[B]
      <3> HIDE DEF On, k
      <3> QED BY <2>1, <2>2, <2>3, SumIs
    <2> QED BY <2>4 DEF Total
  <1>3. Total(f, A) = h[A] /\ h[A] \in Int
    BY <1>1, <1>2 DEF IsSum
  <1>4. A = {} => h[A] = 0
    BY <1>1 DEF IsSum
  <1>5. ASSUME NEW a \in A PROVE Total(f, A) = f[a] + Total(f, A \ {a})
    <2>1. h[A] = f[a] + h[A \ {a}]
      BY <1>1 DEF IsSum
    <2>2. Total(f, A \ {a}) = h[A \ {a}]
      BY <1>2
    <2> QED BY <1>3, <2>1, <2>2
  <1> QED BY <1>3, <1>4, <1>5

\* Quantities add up to a quantity.
LEMMA TotalNat ==
  ASSUME NEW A, IsFiniteSet(A), NEW f, \A x \in A : f[x] \in Nat
  PROVE  Total(f, A) \in Nat
  <1> DEFINE Bad == {T \in SUBSET A : Total(f, T) \notin Nat}
  <1>1. SUFFICES ASSUME Bad # {} PROVE FALSE
    OBVIOUS
  <1>2. PICK T \in Bad : \A x \in T : T \ {x} \notin Bad
    <2>1. Bad \in SUBSET SUBSET A
      OBVIOUS
    <2> HIDE DEF Bad
    <2> QED BY <1>1, <2>1, SmallestSubset
  <1>3. IsFiniteSet(T)
    BY FS_Subset
  <1>4. CASE T = {}
    BY <1>2, <1>3, <1>4, TotalUnfold
  <1>5. ASSUME NEW x \in T PROVE FALSE
    <2>1. Total(f, T) = f[x] + Total(f, T \ {x})
      BY <1>3, TotalUnfold
    <2>2. Total(f, T \ {x}) \in Nat /\ f[x] \in Nat
      BY <1>2
    <2> QED BY <1>2, <2>1, <2>2
  <1> QED BY <1>4, <1>5

\* The totals of two disjoint sets are the total of both.
LEMMA TotalUnion ==
  ASSUME NEW A, NEW B, IsFiniteSet(A), IsFiniteSet(B), A \cap B = {},
         NEW f, \A x \in A \cup B : f[x] \in Int
  PROVE  Total(f, A \cup B) = Total(f, A) + Total(f, B)
  <1> DEFINE Bad == {T \in SUBSET B : Total(f, A \cup T) # Total(f, A) + Total(f, T)}
  <1>1. SUFFICES ASSUME Bad # {} PROVE FALSE
    OBVIOUS
  <1>2. PICK T \in Bad : \A x \in T : T \ {x} \notin Bad
    <2>1. Bad \in SUBSET SUBSET B
      OBVIOUS
    <2> HIDE DEF Bad
    <2> QED BY <1>1, <2>1, SmallestSubset
  <1>3. IsFiniteSet(T) /\ IsFiniteSet(A \cup T)
    BY FS_Subset, FS_Union
  <1>4. Total(f, A) \in Int
    BY TotalUnfold
  <1>5. CASE T = {}
    <2>1. Total(f, T) = 0
      BY <1>5, <1>3, TotalUnfold
    <2>2. A \cup T = A
      BY <1>5
    <2>3. Total(f, A \cup T) = Total(f, A)
      BY <2>2, Zenon
    <2> QED BY <1>2, <1>4, <2>1, <2>3
  <1>6. ASSUME NEW x \in T PROVE FALSE
    <2>1. Total(f, T) = f[x] + Total(f, T \ {x})
      BY <1>3, TotalUnfold
    <2>2. Total(f, A \cup T) = f[x] + Total(f, (A \cup T) \ {x})
      BY <1>3, TotalUnfold
    <2>3. (A \cup T) \ {x} = A \cup (T \ {x})
      OBVIOUS
    <2>4. Total(f, A \cup (T \ {x})) = Total(f, A) + Total(f, T \ {x})
      BY <1>2
    <2>5. Total(f, T \ {x}) \in Int /\ f[x] \in Int
      <3>1. IsFiniteSet(T \ {x})
        BY <1>3, FS_RemoveElement
      <3> QED BY <3>1, TotalUnfold
    <2> QED BY <1>2, <1>4, <2>1, <2>2, <2>3, <2>4, <2>5
  <1> QED BY <1>5, <1>6

\* Amounts that are all zero add up to zero.
LEMMA TotalZero ==
  ASSUME NEW A, IsFiniteSet(A), NEW f, \A x \in A : f[x] = 0
  PROVE  Total(f, A) = 0
  <1> DEFINE Bad == {T \in SUBSET A : Total(f, T) # 0}
  <1>1. SUFFICES ASSUME Bad # {} PROVE FALSE
    OBVIOUS
  <1>2. PICK T \in Bad : \A x \in T : T \ {x} \notin Bad
    <2>1. Bad \in SUBSET SUBSET A
      OBVIOUS
    <2> HIDE DEF Bad
    <2> QED BY <1>1, <2>1, SmallestSubset
  <1>3. IsFiniteSet(T) /\ \A x \in T : f[x] \in Int
    BY FS_Subset
  <1>4. CASE T = {}
    BY <1>2, <1>3, <1>4, TotalUnfold
  <1>5. ASSUME NEW x \in T PROVE FALSE
    <2>1. Total(f, T) = f[x] + Total(f, T \ {x})
      BY <1>3, TotalUnfold
    <2> QED BY <1>2, <2>1
  <1> QED BY <1>4, <1>5

\* Amounts that agree have one total.
LEMMA TotalSame ==
  ASSUME NEW A, NEW f, NEW g, \A x \in A : f[x] = g[x]
  PROVE  Total(f, A) = Total(g, A)
  <1>1. [x \in A |-> f[x]] = [x \in A |-> g[x]]
    OBVIOUS
  <1> QED BY <1>1, Zenon DEF Total

\* Amounts that agree but at one place differ in total by what they differ there.
LEMMA TotalPoint ==
  ASSUME NEW A, IsFiniteSet(A), NEW a \in A, NEW f, NEW g,
         \A x \in A : f[x] \in Int /\ g[x] \in Int,
         \A x \in A \ {a} : f[x] = g[x]
  PROVE  Total(g, A) = Total(f, A) + g[a] - f[a]
  <1>1. Total(f, A) = f[a] + Total(f, A \ {a}) /\ Total(g, A) = g[a] + Total(g, A \ {a})
    BY TotalUnfold
  <1>2. Total(f, A \ {a}) = Total(g, A \ {a})
    BY TotalSame
  <1>3. Total(f, A \ {a}) \in Int
    BY FS_RemoveElement, TotalUnfold
  <1> QED BY <1>1, <1>2, <1>3

\* Totals are added place by place.
LEMMA TotalPlus ==
  ASSUME NEW A, IsFiniteSet(A), NEW f, NEW g, NEW h,
         \A x \in A : f[x] \in Int /\ g[x] \in Int /\ h[x] = f[x] + g[x]
  PROVE  Total(h, A) = Total(f, A) + Total(g, A)
  <1> DEFINE Bad == {T \in SUBSET A : Total(h, T) # Total(f, T) + Total(g, T)}
  <1>1. SUFFICES ASSUME Bad # {} PROVE FALSE
    OBVIOUS
  <1>2. PICK T \in Bad : \A x \in T : T \ {x} \notin Bad
    <2>1. Bad \in SUBSET SUBSET A
      OBVIOUS
    <2> HIDE DEF Bad
    <2> QED BY <1>1, <2>1, SmallestSubset
  <1>3. /\ IsFiniteSet(T)
        /\ \A x \in T : f[x] \in Int /\ g[x] \in Int /\ h[x] \in Int /\ h[x] = f[x] + g[x]
    BY FS_Subset
  <1>4. CASE T = {}
    <2>1. Total(f, T) = 0 /\ Total(g, T) = 0 /\ Total(h, T) = 0
      BY <1>3, <1>4, TotalUnfold
    <2> QED BY <1>2, <2>1
  <1>5. ASSUME NEW x \in T PROVE FALSE
    <2>1. /\ Total(f, T) = f[x] + Total(f, T \ {x})
          /\ Total(g, T) = g[x] + Total(g, T \ {x})
          /\ Total(h, T) = h[x] + Total(h, T \ {x})
      BY <1>3, TotalUnfold
    <2>2. IsFiniteSet(T \ {x})
      BY <1>3, FS_RemoveElement
    <2>3. Total(f, T \ {x}) \in Int /\ Total(g, T \ {x}) \in Int
      BY <1>3, <2>2, TotalUnfold
    <2>4. Total(h, T \ {x}) = Total(f, T \ {x}) + Total(g, T \ {x})
      BY <1>2
    <2> QED BY <1>2, <1>3, <2>1, <2>3, <2>4
  <1> QED BY <1>4, <1>5

\* What is zero outside a part adds up to the total of the part.
LEMMA TotalPart ==
  ASSUME NEW A, IsFiniteSet(A), NEW B \in SUBSET A, NEW f,
         \A x \in A : f[x] \in Int, \A x \in A \ B : f[x] = 0
  PROVE  Total(f, A) = Total(f, B)
  <1>1. IsFiniteSet(B) /\ IsFiniteSet(A \ B) /\ A = B \cup (A \ B)
    BY FS_Subset
  <1>2. Total(f, B \cup (A \ B)) = Total(f, B) + Total(f, A \ B)
    BY <1>1, TotalUnion
  <1>3. Total(f, B \cup (A \ B)) = Total(f, A)
    BY <1>1, Zenon
  <1>4. Total(f, A \ B) = 0
    BY <1>1, TotalZero
  <1>5. Total(f, B) \in Int
    BY <1>1, TotalUnfold
  <1> QED BY <1>2, <1>3, <1>4, <1>5


-----------------------------------------------------------------------------
(***************************************************************************)
(* Arithmetic and row updates                                              *)
(***************************************************************************)
\* A line's total is an amount whatever price and quantity it is made of.
LEMMA ProductNat == \A a, b \in Nat : a * b \in Nat
  OBVIOUS

\* Rewriting fields of one existing row leaves a table of rows.
LEMMA RowUpdate ==
  ASSUME NEW D, NEW f \in [D -> Line], NEW d \in D, NEW row \in Line
  PROVE  [f EXCEPT ![d] = row] \in [D -> Line]
  OBVIOUS

\* Posting a row late changes its posted mark and nothing else.
LEMMA MarkPostedRow ==
  ASSUME NEW row \in Line
  PROVE  /\ MarkPosted(row) \in Line
         /\ MarkPosted(row).posted
         /\ MarkPosted(row).guest = row.guest
         /\ MarkPosted(row).type = row.type
         /\ MarkPosted(row).item = row.item
         /\ MarkPosted(row).qty = row.qty
         /\ MarkPosted(row).total = row.total
         /\ MarkPosted(row).counted = row.counted
         /\ MarkPosted(row).voided = row.voided
         /\ MarkPosted(row).request = row.request
  BY DEF MarkPosted, Line

-----------------------------------------------------------------------------
(***************************************************************************)
(* Type correctness                                                        *)
(***************************************************************************)
\* The tables the ledger starts from hold rows of their types.
LEMMA InitTypeOK == Init => TypeOK
  <1> SUFFICES ASSUME Init PROVE TypeOK
    OBVIOUS
  <1>1. LegacyLines \subseteq Line
    <2> SUFFICES ASSUME NEW g \in Guests, NEW i \in Items, NEW q \in Quantities,
                        NEW row \in CatalogRows
                 PROVE  [guest |-> g, type |-> "catalog_item", item |-> i, qty |-> q,
                         unit |-> row.price, total |-> row.price * q,
                         counted |-> row.counted, posted |-> FALSE, voided |-> FALSE,
                         request |-> NoRequest] \in Line
      BY DEF LegacyLines
    <2>1. q \in Nat \ {0} /\ row.price \in Nat /\ row.counted \in BOOLEAN
      BY DataAssumption
    <2>2. row.price * q \in Nat
      BY <2>1, ProductNat
    <2> QED BY <2>1, <2>2 DEF Line
  <1>2. PICK D \in SUBSET LegacyIds : lines \in [D -> LegacyLines]
    BY DEF Init
  <1>3. DOMAIN lines = D /\ D \subseteq LineIds /\ lines \in [D -> Line]
    BY <1>1, <1>2, DataAssumption
  <1>4. trip \in [Trips -> TripStatus] /\ folio \in [Guests -> FolioStatus]
    BY DEF Init, TripStatus, FolioStatus
  <1> QED BY <1>3, <1>4 DEF Init, TypeOK

\* Every transaction leaves rows of their types.
LEMMA NextTypeOK == TypeOK /\ [Next]_vars => TypeOK'
  <1> SUFFICES ASSUME TypeOK, [Next]_vars PROVE TypeOK'
    OBVIOUS
  <1> USE DEF TypeOK, manifestVars, settingVars, lineVars
  <1>1. ASSUME NEW g \in Guests, OpenGuestFolio(g) PROVE TypeOK'
    BY <1>1 DEF OpenGuestFolio, FolioStatus
  <1>2. ASSUME NEW g \in Guests, NEW i \in Items, NEW q \in Quantities,
               NEW r \in Requests \cup {NoRequest}, NEW l \in LineIds,
               AddCatalogLine(g, i, q, r, l)
        PROVE  TypeOK'
    <2> DEFINE row == [guest |-> g, type |-> "catalog_item", item |-> i, qty |-> q,
                       unit |-> catalog[i].price, total |-> catalog[i].price * q,
                       counted |-> catalog[i].counted, posted |-> catalog[i].counted,
                       voided |-> FALSE, request |-> r]
               delta == IF catalog[i].counted THEN -q ELSE 0
    <2>1. q \in Nat \ {0} /\ catalog[i].price \in Nat /\ catalog[i].counted \in BOOLEAN
      BY DataAssumption
    <2>2. catalog[i].price * q \in Nat
      BY <2>1, ProductNat
    <2>3. row \in Line /\ delta \in Int
      BY <2>1, <2>2 DEF Line
    <2> HIDE DEF row, delta
    <2>4. lines' = [m \in DOMAIN lines \cup {l} |-> IF m = l THEN row ELSE lines[m]]
      BY <1>2 DEF AddCatalogLine, InsertLine, row
    <2>5. /\ DOMAIN lines' = DOMAIN lines \cup {l}
          /\ lines' \in [DOMAIN lines \cup {l} -> Line]
      BY <2>3, <2>4
    <2>6. /\ moved' = [moved EXCEPT ![l] = @ + delta]
          /\ stock' = [stock EXCEPT ![i] = @ + delta]
      BY <1>2 DEF AddCatalogLine, delta
    <2>7. moved' \in [LineIds -> Int] /\ DOMAIN stock' = Items
      BY <2>3, <2>6
    <2>8. /\ folio' \in [Guests -> FolioStatus]
          /\ UNCHANGED <<trip, revoked, catalog, feeRate, bill>>
      BY <1>2 DEF AddCatalogLine, FolioStatus
    <2> QED BY <2>5, <2>7, <2>8
  <1>3. ASSUME NEW g \in Guests, NEW amount \in Tips, NEW l \in LineIds,
               AddCrewTip(g, amount, l)
        PROVE  TypeOK'
    <2> DEFINE fresh == [guest |-> g, type |-> "crew_tip", item |-> NoItem,
                         qty |-> 1, unit |-> amount, total |-> amount,
                         counted |-> FALSE, posted |-> FALSE,
                         voided |-> FALSE, request |-> NoRequest]
    <2>1. amount \in Nat
      BY DataAssumption
    <2>2. /\ folio' \in [Guests -> FolioStatus]
          /\ UNCHANGED <<trip, revoked, catalog, feeRate, bill, moved, stock>>
      BY <1>3 DEF AddCrewTip, FolioStatus
    <2>3. CASE /\ l \in TipLines(g)
               /\ lines' = [lines EXCEPT ![l].unit = amount, ![l].total = amount]
      <3>1. l \in DOMAIN lines /\ lines[l] \in Line
        BY <2>3 DEF TipLines, LiveLines
      <3>2. lines' \in [DOMAIN lines -> Line]
        BY <2>1, <2>3, <3>1 DEF Line
      <3> QED BY <2>2, <3>2
    <2>4. CASE l \notin DOMAIN lines /\ InsertLine(l, fresh)
      <3>1. fresh \in Line
        BY <2>1 DEF Line
      <3> HIDE DEF fresh
      <3>2. /\ DOMAIN lines' = DOMAIN lines \cup {l}
            /\ lines' \in [DOMAIN lines \cup {l} -> Line]
        BY <2>4, <3>1 DEF InsertLine
      <3> QED BY <2>2, <3>2
    <2> QED BY <1>3, <2>3, <2>4 DEF AddCrewTip
  <1>4. ASSUME NEW l \in LineIds, NEW q \in Quantities, UpdateQuantity(l, q)
        PROVE  TypeOK'
    <2>1. q \in Nat \ {0} /\ lines[l] \in Line /\ lines[l].unit * q \in Nat
      BY <1>4, DataAssumption, ProductNat DEF UpdateQuantity, Line
    <2>2. lines' \in [DOMAIN lines -> Line]
      BY <1>4, <2>1 DEF UpdateQuantity, Line
    <2>3. moved' \in [LineIds -> Int] /\ DOMAIN stock' = Items
      BY <1>4, <2>1 DEF UpdateQuantity, PostMovement, Line
    <2> QED BY <1>4, <2>2, <2>3 DEF UpdateQuantity
  <1>5. ASSUME NEW l \in LineIds, NEW amount \in Tips, UpdateTip(l, amount)
        PROVE  TypeOK'
    <2>1. amount \in Nat /\ lines[l] \in Line
      BY <1>5, DataAssumption DEF UpdateTip
    <2>2. lines' \in [DOMAIN lines -> Line]
      BY <1>5, <2>1 DEF UpdateTip, Line
    <2> QED BY <1>5, <2>2 DEF UpdateTip
  <1>6. ASSUME NEW l \in LineIds, DeleteLine(l) PROVE TypeOK'
    <2> lines[l] \in Line
      BY <1>6 DEF DeleteLine
    <2>1. lines' \in [DOMAIN lines -> Line]
      BY <1>6 DEF DeleteLine, Line
    <2>2. moved' \in [LineIds -> Int] /\ DOMAIN stock' = Items
      BY <1>6 DEF DeleteLine, PostMovement, Line
    <2> QED BY <1>6, <2>1, <2>2 DEF DeleteLine
  <1>7. ASSUME NEW g \in Guests, NEW method \in Methods, CloseGuestFolio(g, method)
        PROVE  TypeOK'
    <2>1. PICK late \in SUBSET DOMAIN lines :
            /\ lines' = [l \in DOMAIN lines |->
                 IF l \in late THEN MarkPosted(lines[l]) ELSE lines[l]]
            /\ moved' = [l \in LineIds |->
                 IF l \in late THEN moved[l] - lines[l].qty ELSE moved[l]]
      BY <1>7 DEF CloseGuestFolio, Unposted, LiveLines
    <2>2. lines' \in [DOMAIN lines -> Line]
      BY <2>1, MarkPostedRow
    <2>3. moved' \in [LineIds -> Int]
      BY <2>1 DEF Line
    <2>4. DOMAIN stock' = Items /\ DOMAIN bill' = Guests
      BY <1>7 DEF CloseGuestFolio
    <2>5. folio' \in [Guests -> FolioStatus] /\ UNCHANGED <<trip, revoked, catalog, feeRate>>
      BY <1>7 DEF CloseGuestFolio, FolioStatus
    <2> QED BY <2>2, <2>3, <2>4, <2>5
  <1>8. ASSUME SettingStep PROVE TypeOK'
    BY <1>8 DEF SettingStep, AdjustStock, SetBoatInventoryItem, UpdateCatalogItem,
                UpdatePaymentSettings
  <1>9. ASSUME ManifestStep PROVE TypeOK'
    BY <1>9 DEF ManifestStep, StartTrip, CompleteTrip, CancelTrip, RevokeTripGuestInvite,
                ResendTripGuestInvite, TripStatus, FolioStatus
  <1>10. ASSUME UNCHANGED vars PROVE TypeOK'
    BY <1>10 DEF vars
  <1> QED
    BY <1>1, <1>2, <1>3, <1>4, <1>5, <1>6, <1>7, <1>8, <1>9, <1>10
    DEF Next, FolioStep, LineStep

\* The tables of the ledger hold rows of their types in every reachable state.
THEOREM TypeCorrect == Spec => []TypeOK
  BY InitTypeOK, NextTypeOK, PTL DEF Spec

-----------------------------------------------------------------------------
(***************************************************************************)
(* What a step does to the rows of lines                                    *)
(***************************************************************************)
\* A step that is not a write to some folio's lines leaves lines and movements alone.
Quiet == UNCHANGED <<lines, moved>>

\* The steps of the voyage, the manifest and the settings write no line.
LEMMA QuietSteps ==
  ((\E g \in Guests : OpenGuestFolio(g)) \/ SettingStep \/ ManifestStep \/ UNCHANGED vars)
  => Quiet
  BY DEF Quiet, OpenGuestFolio, SettingStep, AdjustStock, SetBoatInventoryItem,
         UpdateCatalogItem, UpdatePaymentSettings, ManifestStep, StartTrip, CompleteTrip,
         CancelTrip, RevokeTripGuestInvite, ResendTripGuestInvite, vars, lineVars

\* Settlement posts late lines and writes nothing else in them.
LEMMA CloseRows ==
  ASSUME TypeOK, NEW g \in Guests, NEW method, CloseGuestFolio(g, method)
  PROVE  /\ DOMAIN lines' = DOMAIN lines
         /\ \A l \in DOMAIN lines :
              lines'[l] = IF l \in Unposted(g) THEN MarkPosted(lines[l]) ELSE lines[l]
         /\ \A l \in LineIds :
              moved'[l] = IF l \in Unposted(g) THEN moved[l] - lines[l].qty ELSE moved[l]
  BY DEF CloseGuestFolio, TypeOK

-----------------------------------------------------------------------------
(***************************************************************************)
(* Stock movements balance the lines.  The balance is inductive together    *)
(* with the fact that only a counted line is ever marked posted: an edit or  *)
(* a void of a line posted but not counted would move no stock.             *)
(***************************************************************************)
PostedIsCounted == \A l \in DOMAIN lines : lines[l].posted => lines[l].counted

BalanceInv == TypeOK /\ PostedIsCounted /\ LineStockBalances

\* At deployment nothing has been posted and nothing has moved.
LEMMA InitBalance == Init => BalanceInv
  <1> SUFFICES ASSUME Init PROVE PostedIsCounted /\ LineStockBalances
    BY InitTypeOK DEF BalanceInv
  <1>1. \A l \in DOMAIN lines : lines[l] \in LegacyLines
    BY DEF Init
  <1>2. \A l \in DOMAIN lines : ~lines[l].posted
    BY <1>1 DEF LegacyLines
  <1> QED BY <1>2 DEF Init, PostedIsCounted, LineStockBalances

\* Every transaction moves stock for a line by what it changes of its quantity.
LEMMA NextBalance == BalanceInv /\ [Next]_vars => BalanceInv'
  <1> SUFFICES ASSUME BalanceInv, [Next]_vars
               PROVE  PostedIsCounted' /\ LineStockBalances'
    BY NextTypeOK DEF BalanceInv
  <1> USE DEF BalanceInv
  <1>1. ASSUME Quiet PROVE PostedIsCounted' /\ LineStockBalances'
    BY <1>1 DEF Quiet, PostedIsCounted, LineStockBalances, Live
  <1>2. ASSUME NEW g \in Guests, NEW i \in Items, NEW q \in Quantities,
               NEW r \in Requests \cup {NoRequest}, NEW l \in LineIds,
               AddCatalogLine(g, i, q, r, l)
        PROVE  PostedIsCounted' /\ LineStockBalances'
    <2> q \in Nat \ {0} /\ catalog[i].counted \in BOOLEAN
      BY DataAssumption DEF TypeOK
    <2>1. /\ l \notin DOMAIN lines /\ DOMAIN lines' = DOMAIN lines \cup {l}
          /\ \A m \in DOMAIN lines : lines'[m] = lines[m]
          /\ lines'[l].qty = q /\ ~lines'[l].voided
          /\ lines'[l].counted = catalog[i].counted
          /\ lines'[l].posted = catalog[i].counted
      BY <1>2 DEF AddCatalogLine, InsertLine
    <2>2. /\ moved'[l] = moved[l] + (IF catalog[i].counted THEN -q ELSE 0)
          /\ \A m \in LineIds \ {l} : moved'[m] = moved[m]
      BY <1>2 DEF AddCatalogLine, TypeOK
    <2>3. moved[l] = 0
      BY <2>1 DEF LineStockBalances
    <2> QED BY <2>1, <2>2, <2>3 DEF PostedIsCounted, LineStockBalances, Live
  <1>3. ASSUME NEW g \in Guests, NEW amount \in Tips, NEW l \in LineIds,
               AddCrewTip(g, amount, l)
        PROVE  PostedIsCounted' /\ LineStockBalances'
    <2>1. moved' = moved
      BY <1>3 DEF AddCrewTip
    <2>2. CASE /\ l \in LiveLines(g)
               /\ lines' = [lines EXCEPT ![l].unit = amount, ![l].total = amount]
      <3> l \in DOMAIN lines /\ lines[l] \in Line
        BY <2>2 DEF LiveLines, TypeOK
      <3>1. /\ DOMAIN lines' = DOMAIN lines
            /\ \A m \in DOMAIN lines :
                 /\ lines'[m].qty = lines[m].qty /\ lines'[m].voided = lines[m].voided
                 /\ lines'[m].counted = lines[m].counted
                 /\ lines'[m].posted = lines[m].posted
        BY <2>2 DEF TypeOK, Line
      <3> QED BY <2>1, <3>1 DEF PostedIsCounted, LineStockBalances, Live
    <2>3. CASE /\ l \notin DOMAIN lines
               /\ DOMAIN lines' = DOMAIN lines \cup {l}
               /\ \A m \in DOMAIN lines : lines'[m] = lines[m]
               /\ ~lines'[l].posted
      BY <2>1, <2>3 DEF PostedIsCounted, LineStockBalances, Live
    <2> QED BY <1>3, <2>2, <2>3 DEF AddCrewTip, InsertLine, TipLines, LiveLines
  <1>4. ASSUME NEW l \in LineIds, NEW q \in Quantities, UpdateQuantity(l, q)
        PROVE  PostedIsCounted' /\ LineStockBalances'
    <2> /\ q \in Nat \ {0}
        /\ l \in DOMAIN lines /\ lines[l] \in Line /\ moved[l] \in Int
        /\ ~lines[l].voided
      BY <1>4, DataAssumption DEF UpdateQuantity, TypeOK, Live
    <2>1. /\ DOMAIN lines' = DOMAIN lines
          /\ \A m \in DOMAIN lines \ {l} : lines'[m] = lines[m]
          /\ lines'[l].qty = q
          /\ lines'[l].voided = lines[l].voided /\ lines'[l].counted = lines[l].counted
          /\ lines'[l].posted = lines[l].posted
      BY <1>4 DEF UpdateQuantity, TypeOK, Line
    <2>2. /\ \A m \in LineIds \ {l} : moved'[m] = moved[m]
          /\ moved'[l] = IF lines[l].counted /\ lines[l].posted
                          THEN moved[l] + (lines[l].qty - q) ELSE moved[l]
      BY <1>4 DEF UpdateQuantity, PostMovement, TypeOK
    <2>3. lines[l].qty \in Int /\ q \in Int
      BY DEF Line
    <2> QED BY <2>1, <2>2, <2>3 DEF PostedIsCounted, LineStockBalances, Live
  <1>5. ASSUME NEW l \in LineIds, NEW amount \in Tips, UpdateTip(l, amount)
        PROVE  PostedIsCounted' /\ LineStockBalances'
    <2> l \in DOMAIN lines /\ lines[l] \in Line
      BY <1>5 DEF UpdateTip, TypeOK
    <2>1. /\ DOMAIN lines' = DOMAIN lines
          /\ \A m \in DOMAIN lines :
               /\ lines'[m].qty = lines[m].qty /\ lines'[m].voided = lines[m].voided
               /\ lines'[m].counted = lines[m].counted
               /\ lines'[m].posted = lines[m].posted
      BY <1>5 DEF UpdateTip, TypeOK, Line
    <2>2. moved' = moved
      BY <1>5 DEF UpdateTip
    <2> QED BY <2>1, <2>2 DEF PostedIsCounted, LineStockBalances, Live
  <1>6. ASSUME NEW l \in LineIds, DeleteLine(l)
        PROVE  PostedIsCounted' /\ LineStockBalances'
    <2> /\ l \in DOMAIN lines /\ lines[l] \in Line /\ moved[l] \in Int
        /\ ~lines[l].voided
      BY <1>6 DEF DeleteLine, TypeOK, Live
    <2>1. /\ DOMAIN lines' = DOMAIN lines
          /\ \A m \in DOMAIN lines \ {l} : lines'[m] = lines[m]
          /\ lines'[l].voided /\ lines'[l].counted = lines[l].counted
          /\ lines'[l].posted = lines[l].posted
      BY <1>6 DEF DeleteLine, TypeOK, Line
    <2>2. /\ \A m \in LineIds \ {l} : moved'[m] = moved[m]
          /\ moved'[l] = IF lines[l].counted /\ lines[l].posted
                          THEN moved[l] + lines[l].qty ELSE moved[l]
      BY <1>6 DEF DeleteLine, PostMovement, TypeOK
    <2>3. lines[l].qty \in Int
      BY DEF Line
    <2> QED BY <2>1, <2>2, <2>3 DEF PostedIsCounted, LineStockBalances, Live
  <1>7. ASSUME NEW g \in Guests, NEW method \in Methods, CloseGuestFolio(g, method)
        PROVE  PostedIsCounted' /\ LineStockBalances'
    <2>1. \A l \in DOMAIN lines :
            /\ lines'[l].qty = lines[l].qty /\ lines'[l].voided = lines[l].voided
            /\ lines'[l].counted = lines[l].counted
            /\ lines'[l].posted = (lines[l].posted \/ l \in Unposted(g))
      BY <1>7, CloseRows, MarkPostedRow DEF TypeOK, Line
    <2>2. \A l \in Unposted(g) :
            /\ l \in DOMAIN lines /\ l \in LineIds
            /\ ~lines[l].voided /\ lines[l].counted /\ ~lines[l].posted
            /\ lines[l].qty \in Int
      BY DEF Unposted, LiveLines, Live, TypeOK, Line
    <2>3. PostedIsCounted'
      BY <1>7, <2>1, <2>2, CloseRows DEF PostedIsCounted
    <2>4. ASSUME NEW l \in LineIds
          PROVE  moved'[l] = IF l \in DOMAIN lines' /\ ~lines'[l].voided /\ lines'[l].posted
                               THEN -lines'[l].qty ELSE 0
      <3>1. CASE l \in Unposted(g)
        <4>1. moved[l] = 0 /\ moved'[l] = moved[l] - lines[l].qty
          BY <1>7, <2>2, <3>1, CloseRows DEF LineStockBalances
        <4>2. /\ l \in DOMAIN lines' /\ ~lines'[l].voided /\ lines'[l].posted
              /\ lines'[l].qty = lines[l].qty
          BY <1>7, <2>1, <2>2, <3>1, CloseRows
        <4>3. moved'[l] = -lines[l].qty
          BY <2>2, <3>1, <4>1
        <4> QED BY <4>2, <4>3
      <3>2. CASE l \notin Unposted(g)
        BY <1>7, <2>1, <3>2, CloseRows DEF LineStockBalances, Live
      <3> QED BY <3>1, <3>2
    <2> QED BY <2>3, <2>4 DEF LineStockBalances, Live
  <1> QED
    BY <1>1, <1>2, <1>3, <1>4, <1>5, <1>6, <1>7, QuietSteps
    DEF Next, FolioStep, LineStep

\* The stock recorded for a line is what the guest is charged for, always.
THEOREM LinesBalance == Spec => []LineStockBalances
  <1>1. BalanceInv => LineStockBalances
    BY DEF BalanceInv
  <1> QED BY InitBalance, NextBalance, <1>1, PTL DEF Spec

-----------------------------------------------------------------------------
(***************************************************************************)
(* Identities: no step gives an existing row another guest, type or request, *)
(* or brings a voided line back.                                            *)
(***************************************************************************)
KeepsIdentity ==
  /\ DOMAIN lines' = DOMAIN lines
  /\ \A l \in DOMAIN lines :
       /\ lines'[l].guest = lines[l].guest /\ lines'[l].type = lines[l].type
       /\ lines'[l].request = lines[l].request
       /\ Live(l)' => Live(l)

\* Every step except the two that insert keeps the rows and their identities.
LEMMA RowsKeepIdentity ==
  TypeOK /\ [Next]_vars =>
    \/ KeepsIdentity
    \/ \E g \in Guests, i \in Items, q \in Quantities, r \in Requests \cup {NoRequest},
          l \in LineIds : AddCatalogLine(g, i, q, r, l)
    \/ \E g \in Guests, amount \in Tips, l \in LineIds :
         AddCrewTip(g, amount, l) /\ l \notin DOMAIN lines
  <1> SUFFICES ASSUME TypeOK, [Next]_vars,
                      ~ \E g \in Guests, i \in Items, q \in Quantities,
                          r \in Requests \cup {NoRequest}, l \in LineIds :
                            AddCatalogLine(g, i, q, r, l),
                      ~ \E g \in Guests, amount \in Tips, l \in LineIds :
                            AddCrewTip(g, amount, l) /\ l \notin DOMAIN lines
               PROVE  KeepsIdentity
    OBVIOUS
  <1>1. CASE Quiet
    BY <1>1 DEF Quiet, KeepsIdentity, Live
  <1>2. ASSUME NEW g \in Guests, NEW amount \in Tips, NEW l \in LineIds,
               AddCrewTip(g, amount, l)
        PROVE  KeepsIdentity
    <2> l \in DOMAIN lines /\ lines[l] \in Line
      BY <1>2 DEF TypeOK
    <2>1. lines' = [lines EXCEPT ![l].unit = amount, ![l].total = amount]
      BY <1>2 DEF AddCrewTip
    <2> QED BY <2>1 DEF KeepsIdentity, Live, TypeOK, Line
  <1>3. ASSUME NEW l \in LineIds, NEW q \in Quantities, UpdateQuantity(l, q)
        PROVE  KeepsIdentity
    <2> l \in DOMAIN lines /\ lines[l] \in Line
      BY <1>3 DEF TypeOK, UpdateQuantity
    <2> QED BY <1>3 DEF UpdateQuantity, KeepsIdentity, Live, TypeOK, Line
  <1>4. ASSUME NEW l \in LineIds, NEW amount \in Tips, UpdateTip(l, amount)
        PROVE  KeepsIdentity
    <2> l \in DOMAIN lines /\ lines[l] \in Line
      BY <1>4 DEF TypeOK, UpdateTip
    <2> QED BY <1>4 DEF UpdateTip, KeepsIdentity, Live, TypeOK, Line
  <1>5. ASSUME NEW l \in LineIds, DeleteLine(l) PROVE KeepsIdentity
    <2> l \in DOMAIN lines /\ lines[l] \in Line
      BY <1>5 DEF TypeOK, DeleteLine
    <2> QED BY <1>5 DEF DeleteLine, KeepsIdentity, Live, TypeOK, Line
  <1>6. ASSUME NEW g \in Guests, NEW method \in Methods, CloseGuestFolio(g, method)
        PROVE  KeepsIdentity
    BY <1>6, CloseRows, MarkPostedRow DEF KeepsIdentity, Live, TypeOK
  <1> QED
    BY <1>1, <1>2, <1>3, <1>4, <1>5, <1>6, QuietSteps DEF Next, FolioStep, LineStep

\* No request id ever names two lines of one guest.
THEOREM OneLineForARequest == Spec => []OneLinePerRequest
  <1>1. Init => OneLinePerRequest
    <2> SUFFICES ASSUME Init PROVE \A l \in DOMAIN lines : lines[l].request = NoRequest
      BY DEF OneLinePerRequest
    <2>1. \A l \in DOMAIN lines : lines[l] \in LegacyLines
      BY DEF Init
    <2> QED BY <2>1 DEF LegacyLines
  <1>2. TypeOK /\ OneLinePerRequest /\ [Next]_vars => OneLinePerRequest'
    <2> SUFFICES ASSUME TypeOK, OneLinePerRequest, [Next]_vars PROVE OneLinePerRequest'
      OBVIOUS
    <2>1. CASE KeepsIdentity
      BY <2>1 DEF KeepsIdentity, OneLinePerRequest
    <2>2. ASSUME NEW g \in Guests, NEW i \in Items, NEW q \in Quantities,
                 NEW r \in Requests \cup {NoRequest}, NEW l \in LineIds,
                 AddCatalogLine(g, i, q, r, l)
          PROVE  OneLinePerRequest'
      <3>1. /\ l \notin DOMAIN lines /\ DOMAIN lines' = DOMAIN lines \cup {l}
            /\ \A m \in DOMAIN lines : lines'[m] = lines[m]
            /\ lines'[l].guest = g /\ lines'[l].request = r
            /\ r # NoRequest =>
                 \A m \in DOMAIN lines : ~(lines[m].guest = g /\ lines[m].request = r)
        BY <2>2 DEF AddCatalogLine, InsertLine, FreshRequest
      <3> QED BY <3>1 DEF OneLinePerRequest
    <2>3. ASSUME NEW g \in Guests, NEW amount \in Tips, NEW l \in LineIds,
                 AddCrewTip(g, amount, l), l \notin DOMAIN lines
          PROVE  OneLinePerRequest'
      <3>1. /\ DOMAIN lines' = DOMAIN lines \cup {l}
            /\ \A m \in DOMAIN lines : lines'[m] = lines[m]
            /\ lines'[l].request = NoRequest
        BY <2>3 DEF AddCrewTip, InsertLine, TipLines, LiveLines
      <3> QED BY <3>1 DEF OneLinePerRequest
    <2> QED BY <2>1, <2>2, <2>3, RowsKeepIdentity
  <1> QED BY <1>1, <1>2, TypeCorrect, PTL DEF Spec

\* However many devices add tips, a folio carries one tip that counts.
THEOREM OneTip == Spec => []OneTipPerFolio
  <1>1. Init => OneTipPerFolio
    <2> SUFFICES ASSUME Init
                 PROVE  \A l \in DOMAIN lines : lines[l].type = "catalog_item"
      BY DEF OneTipPerFolio
    <2>1. \A l \in DOMAIN lines : lines[l] \in LegacyLines
      BY DEF Init
    <2> QED BY <2>1 DEF LegacyLines
  <1>2. TypeOK /\ OneTipPerFolio /\ [Next]_vars => OneTipPerFolio'
    <2> SUFFICES ASSUME TypeOK, OneTipPerFolio, [Next]_vars PROVE OneTipPerFolio'
      OBVIOUS
    <2>1. CASE KeepsIdentity
      BY <2>1 DEF KeepsIdentity, OneTipPerFolio
    <2>2. ASSUME NEW g \in Guests, NEW i \in Items, NEW q \in Quantities,
                 NEW r \in Requests \cup {NoRequest}, NEW l \in LineIds,
                 AddCatalogLine(g, i, q, r, l)
          PROVE  OneTipPerFolio'
      <3>1. /\ DOMAIN lines' = DOMAIN lines \cup {l}
            /\ \A m \in DOMAIN lines : l # m /\ lines'[m] = lines[m]
            /\ lines'[l].type = "catalog_item"
        BY <2>2 DEF AddCatalogLine, InsertLine
      <3> QED BY <3>1 DEF OneTipPerFolio, Live
    <2>3. ASSUME NEW g \in Guests, NEW amount \in Tips, NEW l \in LineIds,
                 AddCrewTip(g, amount, l), l \notin DOMAIN lines
          PROVE  OneTipPerFolio'
      <3>1. /\ DOMAIN lines' = DOMAIN lines \cup {l}
            /\ \A m \in DOMAIN lines : l # m /\ lines'[m] = lines[m]
            /\ lines'[l].guest = g
        BY <2>3 DEF AddCrewTip, InsertLine, TipLines, LiveLines
      <3>2. \A m \in DOMAIN lines :
              ~(lines[m].guest = g /\ Live(m) /\ lines[m].type = "crew_tip")
        BY <2>3 DEF AddCrewTip, TipLines, LiveLines
      <3> QED BY <3>1, <3>2 DEF OneTipPerFolio, Live
    <2> QED BY <2>1, <2>2, <2>3, RowsKeepIdentity
  <1> QED BY <1>1, <1>2, TypeCorrect, PTL DEF Spec

-----------------------------------------------------------------------------
(***************************************************************************)
(* Settled folios                                                          *)
(***************************************************************************)
\* The writes of a step to line rows and movements all belong to folio h.
WritesOnly(h) ==
  /\ \A l \in DOMAIN lines :
       /\ l \in DOMAIN lines'
       /\ lines'[l].guest = lines[l].guest
       /\ lines[l].guest # h => lines'[l] = lines[l] /\ moved'[l] = moved[l]
  /\ \A l \in DOMAIN lines' : l \in DOMAIN lines \/ lines'[l].guest = h

\* The step leaves every charge of every folio as it was, or may change those of h
\* alone, whose voyage is under way.
ChargesWrite(h) ==
  \/ trip[TripOf[h]] = "active" /\ ~revoked[h]
  \/ /\ DOMAIN lines' = DOMAIN lines
     /\ \A l \in DOMAIN lines :
          /\ lines'[l].guest = lines[l].guest /\ lines'[l].voided = lines[l].voided
          /\ lines'[l].total = lines[l].total

\* A step that writes lines writes those of one folio, which is not yet settled.
LEMMA OneFolioWritten ==
  TypeOK /\ [Next]_vars =>
    \/ Quiet
    \/ \E h \in Guests : folio[h] # "closed" /\ WritesOnly(h) /\ ChargesWrite(h)
  <1> DEFINE Written(h) == folio[h] # "closed" /\ WritesOnly(h) /\ ChargesWrite(h)
  <1> SUFFICES ASSUME TypeOK, [Next]_vars, ~Quiet
               PROVE  \E h \in Guests : Written(h)
    OBVIOUS
  <1>1. ASSUME NEW g \in Guests, NEW i \in Items, NEW q \in Quantities,
               NEW r \in Requests \cup {NoRequest}, NEW l \in LineIds,
               AddCatalogLine(g, i, q, r, l)
        PROVE  Written(g)
    <2>1. /\ l \notin DOMAIN lines /\ DOMAIN lines' = DOMAIN lines \cup {l}
          /\ \A m \in DOMAIN lines : lines'[m] = lines[m]
          /\ lines'[l].guest = g
      BY <1>1 DEF AddCatalogLine, InsertLine
    <2>2. \A m \in LineIds \ {l} : moved'[m] = moved[m]
      BY <1>1 DEF AddCatalogLine, TypeOK
    <2>3. folio[g] # "closed" /\ trip[TripOf[g]] = "active" /\ ~revoked[g]
      BY <1>1 DEF AddCatalogLine
    <2> QED BY <2>1, <2>2, <2>3 DEF WritesOnly, ChargesWrite, TypeOK
  <1>2. ASSUME NEW g \in Guests, NEW amount \in Tips, NEW l \in LineIds,
               AddCrewTip(g, amount, l)
        PROVE  Written(g)
    <2>1. /\ folio[g] # "closed" /\ trip[TripOf[g]] = "active" /\ ~revoked[g]
          /\ moved' = moved
      BY <1>2 DEF AddCrewTip
    <2>2. CASE /\ l \in LiveLines(g)
               /\ lines' = [lines EXCEPT ![l].unit = amount, ![l].total = amount]
      <3> l \in DOMAIN lines /\ lines[l] \in Line /\ lines[l].guest = g
        BY <2>2 DEF LiveLines, TypeOK
      <3> QED BY <2>1, <2>2 DEF WritesOnly, ChargesWrite, TypeOK, Line
    <2>3. CASE /\ l \notin DOMAIN lines
               /\ DOMAIN lines' = DOMAIN lines \cup {l}
               /\ \A m \in DOMAIN lines : lines'[m] = lines[m]
               /\ lines'[l].guest = g
      BY <2>1, <2>3 DEF WritesOnly, ChargesWrite
    <2> QED BY <1>2, <2>2, <2>3 DEF AddCrewTip, InsertLine, TipLines, LiveLines
  <1>3. ASSUME NEW l \in LineIds, NEW q \in Quantities, UpdateQuantity(l, q)
        PROVE  Written(lines[l].guest)
    <2> l \in DOMAIN lines /\ lines[l] \in Line
      BY <1>3 DEF TypeOK, UpdateQuantity
    <2>1. \A m \in LineIds \ {l} : moved'[m] = moved[m]
      BY <1>3 DEF UpdateQuantity, PostMovement, TypeOK
    <2> QED BY <1>3, <2>1
            DEF UpdateQuantity, MayMutate, WritesOnly, ChargesWrite, TypeOK, Line
  <1>4. ASSUME NEW l \in LineIds, NEW amount \in Tips, UpdateTip(l, amount)
        PROVE  Written(lines[l].guest)
    <2> l \in DOMAIN lines /\ lines[l] \in Line
      BY <1>4 DEF TypeOK, UpdateTip
    <2> QED BY <1>4 DEF UpdateTip, MayMutate, WritesOnly, ChargesWrite, TypeOK, Line
  <1>5. ASSUME NEW l \in LineIds, DeleteLine(l) PROVE Written(lines[l].guest)
    <2> l \in DOMAIN lines /\ lines[l] \in Line
      BY <1>5 DEF TypeOK, DeleteLine
    <2>1. \A m \in LineIds \ {l} : moved'[m] = moved[m]
      BY <1>5 DEF DeleteLine, PostMovement, TypeOK
    <2> QED BY <1>5, <2>1
            DEF DeleteLine, MayMutate, WritesOnly, ChargesWrite, TypeOK, Line
  <1>6. ASSUME NEW g \in Guests, NEW method \in Methods, CloseGuestFolio(g, method)
        PROVE  Written(g)
    <2>1. folio[g] # "closed"
      BY <1>6 DEF CloseGuestFolio
    <2>2. \A l \in Unposted(g) : lines[l].guest = g
      BY DEF Unposted, LiveLines
    <2>3. WritesOnly(g)
      BY <1>6, <2>2, CloseRows, MarkPostedRow DEF WritesOnly, TypeOK
    <2>4. ChargesWrite(g)
      BY <1>6, CloseRows, MarkPostedRow DEF ChargesWrite, TypeOK
    <2> QED BY <2>1, <2>3, <2>4
  <1>7. \A l \in DOMAIN lines : lines[l].guest \in Guests
    BY DEF TypeOK, Line
  <1> HIDE DEF Written
  <1>8. ASSUME NEW l \in LineIds, LineStep(l) PROVE \E h \in Guests : Written(h)
    BY <1>3, <1>4, <1>5, <1>7, <1>8 DEF LineStep, UpdateQuantity, UpdateTip, DeleteLine
  <1> QED
    BY <1>1, <1>2, <1>6, <1>8, QuietSteps DEF Next, FolioStep

\* Only settling a folio closes it, and nothing reopens it or rewrites its bill.
LEMMA FolioWrites ==
  ASSUME TypeOK, [Next]_vars, NEW g \in Guests
  PROVE  /\ folio[g] = "closed" => folio'[g] = "closed" /\ bill'[g] = bill[g]
         /\ folio'[g] = "closed" =>
              folio[g] = "closed" \/ \E method \in Methods : CloseGuestFolio(g, method)
  <1>1. ASSUME NEW h \in Guests, NEW method \in Methods, CloseGuestFolio(h, method)
        PROVE  /\ folio[h] = "open"
               /\ h # g => folio'[g] = folio[g] /\ bill'[g] = bill[g]
    BY <1>1 DEF CloseGuestFolio, TypeOK
  <1>2. ASSUME NEW h \in Guests,
               \/ OpenGuestFolio(h)
               \/ \E i \in Items, q \in Quantities, r \in Requests \cup {NoRequest},
                     l \in LineIds : AddCatalogLine(h, i, q, r, l)
               \/ \E amount \in Tips, l \in LineIds : AddCrewTip(h, amount, l)
        PROVE  /\ bill' = bill /\ folio[h] # "closed"
               /\ folio' = [folio EXCEPT ![h] = "open"]
    BY <1>2 DEF OpenGuestFolio, AddCatalogLine, AddCrewTip
  <1>3. ASSUME \/ \E l \in LineIds : LineStep(l)
               \/ SettingStep
               \/ UNCHANGED vars
        PROVE  UNCHANGED <<folio, bill>>
    BY <1>3 DEF LineStep, UpdateQuantity, UpdateTip, DeleteLine, SettingStep, AdjustStock,
                SetBoatInventoryItem, UpdateCatalogItem, UpdatePaymentSettings, vars
  <1>4. ASSUME ManifestStep
        PROVE  bill' = bill /\ (folio'[g] = folio[g] \/ (folio[g] = "none" /\ folio'[g] = "open"))
    BY <1>4 DEF ManifestStep, StartTrip, CompleteTrip, CancelTrip, RevokeTripGuestInvite,
                ResendTripGuestInvite, TypeOK
  <1> QED BY <1>1, <1>2, <1>3, <1>4 DEF Next, FolioStep, TypeOK

\* A step leaves a settled folio, its bill, its lines and their stock as they are.
LEMMA FrozenStep ==
  ASSUME TypeOK, [Next]_vars, NEW g \in Guests, folio[g] = "closed"
  PROVE  /\ folio'[g] = "closed" /\ bill'[g] = bill[g]
         /\ \A l \in DOMAIN lines' : lines'[l].guest = g =>
              l \in DOMAIN lines /\ lines'[l] = lines[l] /\ moved'[l] = moved[l]
         /\ \A l \in DOMAIN lines : lines[l].guest = g =>
              l \in DOMAIN lines' /\ lines'[l] = lines[l]
  <1>1. CASE Quiet
    BY <1>1, FolioWrites DEF Quiet
  <1>2. ASSUME NEW h \in Guests, folio[h] # "closed", WritesOnly(h)
        PROVE  /\ \A l \in DOMAIN lines' : lines'[l].guest = g =>
                    l \in DOMAIN lines /\ lines'[l] = lines[l] /\ moved'[l] = moved[l]
               /\ \A l \in DOMAIN lines : lines[l].guest = g =>
                    l \in DOMAIN lines' /\ lines'[l] = lines[l]
    BY <1>2 DEF WritesOnly
  <1> QED BY <1>1, <1>2, OneFolioWritten, FolioWrites

\* A settled folio never changes again, whatever anyone does.
THEOREM ClosedIsFrozen == Spec => ClosedFolioFrozen
  <1>1. TypeOK /\ [Next]_vars =>
          [\A g \in Guests : folio[g] = "closed" =>
             /\ folio'[g] = "closed"
             /\ bill'[g] = bill[g]
             /\ \A l \in DOMAIN lines' : lines'[l].guest = g =>
                  /\ l \in DOMAIN lines
                  /\ lines'[l] = lines[l]
                  /\ moved'[l] = moved[l]]_vars
    BY FrozenStep
  <1> QED BY <1>1, TypeCorrect, PTL DEF Spec, ClosedFolioFrozen

-----------------------------------------------------------------------------
(***************************************************************************)
(* The bill of a settled folio                                             *)
(***************************************************************************)
\* Settlement leaves the charges it bills as they stood, and nothing unposted.
LEMMA CloseCharges ==
  ASSUME TypeOK, NEW g \in Guests, NEW method, CloseGuestFolio(g, method)
  PROVE  LiveLines(g)' = LiveLines(g) /\ Charges(g)' = Charges(g) /\ Unposted(g)' = {}
  <1>1. \A l \in DOMAIN lines :
          /\ lines'[l].guest = lines[l].guest /\ lines'[l].voided = lines[l].voided
          /\ lines'[l].total = lines[l].total /\ lines'[l].counted = lines[l].counted
    BY CloseRows, MarkPostedRow DEF TypeOK
  <1>2. LiveLines(g)' = LiveLines(g)
    BY <1>1, CloseRows DEF LiveLines, Live
  <1>3. Charges(g)' = Charges(g)
    <2>1. \A l \in LiveLines(g) : lines'[l].total = lines[l].total
      BY <1>1 DEF LiveLines
    <2> QED BY <1>2, <2>1 DEF Charges
  <1>4. ASSUME NEW l \in LiveLines(g), lines[l].counted PROVE lines'[l].posted
    <2> l \in DOMAIN lines /\ lines[l] \in Line
      BY DEF LiveLines, TypeOK
    <2>1. CASE l \in Unposted(g)
      BY <2>1, CloseRows, MarkPostedRow
    <2>2. CASE l \notin Unposted(g)
      <3>1. lines[l].posted
        BY <1>4, <2>2 DEF Unposted
      <3> QED BY <2>2, <3>1, CloseRows
    <2> QED BY <2>1, <2>2
  <1>5. \A l \in LiveLines(g) : lines'[l].counted => lines'[l].posted
    BY <1>1, <1>4 DEF LiveLines
  <1>6. Unposted(g)' = {}
    BY <1>2, <1>5 DEF Unposted
  <1> QED BY <1>2, <1>3, <1>6

\* A settled folio's charges are the same rows after the step as before it.
LEMMA FrozenCharges ==
  ASSUME TypeOK, [Next]_vars, NEW g \in Guests, folio[g] = "closed"
  PROVE  LiveLines(g)' = LiveLines(g) /\ Charges(g)' = Charges(g)
         /\ Unposted(g)' = Unposted(g)
  <1>1. LiveLines(g)' = LiveLines(g)
    BY FrozenStep DEF LiveLines, Live
  <1>2. \A l \in LiveLines(g) : lines'[l] = lines[l]
    BY FrozenStep DEF LiveLines
  <1>3. Charges(g)' = Charges(g)
    BY <1>1, <1>2 DEF Charges
  <1>4. Unposted(g)' = Unposted(g)
    BY <1>1, <1>2 DEF Unposted
  <1> QED BY <1>1, <1>3, <1>4

\* What ClosedFolioBalances says of one folio.
Balanced(g) ==
  /\ bill[g].subtotal = SumFunction(Charges(g))
  /\ bill[g].fee = IF bill[g].method = "card"
                     THEN CardFee(bill[g].subtotal, bill[g].rate) ELSE 0
  /\ bill[g].total = bill[g].subtotal + bill[g].fee
  /\ Unposted(g) = {}

\* The bill of a settled folio is, and stays, the bill of the lines it shows.
THEOREM ClosedBalances == Spec => []ClosedFolioBalances
  <1>1. Init => ClosedFolioBalances
    BY DEF Init, ClosedFolioBalances
  <1>2. TypeOK /\ ClosedFolioBalances /\ [Next]_vars => ClosedFolioBalances'
    <2> SUFFICES ASSUME TypeOK, ClosedFolioBalances, [Next]_vars,
                        NEW g \in Guests, folio'[g] = "closed"
                 PROVE  Balanced(g)'
      BY DEF ClosedFolioBalances, Balanced
    <2>1. CASE folio[g] = "closed"
      <3>1. Balanced(g) /\ bill'[g] = bill[g]
        BY <2>1, FolioWrites DEF ClosedFolioBalances, Balanced
      <3>2. Charges(g)' = Charges(g) /\ Unposted(g)' = Unposted(g)
        BY <2>1, FrozenCharges
      <3> QED BY <3>1, <3>2 DEF Balanced
    <2>2. ASSUME NEW method \in Methods, CloseGuestFolio(g, method) PROVE Balanced(g)'
      <3> DEFINE subtotal == SumFunction(Charges(g))
                 fee == IF method = "card" THEN CardFee(subtotal, feeRate) ELSE 0
      <3>1. bill'[g] = [subtotal |-> subtotal, fee |-> fee, total |-> subtotal + fee,
                        rate |-> feeRate, method |-> method]
        BY <2>2 DEF CloseGuestFolio, TypeOK
      <3>2. Charges(g)' = Charges(g) /\ Unposted(g)' = {}
        BY <2>2, CloseCharges
      <3>3. /\ bill'[g].subtotal = subtotal /\ bill'[g].fee = fee
            /\ bill'[g].total = subtotal + fee
            /\ bill'[g].rate = feeRate /\ bill'[g].method = method
        BY <3>1
      <3> QED BY <3>2, <3>3 DEF Balanced
    <2> QED BY <2>1, <2>2, FolioWrites
  <1> QED BY <1>1, <1>2, TypeCorrect, PTL DEF Spec

\* Charges move only for a guest on the manifest of a voyage under way.
THEOREM ChargesMoveUnderWay == Spec => ChargesMoveOnlyUnderWay
  <1>1. TypeOK /\ [Next]_vars =>
          [\A g \in Guests :
             (trip[TripOf[g]] # "active" \/ revoked[g]) => Charges(g)' = Charges(g)]_vars
    <2> SUFFICES ASSUME TypeOK, [Next]_vars, NEW g \in Guests,
                        trip[TripOf[g]] # "active" \/ revoked[g]
                 PROVE  Charges(g)' = Charges(g)
      OBVIOUS
    <2>1. CASE Quiet
      BY <2>1 DEF Quiet, Charges, LiveLines, Live
    <2>2. ASSUME NEW h \in Guests, WritesOnly(h), ChargesWrite(h)
          PROVE  Charges(g)' = Charges(g)
      <3>1. CASE h = g
        <4>1. /\ DOMAIN lines' = DOMAIN lines
              /\ \A l \in DOMAIN lines :
                   /\ lines'[l].guest = lines[l].guest /\ lines'[l].voided = lines[l].voided
                   /\ lines'[l].total = lines[l].total
          BY <2>2, <3>1 DEF ChargesWrite
        <4>2. LiveLines(g)' = LiveLines(g)
          BY <4>1 DEF LiveLines, Live
        <4>3. \A l \in LiveLines(g) : lines'[l].total = lines[l].total
          BY <4>1 DEF LiveLines
        <4> QED BY <4>2, <4>3 DEF Charges
      <3>2. CASE h # g
        <4>1. \A l \in DOMAIN lines : lines[l].guest = g =>
                l \in DOMAIN lines' /\ lines'[l] = lines[l]
          BY <2>2, <3>2 DEF WritesOnly
        <4>2. \A l \in DOMAIN lines' : lines'[l].guest = g =>
                l \in DOMAIN lines /\ lines'[l] = lines[l]
          BY <2>2, <3>2 DEF WritesOnly
        <4>3. LiveLines(g)' = LiveLines(g)
          BY <4>1, <4>2 DEF LiveLines, Live
        <4>4. \A l \in LiveLines(g) : lines'[l] = lines[l]
          BY <4>1 DEF LiveLines
        <4> QED BY <4>3, <4>4 DEF Charges
      <3> QED BY <3>1, <3>2
    <2> QED BY <2>1, <2>2, OneFolioWritten
  <1> QED BY <1>1, TypeCorrect, PTL DEF Spec, ChargesMoveOnlyUnderWay

-----------------------------------------------------------------------------
(***************************************************************************)
(* The ledger implements the stock promise                                 *)
(***************************************************************************)
\* The standing lines of a guest whose units have left the boat's stock.
Posted(g) == {l \in LiveLines(g) : lines[l].posted}

\* The units of item i that line l has on the folio of g, and those it has yet to take.
OnFolio(g, i) ==
  [l \in LineIds |-> IF l \in Posted(g) /\ lines[l].item = i THEN lines[l].qty ELSE 0]

StillOwed(g, i) ==
  [l \in LineIds |-> IF l \in Unposted(g) /\ lines[l].item = i THEN lines[l].qty ELSE 0]

\* Counts are numbers, negative ones too: folio lines may take stock below zero.
CountsAreNumbers == stock \in [Items -> Int]

\* The ledger's tables in the words of the stock promise.
ChargedUnits ==
  [g \in Guests |-> [i \in Items |-> UnitsOf(i, {l \in LiveLines(g) : lines[l].posted})]]

SealedFolios == [g \in Guests |-> folio[g] = "closed"]

\* The lines of a set that are of one item add up as they do over the whole table.
LEMMA UnitsOverTable ==
  ASSUME TypeOK, NEW S \in SUBSET DOMAIN lines, NEW i \in Items, NEW f,
         \A l \in LineIds : f[l] = IF l \in S /\ lines[l].item = i THEN lines[l].qty ELSE 0
  PROVE  UnitsOf(i, S) = Total(f, LineIds) /\ UnitsOf(i, S) \in Nat
  <1> DEFINE B == {l \in S : lines[l].item = i}
  <1>1. /\ B \in SUBSET LineIds /\ IsFiniteSet(LineIds)
        /\ \A l \in LineIds : f[l] \in Nat
        /\ \A l \in LineIds \ B : f[l] = 0
        /\ \A l \in B : f[l] = lines[l].qty
    BY DataAssumption DEF TypeOK, Line
  <1>2. [l \in B |-> lines[l].qty] = [l \in B |-> f[l]]
    BY <1>1
  <1>3. UnitsOf(i, S) = Total(f, B)
    BY <1>2 DEF UnitsOf, Total
  <1>4. Total(f, LineIds) = Total(f, B)
    <2> HIDE DEF B
    <2> QED BY <1>1, TotalPart
  <1>5. Total(f, LineIds) \in Nat
    BY <1>1, TotalNat
  <1> QED BY <1>3, <1>4, <1>5

\* What the promise calls charged is what the standing, posted lines add up to.
ChargedIsTotal ==
  \A g \in Guests, i \in Items :
    /\ ChargedUnits[g][i] = Total(OnFolio(g, i), LineIds)
    /\ ChargedUnits[g][i] \in Nat
    /\ \A l \in LineIds : OnFolio(g, i)[l] \in Nat

\* It is so in every state whose tables hold rows of their types.
LEMMA ChargedTotal == TypeOK => ChargedIsTotal
  <1> SUFFICES ASSUME TypeOK, NEW g \in Guests, NEW i \in Items
               PROVE  /\ ChargedUnits[g][i] = Total(OnFolio(g, i), LineIds)
                      /\ ChargedUnits[g][i] \in Nat
                      /\ \A l \in LineIds : OnFolio(g, i)[l] \in Nat
    BY DEF ChargedIsTotal
  <1>1. Posted(g) \in SUBSET DOMAIN lines
    BY DEF Posted, LiveLines
  <1>2. UnitsOf(i, Posted(g)) = Total(OnFolio(g, i), LineIds) /\ UnitsOf(i, Posted(g)) \in Nat
    <2>1. \A l \in LineIds : OnFolio(g, i)[l]
            = IF l \in Posted(g) /\ lines[l].item = i THEN lines[l].qty ELSE 0
      BY DEF OnFolio
    <2> HIDE DEF OnFolio, Posted
    <2> QED BY <1>1, <2>1, UnitsOverTable
  <1>3. \A l \in LineIds : OnFolio(g, i)[l] \in Nat
    BY <1>1 DEF OnFolio, TypeOK, Line
  <1> QED BY <1>2, <1>3 DEF ChargedUnits, Posted

\* A guest none of whose standing, posted rows a step touches is charged what it was.
LEMMA OthersKeepUnits ==
  ASSUME NEW h \in Guests, Posted(h)' = Posted(h),
         \A l \in Posted(h) : lines'[l] = lines[l]
  PROVE  ChargedUnits'[h] = ChargedUnits[h]
  <1>1. ASSUME NEW i \in Items PROVE UnitsOf(i, Posted(h))' = UnitsOf(i, Posted(h))
    <2>1. {m \in Posted(h) : lines[m].item = i}' = {m \in Posted(h) : lines[m].item = i}
      OBVIOUS
    <2> QED BY <2>1 DEF UnitsOf
  <1>2. [i \in Items |-> UnitsOf(i, Posted(h))]' = [i \in Items |-> UnitsOf(i, Posted(h))]
    BY <1>1
  <1> QED BY <1>2 DEF ChargedUnits, Posted

\* One row of an unsettled folio is written, and stock moves by what the row's weight
\* on the folio does: units move between that guest and the boat.
LEMMA RowMovesUnits ==
  ASSUME TypeOK, TypeOK', CountsAreNumbers, NEW g \in Guests, folio[g] # "closed",
         NEW l \in LineIds,
         \A m \in LineIds \ {l} : /\ m \in DOMAIN lines' <=> m \in DOMAIN lines
                                  /\ m \in DOMAIN lines => lines'[m] = lines[m],
         l \in DOMAIN lines => lines[l].guest = g,
         l \in DOMAIN lines' => lines'[l].guest = g,
         \A i \in Items : stock'[i] = stock[i] + OnFolio(g, i)[l] - OnFolio(g, i)'[l]
  PROVE  Stock!MoveUnits(g) /\ \A i \in Items : stock'[i] \in Int
  <1>1. ASSUME NEW h \in Guests, h # g PROVE ChargedUnits'[h] = ChargedUnits[h]
    <2>1. Posted(h)' = Posted(h)
      BY <1>1 DEF Posted, LiveLines, Live, TypeOK
    <2>2. \A m \in Posted(h) : lines'[m] = lines[m]
      BY <1>1 DEF Posted, LiveLines, TypeOK
    <2> QED BY <2>1, <2>2, OthersKeepUnits
  <1>2. ASSUME NEW i \in Items
        PROVE  /\ ChargedUnits'[g][i] \in Nat /\ stock'[i] \in Int
               /\ stock'[i] = stock[i] + ChargedUnits[g][i] - ChargedUnits'[g][i]
    <2>1. /\ ChargedUnits[g][i] = Total(OnFolio(g, i), LineIds)
          /\ ChargedUnits[g][i] \in Nat
          /\ \A m \in LineIds : OnFolio(g, i)[m] \in Int
      BY ChargedTotal DEF ChargedIsTotal
    <2>2. /\ ChargedUnits'[g][i] = Total(OnFolio(g, i)', LineIds)
          /\ ChargedUnits'[g][i] \in Nat
          /\ \A m \in LineIds : OnFolio(g, i)'[m] \in Int
      <3>1. ChargedIsTotal'
        BY ChargedTotal, PTL
      <3> QED BY <3>1 DEF ChargedIsTotal, Total
    <2>3. \A m \in LineIds \ {l} : OnFolio(g, i)[m] = OnFolio(g, i)'[m]
      BY DEF OnFolio, Posted, LiveLines, Live
    <2>4. IsFiniteSet(LineIds)
      BY DataAssumption
    <2>5. Total(OnFolio(g, i)', LineIds)
            = Total(OnFolio(g, i), LineIds) + OnFolio(g, i)'[l] - OnFolio(g, i)[l]
      BY <2>1, <2>2, <2>3, <2>4, TotalPoint
    <2>6. stock[i] \in Int
      BY DEF CountsAreNumbers
    <2> QED BY <2>1, <2>2, <2>5, <2>6
  <1> QED BY <1>1, <1>2 DEF Stock!MoveUnits, ChargedUnits

\* Settlement takes from stock what its folio still owed, and charges exactly that.
LEMMA CloseMovesUnits ==
  ASSUME TypeOK, TypeOK', CountsAreNumbers, NEW g \in Guests, folio[g] # "closed",
         DOMAIN lines' = DOMAIN lines,
         \A l \in DOMAIN lines :
           lines'[l] = IF l \in Unposted(g) THEN MarkPosted(lines[l]) ELSE lines[l],
         \A i \in Items : stock'[i] = stock[i] - UnitsOf(i, Unposted(g))
  PROVE  Stock!MoveUnits(g) /\ \A i \in Items : stock'[i] \in Int
  <1>1. ASSUME NEW h \in Guests, h # g PROVE ChargedUnits'[h] = ChargedUnits[h]
    <2>0. \A l \in DOMAIN lines :
            /\ lines'[l].guest = lines[l].guest /\ lines'[l].voided = lines[l].voided
            /\ lines[l].guest = h => lines'[l] = lines[l]
      BY <1>1, MarkPostedRow DEF TypeOK, Unposted, LiveLines
    <2>1. Posted(h)' = Posted(h)
      BY <2>0 DEF Posted, LiveLines, Live
    <2>2. \A m \in Posted(h) : lines'[m] = lines[m]
      BY <2>0 DEF Posted, LiveLines
    <2> QED BY <2>1, <2>2, OthersKeepUnits
  <1>2. ASSUME NEW i \in Items
        PROVE  /\ ChargedUnits'[g][i] \in Nat /\ stock'[i] \in Int
               /\ stock'[i] = stock[i] + ChargedUnits[g][i] - ChargedUnits'[g][i]
    <2>1. /\ ChargedUnits[g][i] = Total(OnFolio(g, i), LineIds)
          /\ ChargedUnits[g][i] \in Nat
          /\ \A m \in LineIds : OnFolio(g, i)[m] \in Int
      BY ChargedTotal DEF ChargedIsTotal
    <2>2. /\ ChargedUnits'[g][i] = Total(OnFolio(g, i)', LineIds)
          /\ ChargedUnits'[g][i] \in Nat
      <3>1. ChargedIsTotal'
        BY ChargedTotal, PTL
      <3> QED BY <3>1 DEF ChargedIsTotal, Total
    <2>3. Unposted(g) \in SUBSET DOMAIN lines
      BY DEF Unposted, LiveLines
    <2>4. /\ UnitsOf(i, Unposted(g)) = Total(StillOwed(g, i), LineIds)
          /\ UnitsOf(i, Unposted(g)) \in Nat
      <3>1. \A l \in LineIds : StillOwed(g, i)[l]
              = IF l \in Unposted(g) /\ lines[l].item = i THEN lines[l].qty ELSE 0
        BY DEF StillOwed
      <3> HIDE DEF StillOwed, Unposted
      <3> QED BY <2>3, <3>1, UnitsOverTable
    <2>5. ASSUME NEW l \in LineIds
          PROVE  /\ StillOwed(g, i)[l] \in Int
                 /\ OnFolio(g, i)'[l] = OnFolio(g, i)[l] + StillOwed(g, i)[l]
      <3>1. CASE l \in Unposted(g)
        <4>1. l \in LiveLines(g) /\ l \in DOMAIN lines /\ lines[l] \in Line /\ ~lines[l].posted
          BY <3>1 DEF Unposted, LiveLines, TypeOK
        <4>2. /\ lines'[l].posted /\ lines'[l].guest = g /\ ~lines'[l].voided
              /\ lines'[l].item = lines[l].item /\ lines'[l].qty = lines[l].qty
          BY <3>1, <4>1, MarkPostedRow DEF LiveLines, Live
        <4>3. l \notin Posted(g) /\ l \in Posted(g)'
          BY <4>1, <4>2 DEF Posted, LiveLines, Live
        <4>4. lines[l].qty \in Int
          BY <4>1 DEF Line
        <4> QED BY <3>1, <4>2, <4>3, <4>4 DEF OnFolio, StillOwed
      <3>2. CASE l \notin Unposted(g)
        <4>1. l \in DOMAIN lines => lines'[l] = lines[l]
          BY <3>2
        <4>2. l \in Posted(g)' <=> l \in Posted(g)
          BY <4>1 DEF Posted, LiveLines, Live
        <4>3. l \in Posted(g) => l \in DOMAIN lines
          BY DEF Posted, LiveLines
        <4>4. OnFolio(g, i)'[l] = OnFolio(g, i)[l]
          BY <4>1, <4>2, <4>3 DEF OnFolio
        <4> QED BY <2>1, <3>2, <4>4 DEF StillOwed
      <3> QED BY <3>1, <3>2
    <2>6. IsFiniteSet(LineIds)
      BY DataAssumption
    <2>7. Total(OnFolio(g, i)', LineIds)
            = Total(OnFolio(g, i), LineIds) + Total(StillOwed(g, i), LineIds)
      <3> HIDE DEF OnFolio, StillOwed
      <3> QED BY <2>1, <2>5, <2>6, TotalPlus
    <2>8. stock[i] \in Int
      BY DEF CountsAreNumbers
    <2> QED BY <2>1, <2>2, <2>4, <2>7, <2>8
  <1> QED BY <1>1, <1>2 DEF Stock!MoveUnits, ChargedUnits

\* A step that writes no line and settles no folio charges nobody.
LEMMA QuietUnits ==
  ASSUME Quiet, \A g \in Guests : folio'[g] = "closed" <=> folio[g] = "closed"
  PROVE  UNCHANGED <<ChargedUnits, SealedFolios>>
  <1>1. \A g \in Guests : LiveLines(g)' = LiveLines(g)
    BY DEF Quiet, LiveLines, Live
  <1>2. \A g \in Guests : Posted(g)' = Posted(g) /\ \A l \in Posted(g) : lines'[l] = lines[l]
    BY <1>1 DEF Posted, Quiet
  <1>3. \A g \in Guests : ChargedUnits'[g] = ChargedUnits[g]
    BY <1>2, OthersKeepUnits
  <1>4. ChargedUnits' = ChargedUnits
    BY <1>3 DEF ChargedUnits
  <1> QED BY <1>4 DEF SealedFolios

\* One transaction moves the units of one guest, recounts one item, or moves nothing.
LEMMA StockStep ==
  ASSUME BalanceInv, TypeOK', CountsAreNumbers, [Next]_vars
  PROVE  [Stock!Next]_Stock!vars /\ CountsAreNumbers'
  <1> USE DEF BalanceInv
  <1>1. ASSUME NEW g \in Guests, folio[g] # "closed", Stock!MoveUnits(g),
               \/ UNCHANGED SealedFolios
               \/ SealedFolios' = [SealedFolios EXCEPT ![g] = TRUE]
        PROVE  Stock!Next
    BY <1>1 DEF Stock!Next, Stock!Charge, Stock!Seal, SealedFolios
  <1>2. ASSUME Quiet, UNCHANGED stock,
               \A g \in Guests : folio'[g] = "closed" <=> folio[g] = "closed"
        PROVE  UNCHANGED Stock!vars /\ CountsAreNumbers'
    BY <1>2, QuietUnits DEF Stock!vars, ChargedUnits, SealedFolios, CountsAreNumbers
  <1>3. ASSUME Quiet, UNCHANGED folio, NEW i \in Items,
               NEW n \in Int, stock' = [stock EXCEPT ![i] = n]
        PROVE  Stock!Next /\ CountsAreNumbers'
    <2>1. UNCHANGED <<ChargedUnits, SealedFolios>>
      BY <1>3, QuietUnits
    <2>2. \A j \in Items \ {i} : stock'[j] = stock[j]
      BY <1>3 DEF CountsAreNumbers
    <2>3. Stock!Recount(i)
      BY <2>1, <2>2 DEF Stock!Recount, ChargedUnits, SealedFolios
    <2> QED BY <1>3, <2>3 DEF Stock!Next, CountsAreNumbers
  <1> DEFINE MovesFor(g, l) ==
        /\ folio[g] # "closed"
        /\ \A m \in LineIds \ {l} : /\ m \in DOMAIN lines' <=> m \in DOMAIN lines
                                    /\ m \in DOMAIN lines => lines'[m] = lines[m]
        /\ l \in DOMAIN lines => lines[l].guest = g
        /\ l \in DOMAIN lines' => lines'[l].guest = g
        /\ \A i \in Items : stock'[i] = stock[i] + OnFolio(g, i)[l] - OnFolio(g, i)'[l]
        /\ \A h \in Guests : folio'[h] = "closed" <=> folio[h] = "closed"
        /\ stock' = [i \in Items |-> stock'[i]]
  <1>4. ASSUME NEW g \in Guests, NEW l \in LineIds, MovesFor(g, l)
        PROVE  Stock!Next /\ CountsAreNumbers'
    <2>1. Stock!MoveUnits(g) /\ \A i \in Items : stock'[i] \in Int
      BY <1>4, RowMovesUnits
    <2>2. UNCHANGED SealedFolios
      BY <1>4 DEF SealedFolios
    <2> QED BY <1>1, <1>4, <2>1, <2>2 DEF CountsAreNumbers
  <1>5. \A i \in Items : stock[i] \in Int /\ i # NoItem
    BY DataAssumption DEF CountsAreNumbers
  <1>6. ASSUME NEW g \in Guests, NEW i \in Items, NEW q \in Quantities,
               NEW r \in Requests \cup {NoRequest}, NEW l \in LineIds,
               AddCatalogLine(g, i, q, r, l)
        PROVE  MovesFor(g, l)
    <2>1. /\ l \notin DOMAIN lines /\ DOMAIN lines' = DOMAIN lines \cup {l}
          /\ \A m \in DOMAIN lines : lines'[m] = lines[m]
          /\ lines'[l].guest = g /\ lines'[l].item = i /\ lines'[l].qty = q
          /\ lines'[l].posted = catalog[i].counted /\ ~lines'[l].voided
      BY <1>6 DEF AddCatalogLine, InsertLine
    <2>2. l \notin Posted(g) /\ (l \in Posted(g)' <=> catalog[i].counted)
      BY <2>1 DEF Posted, LiveLines, Live
    <2>3. q \in Nat \ {0}
      BY DataAssumption
    <2>4. \A j \in Items : OnFolio(g, j)[l] = 0
                  /\ OnFolio(g, j)'[l] = IF catalog[i].counted /\ j = i THEN q ELSE 0
      BY <2>1, <2>2 DEF OnFolio
    <2>5. /\ stock' = [stock EXCEPT ![i] = @ + (IF catalog[i].counted THEN -q ELSE 0)]
          /\ folio[g] # "closed" /\ folio' = [folio EXCEPT ![g] = "open"]
      BY <1>6 DEF AddCatalogLine
    <2>6. \A j \in Items : stock'[j] = stock[j] + OnFolio(g, j)[l] - OnFolio(g, j)'[l]
      BY <1>5, <2>3, <2>4, <2>5 DEF CountsAreNumbers
    <2> QED BY <2>1, <2>5, <2>6 DEF CountsAreNumbers, TypeOK
  <1>7. ASSUME NEW g \in Guests, NEW amount \in Tips, NEW l \in LineIds,
               AddCrewTip(g, amount, l)
        PROVE  MovesFor(g, l)
    <2>1. /\ stock' = stock /\ folio[g] # "closed"
          /\ folio' = [folio EXCEPT ![g] = "open"]
      BY <1>7 DEF AddCrewTip
    <2>2. /\ \A m \in LineIds \ {l} : /\ m \in DOMAIN lines' <=> m \in DOMAIN lines
                                      /\ m \in DOMAIN lines => lines'[m] = lines[m]
          /\ l \in DOMAIN lines => lines[l].guest = g
          /\ lines'[l].guest = g
          /\ \A i \in Items : OnFolio(g, i)'[l] = OnFolio(g, i)[l]
      <3>1. CASE l \in TipLines(g)
        <4>1. l \in DOMAIN lines /\ lines[l] \in Line /\ lines[l].guest = g
          BY <3>1 DEF TipLines, LiveLines, TypeOK
        <4>2. /\ DOMAIN lines' = DOMAIN lines
              /\ \A m \in DOMAIN lines \ {l} : lines'[m] = lines[m]
              /\ lines'[l].guest = lines[l].guest /\ lines'[l].posted = lines[l].posted
              /\ lines'[l].voided = lines[l].voided /\ lines'[l].item = lines[l].item
              /\ lines'[l].qty = lines[l].qty
          BY <1>7, <3>1, <4>1 DEF AddCrewTip, TypeOK, Line
        <4>3. l \in Posted(g)' <=> l \in Posted(g)
          BY <4>2 DEF Posted, LiveLines, Live
        <4> QED BY <4>1, <4>2, <4>3 DEF OnFolio
      <3>2. CASE l \notin TipLines(g)
        <4>1. /\ l \notin DOMAIN lines /\ DOMAIN lines' = DOMAIN lines \cup {l}
              /\ \A m \in DOMAIN lines : lines'[m] = lines[m]
              /\ lines'[l].guest = g /\ lines'[l].posted = FALSE
          BY <1>7, <3>2 DEF AddCrewTip, InsertLine
        <4>2. l \notin Posted(g) /\ l \notin Posted(g)'
          BY <4>1 DEF Posted, LiveLines
        <4> QED BY <4>1, <4>2 DEF OnFolio
      <3> QED BY <3>1, <3>2
    <2>3. \A i \in Items : OnFolio(g, i)[l] \in Nat
      BY ChargedTotal DEF ChargedIsTotal
    <2> QED BY <1>5, <2>1, <2>2, <2>3 DEF CountsAreNumbers, TypeOK
  \* A standing line is rewritten; stock moves by the units it gives back.
  <1>8. ASSUME NEW l \in DOMAIN lines, NEW left \in Nat,
               folio[lines[l].guest] # "closed", ~lines[l].voided,
               UNCHANGED folio, DOMAIN lines' = DOMAIN lines,
               \A m \in DOMAIN lines \ {l} : lines'[m] = lines[m],
               lines'[l].guest = lines[l].guest, lines'[l].item = lines[l].item,
               lines'[l].posted = lines[l].posted,
               (lines'[l].voided /\ left = 0) \/ (~lines'[l].voided /\ lines'[l].qty = left),
               IF lines[l].counted /\ lines[l].posted
                 THEN stock' = [stock EXCEPT ![lines[l].item] = @ + (lines[l].qty - left)]
                 ELSE stock' = stock,
               lines[l].posted => lines[l].counted
        PROVE  MovesFor(lines[l].guest, l)
    <2> DEFINE g == lines[l].guest
    <2>1. l \in LineIds /\ lines[l] \in Line /\ lines[l].qty \in Nat
      BY DEF TypeOK, Line
    <2>2. /\ l \in Posted(g) <=> lines[l].posted
          /\ l \in Posted(g)' <=> (lines[l].posted /\ ~lines'[l].voided)
      BY <1>8 DEF Posted, LiveLines, Live
    <2>3. \A i \in Items :
            /\ OnFolio(g, i)[l] = IF lines[l].posted /\ lines[l].item = i THEN lines[l].qty ELSE 0
            /\ OnFolio(g, i)'[l] = IF lines[l].posted /\ lines[l].item = i THEN left ELSE 0
      BY <1>8, <2>1, <2>2 DEF OnFolio
    <2>4. \A i \in Items : stock'[i] = stock[i] + OnFolio(g, i)[l] - OnFolio(g, i)'[l]
      BY <1>5, <1>8, <2>1, <2>3 DEF CountsAreNumbers
    <2>5. stock' = [i \in Items |-> stock'[i]]
      BY <1>8 DEF CountsAreNumbers
    <2> QED BY <1>8, <2>4, <2>5 DEF TypeOK
  <1>9. \A l \in DOMAIN lines :
          /\ l \in LineIds /\ lines[l] \in Line /\ lines[l].guest \in Guests
          /\ lines[l].posted => lines[l].counted
    BY DEF TypeOK, Line, PostedIsCounted
  <1>10. ASSUME NEW l \in LineIds, NEW q \in Quantities, UpdateQuantity(l, q)
         PROVE  MovesFor(lines[l].guest, l)
    <2>1. /\ l \in DOMAIN lines /\ q \in Nat
          /\ folio[lines[l].guest] # "closed" /\ ~lines[l].voided /\ UNCHANGED folio
          /\ lines' = [lines EXCEPT ![l].qty = q, ![l].total = lines[l].unit * q]
          /\ IF lines[l].counted /\ lines[l].posted
               THEN stock' = [stock EXCEPT ![lines[l].item] = @ + (lines[l].qty - q)]
               ELSE stock' = stock
      BY <1>10, DataAssumption DEF UpdateQuantity, MayMutate, Live, PostMovement
    <2>2. /\ DOMAIN lines' = DOMAIN lines
          /\ \A m \in DOMAIN lines \ {l} : lines'[m] = lines[m]
          /\ lines'[l].guest = lines[l].guest /\ lines'[l].item = lines[l].item
          /\ lines'[l].posted = lines[l].posted /\ lines'[l].qty = q
          /\ ~lines'[l].voided
      BY <1>9, <2>1 DEF TypeOK, Line
    <2> HIDE DEF MovesFor
    <2> QED BY <1>8, <1>9, <2>1, <2>2
  <1>11. ASSUME NEW l \in LineIds, DeleteLine(l) PROVE MovesFor(lines[l].guest, l)
    <2>1. /\ l \in DOMAIN lines
          /\ folio[lines[l].guest] # "closed" /\ ~lines[l].voided /\ UNCHANGED folio
          /\ lines' = [lines EXCEPT ![l].voided = TRUE]
          /\ IF lines[l].counted /\ lines[l].posted
               THEN stock' = [stock EXCEPT ![lines[l].item] = @ + lines[l].qty]
               ELSE stock' = stock
      BY <1>11 DEF DeleteLine, MayMutate, Live, PostMovement
    <2>2. /\ DOMAIN lines' = DOMAIN lines
          /\ \A m \in DOMAIN lines \ {l} : lines'[m] = lines[m]
          /\ lines'[l].guest = lines[l].guest /\ lines'[l].item = lines[l].item
          /\ lines'[l].posted = lines[l].posted /\ lines'[l].voided
      BY <1>9, <2>1 DEF TypeOK, Line
    <2>3. lines[l].qty - 0 = lines[l].qty
      BY <1>9, <2>1 DEF Line
    <2> HIDE DEF MovesFor
    <2> QED BY <1>8, <1>9, <2>1, <2>2, <2>3
  <1>12. ASSUME NEW l \in LineIds, NEW amount \in Tips, UpdateTip(l, amount)
         PROVE  MovesFor(lines[l].guest, l)
    <2>1. /\ l \in DOMAIN lines
          /\ folio[lines[l].guest] # "closed" /\ ~lines[l].voided /\ UNCHANGED <<folio, stock>>
          /\ lines' = [lines EXCEPT ![l].unit = amount, ![l].total = amount]
      BY <1>12 DEF UpdateTip, MayMutate, Live
    <2>2. /\ DOMAIN lines' = DOMAIN lines
          /\ \A m \in DOMAIN lines \ {l} : lines'[m] = lines[m]
          /\ lines'[l].guest = lines[l].guest /\ lines'[l].item = lines[l].item
          /\ lines'[l].posted = lines[l].posted /\ lines'[l].qty = lines[l].qty
          /\ ~lines'[l].voided
      BY <1>9, <2>1 DEF TypeOK, Line
    <2>3. \A i \in Items : OnFolio(lines[l].guest, i)'[l] = OnFolio(lines[l].guest, i)[l]
      <3>1. /\ LiveLines(lines[l].guest)' = LiveLines(lines[l].guest)
            /\ \A m \in DOMAIN lines : /\ lines'[m].posted = lines[m].posted
                                       /\ lines'[m].item = lines[m].item
                                       /\ lines'[m].qty = lines[m].qty
        BY <2>1, <2>2 DEF LiveLines, Live
      <3> QED BY <2>1, <3>1 DEF OnFolio, Posted, LiveLines
    <2>4. \A i \in Items : OnFolio(lines[l].guest, i)[l] \in Nat
      BY <1>9, <2>1, ChargedTotal DEF ChargedIsTotal
    <2> QED BY <1>5, <2>1, <2>2, <2>3, <2>4 DEF CountsAreNumbers
  <1>13. ASSUME NEW g \in Guests, NEW method \in Methods, CloseGuestFolio(g, method)
         PROVE  Stock!Next /\ CountsAreNumbers'
    <2>1. /\ folio[g] # "closed"
          /\ stock' = [i \in Items |-> stock[i] - UnitsOf(i, Unposted(g))]
          /\ folio' = [folio EXCEPT ![g] = "closed"]
      BY <1>13 DEF CloseGuestFolio
    <2>2. Stock!MoveUnits(g) /\ \A i \in Items : stock'[i] \in Int
      BY <1>13, <2>1, CloseRows, CloseMovesUnits
    <2>3. SealedFolios' = [SealedFolios EXCEPT ![g] = TRUE]
      BY <2>1 DEF SealedFolios, TypeOK
    <2> QED BY <1>1, <2>1, <2>2, <2>3 DEF CountsAreNumbers
  <1>14. ASSUME SettingStep PROVE [Stock!Next]_Stock!vars /\ CountsAreNumbers'
    <2>1. Quiet /\ UNCHANGED folio
      BY <1>14, QuietSteps DEF SettingStep, AdjustStock, SetBoatInventoryItem,
         UpdateCatalogItem, UpdatePaymentSettings
    <2>2. ASSUME NEW i \in Items, NEW delta \in Deltas, AdjustStock(i, delta)
          PROVE  Stock!Next /\ CountsAreNumbers'
      <3>1. stock' = [stock EXCEPT ![i] = stock[i] + delta] /\ stock[i] + delta \in Int
        BY <2>2, <1>5, DataAssumption DEF AdjustStock
      <3> QED BY <1>3, <2>1, <3>1
    <2>3. ASSUME NEW i \in Items, NEW n \in 0..MaxStock, SetBoatInventoryItem(i, n)
          PROVE  Stock!Next /\ CountsAreNumbers'
      <3>1. stock' = [stock EXCEPT ![i] = n] /\ n \in Int
        BY <2>3, DataAssumption DEF SetBoatInventoryItem
      <3> QED BY <1>3, <2>1, <3>1
    <2>4. CASE UNCHANGED stock
      BY <1>2, <2>1, <2>4
    <2> QED
      BY <1>14, <2>2, <2>3, <2>4
         DEF SettingStep, UpdateCatalogItem, UpdatePaymentSettings, lineVars
  <1>15. ASSUME (\E g \in Guests : OpenGuestFolio(g)) \/ ManifestStep \/ UNCHANGED vars
         PROVE  [Stock!Next]_Stock!vars /\ CountsAreNumbers'
    <2>1. Quiet /\ UNCHANGED stock
      BY <1>15, QuietSteps DEF OpenGuestFolio, ManifestStep, StartTrip, CompleteTrip,
         CancelTrip, RevokeTripGuestInvite, ResendTripGuestInvite, vars, lineVars
    <2>2. \A g \in Guests : folio'[g] = "closed" <=> folio[g] = "closed"
      BY <1>15 DEF OpenGuestFolio, ManifestStep, StartTrip, CompleteTrip,
         CancelTrip, RevokeTripGuestInvite, ResendTripGuestInvite, vars, TypeOK
    <2> QED BY <1>2, <2>1, <2>2
  <1> HIDE DEF MovesFor
  <1>16. ASSUME NEW l \in LineIds, LineStep(l) PROVE Stock!Next /\ CountsAreNumbers'
    <2>1. l \in DOMAIN lines
      BY <1>16 DEF LineStep, UpdateQuantity, UpdateTip, DeleteLine
    <2>2. MovesFor(lines[l].guest, l)
      BY <1>10, <1>11, <1>12, <1>16 DEF LineStep
    <2> QED BY <1>4, <1>9, <2>1, <2>2
  <1>17. ASSUME NEW g \in Guests, FolioStep(g)
         PROVE  [Stock!Next]_Stock!vars /\ CountsAreNumbers'
    BY <1>4, <1>6, <1>7, <1>13, <1>15, <1>17 DEF FolioStep
  <1> QED BY <1>14, <1>15, <1>16, <1>17 DEF Next

\* At deployment no line has been posted, so nobody is charged a unit of the boat's.
LEMMA InitStock == Init => Stock!Init /\ CountsAreNumbers
  <1> SUFFICES ASSUME Init PROVE Stock!Init /\ CountsAreNumbers
    OBVIOUS
  <1>1. \A l \in DOMAIN lines : lines[l] \in LegacyLines
    BY DEF Init
  <1>2. \A g \in Guests : Posted(g) = {}
    BY <1>1 DEF Posted, LiveLines, LegacyLines
  <1>3. ASSUME NEW g \in Guests, NEW i \in Items PROVE ChargedUnits[g][i] = 0
    <2>1. \A l \in LineIds : OnFolio(g, i)[l] = 0
      BY <1>2 DEF OnFolio
    <2>2. IsFiniteSet(LineIds)
      BY DataAssumption
    <2>3. Total(OnFolio(g, i), LineIds) = 0
      <3> HIDE DEF OnFolio
      <3> QED BY <2>1, <2>2, TotalZero
    <2> QED BY <2>3, InitTypeOK, ChargedTotal DEF ChargedIsTotal
  <1>4. ChargedUnits = [g \in Guests |-> [i \in Items |-> 0]]
    BY <1>3 DEF ChargedUnits
  <1>5. CountsAreNumbers
    BY DataAssumption DEF Init, CountsAreNumbers
  <1>6. SealedFolios = [g \in Guests |-> FALSE]
    BY DEF Init, SealedFolios
  <1> QED BY <1>4, <1>5, <1>6 DEF Stock!Init, ChargedUnits, SealedFolios, CountsAreNumbers

\* Whatever staff do to lines, folios, voyages and counts, every unit that leaves the
\* boat through a folio is charged to its guest in the same transaction, and a settled
\* folio's charges never move.
THEOREM StockPromiseKept == Spec => ImplementsStockLedger
  <1>1. BalanceInv /\ CountsAreNumbers /\ [Next]_vars => CountsAreNumbers'
    BY NextBalance, StockStep DEF BalanceInv
  <1>2. BalanceInv /\ CountsAreNumbers /\ [Next]_vars => [Stock!Next]_Stock!vars
    BY NextBalance, StockStep DEF BalanceInv
  <1>3. Spec => []BalanceInv
    BY InitBalance, NextBalance, PTL DEF Spec
  <1> QED BY <1>1, <1>2, <1>3, InitStock, PTL DEF Spec, ImplementsStockLedger, Stock!Spec

=============================================================================
