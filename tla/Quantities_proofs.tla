--------------------------- MODULE Quantities_proofs ---------------------------
(***************************************************************************)
(* Proofs about the three modules whose properties add up quantities and   *)
(* amounts: SaleReturns, SaleLifecycle and PurchaseReceipts.  The lemmas   *)
(* about sums over finite sets, which all three need, come first.          *)
(*                                                                         *)
(* SaleReturns: ReturnsInv, the lines that a request has checked still fit *)
(* what others have committed, because it holds their rows.                *)
(* SaleLifecycle: SaleInv, what a request has read and made of the sale    *)
(* that it is going to save.                                               *)
(* PurchaseReceipts: OrderInv, as ReturnsInv, for receipts that read what  *)
(* is committed, for returns that read a snapshot, and for the order.      *)
(***************************************************************************)
EXTENDS SaleReturns, SaleLifecycle, PurchaseReceipts, FiniteSetTheorems,
        WellFoundedInduction, TLAPS

-----------------------------------------------------------------------------
\* SumFunctionOnSet is a choice of a recursive function: it exists for a finite set,
\* and the facts below follow by induction over the subsets.
Total(f, S) == SumFunctionOnSet(f, S)

Pick(s) == CHOOSE x \in s : TRUE
Adds(h, f, T) ==
  h = [s \in SUBSET T |-> IF s = {} THEN 0 ELSE f[Pick(s)] + h[s \ {Pick(s)}]]

LEMMA LeastSubset ==
  ASSUME NEW S, IsFiniteSet(S), NEW B, B \subseteq SUBSET S, B # {}
  PROVE  \E T \in B : \A U \in B : U \subseteq T => U = T
<1>1. IsWellFoundedOn(StrictSubsetOrdering(S), SUBSET S)
  BY FS_StrictSubsetOrderingWellFounded, FS_FiniteSubsetsOfFinite
<1>2. PICK T \in B : \A U \in B : ~(<<U, T>> \in StrictSubsetOrdering(S))
  <2> HIDE DEF StrictSubsetOrdering
  <2> QED BY <1>1, WFMin
<1> QED BY <1>2 DEF StrictSubsetOrdering

LEMMA PickIn == ASSUME NEW s, s # {} PROVE Pick(s) \in s
  BY DEF Pick

LEMMA AddsUnique ==
  ASSUME NEW f, NEW S, IsFiniteSet(S), NEW T \in SUBSET S, NEW U \in SUBSET S,
         NEW h, NEW k, Adds(h, f, T), Adds(k, f, U)
  PROVE  \A s \in SUBSET (T \cap U) : h[s] = k[s]
<1> DEFINE B == {s \in SUBSET (T \cap U) : h[s] # k[s]}
<1> SUFFICES ASSUME B # {} PROVE FALSE
  OBVIOUS
<1>1. PICK s \in B : \A u \in B : u \subseteq s => u = s
  <2>1. B \subseteq SUBSET S
    OBVIOUS
  <2> HIDE DEF B
  <2> QED BY <2>1, LeastSubset
<1>2. h[s] = IF s = {} THEN 0 ELSE f[Pick(s)] + h[s \ {Pick(s)}]
  BY DEF Adds
<1>3. k[s] = IF s = {} THEN 0 ELSE f[Pick(s)] + k[s \ {Pick(s)}]
  BY DEF Adds
<1>4. s # {} /\ Pick(s) \in s
  BY <1>2, <1>3, PickIn
<1>5. h[s \ {Pick(s)}] = k[s \ {Pick(s)}]
  BY <1>1, <1>4
<1> QED BY <1>2, <1>3, <1>4, <1>5

LEMMA AddsExists ==
  ASSUME NEW f, NEW S, IsFiniteSet(S)
  PROVE  \E h : Adds(h, f, S)
<1> DEFINE B == {T \in SUBSET S : ~ \E h : Adds(h, f, T)}
<1> SUFFICES ASSUME B # {} PROVE FALSE
  OBVIOUS
<1>1. PICK T \in B : \A U \in B : U \subseteq T => U = T
  <2>1. B \subseteq SUBSET S
    OBVIOUS
  <2> HIDE DEF B
  <2> QED BY <2>1, LeastSubset
<1> DEFINE F(s) == CHOOSE h : Adds(h, f, s)
           V(s) == F(s)[s]
           H == [s \in SUBSET T |-> IF s = {} THEN 0 ELSE f[Pick(s)] + V(s \ {Pick(s)})]
<1>2. \A s \in SUBSET T : s # T => Adds(F(s), f, s)
  <2> SUFFICES ASSUME NEW s \in SUBSET T, s # T PROVE Adds(F(s), f, s)
    OBVIOUS
  <2>1. \E h : Adds(h, f, s)
    BY <1>1
  <2> QED BY <2>1
<1>3. \A s \in SUBSET T : s # T =>
        V(s) = IF s = {} THEN 0 ELSE f[Pick(s)] + V(s \ {Pick(s)})
  <2> SUFFICES ASSUME NEW s \in SUBSET T, s # T
               PROVE  V(s) = IF s = {} THEN 0 ELSE f[Pick(s)] + V(s \ {Pick(s)})
    OBVIOUS
  <2> DEFINE t == s \ {Pick(s)}
  <2>1. Adds(F(s), f, s)
    BY <1>2
  <2>2. V(s) = IF s = {} THEN 0 ELSE f[Pick(s)] + F(s)[t]
    <3> HIDE DEF F
    <3> QED BY <2>1 DEF Adds
  <2>3. t \in SUBSET T /\ t # T /\ t \in SUBSET S /\ s \in SUBSET S
    OBVIOUS
  <2>4. Adds(F(t), f, t)
    BY <1>2, <2>3
  <2>5. F(s)[t] = F(t)[t]
    <3>1. t \in SUBSET (s \cap t)
      OBVIOUS
    <3> HIDE DEF F, t
    <3> QED BY <2>1, <2>3, <2>4, <3>1, AddsUnique
  <2> HIDE DEF F
  <2> QED BY <2>2, <2>5
<1> HIDE DEF V, F
<1>4. H = [s \in SUBSET T |-> IF s = {} THEN 0 ELSE f[Pick(s)] + H[s \ {Pick(s)}]]
  <2> SUFFICES ASSUME NEW s \in SUBSET T, s # {}
               PROVE  V(s \ {Pick(s)}) = H[s \ {Pick(s)}]
    OBVIOUS
  <2>1. Pick(s) \in s
    BY PickIn
  <2>2. s \ {Pick(s)} \in SUBSET T /\ s \ {Pick(s)} # T
    BY <2>1
  <2> QED BY <1>3, <2>2
<1>5. Adds(H, f, T)
  BY <1>4 DEF Adds
<1> HIDE DEF H
<1> QED BY <1>1, <1>5

LEMMA TotalIs ==
  ASSUME NEW f, NEW S, IsFiniteSet(S)
  PROVE  \E h : Adds(h, f, S) /\ Total(f, S) = h[S]
<1> DEFINE h == CHOOSE g : g =
      [s \in SUBSET S |->
         IF s = {} THEN 0
         ELSE f[CHOOSE x \in s : TRUE] + g[s \ {CHOOSE x \in s : TRUE}]]
<1>1. Total(f, S) = h[S]
  BY DEF Total, SumFunctionOnSet, FoldFunctionOnSet, MapThenFoldSet
<1>2. \E g : Adds(g, f, S)
  BY AddsExists
<1>3. Adds(h, f, S)
  BY <1>2 DEF Adds, Pick
<1> QED BY <1>1, <1>3

\* What holds of nothing, and of a set when it holds of the set without any of its
\* members, holds of a finite set.
LEMMA SubsetInduction ==
  ASSUME NEW S, IsFiniteSet(S), NEW G, {} \in G,
         \A T \in SUBSET S : T # {} /\ (\A x \in T : T \ {x} \in G) => T \in G
  PROVE  S \in G
<1> DEFINE B == {T \in SUBSET S : T \notin G}
<1> SUFFICES ASSUME B # {} PROVE FALSE
  OBVIOUS
<1>1. PICK T \in B : \A U \in B : U \subseteq T => U = T
  <2>1. B \subseteq SUBSET S
    OBVIOUS
  <2> HIDE DEF B
  <2> QED BY <2>1, LeastSubset
<1>2. \A x \in T : T \ {x} \in G
  BY <1>1
<1> QED BY <1>2

\* A sum over no member is zero; over others, the picked one is added to the rest.
LEMMA TotalEmpty == ASSUME NEW f PROVE Total(f, {}) = 0
<1>1. PICK h : Adds(h, f, {}) /\ Total(f, {}) = h[{}]
  BY TotalIs, FS_EmptySet
<1>2. h[{}] = 0
  BY <1>1 DEF Adds
<1> QED BY <1>1, <1>2

LEMMA TotalPick ==
  ASSUME NEW f, NEW S, IsFiniteSet(S), S # {}
  PROVE  Total(f, S) = f[Pick(S)] + Total(f, S \ {Pick(S)})
<1> DEFINE R == S \ {Pick(S)}
<1>1. R \in SUBSET S /\ IsFiniteSet(R)
  BY FS_Subset
<1>2. PICK h : Adds(h, f, S) /\ Total(f, S) = h[S]
  BY TotalIs
<1>3. PICK k : Adds(k, f, R) /\ Total(f, R) = k[R]
  BY <1>1, TotalIs
<1>4. h[S] = f[Pick(S)] + h[R]
  <2>1. \A s \in SUBSET S : h[s] = IF s = {} THEN 0 ELSE f[Pick(s)] + h[s \ {Pick(s)}]
    BY <1>2 DEF Adds
  <2>2. S \in SUBSET S
    OBVIOUS
  <2> QED BY <2>1, <2>2
<1>5. h[R] = k[R]
  <2>1. S \in SUBSET S /\ R \in SUBSET S /\ R \in SUBSET (S \cap R)
    OBVIOUS
  <2> HIDE DEF R
  <2>2. \A s \in SUBSET (S \cap R) : h[s] = k[s]
    BY <1>2, <1>3, <2>1, AddsUnique
  <2> QED BY <2>1, <2>2
<1> QED BY <1>2, <1>3, <1>4, <1>5

LEMMA TotalInt ==
  ASSUME NEW f, NEW S, IsFiniteSet(S), \A x \in S : f[x] \in Int
  PROVE  Total(f, S) \in Int
<1> DEFINE G == {T \in SUBSET S : Total(f, T) \in Int}
<1>1. {} \in G
  BY TotalEmpty
<1>2. ASSUME NEW T \in SUBSET S, T # {}, \A x \in T : T \ {x} \in G PROVE T \in G
  <2>1. Pick(T) \in T /\ IsFiniteSet(T)
    BY <1>2, PickIn, FS_Subset
  <2>2. Total(f, T \ {Pick(T)}) \in Int
    BY <1>2, <2>1
  <2>3. Total(f, T) = f[Pick(T)] + Total(f, T \ {Pick(T)})
    BY <1>2, <2>1, TotalPick
  <2> QED BY <2>1, <2>2, <2>3
<1>3. S \in G
  <2> HIDE DEF G
  <2> QED BY <1>1, <1>2, SubsetInduction
<1> QED BY <1>3

\* Any member may be added last, whichever is picked.
LEMMA TotalRemove ==
  ASSUME NEW f, NEW S, IsFiniteSet(S), \A x \in S : f[x] \in Int, NEW x \in S
  PROVE  Total(f, S) = Total(f, S \ {x}) + f[x]
<1> DEFINE G == {T \in SUBSET S : \A y \in T : Total(f, T) = Total(f, T \ {y}) + f[y]}
<1>1. {} \in G
  OBVIOUS
<1>2. ASSUME NEW T \in SUBSET S, T # {}, \A y \in T : T \ {y} \in G PROVE T \in G
  <2> SUFFICES ASSUME NEW y \in T PROVE Total(f, T) = Total(f, T \ {y}) + f[y]
    OBVIOUS
  <2> DEFINE p == Pick(T)
             R == T \ {p, y}
  <2>1. p \in T /\ IsFiniteSet(T)
    BY <1>2, PickIn, FS_Subset
  <2>2. Total(f, T) = f[p] + Total(f, T \ {p})
    BY <1>2, <2>1, TotalPick
  <2>3. \A V \in SUBSET S : Total(f, V) \in Int
    BY TotalInt, FS_Subset
  <2> HIDE DEF p
  <2>4. /\ f[p] \in Int /\ f[y] \in Int
        /\ Total(f, R) \in Int /\ Total(f, T \ {p}) \in Int
    BY <2>1, <2>3
  <2>5. CASE p = y
    BY <2>2, <2>4, <2>5
  <2>6. CASE p # y
    <3>1. (T \ {p}) \ {y} = R /\ (T \ {y}) \ {p} = R
      OBVIOUS
    <3>2. Total(f, T \ {p}) = Total(f, (T \ {p}) \ {y}) + f[y]
      BY <1>2, <2>1, <2>6
    <3>3. Total(f, T \ {y}) = Total(f, (T \ {y}) \ {p}) + f[p]
      BY <1>2, <2>1, <2>6
    <3> HIDE DEF R
    <3>4. Total(f, T \ {p}) = Total(f, R) + f[y] /\ Total(f, T \ {y}) = Total(f, R) + f[p]
      BY <3>1, <3>2, <3>3
    <3> QED BY <2>2, <2>4, <3>4
  <2> QED BY <2>5, <2>6
<1>3. S \in G
  <2> HIDE DEF G
  <2> QED BY <1>1, <1>2, SubsetInduction
<1> QED BY <1>3

LEMMA TotalAdd ==
  ASSUME NEW f, NEW S, IsFiniteSet(S), NEW x, x \notin S, \A y \in S \cup {x} : f[y] \in Int
  PROVE  Total(f, S \cup {x}) = Total(f, S) + f[x]
<1>1. IsFiniteSet(S \cup {x})
  BY FS_AddElement
<1>2. (S \cup {x}) \ {x} = S
  OBVIOUS
<1>3. Total(f, S \cup {x}) = Total(f, (S \cup {x}) \ {x}) + f[x]
  BY <1>1, TotalRemove
<1> QED BY <1>2, <1>3

LEMMA TotalNat ==
  ASSUME NEW f, NEW S, IsFiniteSet(S), \A x \in S : f[x] \in Nat
  PROVE  Total(f, S) \in Nat
<1> DEFINE G == {T \in SUBSET S : Total(f, T) \in Nat}
<1>1. {} \in G
  BY TotalEmpty
<1>2. ASSUME NEW T \in SUBSET S, T # {}, \A x \in T : T \ {x} \in G PROVE T \in G
  <2>1. Pick(T) \in T /\ IsFiniteSet(T)
    BY <1>2, PickIn, FS_Subset
  <2>2. Total(f, T \ {Pick(T)}) \in Nat
    BY <1>2, <2>1
  <2>3. Total(f, T) = f[Pick(T)] + Total(f, T \ {Pick(T)})
    BY <1>2, <2>1, TotalPick
  <2> QED BY <2>1, <2>2, <2>3
<1>3. S \in G
  <2> HIDE DEF G
  <2> QED BY <1>1, <1>2, SubsetInduction
<1> QED BY <1>3

\* A sum is at most another, when every member is.
LEMMA TotalLeq ==
  ASSUME NEW f, NEW g, NEW S, IsFiniteSet(S),
         \A x \in S : f[x] \in Int /\ g[x] \in Int /\ f[x] <= g[x]
  PROVE  Total(f, S) <= Total(g, S)
<1> DEFINE G == {T \in SUBSET S : Total(f, T) <= Total(g, T)}
<1>1. {} \in G
  BY TotalEmpty
<1>2. ASSUME NEW T \in SUBSET S, T # {}, \A x \in T : T \ {x} \in G PROVE T \in G
  <2>1. PICK x \in T : TRUE
    BY <1>2
  <2> DEFINE R == T \ {x}
  <2>2. R \in G /\ IsFiniteSet(T) /\ IsFiniteSet(R) /\ R \subseteq S
    BY <1>2, FS_Subset
  <2>3. Total(f, T) = Total(f, R) + f[x] /\ Total(g, T) = Total(g, R) + g[x]
    BY <2>2, TotalRemove
  <2>4. Total(f, R) \in Int /\ Total(g, R) \in Int
    BY <2>2, TotalInt
  <2>5. Total(f, R) <= Total(g, R)
    BY <2>2
  <2> HIDE DEF R
  <2> QED BY <2>3, <2>4, <2>5
<1>3. S \in G
  <2> HIDE DEF G
  <2> QED BY <1>1, <1>2, SubsetInduction
<1> QED BY <1>3

LEMMA TotalSame ==
  ASSUME NEW f, NEW g, NEW S, IsFiniteSet(S), \A x \in S : f[x] = g[x]
  PROVE  Total(f, S) = Total(g, S)
<1> DEFINE G == {T \in SUBSET S : Total(f, T) = Total(g, T)}
<1>1. {} \in G
  BY TotalEmpty
<1>2. ASSUME NEW T \in SUBSET S, T # {}, \A x \in T : T \ {x} \in G PROVE T \in G
  <2>1. Pick(T) \in T /\ IsFiniteSet(T)
    BY <1>2, PickIn, FS_Subset
  <2>2. Total(f, T \ {Pick(T)}) = Total(g, T \ {Pick(T)})
    BY <1>2, <2>1
  <2>3. /\ Total(f, T) = f[Pick(T)] + Total(f, T \ {Pick(T)})
        /\ Total(g, T) = g[Pick(T)] + Total(g, T \ {Pick(T)})
    BY <1>2, <2>1, TotalPick
  <2> QED BY <2>1, <2>2, <2>3
<1>3. S \in G
  <2> HIDE DEF G
  <2> QED BY <1>1, <1>2, SubsetInduction
<1> QED BY <1>3

\* Sums add up member by member, ...
LEMMA TotalPlus ==
  ASSUME NEW f, NEW g, NEW h, NEW S, IsFiniteSet(S),
         \A x \in S : f[x] \in Int /\ g[x] \in Int /\ h[x] = f[x] + g[x]
  PROVE  Total(h, S) = Total(f, S) + Total(g, S)
<1> DEFINE G == {T \in SUBSET S : Total(h, T) = Total(f, T) + Total(g, T)}
<1>1. {} \in G
  BY TotalEmpty
<1>2. ASSUME NEW T \in SUBSET S, T # {}, \A x \in T : T \ {x} \in G PROVE T \in G
  <2>1. PICK x \in T : TRUE
    BY <1>2
  <2> DEFINE R == T \ {x}
  <2>2. R \in G /\ IsFiniteSet(T) /\ IsFiniteSet(R) /\ R \subseteq S
    BY <1>2, FS_Subset
  <2>3. /\ Total(f, T) = Total(f, R) + f[x] /\ Total(g, T) = Total(g, R) + g[x]
        /\ Total(h, T) = Total(h, R) + h[x]
    BY <2>2, TotalRemove
  <2>4. Total(f, R) \in Int /\ Total(g, R) \in Int
    BY <2>2, TotalInt
  <2>5. Total(h, R) = Total(f, R) + Total(g, R)
    BY <2>2
  <2>6. f[x] \in Int /\ g[x] \in Int /\ h[x] = f[x] + g[x]
    OBVIOUS
  <2> HIDE DEF R
  <2> QED BY <2>3, <2>4, <2>5, <2>6
<1>3. S \in G
  <2> HIDE DEF G
  <2> QED BY <1>1, <1>2, SubsetInduction
<1> QED BY <1>3

\* ... a factor may be taken out, ...
LEMMA TotalTimes ==
  ASSUME NEW f, NEW h, NEW S, IsFiniteSet(S), NEW c \in Int,
         \A x \in S : f[x] \in Int /\ h[x] \in Int /\ h[x] = c * f[x]
  PROVE  Total(h, S) = c * Total(f, S)
<1> DEFINE G == {T \in SUBSET S : Total(h, T) = c * Total(f, T)}
<1>1. {} \in G
  BY TotalEmpty
<1>2. ASSUME NEW T \in SUBSET S, T # {}, \A x \in T : T \ {x} \in G PROVE T \in G
  <2>1. PICK x \in T : TRUE
    BY <1>2
  <2> DEFINE R == T \ {x}
  <2>2. R \in G /\ IsFiniteSet(T) /\ IsFiniteSet(R) /\ R \subseteq S
    BY <1>2, FS_Subset
  <2>3. Total(f, T) = Total(f, R) + f[x] /\ Total(h, T) = Total(h, R) + h[x]
    BY <2>2, TotalRemove
  <2>4. Total(f, R) \in Int
    BY <2>2, TotalInt
  <2>5. Total(h, R) = c * Total(f, R) /\ f[x] \in Int /\ h[x] = c * f[x]
    BY <2>2
  <2>6. \A a, b \in Int : c * (a + b) = c * a + c * b
    OBVIOUS
  <2> HIDE DEF R
  <2> QED BY <2>3, <2>4, <2>5, <2>6
<1>3. S \in G
  <2> HIDE DEF G
  <2> QED BY <1>1, <1>2, SubsetInduction
<1> QED BY <1>3

\* ... and a set may be split in two.
LEMMA TotalSplit ==
  ASSUME NEW f, NEW S, NEW V, NEW W, IsFiniteSet(S), \A x \in S : f[x] \in Int,
         S = V \cup W, V \cap W = {}
  PROVE  Total(f, S) = Total(f, V) + Total(f, W)
<1> DEFINE G == {T \in SUBSET S : Total(f, T) = Total(f, T \cap V) + Total(f, T \ V)}
<1>1. {} \in G
  <2>1. {} \cap V = {} /\ {} \ V = {}
    OBVIOUS
  <2> QED BY <2>1, TotalEmpty
<1>2. ASSUME NEW T \in SUBSET S, T # {}, \A x \in T : T \ {x} \in G PROVE T \in G
  <2>1. PICK x \in T : TRUE
    BY <1>2
  <2> DEFINE R == T \ {x}
             I == T \cap V
             O == T \ V
  <2>2. R \in G /\ IsFiniteSet(T) /\ IsFiniteSet(R) /\ IsFiniteSet(I) /\ IsFiniteSet(O)
    <3>1. I \subseteq S /\ O \subseteq S /\ R \subseteq S
      OBVIOUS
    <3> QED BY <1>2, <3>1, FS_Subset
  <2>3. Total(f, T) = Total(f, R) + f[x]
    BY <2>2, TotalRemove
  <2>4. Total(f, R) = Total(f, R \cap V) + Total(f, R \ V)
    BY <2>2
  <2>5. Total(f, I) \in Int /\ Total(f, O) \in Int /\ f[x] \in Int
    BY <2>2, TotalInt
  <2>6. CASE x \in V
    <3>1. R \cap V = I \ {x} /\ R \ V = O
      BY <2>6
    <3>2. x \in I /\ \A y \in I : f[y] \in Int
      BY <2>6
    <3>3. IsFiniteSet(I \ {x}) /\ \A y \in I \ {x} : f[y] \in Int
      BY <2>2, <3>2, FS_Subset
    <3> HIDE DEF I, O, R
    <3>4. Total(f, I) = Total(f, I \ {x}) + f[x] /\ Total(f, I \ {x}) \in Int
      BY <2>2, <3>2, <3>3, TotalRemove, TotalInt
    <3>5. Total(f, R \cap V) = Total(f, I \ {x}) /\ Total(f, R \ V) = Total(f, O)
      BY <3>1, Zenon
    <3>6. Total(f, T) = Total(f, I) + Total(f, O)
      BY <2>3, <2>4, <2>5, <3>4, <3>5
    <3> QED BY <3>6 DEF I, O
  <2>7. CASE x \notin V
    <3>1. R \ V = O \ {x} /\ R \cap V = I
      BY <2>7
    <3>2. x \in O /\ \A y \in O : f[y] \in Int
      BY <2>7
    <3>3. IsFiniteSet(O \ {x}) /\ \A y \in O \ {x} : f[y] \in Int
      BY <2>2, <3>2, FS_Subset
    <3> HIDE DEF I, O, R
    <3>4. Total(f, O) = Total(f, O \ {x}) + f[x] /\ Total(f, O \ {x}) \in Int
      BY <2>2, <3>2, <3>3, TotalRemove, TotalInt
    <3>5. Total(f, R \ V) = Total(f, O \ {x}) /\ Total(f, R \cap V) = Total(f, I)
      BY <3>1, Zenon
    <3>6. Total(f, T) = Total(f, I) + Total(f, O)
      BY <2>3, <2>4, <2>5, <3>4, <3>5
    <3> QED BY <3>6 DEF I, O
  <2> QED BY <2>6, <2>7
<1>3. S \in G
  <2> HIDE DEF G
  <2> QED BY <1>1, <1>2, SubsetInduction
<1>4. Total(f, S) = Total(f, S \cap V) + Total(f, S \ V)
  BY <1>3
<1>5. S \cap V = V /\ S \ V = W
  OBVIOUS
<1>6. Total(f, S \cap V) = Total(f, V) /\ Total(f, S \ V) = Total(f, W)
  BY <1>5, Zenon
<1> QED BY <1>4, <1>6, Zenon

\* A part of naturals has no larger sum.
LEMMA TotalSubset ==
  ASSUME NEW f, NEW S, NEW T \in SUBSET S, IsFiniteSet(S), \A x \in S : f[x] \in Nat
  PROVE  Total(f, T) <= Total(f, S)
<1> DEFINE R == S \ T
<1>1. S = T \cup R /\ T \cap R = {} /\ \A x \in S : f[x] \in Int
  OBVIOUS
<1>2. IsFiniteSet(T) /\ IsFiniteSet(R)
  BY FS_Subset
<1>3. Total(f, T) \in Nat /\ Total(f, R) \in Nat
  BY <1>2, TotalNat
<1> HIDE DEF R
<1>4. Total(f, S) = Total(f, T) + Total(f, R)
  BY <1>1, TotalSplit
<1> QED BY <1>3, <1>4

\* The order of two sums does not matter.
Transposed(F, H, S, U) ==
  \A x \in S : \A y \in U : F[x][y] \in Int /\ H[y][x] = F[x][y]
SumsOf(f, F, S, U) == \A x \in S : f[x] = Total(F[x], U)

LEMMA TotalSwap ==
  ASSUME NEW S, NEW U, IsFiniteSet(S), IsFiniteSet(U),
         NEW F, NEW H, Transposed(F, H, S, U),
         NEW f, SumsOf(f, F, S, U), NEW h, SumsOf(h, H, U, S)
  PROVE  Total(f, S) = Total(h, U)
<1>0. /\ \A x \in S : \A y \in U : F[x][y] \in Int /\ H[y][x] = F[x][y]
      /\ \A x \in S : f[x] = Total(F[x], U)
      /\ \A y \in U : h[y] = Total(H[y], S)
  BY DEF Transposed, SumsOf
<1> DEFINE upto(T) == [y \in U |-> Total(H[y], T)]
           G == {T \in SUBSET S : Total(f, T) = Total(upto(T), U)}
<1>1. /\ \A x \in S : f[x] \in Int
      /\ \A T \in SUBSET S : IsFiniteSet(T) /\ \A y \in U : upto(T)[y] \in Int
  <2>1. \A T \in SUBSET S : IsFiniteSet(T)
    BY FS_Subset
  <2>2. ASSUME NEW T \in SUBSET S, NEW y \in U PROVE Total(H[y], T) \in Int
    <3>1. \A x \in T : H[y][x] \in Int
      BY <1>0
    <3> QED BY <2>1, <3>1, TotalInt
  <2>3. ASSUME NEW x \in S PROVE Total(F[x], U) \in Int
    <3>1. \A y \in U : F[x][y] \in Int
      BY <1>0
    <3> QED BY <3>1, TotalInt
  <2> QED BY <1>0, <2>1, <2>2, <2>3
<1>2. {} \in G
  <2>1. \A y \in U : upto({})[y] = 0
    BY TotalEmpty
  <2>2. \A y \in U : upto({})[y] \in Int /\ upto({})[y] = 0 * upto({})[y]
    BY <2>1
  <2> DEFINE e == upto({})
  <2>3. \A y \in U : e[y] \in Int /\ e[y] = 0 * e[y]
    BY <2>2
  <2> HIDE DEF e
  <2>4. Total(e, U) = 0 * Total(e, U) /\ Total(e, U) \in Int
    BY <2>3, TotalTimes, TotalInt
  <2>5. Total(e, U) = 0
    BY <2>4
  <2> QED BY <2>5, TotalEmpty DEF e
<1>3. ASSUME NEW T \in SUBSET S, T # {}, \A x \in T : T \ {x} \in G PROVE T \in G
  <2>1. PICK x \in T : TRUE
    BY <1>3
  <2> DEFINE R == T \ {x}
             old == upto(R)
             new == upto(T)
  <2>2. R \in G /\ R \in SUBSET S /\ IsFiniteSet(T)
    BY <1>1, <1>3
  <2>3. Total(f, T) = Total(f, R) + f[x]
    BY <1>1, <2>2, TotalRemove
  <2>4. Total(f, R) = Total(old, U)
    BY <2>2
  <2>5. ASSUME NEW y \in U PROVE Total(H[y], T) = Total(H[y], R) + F[x][y]
    <3>1. H[y][x] = F[x][y] /\ \A z \in T : H[y][z] \in Int
      BY <1>0
    <3>2. Total(H[y], T) = Total(H[y], R) + H[y][x]
      BY <2>2, <3>1, TotalRemove
    <3> QED BY <3>1, <3>2
  <2>6. \A y \in U : old[y] \in Int /\ F[x][y] \in Int /\ new[y] = old[y] + F[x][y]
    <3> HIDE DEF R
    <3> QED BY <1>0, <1>1, <2>2, <2>5
  <2>7. f[x] = Total(F[x], U)
    BY <1>0
  <2> HIDE DEF R, old, new
  <2>8. Total(new, U) = Total(old, U) + Total(F[x], U)
    BY <2>6, TotalPlus
  <2>9. Total(f, T) = Total(new, U)
    BY <2>3, <2>4, <2>7, <2>8
  <2> QED BY <2>9 DEF new
<1>4. S \in G
  <2> HIDE DEF G
  <2> QED BY <1>2, <1>3, SubsetInduction
<1>5. Total(f, S) = Total(upto(S), U)
  BY <1>4
<1>6. \A y \in U : upto(S)[y] = h[y]
  BY <1>0
<1> DEFINE k == upto(S)
<1>7. \A y \in U : k[y] = h[y]
  BY <1>6
<1> HIDE DEF k
<1>8. Total(k, U) = Total(h, U)
  BY <1>7, TotalSame
<1> QED BY <1>5, <1>8 DEF k

\* A sum may be taken key by key.
LEMMA TotalByKey ==
  ASSUME NEW f, NEW S, IsFiniteSet(S), \A x \in S : f[x] \in Int,
         NEW K, IsFiniteSet(K), NEW key, \A x \in S : key[x] \in K,
         NEW g, \A k \in K : g[k] = Total(f, {x \in S : key[x] = k})
  PROVE  Total(f, S) = Total(g, K)
<1> DEFINE At(k) == {x \in S : key[x] = k}
           In(T) == {x \in S : key[x] \in T}
           G == {T \in SUBSET K : Total(f, In(T)) = Total(g, T)}
<1>1. {} \in G
  <2>1. In({}) = {}
    OBVIOUS
  <2>2. Total(f, In({})) = Total(f, {})
    BY <2>1, Zenon
  <2> QED BY <2>2, TotalEmpty
<1>2. ASSUME NEW T \in SUBSET K, T # {}, \A k \in T : T \ {k} \in G PROVE T \in G
  <2>1. PICK k \in T : TRUE
    BY <1>2
  <2> DEFINE R == T \ {k}
             A == In(T)
             B == In(R)
             C == At(k)
  <2>2. A = B \cup C /\ B \cap C = {} /\ A \subseteq S /\ B \subseteq S /\ C \subseteq S
    OBVIOUS
  <2>3. IsFiniteSet(A) /\ IsFiniteSet(B) /\ IsFiniteSet(C) /\ IsFiniteSet(T)
    BY <2>2, FS_Subset
  <2>4. R \in SUBSET K /\ Total(f, B) = Total(g, R)
    BY <1>2
  <2>5. Total(f, C) = g[k]
    OBVIOUS
  <2>6. \A j \in T : g[j] \in Int
    <3> SUFFICES ASSUME NEW j \in T PROVE g[j] \in Int
      OBVIOUS
    <3> DEFINE D == At(j)
    <3>1. g[j] = Total(f, D) /\ D \subseteq S
      OBVIOUS
    <3> HIDE DEF D
    <3> QED BY <3>1, FS_Subset, TotalInt
  <2>7. \A x \in A : f[x] \in Int
    OBVIOUS
  <2> HIDE DEF A, B, C, R
  <2>8. Total(f, A) = Total(f, B) + Total(f, C)
    BY <2>2, <2>3, <2>7, TotalSplit
  <2>9. Total(g, T) = Total(g, R) + g[k]
    BY <2>3, <2>6, TotalRemove DEF R
  <2>10. Total(f, A) = Total(g, T)
    BY <2>4, <2>5, <2>8, <2>9
  <2> QED BY <2>10 DEF A
<1>3. K \in G
  <2> HIDE DEF G
  <2> QED BY <1>1, <1>2, SubsetInduction
<1>4. In(K) = S
  OBVIOUS
<1>5. Total(f, In(K)) = Total(f, S)
  BY <1>4, Zenon
<1> QED BY <1>3, <1>5

LEMMA TotalMore ==
  ASSUME NEW f, NEW S, IsFiniteSet(S), NEW T \in SUBSET S, \A x \in S : f[x] \in Nat
  PROVE  /\ IsFiniteSet(T) /\ Total(f, T) \in Nat /\ Total(f, S) \in Nat
         /\ Total(f, T) <= Total(f, S)
<1>1. IsFiniteSet(T) /\ \A x \in T : f[x] \in Nat
  BY FS_Subset
<1>2. Total(f, T) \in Nat /\ Total(f, S) \in Nat
  BY <1>1, TotalNat
<1> QED BY <1>1, <1>2, TotalSubset

LEMMA TotalCover ==
  ASSUME NEW f, NEW S, IsFiniteSet(S), NEW V, IsFiniteSet(V), NEW W, IsFiniteSet(W),
         S \subseteq V \cup W, \A x \in V \cup W : f[x] \in Nat
  PROVE  Total(f, S) <= Total(f, V) + Total(f, W)
<1> DEFINE A == S \cap V
           B == S \ V
<1>1. S = A \cup B /\ A \cap B = {} /\ A \in SUBSET V /\ B \in SUBSET W
  OBVIOUS
<1>2. \A x \in S : f[x] \in Int
  OBVIOUS
<1>3. (\A x \in V : f[x] \in Nat) /\ (\A x \in W : f[x] \in Nat)
  OBVIOUS
<1> HIDE DEF A, B
<1>4. Total(f, S) = Total(f, A) + Total(f, B)
  BY <1>1, <1>2, TotalSplit
<1>5. /\ Total(f, A) <= Total(f, V) /\ Total(f, A) \in Nat /\ Total(f, V) \in Nat
      /\ Total(f, B) <= Total(f, W) /\ Total(f, B) \in Nat /\ Total(f, W) \in Nat
  BY <1>1, <1>3, TotalMore
<1> QED BY <1>4, <1>5

LEMMA TotalOne ==
  ASSUME NEW f, NEW S, IsFiniteSet(S), Cardinality(S) <= 1, \A x \in S : f[x] \in Int
  PROVE  Total(f, S) = 0 \/ \E x \in S : Total(f, S) = f[x]
<1>1. CASE S = {}
  BY <1>1, TotalEmpty
<1>2. ASSUME S # {} PROVE \E x \in S : Total(f, S) = f[x]
  <2>1. Cardinality(S) \in Nat /\ Cardinality(S) # 0
    BY <1>2, FS_CardinalityType, FS_EmptySet
  <2>2. Cardinality(S) = 1
    BY <2>1
  <2>3. PICK x : S = {x}
    BY <2>2, FS_Singleton
  <2>4. Total(f, S) = Total(f, S \ {x}) + f[x]
    BY <2>3, TotalRemove
  <2>5. S \ {x} = {} /\ x \in S /\ f[x] \in Int
    BY <2>3
  <2>6. Total(f, S \ {x}) = 0
    BY <2>5, TotalEmpty
  <2> QED BY <2>4, <2>5, <2>6
<1> QED BY <1>1, <1>2

-----------------------------------------------------------------------------
\* Quantities of returns.
LineTotals(r)  == [n \in DOMAIN Lines[r] |-> LineTotal(Lines[r][n])]
Quantities(i)  == [r \in Returns |-> Quantity(r, i)]
Worth(r)       == [i \in Items |-> Price[i] * Quantity(r, i)]

LEMMA LineFacts ==
  ASSUME NEW r \in Returns
  PROVE  /\ Len(Lines[r]) \in Nat \ {0} /\ DOMAIN Lines[r] = 1..Len(Lines[r])
         /\ IsFiniteSet(DOMAIN Lines[r])
         /\ \A n \in DOMAIN Lines[r] :
              /\ Lines[r][n].item \in Items /\ Lines[r][n].quantity \in Nat \ {0}
              /\ Lines[r][n].discount \in Nat /\ Lines[r][n].restock \in BOOLEAN
              /\ Price[Lines[r][n].item] \in Nat
              /\ LineTotal(Lines[r][n]) \in Int
<1> DEFINE L == [item : Items, quantity : Nat \ {0}, discount : Nat, restock : BOOLEAN]
<1>1. Lines[r] \in Seq(L) /\ Lines[r] # <<>>
  BY ReturnsAssumption
<1>2. Len(Lines[r]) \in Nat \ {0} /\ DOMAIN Lines[r] = 1..Len(Lines[r])
  <2> HIDE DEF L
  <2> QED BY <1>1
<1>3. IsFiniteSet(DOMAIN Lines[r])
  BY <1>2, FS_Interval
<1>4. ASSUME NEW n \in DOMAIN Lines[r]
      PROVE  /\ Lines[r][n].item \in Items /\ Lines[r][n].quantity \in Nat \ {0}
             /\ Lines[r][n].discount \in Nat /\ Lines[r][n].restock \in BOOLEAN
  <2>1. Lines[r][n] \in L
    <3> HIDE DEF L
    <3> QED BY <1>1, <1>2
  <2> QED BY <2>1
<1>5. \A i \in Items : Price[i] \in Nat
  BY ReturnsAssumption
<1>6. ASSUME NEW n \in DOMAIN Lines[r]
      PROVE  Price[Lines[r][n].item] \in Nat /\ LineTotal(Lines[r][n]) \in Int
  BY <1>4, <1>5 DEF LineTotal
<1> QED BY <1>2, <1>3, <1>4, <1>6

LEMMA ConstantFacts ==
  /\ \A i \in Items : Sold[i] \in Nat /\ Price[i] \in Nat
  /\ GrandTotal \in Nat \ {0} /\ Earned \in Nat
  /\ \A d \in Redeemers : Points[d] \in Nat \ {0}
BY ReturnsAssumption

LEMMA UnitsNat ==
  ASSUME NEW r \in Returns, NEW N \in SUBSET DOMAIN Lines[r]
  PROVE  IsFiniteSet(N) /\ UnitsOf(r, N) \in Nat
<1> DEFINE f == [n \in DOMAIN Lines[r] |-> Lines[r][n].quantity]
<1>1. IsFiniteSet(N)
  BY LineFacts, FS_Subset
<1>2. \A n \in N : f[n] \in Nat
  BY LineFacts
<1> HIDE DEF f
<1>3. Total(f, N) \in Nat
  BY <1>1, <1>2, TotalNat
<1> QED BY <1>1, <1>3 DEF f, Total, UnitsOf

LEMMA QuantityNat ==
  ASSUME NEW r \in Returns, NEW i \in Items
  PROVE  Quantity(r, i) \in Nat /\ Restock(r, i) \in Nat /\ Restock(r, i) <= Quantity(r, i)
<1> DEFINE f == [n \in DOMAIN Lines[r] |-> Lines[r][n].quantity]
           N == LinesOf(r, i)
           M == {n \in N : Lines[r][n].restock}
<1>1. N \in SUBSET DOMAIN Lines[r] /\ M \in SUBSET DOMAIN Lines[r] /\ M \in SUBSET N
  BY DEF LinesOf
<1>2. \A n \in N : f[n] \in Nat
  BY <1>1, LineFacts
<1>3. Quantity(r, i) = UnitsOf(r, N) /\ Restock(r, i) = UnitsOf(r, M)
  BY DEF Quantity, Restock
<1> HIDE DEF N, M
<1>4. UnitsOf(r, N) \in Nat /\ UnitsOf(r, M) \in Nat /\ IsFiniteSet(N)
  BY <1>1, UnitsNat
<1>5. UnitsOf(r, N) = Total(f, N) /\ UnitsOf(r, M) = Total(f, M)
  BY DEF UnitsOf, Total
<1> HIDE DEF f
<1>6. Total(f, M) <= Total(f, N)
  BY <1>1, <1>2, <1>4, TotalSubset
<1> QED BY <1>3, <1>4, <1>5, <1>6

\* A return that names an item in one line holds the units of that line.
LEMMA OneLine ==
  ASSUME NEW r \in Returns, NEW i \in Items, Cardinality(LinesOf(r, i)) <= 1
  PROVE  \/ Quantity(r, i) = 0
         \/ \E n \in DOMAIN Lines[r] :
              Lines[r][n].item = i /\ Quantity(r, i) = Lines[r][n].quantity
<1> DEFINE f == [n \in DOMAIN Lines[r] |-> Lines[r][n].quantity]
           N == LinesOf(r, i)
<1>1. N \in SUBSET DOMAIN Lines[r] /\ \A n \in N : Lines[r][n].item = i
  BY DEF LinesOf
<1>2. Quantity(r, i) = Total(f, N)
  BY DEF Quantity, UnitsOf, Total
<1>3. \A n \in N : f[n] = Lines[r][n].quantity /\ f[n] \in Int
  BY <1>1, LineFacts
<1>4. Cardinality(N) <= 1
  OBVIOUS
<1> HIDE DEF N, f
<1>5. IsFiniteSet(N)
  BY <1>1, UnitsNat
<1>6. CASE N = {}
  BY <1>2, <1>6, TotalEmpty
<1>7. ASSUME N # {} PROVE \E n \in DOMAIN Lines[r] :
              Lines[r][n].item = i /\ Quantity(r, i) = Lines[r][n].quantity
  <2>1. Cardinality(N) \in Nat /\ Cardinality(N) # 0
    BY <1>5, <1>7, FS_CardinalityType, FS_EmptySet
  <2>2. Cardinality(N) = 1
    BY <1>4, <2>1
  <2>3. PICK n : N = {n}
    BY <1>5, <2>2, FS_Singleton
  <2>4. Total(f, N) = Total(f, N \ {n}) + f[n]
    BY <1>3, <1>5, <2>3, TotalRemove
  <2>5. N \ {n} = {} /\ n \in N
    BY <2>3
  <2>6. Total(f, N \ {n}) = 0
    BY <2>5, TotalEmpty
  <2>7. Quantity(r, i) = f[n]
    BY <1>2, <1>3, <2>4, <2>5, <2>6
  <2> QED BY <1>1, <1>3, <2>5, <2>7
<1> QED BY <1>6, <1>7

LEMMA TotalUnitsIs ==
  ASSUME NEW S \in SUBSET Returns, IsFiniteSet(S), NEW i \in Items
  PROVE  TotalUnits(S, i) = Total(Quantities(i), S) /\ TotalUnits(S, i) \in Nat
<1>1. TotalUnits(S, i) = Total(Quantities(i), S)
  BY DEF TotalUnits, Total, Quantities
<1>2. \A r \in S : Quantities(i)[r] \in Nat
  BY QuantityNat DEF Quantities
<1> QED BY <1>1, <1>2, TotalNat

\* More returns do not hold fewer units, ...
LEMMA MoreUnits ==
  ASSUME NEW S \in SUBSET Returns, IsFiniteSet(S), NEW T \in SUBSET S, NEW i \in Items
  PROVE  IsFiniteSet(T) /\ TotalUnits(T, i) <= TotalUnits(S, i)
<1>1. IsFiniteSet(T) /\ T \in SUBSET Returns
  BY FS_Subset
<1>2. \A r \in S : Quantities(i)[r] \in Nat
  BY QuantityNat DEF Quantities
<1>3. Total(Quantities(i), T) <= Total(Quantities(i), S)
  BY <1>2, TotalSubset
<1> QED BY <1>1, <1>3, TotalUnitsIs

\* ... nor more than those of which they are made up.
LEMMA SplitUnits ==
  ASSUME NEW S \in SUBSET Returns, IsFiniteSet(S),
         NEW V \in SUBSET Returns, IsFiniteSet(V),
         NEW W \in SUBSET Returns, IsFiniteSet(W), S \subseteq V \cup W, NEW i \in Items
  PROVE  TotalUnits(S, i) <= TotalUnits(V, i) + TotalUnits(W, i)
<1> DEFINE A == S \cap V
           B == S \ V
<1>1. S = A \cup B /\ A \cap B = {} /\ A \in SUBSET V /\ B \in SUBSET W
  OBVIOUS
<1>2. A \in SUBSET Returns /\ B \in SUBSET Returns
  OBVIOUS
<1>3. \A r \in S : Quantities(i)[r] \in Int
  BY QuantityNat DEF Quantities
<1> HIDE DEF A, B
<1>4. Total(Quantities(i), S) = Total(Quantities(i), A) + Total(Quantities(i), B)
  BY <1>1, <1>3, TotalSplit
<1>5. /\ IsFiniteSet(A) /\ TotalUnits(A, i) <= TotalUnits(V, i)
      /\ IsFiniteSet(B) /\ TotalUnits(B, i) <= TotalUnits(W, i)
  BY <1>1, MoreUnits
<1>6. TotalUnits(S, i) = TotalUnits(A, i) + TotalUnits(B, i)
  BY <1>2, <1>4, <1>5, TotalUnitsIs
<1>7. /\ TotalUnits(A, i) \in Nat /\ TotalUnits(B, i) \in Nat
      /\ TotalUnits(V, i) \in Nat /\ TotalUnits(W, i) \in Nat
  BY <1>2, <1>5, TotalUnitsIs
<1> QED BY <1>5, <1>6, <1>7

LEMMA OneMore ==
  ASSUME NEW S \in SUBSET Returns, IsFiniteSet(S), NEW r \in Returns, r \notin S,
         NEW i \in Items
  PROVE  /\ IsFiniteSet(S \cup {r})
         /\ TotalUnits(S \cup {r}, i) = TotalUnits(S, i) + Quantity(r, i)
<1> DEFINE T == S \cup {r}
<1>1. IsFiniteSet(T) /\ T \in SUBSET Returns
  BY FS_AddElement
<1>2. \A y \in S \cup {r} : Quantities(i)[y] \in Int
  BY QuantityNat DEF Quantities
<1>3. Total(Quantities(i), S \cup {r}) = Total(Quantities(i), S) + Quantities(i)[r]
  BY <1>2, TotalAdd
<1>4. Quantities(i)[r] = Quantity(r, i)
  BY DEF Quantities
<1>5. Total(Quantities(i), T) = Total(Quantities(i), S) + Quantity(r, i)
  BY <1>3, <1>4
<1> HIDE DEF T
<1>6. TotalUnits(T, i) = TotalUnits(S, i) + Quantity(r, i)
  BY <1>1, <1>5, TotalUnitsIs
<1> QED BY <1>1, <1>6 DEF T

\* What a return is worth is at most the price of its units.
LEMMA EligibleWithin ==
  ASSUME NEW r \in Returns
  PROVE  Eligible(r) \in Int /\ Eligible(r) <= Total(Worth(r), Items)
<1> DEFINE N    == DOMAIN Lines[r]
           item == [n \in N |-> Lines[r][n].item]
           full == [n \in N |-> Price[Lines[r][n].item] * Lines[r][n].quantity]
<1>1. IsFiniteSet(N)
  BY LineFacts
<1>2. \A n \in N : /\ LineTotals(r)[n] \in Int /\ full[n] \in Int
                   /\ LineTotals(r)[n] <= full[n]
  BY LineFacts DEF LineTotals, LineTotal
<1>3. Eligible(r) = Total(LineTotals(r), N)
  BY DEF Eligible, LineTotals, Total
<1>4. \A n \in N : item[n] \in Items
  BY LineFacts
<1>5. ASSUME NEW i \in Items PROVE Worth(r)[i] = Total(full, {n \in N : item[n] = i})
  <2> DEFINE f == [n \in N |-> Lines[r][n].quantity]
             M == {n \in N : item[n] = i}
  <2>1. M = LinesOf(r, i)
    BY DEF LinesOf
  <2>2. Worth(r)[i] = Price[i] * UnitsOf(r, LinesOf(r, i))
    BY DEF Worth, Quantity
  <2>3. UnitsOf(r, LinesOf(r, i)) = Total(f, LinesOf(r, i))
    BY DEF UnitsOf, Total
  <2>4. \A n \in M : f[n] \in Int /\ full[n] \in Int /\ full[n] = Price[i] * f[n]
    BY LineFacts
  <2>5. M \in SUBSET N
    OBVIOUS
  <2>6. Price[i] \in Int
    BY ConstantFacts
  <2> HIDE DEF M, f, full, item, N
  <2>7. Total(full, M) = Price[i] * Total(f, M)
    BY <1>1, <2>4, <2>5, <2>6, FS_Subset, TotalTimes
  <2>8. Total(full, M) = Worth(r)[i]
    BY <2>1, <2>2, <2>3, <2>7
  <2> QED BY <2>8 DEF M
<1> HIDE DEF item, full, N
<1>6. Total(full, N) = Total(Worth(r), Items)
  BY <1>1, <1>2, <1>4, <1>5, ItemsAssumption, TotalByKey
<1>7. Total(LineTotals(r), N) <= Total(full, N)
  BY <1>1, <1>2, TotalLeq
<1>8. Total(LineTotals(r), N) \in Int
  BY <1>1, <1>2, TotalInt
<1> QED BY <1>3, <1>6, <1>7, <1>8

\* Returns of no more than was sold, at full price, are worth no more than the sale.
LEMMA ReturnsWithinSale ==
  ASSUME NEW S \in SUBSET Returns, IsFiniteSet(S), Undiscounted,
         \A i \in Items : TotalUnits(S, i) <= Sold[i]
  PROVE  Total([r \in Returns |-> Eligible(r)], S) <= GrandTotal
<1> DEFINE e    == [r \in Returns |-> Eligible(r)]
           F    == [r \in Returns |-> Worth(r)]
           H    == [i \in Items |-> [r \in Returns |-> Worth(r)[i]]]
           full == [r \in Returns |-> Total(F[r], Items)]
           cols == [i \in Items |-> Total(H[i], S)]
           sold == [i \in Items |-> Price[i] * Sold[i]]
<1>1. IsFiniteSet(Items)
  BY ItemsAssumption
<1>2. \A r \in Returns, i \in Items : F[r][i] \in Nat /\ F[r][i] = Price[i] * Quantity(r, i)
  BY QuantityNat, ConstantFacts DEF Worth
<1>3. Total(full, S) = Total(cols, Items)
  <2>1. Transposed(F, H, S, Items)
    BY <1>2 DEF Transposed
  <2>2. SumsOf(full, F, S, Items) /\ SumsOf(cols, H, Items, S)
    BY DEF SumsOf
  <2> HIDE DEF F, H, full, cols
  <2> QED BY <1>1, <2>1, <2>2, TotalSwap
<1>4. ASSUME NEW r \in S
      PROVE  e[r] \in Int /\ full[r] \in Int /\ e[r] <= full[r]
  <2>2. full[r] = Total(Worth(r), Items)
    OBVIOUS
  <2>3. \A i \in Items : Worth(r)[i] \in Int
    BY <1>2
  <2>4. Total(Worth(r), Items) \in Int
    BY <1>1, <2>3, TotalInt
  <2> QED BY <2>2, <2>4, EligibleWithin
<1>5. ASSUME NEW i \in Items
      PROVE  cols[i] \in Int /\ sold[i] \in Int /\ cols[i] <= sold[i]
  <2> DEFINE c == H[i]
  <2>1. \A r \in S : /\ Quantities(i)[r] \in Int /\ c[r] \in Int
                     /\ c[r] = Price[i] * Quantities(i)[r]
    BY <1>2, QuantityNat DEF Quantities
  <2>2. Price[i] \in Nat /\ Sold[i] \in Nat
    BY ConstantFacts
  <2>3. cols[i] = Total(c, S)
    OBVIOUS
  <2> HIDE DEF c
  <2>4. Total(c, S) = Price[i] * Total(Quantities(i), S)
    BY <2>1, <2>2, TotalTimes
  <2>5. cols[i] = Price[i] * TotalUnits(S, i) /\ TotalUnits(S, i) \in Nat
    BY <2>3, <2>4, TotalUnitsIs
  <2>6. TotalUnits(S, i) <= Sold[i]
    OBVIOUS
  <2>7. \A a, b, p \in Nat : a <= b => p * a <= p * b
    OBVIOUS
  <2>8. sold[i] = Price[i] * Sold[i]
    OBVIOUS
  <2> QED BY <2>2, <2>5, <2>6, <2>7, <2>8
<1>6. Total(sold, Items) <= GrandTotal
  BY DEF Undiscounted, Total
<1> HIDE DEF e, F, H, full, cols, sold
<1>7. Total(e, S) <= Total(full, S)
  BY <1>4, TotalLeq
<1>8. Total(cols, Items) <= Total(sold, Items)
  BY <1>1, <1>5, TotalLeq
<1>9. /\ Total(e, S) \in Int /\ Total(full, S) \in Int
      /\ Total(cols, Items) \in Int /\ Total(sold, Items) \in Int /\ GrandTotal \in Int
  BY <1>1, <1>4, <1>5, TotalInt, ConstantFacts
<1>10. Total(e, S) <= GrandTotal
  BY <1>3, <1>6, <1>7, <1>8, <1>9
<1> QED BY <1>10 DEF e

LEMMA MinOfTwo ==
  ASSUME NEW a \in Int, NEW b \in Int, NEW S, S = {a, b}
  PROVE  Min(S) \in {a, b} /\ Min(S) <= a /\ Min(S) <= b
<1>1. \E x \in S : \A y \in S : x <= y
  OBVIOUS
<1>2. Min(S) \in S /\ \A y \in S : Min(S) <= y
  BY <1>1 DEF Min
<1> QED BY <1>2

\* The points of a return, rounded down, are at most its share.
LEMMA ReversalWithin ==
  ASSUME NEW r \in Returns, Eligible(r) >= 0
  PROVE  ReversalPoints(r) \in Nat /\ GrandTotal * ReversalPoints(r) <= Earned * Eligible(r)
<1> DEFINE two == {Eligible(r), GrandTotal}
           m   == Min(two)
<1>1. Eligible(r) \in Int /\ GrandTotal \in Nat \ {0} /\ Earned \in Nat
  BY EligibleWithin, ConstantFacts
<1>2. m \in {Eligible(r), GrandTotal} /\ m <= Eligible(r)
  <2>1. two = {Eligible(r), GrandTotal}
    OBVIOUS
  <2> HIDE DEF two
  <2> QED BY <1>1, <2>1, MinOfTwo
<1>3. m \in Nat /\ Eligible(r) \in Nat
  BY <1>1, <1>2
<1>4. ReversalPoints(r) = (Earned * m) \div GrandTotal
  BY DEF ReversalPoints
<1> HIDE DEF m
<1>5. Earned * m \in Nat /\ Earned * m <= Earned * Eligible(r)
  <2>1. \A a, b, p \in Nat : a <= b => p * a \in Nat /\ p * a <= p * b
    OBVIOUS
  <2> QED BY <1>1, <1>2, <1>3, <2>1
<1>6. \A a \in Nat, b \in Nat \ {0} : a \div b \in Nat /\ b * (a \div b) <= a
  OBVIOUS
<1>7. ReversalPoints(r) \in Nat /\ GrandTotal * ReversalPoints(r) <= Earned * m
  BY <1>1, <1>4, <1>5, <1>6
<1>8. GrandTotal * ReversalPoints(r) \in Int /\ Earned * Eligible(r) \in Int
  BY <1>1, <1>3, <1>7
<1> QED BY <1>5, <1>7, <1>8

-----------------------------------------------------------------------------
\* The parts of the inductive invariant.
ReturnTypes ==
  /\ status \in [Returns -> Status] /\ refunded \in [Returns -> Nat]
  /\ restocked \in [Items -> Nat] /\ reversed \in Nat
  /\ pc \in [Returns -> {"idle", "lock", "insert"}]
  /\ visible \in [Returns -> SUBSET Returns] /\ held \in [Returns -> SUBSET Items]
  /\ line \in [Returns -> Nat \ {0}] /\ blind \in SUBSET Items
  /\ redeemed \in Nat /\ overlapped \in BOOLEAN
  /\ redeem \in [Redeemers ->
       [pc : {"idle", "read", "locked"}, balance : Int, redeemed : Nat]]

\* Only finitely many returns exist, in the table and in any snapshot.
FinitelyMany == IsFiniteSet(Counted) /\ \A r \in Returns : IsFiniteSet(visible[r])

\* The lines that create() has behind it fit the snapshot, and their discounts them.
LineFits(r, n) ==
  /\ Lines[r][n].quantity + TotalUnits(visible[r], Lines[r][n].item)
       <= Sold[Lines[r][n].item]
  /\ LineTotal(Lines[r][n]) >= 0

LinesChecked ==
  \A r \in Returns :
    /\ Open(r) => status[r] = "NONE"
    /\ pc[r] = "idle" => line[r] = 1
    /\ pc[r] = "lock" => line[r] \in DOMAIN Lines[r]
    /\ Open(r) => \A n \in DOMAIN Lines[r] : pc[r] = "insert" \/ n < line[r] => LineFits(r, n)
    /\ status[r] # "NONE" => \A n \in DOMAIN Lines[r] : LineTotal(Lines[r][n]) >= 0

\* Leaving aside the returns that name an item twice, no more of it is returned
\* than was sold.
Singles(i) == {r \in Counted : Cardinality(LinesOf(r, i)) <= 1}
SinglesFit == \A i \in Items : i \notin blind => TotalUnits(Singles(i), i) <= Sold[i]

RestockAddsUp ==
  \A i \in Items : restocked[i] = Total([r \in Returns |-> Restock(r, i)], Confirmed)
ReversalAddsUp == reversed = Total([r \in Returns |-> ReversalPoints(r)], Confirmed)

\* What a redeem() read, with what was spent before, is within what was earned.
SpentWithinEarned ==
  /\ \A d \in Redeemers : redeem[d].balance + redeem[d].redeemed <= Earned
  /\ ~overlapped => redeemed <= Earned

ReturnsInv ==
  /\ ReturnTypes /\ FinitelyMany /\ LinesChecked /\ SinglesFit
  /\ RestockAddsUp /\ ReversalAddsUp /\ SpentWithinEarned /\ RefundsAreEligible

-----------------------------------------------------------------------------
\* What the steps do to the sets of returns.
LEMMA EligibleIfPaid ==
  ASSUME NEW r \in Returns, \A n \in DOMAIN Lines[r] : LineTotal(Lines[r][n]) >= 0
  PROVE  Eligible(r) \in Nat
<1> DEFINE N == DOMAIN Lines[r]
<1>1. IsFiniteSet(N) /\ \A n \in N : LineTotals(r)[n] \in Nat
  BY LineFacts DEF LineTotals
<1>2. Eligible(r) = Total(LineTotals(r), N)
  BY DEF Eligible, LineTotals, Total
<1> HIDE DEF N
<1> QED BY <1>1, <1>2, TotalNat

LEMMA EligibleNat ==
  ASSUME LinesChecked, NEW r \in Returns, status[r] # "NONE"
  PROVE  Eligible(r) \in Nat
BY EligibleIfPaid DEF LinesChecked

LEMMA CountedSets ==
  /\ Counted \in SUBSET Returns /\ Confirmed \in SUBSET Counted
  /\ \A i \in Items : Singles(i) \in SUBSET Counted
BY DEF Counted, Confirmed, Singles

LEMMA InsertCounts ==
  ASSUME ReturnTypes, LinesChecked, NEW r \in Returns, Insert(r)
  PROVE  /\ r \notin Counted /\ Counted' = Counted \cup {r} /\ Confirmed' = Confirmed
         /\ status[r] = "NONE" /\ status' = [status EXCEPT ![r] = "DRAFT"]
<1>1. status[r] = "NONE"
  BY DEF LinesChecked, Insert, Open
<1>2. status' = [status EXCEPT ![r] = "DRAFT"] /\ status \in [Returns -> Status]
  BY DEF Insert, ReturnTypes
<1>3. status'[r] = "DRAFT" /\ \A q \in Returns \ {r} : status'[q] = status[q]
  BY <1>2
<1> QED BY <1>1, <1>2, <1>3 DEF Counted, Confirmed

LEMMA ConfirmCounts ==
  ASSUME ReturnTypes, NEW r \in Returns, Confirm(r)
  PROVE  /\ r \notin Confirmed /\ Confirmed' = Confirmed \cup {r} /\ Counted' = Counted
         /\ status[r] = "DRAFT"
<1>1. status[r] = "DRAFT" /\ status' = [status EXCEPT ![r] = "CONFIRMED"]
  BY DEF Confirm
<1>2. status'[r] = "CONFIRMED" /\ \A q \in Returns \ {r} : status'[q] = status[q]
  BY <1>1 DEF ReturnTypes
<1> QED BY <1>1, <1>2 DEF Counted, Confirmed

LEMMA CancelCounts ==
  ASSUME ReturnTypes, NEW r \in Returns, Cancel(r)
  PROVE  /\ Confirmed' = Confirmed /\ Counted' \in SUBSET Counted /\ status[r] = "DRAFT"
<1>1. status[r] = "DRAFT" /\ status' = [status EXCEPT ![r] = "CANCELLED"]
  BY DEF Cancel
<1>2. status'[r] = "CANCELLED" /\ \A q \in Returns \ {r} : status'[q] = status[q]
  BY <1>1 DEF ReturnTypes
<1> QED BY <1>1, <1>2 DEF Counted, Confirmed

LEMMA RefundCounts ==
  ASSUME ReturnTypes, NEW r \in Returns, NEW amount, ApplyRefund(r, amount)
  PROVE  /\ Confirmed' = Confirmed /\ Counted' = Counted
         /\ status[r] \in {"CONFIRMED", "REFUNDED"}
         /\ status'[r] \in {"CONFIRMED", "REFUNDED"}
         /\ \A q \in Returns \ {r} : status'[q] = status[q]
<1>1. /\ status[r] \in {"CONFIRMED", "REFUNDED"}
      /\ status' = [status EXCEPT ![r] =
            IF refunded[r] + amount >= Eligible(r) THEN "REFUNDED" ELSE "CONFIRMED"]
  BY DEF ApplyRefund
<1>2. /\ status'[r] \in {"CONFIRMED", "REFUNDED"}
      /\ \A q \in Returns \ {r} : status'[q] = status[q]
  BY <1>1 DEF ReturnTypes
<1> QED BY <1>1, <1>2 DEF Counted, Confirmed

LEMMA SameCounts ==
  ASSUME UNCHANGED rows
  PROVE  /\ Counted' = Counted /\ Confirmed' = Confirmed /\ status' = status
         /\ refunded' = refunded /\ restocked' = restocked /\ reversed' = reversed
BY DEF rows, Counted, Confirmed

\* The steps by what they leave alone.
Creating(r)  == Snapshot(r) \/ LockItem(r) \/ Abort(r)
Redeeming(d) == ReadProgram(d) \/ LockPoints(d) \/ Redeem(d) \/ RefuseRedeem(d)

LEMMA StepKinds ==
  ASSUME [Next]_vars
  PROVE  \/ UNCHANGED vars
         \/ \E r \in Returns : Creating(r)
         \/ \E r \in Returns : Insert(r)
         \/ \E r \in Returns : Confirm(r)
         \/ \E r \in Returns : Cancel(r)
         \/ \E r \in Returns : \E amount \in 1..Eligible(r) : ApplyRefund(r, amount)
         \/ \E d \in Redeemers : Redeeming(d)
BY DEF Next, Creating, Redeeming

LEMMA KindsKeep ==
  /\ UNCHANGED vars => UNCHANGED rows /\ UNCHANGED local /\ UNCHANGED loyalty /\ blind' = blind
  /\ \A r \in Returns : Creating(r) =>
       UNCHANGED rows /\ UNCHANGED loyalty /\ blind' = blind
  /\ \A d \in Redeemers : Redeeming(d) =>
       UNCHANGED rows /\ UNCHANGED local /\ blind' = blind
<1>1. UNCHANGED vars => UNCHANGED rows /\ UNCHANGED local /\ UNCHANGED loyalty /\ blind' = blind
  BY DEF vars
<1>2. ASSUME NEW r \in Returns, Creating(r)
      PROVE  UNCHANGED rows /\ UNCHANGED loyalty /\ blind' = blind
  BY <1>2 DEF Creating, Snapshot, LockItem, Abort
<1>3. ASSUME NEW d \in Redeemers, Redeeming(d)
      PROVE  UNCHANGED rows /\ UNCHANGED local /\ blind' = blind
  BY <1>3 DEF Redeeming, ReadProgram, LockPoints, Redeem, RefuseRedeem
<1> QED BY <1>1, <1>2, <1>3

LEMMA ReturnTypesNext ==
  ASSUME ReturnTypes, LinesChecked, [Next]_vars
  PROVE  ReturnTypes'
<1>1. CASE UNCHANGED vars
  BY <1>1 DEF vars, rows, local, loyalty, ReturnTypes
<1>2. ASSUME NEW r \in Returns, Creating(r) PROVE ReturnTypes'
  <2>1. CASE Snapshot(r)
    BY <2>1, CountedSets DEF Snapshot, ReturnTypes, rows, loyalty
  <2>2. CASE LockItem(r)
    <3>1. pc[r] = "lock" /\ Lines[r][line[r]].item \in Items
      BY <2>2, LineFacts DEF LinesChecked, LockItem
    <3>2. pc' \in [Returns -> {"idle", "lock", "insert"}]
      BY <2>2 DEF LockItem, ReturnTypes
    <3>3. held' \in [Returns -> SUBSET Items] /\ line' \in [Returns -> Nat \ {0}]
      BY <2>2, <3>1 DEF LockItem, ReturnTypes
    <3> QED BY <2>2, <3>2, <3>3 DEF LockItem, ReturnTypes, rows, loyalty
  <2>3. CASE Abort(r)
    BY <2>3 DEF Abort, Close, ReturnTypes, rows, loyalty
  <2> QED BY <1>2, <2>1, <2>2, <2>3 DEF Creating
<1>3. ASSUME NEW r \in Returns, Insert(r) PROVE ReturnTypes'
  BY <1>3 DEF Insert, Close, ReturnTypes, loyalty, Status
<1>4. ASSUME NEW r \in Returns, Confirm(r) PROVE ReturnTypes'
  <2>1. status[r] = "DRAFT"
    BY <1>4 DEF Confirm
  <2>2. ReversalPoints(r) \in Nat
    BY <2>1, EligibleNat, ReversalWithin
  <2>3. restocked' \in [Items -> Nat]
    BY <1>4, QuantityNat DEF Confirm, ReturnTypes
  <2>4. reversed' \in Nat
    BY <1>4, <2>2 DEF Confirm, ReturnTypes
  <2> QED BY <1>4, <2>3, <2>4 DEF Confirm, ReturnTypes, local, loyalty, Status
<1>5. ASSUME NEW r \in Returns, Cancel(r) PROVE ReturnTypes'
  BY <1>5 DEF Cancel, ReturnTypes, local, loyalty, Status
<1>6. ASSUME NEW r \in Returns, NEW amount \in 1..Eligible(r), ApplyRefund(r, amount)
      PROVE  ReturnTypes'
  <2>1. amount \in Nat
    BY EligibleWithin
  <2>2. refunded' \in [Returns -> Nat]
    BY <1>6, <2>1 DEF ApplyRefund, ReturnTypes
  <2>3. status' \in [Returns -> Status]
    BY <1>6 DEF ApplyRefund, ReturnTypes, Status
  <2> QED BY <1>6, <2>2, <2>3 DEF ApplyRefund, ReturnTypes, local, loyalty
<1>7. ASSUME NEW d \in Redeemers, Redeeming(d) PROVE ReturnTypes'
  <2>1. Earned \in Nat /\ Points[d] \in Nat
    BY ConstantFacts
  <2>2. redeemed' \in Nat /\ overlapped' \in BOOLEAN
    <3>1. redeemed \in Nat /\ overlapped \in BOOLEAN
      BY DEF ReturnTypes
    <3>2. redeemed' \in {redeemed, redeemed + Points[d]}
      BY <1>7 DEF Redeeming, ReadProgram, LockPoints, Redeem, RefuseRedeem
    <3>3. \/ overlapped' = overlapped
          \/ overlapped' = (overlapped \/ redeemed # redeem[d].redeemed)
      BY <1>7 DEF Redeeming, ReadProgram, LockPoints, Redeem, RefuseRedeem
    <3>4. redeemed' \in Nat
      BY <2>1, <3>1, <3>2
    <3>5. overlapped' \in BOOLEAN
      BY <3>1, <3>3, Zenon
    <3> QED BY <3>4, <3>5
  <2> DEFINE P == [pc : {"idle", "read", "locked"}, balance : Int, redeemed : Nat]
  <2>3. \A x \in P : [x EXCEPT !.pc = "locked"] \in P
    OBVIOUS
  <2>4. [pc |-> "read", balance |-> Earned - reversed - redeemed, redeemed |-> redeemed] \in P
    BY <2>1 DEF ReturnTypes
  <2>5. NoRedeem \in P
    BY DEF NoRedeem
  <2>6. redeem \in [Redeemers -> P]
    BY DEF ReturnTypes
  <2> HIDE DEF P
  <2>7. redeem' \in [Redeemers -> P]
    BY <1>7, <2>3, <2>4, <2>5, <2>6 DEF Redeeming, ReadProgram, LockPoints, Redeem, RefuseRedeem
  <2>8. UNCHANGED rows /\ UNCHANGED local /\ blind' = blind
    BY <1>7, KindsKeep
  <2> QED BY <2>2, <2>7, <2>8 DEF ReturnTypes, rows, local, P
<1> QED BY <1>1, <1>2, <1>3, <1>4, <1>5, <1>6, <1>7, StepKinds

LEMMA FinitelyManyNext ==
  ASSUME ReturnTypes, LinesChecked, FinitelyMany, [Next]_vars
  PROVE  FinitelyMany'
<1>1. ASSUME IsFiniteSet(Counted'), NEW r \in Returns,
             \/ UNCHANGED visible
             \/ visible' = [visible EXCEPT ![r] = Counted]
             \/ visible' = [visible EXCEPT ![r] = {}]
      PROVE  FinitelyMany'
  <2>1. \A q \in Returns : visible'[q] \in {visible[q], Counted, {}}
    BY <1>1 DEF ReturnTypes
  <2> QED BY <1>1, <2>1, FS_EmptySet DEF FinitelyMany
<1>2. CASE UNCHANGED vars
  <2>1. Counted' = Counted /\ visible' = visible
    BY <1>2, KindsKeep, SameCounts DEF local
  <2> QED BY <2>1 DEF FinitelyMany
<1>3. ASSUME NEW r \in Returns, Creating(r) PROVE FinitelyMany'
  <2>1. Counted' = Counted
    BY <1>3, KindsKeep, SameCounts
  <2>2. \/ UNCHANGED visible
        \/ visible' = [visible EXCEPT ![r] = Counted]
        \/ visible' = [visible EXCEPT ![r] = {}]
    BY <1>3 DEF Creating, Snapshot, LockItem, Abort, Close
  <2> QED BY <1>1, <2>1, <2>2 DEF FinitelyMany
<1>4. ASSUME NEW r \in Returns, Insert(r) PROVE FinitelyMany'
  <2>1. IsFiniteSet(Counted \cup {r})
    BY FS_AddElement DEF FinitelyMany
  <2>2. IsFiniteSet(Counted')
    BY <1>4, <2>1, InsertCounts
  <2>3. visible' = [visible EXCEPT ![r] = {}]
    BY <1>4 DEF Insert, Close
  <2> QED BY <1>1, <2>2, <2>3
<1>5. ASSUME NEW r \in Returns, Confirm(r) PROVE FinitelyMany'
  <2>1. Counted' = Counted /\ visible' = visible
    BY <1>5, ConfirmCounts DEF Confirm, local
  <2> QED BY <2>1 DEF FinitelyMany
<1>6. ASSUME NEW r \in Returns, Cancel(r) PROVE FinitelyMany'
  <2>1. Counted' \in SUBSET Counted /\ visible' = visible
    BY <1>6, CancelCounts DEF Cancel, local
  <2> QED BY <2>1, FS_Subset DEF FinitelyMany
<1>7. ASSUME NEW r \in Returns, NEW amount \in 1..Eligible(r), ApplyRefund(r, amount)
      PROVE  FinitelyMany'
  <2>1. Counted' = Counted /\ visible' = visible
    BY <1>7, RefundCounts DEF ApplyRefund, local
  <2> QED BY <2>1 DEF FinitelyMany
<1>8. ASSUME NEW d \in Redeemers, Redeeming(d) PROVE FinitelyMany'
  <2>1. Counted' = Counted /\ visible' = visible
    BY <1>8, KindsKeep, SameCounts DEF local
  <2> QED BY <2>1 DEF FinitelyMany
<1> QED BY <1>2, <1>3, <1>4, <1>5, <1>6, <1>7, <1>8, StepKinds

LEMMA LinesCheckedNext ==
  ASSUME ReturnTypes, LinesChecked, FinitelyMany, [Next]_vars
  PROVE  LinesChecked'
<1> DEFINE Line(q) ==
             /\ Open(q) => status[q] = "NONE"
             /\ pc[q] = "idle" => line[q] = 1
             /\ pc[q] = "lock" => line[q] \in DOMAIN Lines[q]
             /\ Open(q) => \A n \in DOMAIN Lines[q] :
                             pc[q] = "insert" \/ n < line[q] => LineFits(q, n)
             /\ status[q] # "NONE" => \A n \in DOMAIN Lines[q] : LineTotal(Lines[q][n]) >= 0
           Same(q) == /\ pc'[q] = pc[q] /\ visible'[q] = visible[q] /\ line'[q] = line[q]
                      /\ \/ status'[q] = status[q]
                         \/ ~Open(q) /\ status[q] # "NONE" /\ status'[q] # "NONE"
<1>1. \A q \in Returns : Line(q)
  BY DEF LinesChecked
\* Another create() is untouched.
<1>2. ASSUME NEW q \in Returns, Same(q) PROVE Line(q)'
  <2>1. \A n \in DOMAIN Lines[q] : LineFits(q, n)' <=> LineFits(q, n)
    BY <1>2 DEF LineFits
  <2> HIDE DEF LineFits
  <2> QED BY <1>1, <1>2, <2>1 DEF Open
<1>3. ASSUME UNCHANGED rows, UNCHANGED local PROVE LinesChecked'
  <2>1. \A q \in Returns : Same(q)
    BY <1>3 DEF rows, local
  <2> HIDE DEF Same, Line
  <2>2. \A q \in Returns : Line(q)'
    BY <1>2, <2>1
  <2> QED BY <2>2 DEF LinesChecked, Line
<1>4. CASE UNCHANGED vars
  BY <1>4, <1>3, KindsKeep
<1>5. ASSUME NEW r \in Returns, Creating(r) PROVE LinesChecked'
  <2>1. status' = status
    BY <1>5, KindsKeep, SameCounts
  <2>2. ASSUME NEW q \in Returns, q # r PROVE Line(q)'
    <3>1. pc'[q] = pc[q] /\ visible'[q] = visible[q] /\ line'[q] = line[q]
      BY <1>5, <2>2 DEF Creating, Snapshot, LockItem, Abort, Close, ReturnTypes
    <3>2. Same(q)
      BY <2>1, <3>1
    <3> HIDE DEF Same, Line
    <3> QED BY <1>2, <3>2
  <2>3. Line(r)'
    <3>1. CASE Snapshot(r)
      <4>1. pc'[r] = "lock" /\ status'[r] = "NONE" /\ line'[r] = line[r]
        BY <2>1, <3>1 DEF Snapshot, ReturnTypes
      <4>2. line[r] = 1
        BY <1>1, <3>1 DEF Snapshot
      <4>3. 1 \in DOMAIN Lines[r] /\ \A n \in DOMAIN Lines[r] : ~(n < 1)
        BY LineFacts
      <4> QED BY <4>1, <4>2, <4>3 DEF Open
    <3>2. CASE LockItem(r)
      <4>1. /\ pc[r] = "lock" /\ status[r] = "NONE" /\ line[r] \in DOMAIN Lines[r]
            /\ \A n \in DOMAIN Lines[r] : n < line[r] => LineFits(r, n)
        BY <1>1, <3>2 DEF LockItem, Open
      <4>2. /\ LineFits(r, line[r]) /\ visible' = visible
            /\ line'[r] = line[r] + 1
            /\ pc'[r] = IF line[r] = Len(Lines[r]) THEN "insert" ELSE "lock"
        BY <3>2 DEF LockItem, LineFits, ReturnTypes
      <4>3. Len(Lines[r]) \in Nat /\ DOMAIN Lines[r] = 1..Len(Lines[r])
        BY LineFacts
      <4>4. \A n \in DOMAIN Lines[r] : n < line'[r] => LineFits(r, n)
        BY <4>1, <4>2, <4>3
      <4>5. \A n \in DOMAIN Lines[r] : pc'[r] = "insert" \/ n < line'[r] => LineFits(r, n)
        BY <4>1, <4>2, <4>3, <4>4
      <4>6. \A n \in DOMAIN Lines[r] : LineFits(r, n)' <=> LineFits(r, n)
        BY <4>2 DEF LineFits
      <4>7. pc'[r] # "idle" /\ (pc'[r] = "lock" => line'[r] \in DOMAIN Lines[r])
        BY <4>1, <4>2, <4>3
      <4> HIDE DEF LineFits
      <4> QED BY <2>1, <4>1, <4>5, <4>6, <4>7
    <3>3. CASE Abort(r)
      <4>1. pc'[r] = "idle" /\ status'[r] = status[r]
        BY <2>1, <3>3 DEF Abort, Close, ReturnTypes
      <4>2. line'[r] = 1
        BY <3>3 DEF Abort, Close, ReturnTypes
      <4> QED BY <1>1, <4>1, <4>2 DEF Open
    <3> QED BY <1>5, <3>1, <3>2, <3>3 DEF Creating
  <2> QED BY <2>2, <2>3 DEF LinesChecked
<1>6. ASSUME NEW r \in Returns, Insert(r) PROVE LinesChecked'
  <2>1. /\ pc'[r] = "idle" /\ pc[r] = "insert" /\ status'[r] = "DRAFT" /\ line'[r] = 1
        /\ \A q \in Returns \ {r} : /\ pc'[q] = pc[q] /\ visible'[q] = visible[q]
                                    /\ line'[q] = line[q] /\ status'[q] = status[q]
    BY <1>6 DEF Insert, Close, ReturnTypes
  <2>2. \A n \in DOMAIN Lines[r] : LineTotal(Lines[r][n]) >= 0
    BY <1>1, <2>1 DEF Open, LineFits
  <2>3. Line(r)'
    BY <2>1, <2>2 DEF Open
  <2>4. ASSUME NEW q \in Returns, q # r PROVE Line(q)'
    <3>1. Same(q)
      BY <2>1, <2>4
    <3> HIDE DEF Same, Line
    <3> QED BY <1>2, <3>1
  <2> QED BY <2>3, <2>4 DEF LinesChecked
<1>7. ASSUME NEW r \in Returns, UNCHANGED local, status[r] # "NONE", status'[r] # "NONE",
             \A q \in Returns \ {r} : status'[q] = status[q]
      PROVE  LinesChecked'
  <2>1. pc' = pc /\ visible' = visible /\ line' = line
    BY <1>7 DEF local
  <2>2. ~Open(r)
    BY <1>1, <1>7
  <2>3. ASSUME NEW q \in Returns PROVE Same(q)
    <3>1. CASE q = r
      BY <1>7, <2>1, <2>2, <3>1
    <3>2. CASE q # r
      BY <1>7, <2>1, <3>2
    <3> QED BY <3>1, <3>2
  <2> HIDE DEF Same, Line
  <2>4. \A q \in Returns : Line(q)'
    BY <1>2, <2>3
  <2> QED BY <2>4 DEF LinesChecked, Line
<1>8. ASSUME NEW r \in Returns, Confirm(r) \/ Cancel(r) PROVE LinesChecked'
  <2>1. UNCHANGED local /\ status[r] = "DRAFT" /\ status'[r] # "NONE"
        /\ \A q \in Returns \ {r} : status'[q] = status[q]
    BY <1>8 DEF Confirm, Cancel, ReturnTypes
  <2> QED BY <1>7, <2>1
<1>9. ASSUME NEW r \in Returns, NEW amount \in 1..Eligible(r), ApplyRefund(r, amount)
      PROVE  LinesChecked'
  <2>1. UNCHANGED local
    BY <1>9 DEF ApplyRefund
  <2>2. /\ status[r] # "NONE" /\ status'[r] # "NONE"
        /\ \A q \in Returns \ {r} : status'[q] = status[q]
    BY <1>9, RefundCounts
  <2> QED BY <1>7, <2>1, <2>2
<1>10. ASSUME NEW d \in Redeemers, Redeeming(d) PROVE LinesChecked'
  BY <1>10, <1>3, KindsKeep
<1> QED BY <1>4, <1>5, <1>6, <1>8, <1>9, <1>10, StepKinds

\* A DRAFT that saw all returns of an item leaves it within what was sold.
LEMMA InsertFits ==
  ASSUME ReturnTypes, LinesChecked, FinitelyMany, SinglesFit, NEW r \in Returns, Insert(r),
         NEW i \in Items, i \notin blind', Cardinality(LinesOf(r, i)) <= 1
  PROVE  TotalUnits(Singles(i), i) + Quantity(r, i) <= Sold[i]
<1> DEFINE missed == Counted \ visible[r]
<1>1. /\ i \notin blind /\ pc[r] = "insert"
      /\ Quantity(r, i) > 0 => ~(TotalUnits(missed, i) > 0)
  BY DEF Insert
<1>2. TotalUnits(Singles(i), i) <= Sold[i]
  BY <1>1 DEF SinglesFit
<1>3. /\ Counted \in SUBSET Returns /\ IsFiniteSet(Counted) /\ Singles(i) \in SUBSET Counted
      /\ visible[r] \in SUBSET Returns /\ IsFiniteSet(visible[r])
      /\ missed \in SUBSET Counted /\ missed \in SUBSET Returns
  BY CountedSets DEF FinitelyMany, ReturnTypes
<1> HIDE DEF missed
<1>4. IsFiniteSet(Singles(i)) /\ IsFiniteSet(missed) /\ Singles(i) \in SUBSET Returns
  BY <1>3, MoreUnits
<1>5. /\ TotalUnits(Singles(i), i) \in Nat /\ TotalUnits(missed, i) \in Nat
      /\ TotalUnits(visible[r], i) \in Nat /\ Quantity(r, i) \in Nat /\ Sold[i] \in Nat
  BY <1>3, <1>4, TotalUnitsIs, QuantityNat, ConstantFacts
<1>6. CASE Quantity(r, i) = 0
  BY <1>2, <1>5, <1>6
<1>7. CASE Quantity(r, i) # 0
  <2>1. PICK n \in DOMAIN Lines[r] :
          Lines[r][n].item = i /\ Quantity(r, i) = Lines[r][n].quantity
    BY <1>7, OneLine
  <2>2. LineFits(r, n)
    BY <1>1 DEF LinesChecked, Open
  <2>3. Quantity(r, i) + TotalUnits(visible[r], i) <= Sold[i]
    BY <2>1, <2>2 DEF LineFits
  <2>4. Singles(i) \subseteq visible[r] \cup missed
    BY <1>3 DEF missed
  <2>5. TotalUnits(Singles(i), i) <= TotalUnits(visible[r], i) + TotalUnits(missed, i)
    BY <1>3, <1>4, <2>4, SplitUnits
  <2>6. TotalUnits(missed, i) = 0
    BY <1>1, <1>5, <1>7
  <2> QED BY <1>5, <2>3, <2>5, <2>6
<1> QED BY <1>6, <1>7

LEMMA SinglesFitNext ==
  ASSUME ReturnTypes, LinesChecked, FinitelyMany, SinglesFit, [Next]_vars
  PROVE  SinglesFit'
<1>1. ASSUME Counted' \in SUBSET Counted, blind' = blind PROVE SinglesFit'
  <2> SUFFICES ASSUME NEW i \in Items, i \notin blind
               PROVE  TotalUnits(Singles(i)', i) <= Sold[i]
    BY <1>1 DEF SinglesFit, TotalUnits, Quantity
  <2>1. Singles(i)' \in SUBSET Singles(i)
    BY <1>1 DEF Singles
  <2>2. TotalUnits(Singles(i), i) <= Sold[i]
    BY DEF SinglesFit
  <2>3. Singles(i) \in SUBSET Returns /\ IsFiniteSet(Singles(i))
    BY CountedSets, FS_Subset DEF FinitelyMany
  <2> DEFINE T == Singles(i)'
  <2>4. T \in SUBSET Singles(i)
    BY <2>1
  <2> HIDE DEF T
  <2>5. TotalUnits(T, i) <= TotalUnits(Singles(i), i) /\ IsFiniteSet(T)
    BY <2>3, <2>4, MoreUnits
  <2>6. /\ TotalUnits(T, i) \in Nat /\ TotalUnits(Singles(i), i) \in Nat /\ Sold[i] \in Nat
    BY <2>3, <2>4, <2>5, TotalUnitsIs, ConstantFacts
  <2>7. TotalUnits(T, i) <= Sold[i]
    BY <2>2, <2>5, <2>6
  <2> QED BY <2>7 DEF T
<1>2. CASE UNCHANGED vars
  BY <1>1, <1>2, KindsKeep, SameCounts
<1>3. ASSUME NEW r \in Returns, Creating(r) PROVE SinglesFit'
  BY <1>1, <1>3, KindsKeep, SameCounts
<1>4. ASSUME NEW r \in Returns, Insert(r) PROVE SinglesFit'
  <2> SUFFICES ASSUME NEW i \in Items, i \notin blind'
               PROVE  TotalUnits(Singles(i)', i) <= Sold[i]
    BY DEF SinglesFit, TotalUnits, Quantity
  <2>1. r \notin Counted /\ Counted' = Counted \cup {r}
    BY <1>4, InsertCounts
  <2>2. TotalUnits(Singles(i), i) <= Sold[i]
    BY <1>4 DEF SinglesFit, Insert
  <2>3. /\ Singles(i) \in SUBSET Returns /\ IsFiniteSet(Singles(i)) /\ r \notin Singles(i)
    BY <2>1, CountedSets, FS_Subset DEF FinitelyMany
  <2> DEFINE T == Singles(i)'
  <2>4. CASE Cardinality(LinesOf(r, i)) <= 1
    <3>1. T = Singles(i) \cup {r}
      BY <2>1, <2>4 DEF Singles
    <3>2. TotalUnits(Singles(i), i) + Quantity(r, i) <= Sold[i]
      BY <1>4, <2>4, InsertFits
    <3> DEFINE U == Singles(i) \cup {r}
    <3>3. TotalUnits(U, i) = TotalUnits(Singles(i), i) + Quantity(r, i)
      BY <2>3, OneMore
    <3>4. T = U
      BY <3>1
    <3> HIDE DEF T, U
    <3>5. TotalUnits(T, i) = TotalUnits(U, i)
      BY <3>4
    <3>6. TotalUnits(T, i) <= Sold[i]
      BY <3>2, <3>3, <3>5
    <3> QED BY <3>6 DEF T
  <2>5. CASE ~(Cardinality(LinesOf(r, i)) <= 1)
    <3>1. T = Singles(i)
      BY <2>1, <2>5 DEF Singles
    <3> HIDE DEF T
    <3>2. TotalUnits(T, i) <= Sold[i]
      BY <2>2, <3>1
    <3> QED BY <3>2 DEF T
  <2> QED BY <2>4, <2>5
<1>5. ASSUME NEW r \in Returns, Confirm(r) PROVE SinglesFit'
  <2>1. Counted' = Counted /\ blind' = blind
    BY <1>5, ConfirmCounts DEF Confirm
  <2> QED BY <1>1, <2>1
<1>6. ASSUME NEW r \in Returns, Cancel(r) PROVE SinglesFit'
  <2>1. Counted' \in SUBSET Counted /\ blind' = blind
    BY <1>6, CancelCounts DEF Cancel
  <2> QED BY <1>1, <2>1
<1>7. ASSUME NEW r \in Returns, NEW amount \in 1..Eligible(r), ApplyRefund(r, amount)
      PROVE  SinglesFit'
  <2>1. Counted' = Counted /\ blind' = blind
    BY <1>7, RefundCounts DEF ApplyRefund
  <2> QED BY <1>1, <2>1
<1>8. ASSUME NEW d \in Redeemers, Redeeming(d) PROVE SinglesFit'
  BY <1>1, <1>8, KindsKeep, SameCounts
<1> QED BY <1>2, <1>3, <1>4, <1>5, <1>6, <1>7, <1>8, StepKinds

\* confirm() adds one return to the sums, and nothing else changes them.
LEMMA SumsNext ==
  ASSUME ReturnTypes, LinesChecked, FinitelyMany, RestockAddsUp, ReversalAddsUp,
         [Next]_vars
  PROVE  RestockAddsUp' /\ ReversalAddsUp'
<1>1. ASSUME Confirmed' = Confirmed, restocked' = restocked, reversed' = reversed
      PROVE  RestockAddsUp' /\ ReversalAddsUp'
  BY <1>1 DEF RestockAddsUp, ReversalAddsUp, Total, Restock, UnitsOf, ReversalPoints, Eligible
<1>2. CASE UNCHANGED vars
  BY <1>1, <1>2, KindsKeep, SameCounts
<1>3. ASSUME NEW r \in Returns, Creating(r) PROVE RestockAddsUp' /\ ReversalAddsUp'
  BY <1>1, <1>3, KindsKeep, SameCounts
<1>4. ASSUME NEW r \in Returns, Insert(r) PROVE RestockAddsUp' /\ ReversalAddsUp'
  <2>1. Confirmed' = Confirmed /\ restocked' = restocked /\ reversed' = reversed
    BY <1>4, InsertCounts DEF Insert
  <2> QED BY <1>1, <2>1
<1>5. ASSUME NEW r \in Returns, Confirm(r) PROVE RestockAddsUp' /\ ReversalAddsUp'
  <2>1. r \notin Confirmed /\ Confirmed' = Confirmed \cup {r}
    BY <1>5, ConfirmCounts
  <2>2. IsFiniteSet(Confirmed) /\ Confirmed \in SUBSET Returns
    BY CountedSets, FS_Subset DEF FinitelyMany
  <2> DEFINE T == Confirmed'
  <2>3. IsFiniteSet(T) /\ T \in SUBSET Returns /\ r \in T /\ T \ {r} = Confirmed
    BY <2>1, <2>2, FS_AddElement
  <2>4. \A q \in T : status[q] # "NONE"
    BY <2>1, <1>5, ConfirmCounts DEF Confirmed
  <2> HIDE DEF T
  <2>5. ASSUME NEW i \in Items
        PROVE  restocked'[i] = Total([q \in Returns |-> Restock(q, i)], T)
    <3> DEFINE f == [q \in Returns |-> Restock(q, i)]
    <3>1. \A q \in T : f[q] \in Int
      BY <2>3, QuantityNat
    <3>2. f[r] = Restock(r, i) /\ restocked[i] = Total(f, Confirmed)
      BY DEF RestockAddsUp
    <3> HIDE DEF f
    <3>3. Total(f, T) = Total(f, T \ {r}) + f[r]
      BY <2>3, <3>1, TotalRemove
    <3>4. Total(f, T \ {r}) = Total(f, Confirmed)
      BY <2>3, Zenon
    <3>5. restocked'[i] = restocked[i] + Restock(r, i)
      BY <1>5 DEF Confirm
    <3>6. restocked'[i] = Total(f, T)
      BY <3>2, <3>3, <3>4, <3>5
    <3> QED BY <3>6 DEF f
  <2>6. reversed' = Total([q \in Returns |-> ReversalPoints(q)], T)
    <3> DEFINE f == [q \in Returns |-> ReversalPoints(q)]
    <3>1. ASSUME NEW q \in T PROVE f[q] \in Int
      <4>1. q \in Returns /\ Eligible(q) \in Nat
        BY <2>3, <2>4, EligibleNat
      <4>2. ReversalPoints(q) \in Nat
        BY <4>1, ReversalWithin
      <4> QED BY <4>1, <4>2
    <3>2. f[r] = ReversalPoints(r) /\ reversed = Total(f, Confirmed)
      BY DEF ReversalAddsUp
    <3> HIDE DEF f
    <3>3. Total(f, T) = Total(f, T \ {r}) + f[r]
      BY <2>3, <3>1, TotalRemove
    <3>4. Total(f, T \ {r}) = Total(f, Confirmed)
      BY <2>3, Zenon
    <3>5. reversed' = reversed + ReversalPoints(r)
      BY <1>5 DEF Confirm
    <3>6. reversed' = Total(f, T)
      BY <3>2, <3>3, <3>4, <3>5
    <3> QED BY <3>6 DEF f
  <2>7. RestockAddsUp'
    BY <2>5 DEF T, RestockAddsUp, Total, Restock, UnitsOf
  <2>8. ReversalAddsUp'
    BY <2>6 DEF T, ReversalAddsUp, Total, ReversalPoints, Eligible
  <2> QED BY <2>7, <2>8
<1>6. ASSUME NEW r \in Returns, Cancel(r) PROVE RestockAddsUp' /\ ReversalAddsUp'
  <2>1. Confirmed' = Confirmed /\ restocked' = restocked /\ reversed' = reversed
    BY <1>6, CancelCounts DEF Cancel
  <2> QED BY <1>1, <2>1
<1>7. ASSUME NEW r \in Returns, NEW amount \in 1..Eligible(r), ApplyRefund(r, amount)
      PROVE  RestockAddsUp' /\ ReversalAddsUp'
  <2>1. Confirmed' = Confirmed /\ restocked' = restocked /\ reversed' = reversed
    BY <1>7, RefundCounts DEF ApplyRefund
  <2> QED BY <1>1, <2>1
<1>8. ASSUME NEW d \in Redeemers, Redeeming(d) PROVE RestockAddsUp' /\ ReversalAddsUp'
  BY <1>1, <1>8, KindsKeep, SameCounts
<1> QED BY <1>2, <1>3, <1>4, <1>5, <1>6, <1>7, <1>8, StepKinds

LEMMA SpentNext ==
  ASSUME ReturnTypes, LinesChecked, FinitelyMany, SpentWithinEarned, [Next]_vars
  PROVE  SpentWithinEarned'
<1>1. ASSUME UNCHANGED loyalty PROVE SpentWithinEarned'
  BY <1>1 DEF loyalty, SpentWithinEarned
<1>2. ASSUME NEW d \in Redeemers, Redeeming(d) PROVE SpentWithinEarned'
  <2>1. /\ Earned \in Nat /\ Points[d] \in Nat /\ reversed \in Nat /\ redeemed \in Nat
        /\ redeem[d].balance \in Int /\ redeem[d].redeemed \in Nat
        /\ redeem[d].balance + redeem[d].redeemed <= Earned
        /\ ~overlapped => redeemed <= Earned
    BY ConstantFacts DEF ReturnTypes, SpentWithinEarned
  <2>2. \A e \in Redeemers \ {d} : redeem'[e] = redeem[e]
    BY <1>2 DEF Redeeming, ReadProgram, LockPoints, Redeem, RefuseRedeem, ReturnTypes
  <2>3. redeem'[d].balance + redeem'[d].redeemed <= Earned
    <3>1. CASE ReadProgram(d)
      <4>1. /\ redeem'[d].balance = Earned - reversed - redeemed
            /\ redeem'[d].redeemed = redeemed
        BY <3>1 DEF ReadProgram, ReturnTypes
      <4> QED BY <2>1, <4>1
    <3>2. CASE LockPoints(d)
      <4>1. redeem'[d] = [redeem[d] EXCEPT !.pc = "locked"]
        BY <3>2 DEF LockPoints, ReturnTypes
      <4>2. redeem'[d].balance = redeem[d].balance /\ redeem'[d].redeemed = redeem[d].redeemed
        BY <4>1 DEF ReturnTypes
      <4> QED BY <2>1, <4>2
    <3>3. CASE Redeem(d) \/ RefuseRedeem(d)
      <4>1. redeem'[d] = NoRedeem
        BY <3>3 DEF Redeem, RefuseRedeem, ReturnTypes
      <4> QED BY <2>1, <4>1 DEF NoRedeem
    <3> QED BY <1>2, <3>1, <3>2, <3>3 DEF Redeeming
  <2>4. ~overlapped' => redeemed' <= Earned
    <3>1. CASE Redeem(d)
      <4>1. /\ Points[d] <= redeem[d].balance /\ redeemed' = redeemed + Points[d]
            /\ ~overlapped' => redeemed = redeem[d].redeemed
        BY <3>1 DEF Redeem
      <4> QED BY <2>1, <4>1
    <3>2. CASE ReadProgram(d) \/ LockPoints(d) \/ RefuseRedeem(d)
      BY <2>1, <3>2 DEF ReadProgram, LockPoints, RefuseRedeem
    <3> QED BY <1>2, <3>1, <3>2 DEF Redeeming
  <2>5. \A e \in Redeemers : redeem'[e].balance + redeem'[e].redeemed <= Earned
    <3> SUFFICES ASSUME NEW e \in Redeemers
                 PROVE  redeem'[e].balance + redeem'[e].redeemed <= Earned
      OBVIOUS
    <3>1. CASE e = d
      BY <2>3, <3>1
    <3>2. CASE e # d
      BY <2>2, <3>2 DEF SpentWithinEarned
    <3> QED BY <3>1, <3>2
  <2> QED BY <2>4, <2>5 DEF SpentWithinEarned
<1>3. ASSUME NEW r \in Returns,
             Creating(r) \/ Insert(r) \/ Confirm(r) \/ Cancel(r)
             \/ \E amount \in 1..Eligible(r) : ApplyRefund(r, amount)
      PROVE  UNCHANGED loyalty
  BY <1>3, KindsKeep DEF Insert, Confirm, Cancel, ApplyRefund
<1> QED BY <1>1, <1>2, <1>3, StepKinds, KindsKeep

LEMMA RefundsNext ==
  ASSUME ReturnTypes, LinesChecked, RefundsAreEligible, [Next]_vars
  PROVE  RefundsAreEligible'
<1> DEFINE Refund(q) ==
             /\ refunded[q] > 0 => status[q] \in {"CONFIRMED", "REFUNDED"}
             /\ status[q] # "NONE" => refunded[q] <= Eligible(q)
             /\ status[q] = "REFUNDED" <=> refunded[q] > 0 /\ refunded[q] = Eligible(q)
<1>1. \A q \in Returns : Refund(q)
  BY DEF RefundsAreEligible
<1>2. \A q \in Returns : Eligible(q)' = Eligible(q)
  BY DEF Eligible
<1>3. ASSUME NEW q \in Returns, status'[q] = status[q], refunded'[q] = refunded[q]
      PROVE  Refund(q)'
  BY <1>1, <1>2, <1>3
<1>4. ASSUME UNCHANGED rows PROVE RefundsAreEligible'
  <2>1. status' = status /\ refunded' = refunded
    BY <1>4 DEF rows
  <2> QED BY <1>3, <2>1 DEF RefundsAreEligible
\* A step of one return that refunds nothing.
<1>5. ASSUME NEW r \in Returns, refunded' = refunded, refunded[r] = 0,
             status'[r] # "REFUNDED", Eligible(r) >= 0,
             \A q \in Returns \ {r} : status'[q] = status[q]
      PROVE  RefundsAreEligible'
  <2>1. Refund(r)'
    BY <1>2, <1>5
  <2>2. ASSUME NEW q \in Returns, q # r PROVE Refund(q)'
    BY <1>3, <1>5, <2>2
  <2> QED BY <2>1, <2>2 DEF RefundsAreEligible
<1>6. CASE UNCHANGED vars
  BY <1>4, <1>6, KindsKeep
<1>7. ASSUME NEW r \in Returns, Creating(r) PROVE RefundsAreEligible'
  BY <1>4, <1>7, KindsKeep
<1>8. ASSUME NEW r \in Returns, Insert(r) PROVE RefundsAreEligible'
  <2>1. /\ status[r] = "NONE" /\ refunded' = refunded /\ status'[r] = "DRAFT"
        /\ \A q \in Returns \ {r} : status'[q] = status[q]
    BY <1>8, InsertCounts DEF Insert, ReturnTypes
  <2>2. refunded[r] = 0
    BY <1>1, <2>1 DEF ReturnTypes
  <2>3. Eligible(r) >= 0
    <3>1. \A n \in DOMAIN Lines[r] : LineTotal(Lines[r][n]) >= 0
      BY <1>8 DEF LinesChecked, Insert, Open, LineFits
    <3>2. Eligible(r) \in Nat
      BY <3>1, EligibleIfPaid
    <3> QED BY <3>2
  <2> QED BY <1>5, <2>1, <2>2, <2>3
<1>9. ASSUME NEW r \in Returns, Confirm(r) \/ Cancel(r) PROVE RefundsAreEligible'
  <2>1. /\ status[r] = "DRAFT" /\ refunded' = refunded
        /\ status'[r] \in {"CONFIRMED", "CANCELLED"}
        /\ \A q \in Returns \ {r} : status'[q] = status[q]
    BY <1>9 DEF Confirm, Cancel, ReturnTypes
  <2>2. refunded[r] = 0
    BY <1>1, <2>1 DEF ReturnTypes
  <2>3. Eligible(r) \in Nat
    BY <2>1, EligibleNat
  <2>4. status'[r] # "REFUNDED" /\ Eligible(r) >= 0
    BY <2>1, <2>3
  <2> QED BY <1>5, <2>1, <2>2, <2>4
<1>10. ASSUME NEW r \in Returns, NEW amount \in 1..Eligible(r), ApplyRefund(r, amount)
       PROVE  RefundsAreEligible'
  <2>1. /\ status[r] # "NONE" /\ \A q \in Returns \ {r} : status'[q] = status[q]
        /\ status'[r] \in {"CONFIRMED", "REFUNDED"}
    BY <1>10, RefundCounts
  <2>2. /\ refunded[r] + amount <= Eligible(r)
        /\ refunded'[r] = refunded[r] + amount
        /\ status'[r] = IF refunded[r] + amount >= Eligible(r) THEN "REFUNDED" ELSE "CONFIRMED"
        /\ \A q \in Returns \ {r} : refunded'[q] = refunded[q]
    BY <1>10 DEF ApplyRefund, ReturnTypes
  <2>3. Eligible(r) \in Nat /\ amount \in Nat \ {0} /\ refunded[r] \in Nat
    BY <2>1, EligibleNat DEF ReturnTypes
  <2>4. Refund(r)'
    BY <1>2, <2>1, <2>2, <2>3
  <2>5. ASSUME NEW q \in Returns, q # r PROVE Refund(q)'
    BY <1>3, <2>1, <2>2, <2>5
  <2> QED BY <2>4, <2>5 DEF RefundsAreEligible
<1>11. ASSUME NEW d \in Redeemers, Redeeming(d) PROVE RefundsAreEligible'
  BY <1>4, <1>11, KindsKeep
<1> QED BY <1>6, <1>7, <1>8, <1>9, <1>10, <1>11, StepKinds

LEMMA ReturnsInit ==
  ASSUME Init PROVE ReturnsInv
<1>1. ReturnTypes
  <2>1. status \in [Returns -> Status] /\ pc \in [Returns -> {"idle", "lock", "insert"}]
    BY DEF Init, Status
  <2>2. refunded \in [Returns -> Nat] /\ restocked \in [Items -> Nat] /\ reversed \in Nat
    BY DEF Init
  <2>3. visible \in [Returns -> SUBSET Returns] /\ held \in [Returns -> SUBSET Items]
    BY DEF Init
  <2>4. line \in [Returns -> Nat \ {0}] /\ blind \in SUBSET Items
    BY DEF Init
  <2>5. redeemed \in Nat /\ overlapped \in BOOLEAN
    BY DEF Init
  <2>6. NoRedeem \in [pc : {"idle", "read", "locked"}, balance : Int, redeemed : Nat]
    BY DEF NoRedeem
  <2>7. redeem \in [Redeemers ->
          [pc : {"idle", "read", "locked"}, balance : Int, redeemed : Nat]]
    BY <2>6 DEF Init
  <2> QED BY <2>1, <2>2, <2>3, <2>4, <2>5, <2>7 DEF ReturnTypes
<1>2. Counted = {} /\ Confirmed = {} /\ \A i \in Items : Singles(i) = {}
  BY DEF Init, Counted, Confirmed, Singles
<1>3. FinitelyMany
  BY <1>2, FS_EmptySet DEF Init, FinitelyMany
<1>4. LinesChecked
  BY DEF Init, LinesChecked, Open
<1>5. SinglesFit
  <2> SUFFICES ASSUME NEW i \in Items PROVE TotalUnits(Singles(i), i) <= Sold[i]
    BY DEF SinglesFit
  <2>1. Total(Quantities(i), {}) = 0
    BY TotalEmpty
  <2>2. TotalUnits({}, i) = Total(Quantities(i), {})
    BY DEF TotalUnits, Total, Quantities
  <2>3. TotalUnits(Singles(i), i) = TotalUnits({}, i)
    BY <1>2
  <2>4. Sold[i] \in Nat
    BY ConstantFacts
  <2> QED BY <2>1, <2>2, <2>3, <2>4
<1>6. RestockAddsUp
  <2> SUFFICES ASSUME NEW i \in Items
               PROVE  restocked[i] = Total([r \in Returns |-> Restock(r, i)], Confirmed)
    BY DEF RestockAddsUp
  <2> DEFINE f == [r \in Returns |-> Restock(r, i)]
  <2>1. Total(f, {}) = 0 /\ restocked[i] = 0
    <3> HIDE DEF f
    <3> QED BY TotalEmpty DEF Init
  <2> QED BY <1>2, <2>1
<1>7. ReversalAddsUp
  <2> DEFINE f == [r \in Returns |-> ReversalPoints(r)]
  <2>1. Total(f, {}) = 0 /\ reversed = 0
    <3> HIDE DEF f
    <3> QED BY TotalEmpty DEF Init
  <2> QED BY <1>2, <2>1 DEF ReversalAddsUp
<1>8. SpentWithinEarned
  BY ConstantFacts DEF Init, SpentWithinEarned, NoRedeem
<1>9. RefundsAreEligible
  BY DEF Init, RefundsAreEligible
<1> QED BY <1>1, <1>3, <1>4, <1>5, <1>6, <1>7, <1>8, <1>9 DEF ReturnsInv

LEMMA ReturnsNext ==
  ASSUME ReturnsInv, [Next]_vars PROVE ReturnsInv'
<1>1. /\ ReturnTypes /\ FinitelyMany /\ LinesChecked /\ SinglesFit
      /\ RestockAddsUp /\ ReversalAddsUp /\ SpentWithinEarned /\ RefundsAreEligible
  BY DEF ReturnsInv
<1>2. ReturnTypes' /\ FinitelyMany' /\ LinesChecked' /\ SinglesFit'
  BY <1>1, ReturnTypesNext, FinitelyManyNext, LinesCheckedNext, SinglesFitNext
<1>3. RestockAddsUp' /\ ReversalAddsUp' /\ SpentWithinEarned' /\ RefundsAreEligible'
  BY <1>1, SumsNext, SpentNext, RefundsNext
<1> QED BY <1>2, <1>3 DEF ReturnsInv

LEMMA SaleReturnsInvariant == Spec => []ReturnsInv
<1>1. Init => ReturnsInv
  BY ReturnsInit
<1>2. ReturnsInv /\ [Next]_vars => ReturnsInv'
  BY ReturnsNext
<1> QED BY <1>1, <1>2, PTL DEF Spec

-----------------------------------------------------------------------------
\* The properties of SaleReturns.
LEMMA NothingOverReturned == ReturnsInv => NotOverReturned
<1> SUFFICES ASSUME ReturnsInv, NEW i \in Items, i \notin blind, i \notin Twice
             PROVE  TotalUnits(Counted, i) <= Sold[i]
  BY DEF NotOverReturned
<1>1. ASSUME NEW r \in Counted PROVE Cardinality(LinesOf(r, i)) <= 1
  <2>1. ~(Cardinality(LinesOf(r, i)) > 1)
    BY DEF Twice
  <2>2. LinesOf(r, i) \in SUBSET DOMAIN Lines[r] /\ r \in Returns
    BY DEF LinesOf, Counted
  <2>3. Cardinality(LinesOf(r, i)) \in Nat
    BY <2>2, UnitsNat, FS_CardinalityType
  <2> QED BY <2>1, <2>3
<1>2. Singles(i) = Counted
  BY <1>1 DEF Singles
<1>3. TotalUnits(Singles(i), i) <= Sold[i]
  BY DEF ReturnsInv, SinglesFit
<1> QED BY <1>2, <1>3

\* Over-returning is prevented (comment of create()): unless an item was returned in
\* a snapshot that missed another return, or a return names it twice, the returns
\* that are not cancelled hold no more units of it than were sold.
THEOREM SaleReturnsNotOverReturned == Spec => []NotOverReturned
BY SaleReturnsInvariant, NothingOverReturned, PTL

\* confirm() puts the RESTOCK lines of each confirmed return back exactly once, and
\* with that no more than was sold of an item that is not over-returned.
THEOREM SaleReturnsRestockedOnce == Spec => []RestockedOnce
<1>1. ReturnsInv => RestockedOnce
  <2> SUFFICES ASSUME ReturnsInv, NEW i \in Items
               PROVE  /\ restocked[i] =
                           SumFunctionOnSet([r \in Returns |-> Restock(r, i)], Confirmed)
                      /\ i \notin blind \cup Twice => restocked[i] <= Sold[i]
    BY DEF RestockedOnce
  <2> DEFINE f == [r \in Returns |-> Restock(r, i)]
  <2>1. restocked[i] = Total(f, Confirmed)
    BY DEF ReturnsInv, RestockAddsUp
  <2>2. restocked[i] = SumFunctionOnSet([r \in Returns |-> Restock(r, i)], Confirmed)
    BY <2>1 DEF Total
  <2>3. ASSUME i \notin blind \cup Twice PROVE restocked[i] <= Sold[i]
    <3>1. TotalUnits(Counted, i) <= Sold[i]
      BY <2>3, NothingOverReturned DEF NotOverReturned
    <3>2. /\ Counted \in SUBSET Returns /\ IsFiniteSet(Counted)
          /\ Confirmed \in SUBSET Counted /\ Confirmed \in SUBSET Returns
      BY CountedSets DEF ReturnsInv, FinitelyMany
    <3>3. IsFiniteSet(Confirmed) /\ TotalUnits(Confirmed, i) <= TotalUnits(Counted, i)
      BY <3>2, MoreUnits
    <3>4. \A r \in Confirmed : /\ f[r] \in Int /\ Quantities(i)[r] \in Int
                               /\ f[r] <= Quantities(i)[r]
      BY <3>2, QuantityNat DEF Quantities
    <3> HIDE DEF f
    <3>5. Total(f, Confirmed) <= Total(Quantities(i), Confirmed)
      BY <3>3, <3>4, TotalLeq
    <3>6. /\ Total(Quantities(i), Confirmed) = TotalUnits(Confirmed, i)
          /\ TotalUnits(Confirmed, i) \in Nat /\ TotalUnits(Counted, i) \in Nat
      BY <3>2, <3>3, TotalUnitsIs
    <3>7. Total(f, Confirmed) \in Int /\ Sold[i] \in Nat
      BY <3>3, <3>4, TotalInt, ConstantFacts
    <3> QED BY <2>1, <3>1, <3>3, <3>5, <3>6, <3>7
  <2> QED BY <2>2, <2>3
<1> QED BY <1>1, SaleReturnsInvariant, PTL

\* applyRefund() gives money back only for confirmed returns, never more than their
\* lines are worth, and marks as REFUNDED those whose money all went back.
THEOREM SaleReturnsRefundsAreEligible == Spec => []RefundsAreEligible
<1>1. ReturnsInv => RefundsAreEligible
  BY DEF ReturnsInv
<1> QED BY <1>1, SaleReturnsInvariant, PTL

\* Each reversal is rounded down (comment of confirm()): together, those of a sale
\* without discount that is not over-returned take back no more points than it
\* earned; and no more are spent unless two redemptions overlap.
THEOREM SaleReturnsPointsWithinEarned == Spec => []PointsWithinEarned
<1>1. ReturnsInv => PointsWithinEarned
  <2> SUFFICES ASSUME ReturnsInv PROVE PointsWithinEarned
    OBVIOUS
  <2>1. ~overlapped => redeemed <= Earned
    BY DEF ReturnsInv, SpentWithinEarned
  <2>2. ASSUME Undiscounted, blind = {}, Twice = {} PROVE reversed <= Earned
    <3> DEFINE f == [r \in Returns |-> ReversalPoints(r)]
               e == [r \in Returns |-> Eligible(r)]
               g == [r \in Returns |-> GrandTotal * ReversalPoints(r)]
               h == [r \in Returns |-> Earned * Eligible(r)]
    <3>1. /\ Counted \in SUBSET Returns /\ IsFiniteSet(Counted)
          /\ Confirmed \in SUBSET Counted /\ Confirmed \in SUBSET Returns
      BY CountedSets DEF ReturnsInv, FinitelyMany
    <3>2. IsFiniteSet(Confirmed)
      BY <3>1, FS_Subset
    <3>3. GrandTotal \in Nat \ {0} /\ Earned \in Nat
      BY ConstantFacts
    <3>4. ASSUME NEW r \in Confirmed
          PROVE  /\ f[r] \in Nat /\ e[r] \in Nat /\ g[r] \in Nat /\ h[r] \in Nat
                 /\ g[r] = GrandTotal * f[r] /\ h[r] = Earned * e[r] /\ g[r] <= h[r]
      <4>1. r \in Returns /\ status[r] # "NONE"
        BY DEF Confirmed
      <4>2. Eligible(r) \in Nat
        BY <4>1, EligibleNat DEF ReturnsInv
      <4>3. /\ ReversalPoints(r) \in Nat
            /\ GrandTotal * ReversalPoints(r) <= Earned * Eligible(r)
        BY <4>1, <4>2, ReversalWithin
      <4>4. \A a, b \in Nat : a * b \in Nat
        OBVIOUS
      <4> QED BY <3>3, <4>1, <4>2, <4>3, <4>4
    <3>5. ASSUME NEW i \in Items PROVE TotalUnits(Confirmed, i) <= Sold[i]
      <4>1. TotalUnits(Counted, i) <= Sold[i]
        BY <2>2, NothingOverReturned DEF NotOverReturned
      <4>2. TotalUnits(Confirmed, i) <= TotalUnits(Counted, i)
        BY <3>1, MoreUnits
      <4>3. TotalUnits(Confirmed, i) \in Nat /\ TotalUnits(Counted, i) \in Nat /\ Sold[i] \in Nat
        BY <3>1, <3>2, TotalUnitsIs, ConstantFacts
      <4> QED BY <4>1, <4>2, <4>3
    <3>6. Total(e, Confirmed) <= GrandTotal
      BY <2>2, <3>1, <3>2, <3>5, ReturnsWithinSale
    <3>7. reversed = Total(f, Confirmed)
      BY DEF ReturnsInv, ReversalAddsUp
    <3> HIDE DEF e, f, g, h
    <3>8. Total(g, Confirmed) = GrandTotal * Total(f, Confirmed)
      BY <3>2, <3>3, <3>4, TotalTimes
    <3>9. Total(h, Confirmed) = Earned * Total(e, Confirmed)
      BY <3>2, <3>3, <3>4, TotalTimes
    <3>10. Total(g, Confirmed) <= Total(h, Confirmed)
      BY <3>2, <3>4, TotalLeq
    <3>11. Total(f, Confirmed) \in Nat /\ Total(e, Confirmed) \in Nat
      BY <3>2, <3>4, TotalNat
    <3>12. GrandTotal * reversed <= Earned * GrandTotal
      <4>1. \A a, b, p \in Nat : a <= b => p * a <= p * b
        OBVIOUS
      <4>2. Earned * Total(e, Confirmed) <= Earned * GrandTotal
        BY <3>3, <3>6, <3>11, <4>1
      <4>3. \A a, b \in Nat : a * b \in Nat
        OBVIOUS
      <4>4. /\ GrandTotal * reversed \in Nat /\ Earned * Total(e, Confirmed) \in Nat
            /\ Earned * GrandTotal \in Nat
        BY <3>3, <3>7, <3>11, <4>3
      <4> QED BY <3>7, <3>8, <3>9, <3>10, <4>2, <4>4
    <3>13. \A a, b \in Nat : \A p \in Nat \ {0} : p * a <= b * p => a <= b
      OBVIOUS
    <3> QED BY <3>3, <3>7, <3>11, <3>12, <3>13
  <2> QED BY <2>1, <2>2 DEF PointsWithinEarned
<1> QED BY <1>1, SaleReturnsInvariant, PTL

-----------------------------------------------------------------------------
\* The sale from its draft to its payments.  A confirmation holds the stock row, a
\* payment the sale; a transition saves what it has made of the sale that it read.

\* A cancellation of s is over.  At most one found s a draft.
Cancelled(s) == \E q \in cancels : SaleOf[q] = s /\ stage[q] = "done"
OneCancel(s) == \A q, r \in cancels : SaleOf[q] = s /\ SaleOf[r] = s => q = r

SaleTypes ==
  /\ sale \in [Sales -> Sale] /\ onHand \in Nat
  /\ issued \in [Sales -> Nat] /\ allocated \in [Sales -> Nat]
  /\ earned \in SUBSET Sales /\ cancels \in SUBSET Requests
  /\ doubled \in SUBSET Sales /\ overtaken \in SUBSET Sales
  /\ stockLock \in Requests \cup {None}
  /\ saleLock \in [Sales -> Requests \cup {None}]
  /\ stage \in [Requests -> {"idle", "stock", "commit", "save", "update", "pay", "done"}]
  /\ entity \in [Requests -> Sale] /\ seen \in [Requests -> Sale]
  /\ quantity \in [Requests -> Nat]

\* What a request at each stage holds and has made of the sale it read.
Confirming(r) ==
  /\ Op[r] = "confirm"
  /\ entity[r].status = "CONFIRMED" /\ entity[r].fulfillment = "PENDING_SHIPMENT"
Cancelling(r) ==
  /\ Op[r] = "cancel" /\ r \in cancels
  /\ entity[r].status = "CANCELLED" /\ entity[r].fulfillment = "NULL"
Fulfilling(r) ==
  /\ Op[r] \in {"ship", "deliver"}
  /\ entity[r].status # "DRAFT" /\ entity[r].fulfillment # "NULL"
  /\ entity[r].status = "CANCELLED" => Cancelled(SaleOf[r])
  /\ issued[SaleOf[r]] > 0
Paying(r) ==
  /\ Op[r] = "pay" /\ saleLock[SaleOf[r]] = r
  /\ seen[r] = sale[SaleOf[r]] /\ seen[r].paid + 1 <= SaleTotal

RequestsFit ==
  \A r \in Requests :
    /\ stage[r] \in {"stock", "commit"} => Confirming(r)
    /\ stage[r] \in {"save", "update"}  => Cancelling(r) \/ Fulfilling(r)
    /\ stage[r] = "pay" => Paying(r)

StockHeld ==
  \A r \in Requests :
    stage[r] = "commit" => stockLock = r /\ quantity[r] = onHand /\ onHand >= PerSale

RowsFit ==
  \A s \in Sales :
    /\ sale[s].status = "DRAFT" => sale[s].fulfillment = "NULL"
    /\ sale[s].status = "CANCELLED" => Cancelled(s)
    /\ sale[s].fulfillment # "NULL" \/ sale[s].status = "CONFIRMED" \/ s \in earned
         => issued[s] > 0
    /\ sale[s].status = "CONFIRMED" /\ OneCancel(s) => sale[s].fulfillment # "NULL"

\* What save() has read still tells what the row can be: a cancellation that is over
\* writes no more, so that the fulfillment status its reader saw is still there.
ReadsFit ==
  \A r \in Requests : stage[r] \in {"commit", "update"} =>
    /\ seen[r].status = "DRAFT" => seen[r].fulfillment = "NULL"
    /\ seen[r].status # "DRAFT" => sale[SaleOf[r]].status # "DRAFT"
    /\ seen[r].status = "CANCELLED" => Cancelled(SaleOf[r])
    /\ seen[r].status = "CANCELLED" /\ seen[r].fulfillment # "NULL" /\ OneCancel(SaleOf[r])
         => sale[SaleOf[r]].fulfillment # "NULL"

SaleInv == SaleTypes /\ RequestsFit /\ StockHeld /\ RowsFit /\ ReadsFit

LEMMA SaleFacts ==
  /\ None \notin Requests
  /\ \A r \in Requests : SaleOf[r] \in Sales /\ Op[r] \in Ops
  /\ SaleTotal \in Nat /\ Opening \in Nat /\ PerSale \in Nat /\ PerSale > 0
BY SaleAssumption

LEMMA SaleRecord ==
  ASSUME NEW e \in Sale
  PROVE  /\ DOMAIN e = {"status", "fulfillment", "paid"}
         /\ e.status \in SaleStatus /\ e.fulfillment \in Fulfillment /\ e.paid \in 0..SaleTotal
BY DEF Sale

\* save() assigns column by column.
LEMMA SaveIs ==
  ASSUME NEW row \in Sale, NEW e \in Sale, NEW read \in Sale
  PROVE  /\ Save(row, e, read) \in Sale
         /\ Save(row, e, read).status =
              IF e.status # read.status THEN e.status ELSE row.status
         /\ Save(row, e, read).fulfillment =
              IF e.fulfillment # read.fulfillment THEN e.fulfillment ELSE row.fulfillment
         /\ Save(row, e, read).paid = IF e.paid # read.paid THEN e.paid ELSE row.paid
<1> DEFINE newStatus == IF e.status # read.status THEN e.status ELSE row.status
           newFulfillment ==
             IF e.fulfillment # read.fulfillment THEN e.fulfillment ELSE row.fulfillment
           newPaid == IF e.paid # read.paid THEN e.paid ELSE row.paid
<1>1. Save(row, e, read) = [c \in {"status", "fulfillment", "paid"} |->
                              IF e[c] # read[c] THEN e[c] ELSE row[c]]
  BY SaleRecord DEF Save
<1>2. Save(row, e, read) =
        [status |-> newStatus, fulfillment |-> newFulfillment, paid |-> newPaid]
  BY <1>1
<1>3. /\ newStatus \in SaleStatus /\ newFulfillment \in Fulfillment
      /\ newPaid \in 0..SaleTotal
  BY SaleRecord
<1> QED BY <1>2, <1>3 DEF Sale

LEMMA DraftSale == Draft \in Sale
BY SaleFacts DEF Draft, Sale, SaleStatus, Fulfillment

LEMMA ChangedSale ==
  ASSUME NEW s \in Sale, NEW op \in Ops \ {"pay"}
  PROVE  /\ Changed(op, s) \in Sale /\ Changed(op, s).paid = s.paid
         /\ op = "confirm" => /\ Changed(op, s).status = "CONFIRMED"
                              /\ Changed(op, s).fulfillment = "PENDING_SHIPMENT"
         /\ op = "cancel" => /\ Changed(op, s).status = "CANCELLED"
                             /\ Changed(op, s).fulfillment = s.fulfillment
         /\ op \in {"ship", "deliver"} => /\ Changed(op, s).status = s.status
                                          /\ Changed(op, s).fulfillment # "NULL"
<1>1. CASE op = "confirm"
  BY <1>1 DEF Changed, Sale, SaleStatus, Fulfillment
<1>2. CASE op = "cancel"
  BY <1>2 DEF Changed, Sale, SaleStatus, Fulfillment
<1>3. CASE op = "ship"
  BY <1>3 DEF Changed, Sale, SaleStatus, Fulfillment
<1>4. CASE op = "deliver"
  BY <1>4 DEF Changed, Sale, SaleStatus, Fulfillment
<1> QED BY <1>1, <1>2, <1>3, <1>4 DEF Ops

SaleStep(r) ==
  \/ Read(r) \/ LockStock(r) \/ CommitConfirm(r) \/ RollbackConfirm(r)
  \/ SaveReads(r) \/ SaveUpdates(r)
  \/ LockSale(r) \/ CommitPayment(r) \/ RollbackPayment(r)

LEMMA SaleTypesNext ==
  ASSUME SaleTypes, RequestsFit, StockHeld, NEW r \in Requests, SaleStep(r)
  PROVE  SaleTypes'
<1> DEFINE s == SaleOf[r]
           Stages == {"idle", "stock", "commit", "save", "update", "pay", "done"}
           Saved == Save(sale[s], entity[r], seen[r])
<1> USE DEF SaleTypes
<1>0. /\ s \in Sales /\ sale[s] \in Sale /\ entity[r] \in Sale /\ seen[r] \in Sale
      /\ Draft \in Sale /\ Saved \in Sale
  BY SaleFacts, DraftSale, SaveIs
<1>1. CASE Read(r)
  <2>1. Op[r] \in Ops \ {"pay"} /\ Changed(Op[r], sale[s]) \in Sale
    BY <1>0, <1>1, SaleFacts, ChangedSale DEF Read
  <2>2. doubled' \in SUBSET Sales
    BY <1>0, <1>1 DEF Read
  <2> QED BY <1>0, <1>1, <2>1, <2>2 DEF Read, Proceed, stored, locks
<1>2. CASE LockStock(r)
  BY <1>0, <1>2 DEF LockStock, Proceed, stored, history
<1>3. CASE CommitConfirm(r)
  <2>1. quantity[r] - PerSale \in Nat
    BY <1>3, SaleFacts DEF CommitConfirm, StockHeld
  <2>2. issued' \in [Sales -> Nat] /\ earned' \in SUBSET Sales
    BY <1>0, <1>3 DEF CommitConfirm
  <2>3. sale' = [sale EXCEPT ![s] = Saved]
    BY <1>3 DEF CommitConfirm
  <2>4. sale' \in [Sales -> Sale]
    <3> HIDE DEF Saved, s
    <3> QED BY <1>0, <2>3
  <2>5. /\ stage' \in [Requests -> Stages] /\ entity' \in [Requests -> Sale]
        /\ seen' \in [Requests -> Sale] /\ quantity' \in [Requests -> Nat]
    BY <1>0, <1>3 DEF CommitConfirm, Finish, Proceed
  <2> QED BY <1>3, <2>1, <2>2, <2>4, <2>5 DEF CommitConfirm, history
<1>4. CASE RollbackConfirm(r)
  BY <1>0, <1>4 DEF RollbackConfirm, Finish, Proceed, stored, history
<1>5. CASE SaveReads(r)
  BY <1>0, <1>5 DEF SaveReads, Proceed, stored, history, locks
<1>6. CASE SaveUpdates(r)
  <2>1. sale' = [sale EXCEPT ![s] = Saved]
    BY <1>6 DEF SaveUpdates
  <2>2. sale' \in [Sales -> Sale]
    <3> HIDE DEF Saved, s
    <3> QED BY <1>0, <2>1
  <2> QED BY <1>0, <1>6, <2>2 DEF SaveUpdates, Finish, Proceed, locks, history
<1>7. CASE LockSale(r)
  BY <1>0, <1>7 DEF LockSale, Proceed, stored, history
<1>8. CASE CommitPayment(r)
  <2>1. seen[r].paid + 1 \in 0..SaleTotal
    BY <1>0, <1>8, SaleRecord, SaleFacts DEF CommitPayment, RequestsFit, Paying
  <2>2. [sale[s] EXCEPT !.paid = seen[r].paid + 1] \in Sale
    BY <1>0, <2>1 DEF Sale
  <2>3. sale' \in [Sales -> Sale]
    BY <1>0, <1>8, <2>2 DEF CommitPayment
  <2>4. allocated' \in [Sales -> Nat]
    BY <1>0, <1>8 DEF CommitPayment
  <2> QED BY <1>0, <1>8, <2>3, <2>4 DEF CommitPayment, Finish, Proceed
<1>9. CASE RollbackPayment(r)
  BY <1>0, <1>9 DEF RollbackPayment, Finish, Proceed, stored, history
<1> QED BY <1>1, <1>2, <1>3, <1>4, <1>5, <1>6, <1>7, <1>8, <1>9 DEF SaleStep

\* What every step of r leaves to the others.
LEMMA SaleFrame ==
  ASSUME SaleTypes, NEW r \in Requests, SaleStep(r)
  PROVE  /\ stage[r] # "done"
         /\ \A q \in Requests \ {r} :
              /\ stage'[q] = stage[q] /\ entity'[q] = entity[q] /\ seen'[q] = seen[q]
              /\ quantity'[q] = quantity[q]
         /\ \A s \in Sales : issued'[s] >= issued[s]
         /\ cancels \in SUBSET cancels'
<1> DEFINE Left == /\ stage[r] # "done"
                   /\ \A q \in Requests \ {r} :
                        /\ stage'[q] = stage[q] /\ entity'[q] = entity[q]
                        /\ seen'[q] = seen[q] /\ quantity'[q] = quantity[q]
           Grown == /\ \A s \in Sales : issued'[s] >= issued[s]
                    /\ cancels \in SUBSET cancels'
<1>0. SaleOf[r] \in Sales /\ \A s \in Sales : issued[s] \in Nat
  BY SaleFacts DEF SaleTypes
<1>1. CASE Read(r)
  BY <1>0, <1>1 DEF Read, Proceed, stored, history, SaleTypes
<1>2. CASE LockStock(r)
  BY <1>0, <1>2 DEF LockStock, Proceed, stored, history, SaleTypes
<1>3. CASE CommitConfirm(r)
  <2>1. Left
    BY <1>3 DEF CommitConfirm, Finish, Proceed, SaleTypes
  <2>2. Grown
    BY <1>0, <1>3 DEF CommitConfirm, history, SaleTypes
  <2> QED BY <2>1, <2>2
<1>4. CASE RollbackConfirm(r)
  BY <1>0, <1>4 DEF RollbackConfirm, Finish, Proceed, stored, history, SaleTypes
<1>5. CASE SaveReads(r)
  BY <1>0, <1>5 DEF SaveReads, Proceed, stored, history, SaleTypes
<1>6. CASE SaveUpdates(r)
  BY <1>0, <1>6 DEF SaveUpdates, Finish, Proceed, history, SaleTypes
<1>7. CASE LockSale(r)
  BY <1>0, <1>7 DEF LockSale, Proceed, stored, history, SaleTypes
<1>8. CASE CommitPayment(r)
  BY <1>0, <1>8 DEF CommitPayment, Finish, Proceed, SaleTypes
<1>9. CASE RollbackPayment(r)
  BY <1>0, <1>9 DEF RollbackPayment, Finish, Proceed, stored, history, SaleTypes
<1> QED BY <1>1, <1>2, <1>3, <1>4, <1>5, <1>6, <1>7, <1>8, <1>9 DEF SaleStep

\* A cancellation that is over stays so, and a second one is not forgotten.
LEMMA CancelsStay ==
  ASSUME SaleTypes, NEW r \in Requests, SaleStep(r), NEW s \in Sales
  PROVE  /\ Cancelled(s) => Cancelled(s)'
         /\ OneCancel(s)' => OneCancel(s)
<1>1. stage[r] # "done" /\ cancels \in SUBSET cancels' /\ cancels \in SUBSET Requests
  BY SaleFrame DEF SaleTypes
<1>2. ASSUME NEW q \in Requests, stage[q] = "done" PROVE stage'[q] = "done"
  BY <1>1, <1>2, SaleFrame
<1> QED BY <1>1, <1>2 DEF Cancelled, OneCancel

\* The sale that a payment has locked is left alone.
LEMMA LockedSaleStays ==
  ASSUME SaleTypes, RequestsFit, NEW r \in Requests, SaleStep(r),
         NEW q \in Requests \ {r}, stage[q] = "pay"
  PROVE  /\ sale'[SaleOf[q]] = sale[SaleOf[q]]
         /\ saleLock'[SaleOf[q]] = q
<1> DEFINE s == SaleOf[r]
           t == SaleOf[q]
<1>0. /\ s \in Sales /\ t \in Sales /\ saleLock[t] = q /\ q # None
      /\ saleLock \in [Sales -> Requests \cup {None}] /\ DOMAIN sale = Sales
  BY SaleFacts DEF RequestsFit, Paying, SaleTypes
<1>1. CASE Read(r) \/ LockStock(r) \/ RollbackConfirm(r) \/ SaveReads(r)
  BY <1>0, <1>1 DEF Read, LockStock, RollbackConfirm, SaveReads, stored, history, locks
<1>2. CASE CommitConfirm(r)
  BY <1>0, <1>2 DEF CommitConfirm
<1>3. CASE SaveUpdates(r)
  BY <1>0, <1>3 DEF SaveUpdates, locks
<1>4. CASE LockSale(r)
  BY <1>0, <1>4 DEF LockSale, stored, history
<1>5. CASE CommitPayment(r) \/ RollbackPayment(r)
  <2>1. saleLock[s] = r
    BY <1>5 DEF CommitPayment, RollbackPayment, RequestsFit, Paying
  <2> QED BY <1>0, <1>5, <2>1 DEF CommitPayment, RollbackPayment, stored, history
<1> QED BY <1>1, <1>2, <1>3, <1>4, <1>5 DEF SaleStep

LEMMA RequestsFitNext ==
  ASSUME SaleTypes, SaleTypes', RequestsFit, RowsFit, NEW r \in Requests, SaleStep(r)
  PROVE  RequestsFit'
<1> DEFINE s == SaleOf[r]
           Fit(q) == /\ stage[q] \in {"stock", "commit"} => Confirming(q)
                     /\ stage[q] \in {"save", "update"}  => Cancelling(q) \/ Fulfilling(q)
                     /\ stage[q] = "pay" => Paying(q)
<1>0. /\ s \in Sales /\ sale[s] \in Sale /\ Op[r] \in Ops
      /\ stage \in [Requests -> {"idle", "stock", "commit", "save", "update", "pay", "done"}]
      /\ entity \in [Requests -> Sale] /\ seen \in [Requests -> Sale]
  BY SaleFacts DEF SaleTypes
<1>1. ASSUME NEW q \in Requests \ {r} PROVE Fit(q)'
  <2>1. /\ stage'[q] = stage[q] /\ entity'[q] = entity[q] /\ seen'[q] = seen[q]
        /\ cancels \in SUBSET cancels' /\ SaleOf[q] \in Sales
        /\ issued'[SaleOf[q]] >= issued[SaleOf[q]]
        /\ issued[SaleOf[q]] \in Nat /\ issued'[SaleOf[q]] \in Nat
        /\ Cancelled(SaleOf[q]) => Cancelled(SaleOf[q])'
    BY SaleFrame, SaleFacts, CancelsStay DEF SaleTypes
  <2>2. Confirming(q) => Confirming(q)'
    BY <2>1 DEF Confirming
  <2>3. Cancelling(q) => Cancelling(q)'
    BY <2>1 DEF Cancelling
  <2>4. Fulfilling(q) => Fulfilling(q)'
    BY <2>1 DEF Fulfilling
  <2>5. stage[q] = "pay" => Paying(q)'
    BY <2>1, LockedSaleStays DEF Paying, RequestsFit
  <2> QED BY <2>1, <2>2, <2>3, <2>4, <2>5 DEF RequestsFit
<1>2. Fit(r)'
  <2>1. CASE Read(r)
    <3>1. /\ Op[r] \in Ops \ {"pay"} /\ Allowed(Op[r], sale[s])
          /\ entity'[r] = Changed(Op[r], sale[s])
          /\ stage'[r] = IF Op[r] = "confirm" THEN "stock" ELSE "save"
          /\ cancels' = IF Op[r] = "cancel" THEN cancels \cup {r} ELSE cancels
      BY <1>0, <2>1 DEF Read, Proceed
    <3>2. CASE Op[r] = "confirm"
      BY <1>0, <3>1, <3>2, ChangedSale DEF Confirming
    <3>3. CASE Op[r] = "cancel"
      <4>1. sale[s].fulfillment = "NULL"
        BY <1>0, <3>1, <3>3 DEF Allowed, RowsFit
      <4>2. Cancelling(r)'
        BY <1>0, <3>1, <3>3, <4>1, ChangedSale DEF Cancelling
      <4> QED BY <3>1, <3>3, <4>2
    <3>4. CASE Op[r] \in {"ship", "deliver"}
      <4>1. sale[s].fulfillment # "NULL"
        BY <3>1, <3>4 DEF Allowed
      <4>2. /\ sale[s].status # "DRAFT" /\ issued[s] > 0
            /\ sale[s].status = "CANCELLED" => Cancelled(s)
        BY <1>0, <4>1 DEF RowsFit
      <4>3. issued'[s] > 0 /\ (Cancelled(s) => Cancelled(s)')
        BY <1>0, <2>1, <4>2, CancelsStay DEF Read, stored, history, SaleStep
      <4>4. Fulfilling(r)'
        BY <1>0, <3>1, <3>4, <4>2, <4>3, ChangedSale DEF Fulfilling
      <4> QED BY <3>1, <3>4, <4>4
    <3> QED BY <3>1, <3>2, <3>3, <3>4 DEF Ops
  <2>2. CASE LockStock(r)
    BY <1>0, <2>2 DEF LockStock, Proceed, stored, history, RequestsFit, Confirming
  <2>3. CASE CommitConfirm(r) \/ RollbackConfirm(r) \/ SaveUpdates(r)
             \/ CommitPayment(r) \/ RollbackPayment(r)
    <3>1. stage'[r] = "done"
      BY <1>0, <2>3 DEF CommitConfirm, RollbackConfirm, SaveUpdates, CommitPayment,
                        RollbackPayment, Finish, Proceed
    <3> QED BY <3>1
  <2>4. CASE SaveReads(r)
    <3>1. stage[r] = "save" /\ stage'[r] = "update" /\ entity' = entity
          /\ issued' = issued /\ cancels' = cancels
      BY <1>0, <2>4 DEF SaveReads, Proceed, stored, history
    <3>2. Cancelled(s) => Cancelled(s)'
      BY <1>0, <2>4, CancelsStay DEF SaleStep
    <3>3. Cancelling(r) \/ Fulfilling(r)
      BY <3>1 DEF RequestsFit
    <3>4. Cancelling(r)' \/ Fulfilling(r)'
      BY <3>1, <3>2, <3>3 DEF Cancelling, Fulfilling
    <3> QED BY <3>1, <3>4
  <2>5. CASE LockSale(r)
    <3>1. /\ Op[r] = "pay" /\ saleLock'[s] = r /\ seen'[r] = sale[s] /\ sale' = sale
          /\ sale[s].paid + 1 <= SaleTotal /\ stage'[r] = "pay"
      BY <1>0, <2>5 DEF LockSale, Proceed, stored, history, SaleTypes
    <3> QED BY <3>1 DEF Paying
  <2> QED BY <2>1, <2>2, <2>3, <2>4, <2>5 DEF SaleStep
<1>3. \A q \in Requests : Fit(q)'
  BY <1>1, <1>2
<1> QED BY <1>3 DEF RequestsFit

LEMMA StockHeldNext ==
  ASSUME SaleTypes, StockHeld, NEW r \in Requests, SaleStep(r)
  PROVE  StockHeld'
<1> DEFINE Held(q) ==
      stage[q] = "commit" => stockLock = q /\ quantity[q] = onHand /\ onHand >= PerSale
<1>0. /\ stage \in [Requests -> {"idle", "stock", "commit", "save", "update", "pay", "done"}]
      /\ quantity \in [Requests -> Nat] /\ r # None
      /\ \A q \in Requests \ {r} : stage'[q] = stage[q] /\ quantity'[q] = quantity[q]
  BY SaleFacts, SaleFrame DEF SaleTypes
<1>1. CASE LockStock(r)
  <2>1. /\ stockLock = None /\ stockLock' = r /\ quantity'[r] = onHand /\ onHand' = onHand
        /\ onHand >= PerSale
    BY <1>0, <1>1 DEF LockStock, stored, history
  <2>2. \A q \in Requests \ {r} : stage[q] # "commit"
    BY <2>1, SaleFacts DEF StockHeld
  <2>3. \A q \in Requests : Held(q)'
    BY <1>0, <2>1, <2>2
  <2> QED BY <2>3 DEF StockHeld
<1>2. CASE CommitConfirm(r)
  <2>1. stage[r] = "commit" /\ stage'[r] = "done" /\ stockLock = r
    BY <1>0, <1>2 DEF CommitConfirm, Finish, Proceed, StockHeld
  <2>2. \A q \in Requests : stage'[q] # "commit"
    BY <1>0, <2>1 DEF StockHeld
  <2> QED BY <2>2 DEF StockHeld
<1>3. CASE RollbackConfirm(r)
  <2>1. stage'[r] = "done" /\ onHand' = onHand
        /\ stockLock' = IF stockLock = r THEN None ELSE stockLock
    BY <1>0, <1>3 DEF RollbackConfirm, Finish, Proceed, stored, history
  <2>2. \A q \in Requests : Held(q)'
    BY <1>0, <2>1 DEF StockHeld
  <2> QED BY <2>2 DEF StockHeld
<1>4. CASE Read(r) \/ SaveReads(r) \/ SaveUpdates(r) \/ LockSale(r)
           \/ CommitPayment(r) \/ RollbackPayment(r)
  <2>1. stage'[r] # "commit" /\ onHand' = onHand /\ stockLock' = stockLock
    BY <1>0, <1>4 DEF Read, SaveReads, SaveUpdates, LockSale, CommitPayment,
                      RollbackPayment, Finish, Proceed, stored, history, locks
  <2>2. \A q \in Requests : Held(q)'
    BY <1>0, <2>1 DEF StockHeld
  <2> QED BY <2>2 DEF StockHeld
<1> QED BY <1>1, <1>2, <1>3, <1>4 DEF SaleStep

\* What one UPDATE makes of the row, by who writes it.
LEMMA SavedRow ==
  ASSUME SaleTypes, RequestsFit, RowsFit, ReadsFit, NEW r \in Requests,
         stage[r] \in {"commit", "update"},
         NEW row, row = Save(sale[SaleOf[r]], entity[r], seen[r])
  PROVE  LET s == SaleOf[r] IN
         /\ row.status = "DRAFT" => row.fulfillment = "NULL" /\ sale[s].status = "DRAFT"
         /\ row.status = "CANCELLED" =>
              Cancelled(s) \/ (stage[r] = "update" /\ r \in cancels)
         /\ row.fulfillment # "NULL" \/ row.status = "CONFIRMED"
              => stage[r] = "commit" \/ issued[s] > 0
         /\ row.status = "CONFIRMED" /\ OneCancel(s) => row.fulfillment # "NULL"
         /\ row.fulfillment = "NULL" /\ sale[s].fulfillment # "NULL" => Cancelling(r)
<1> DEFINE s == SaleOf[r]
<1>0. /\ s \in Sales /\ sale[s] \in Sale /\ entity[r] \in Sale /\ seen[r] \in Sale
  BY SaleFacts DEF SaleTypes
<1>1. /\ row.status = IF entity[r].status # seen[r].status
                      THEN entity[r].status ELSE sale[s].status
      /\ row.fulfillment = IF entity[r].fulfillment # seen[r].fulfillment
                           THEN entity[r].fulfillment ELSE sale[s].fulfillment
  BY <1>0, SaveIs
<1>2. /\ sale[s].status \in SaleStatus /\ seen[r].status \in SaleStatus
      /\ sale[s].fulfillment \in Fulfillment
  BY <1>0, SaleRecord
<1>3. /\ sale[s].status = "DRAFT" => sale[s].fulfillment = "NULL"
      /\ sale[s].status = "CANCELLED" => Cancelled(s)
      /\ sale[s].fulfillment # "NULL" \/ sale[s].status = "CONFIRMED" => issued[s] > 0
      /\ sale[s].status = "CONFIRMED" /\ OneCancel(s) => sale[s].fulfillment # "NULL"
  BY <1>0 DEF RowsFit
<1>4. /\ seen[r].status = "DRAFT" => seen[r].fulfillment = "NULL"
      /\ seen[r].status # "DRAFT" => sale[s].status # "DRAFT"
      /\ seen[r].status = "CANCELLED" => Cancelled(s)
      /\ seen[r].status = "CANCELLED" /\ seen[r].fulfillment # "NULL" /\ OneCancel(s)
           => sale[s].fulfillment # "NULL"
  BY DEF ReadsFit
<1>5. CASE stage[r] = "commit"
  <2>1. entity[r].status = "CONFIRMED" /\ entity[r].fulfillment = "PENDING_SHIPMENT"
    BY <1>5 DEF RequestsFit, Confirming
  <2> QED BY <1>1, <1>2, <1>3, <1>4, <1>5, <2>1 DEF SaleStatus
<1>6. CASE stage[r] = "update" /\ Cancelling(r)
  <2>1. entity[r].status = "CANCELLED" /\ entity[r].fulfillment = "NULL" /\ r \in cancels
    BY <1>6 DEF Cancelling
  <2>2. OneCancel(s) => ~Cancelled(s)
    BY <1>6, <2>1 DEF OneCancel, Cancelled
  <2> QED BY <1>1, <1>2, <1>3, <1>4, <1>6, <2>1, <2>2 DEF SaleStatus
<1>7. CASE stage[r] = "update" /\ Fulfilling(r)
  <2>1. /\ entity[r].status # "DRAFT" /\ entity[r].fulfillment # "NULL" /\ issued[s] > 0
        /\ entity[r].status = "CANCELLED" => Cancelled(s)
    BY <1>7 DEF Fulfilling
  <2> QED BY <1>1, <1>2, <1>3, <1>4, <1>7, <2>1 DEF SaleStatus
<1> QED BY <1>5, <1>6, <1>7 DEF RequestsFit

\* The sales rows that a step does not save keep their statuses.
LEMMA OtherRows ==
  ASSUME SaleTypes, NEW r \in Requests, SaleStep(r), NEW s \in Sales,
         ~(stage[r] \in {"commit", "update"} /\ s = SaleOf[r] /\ sale' # sale)
  PROVE  sale'[s].status = sale[s].status /\ sale'[s].fulfillment = sale[s].fulfillment
<1>0. DOMAIN sale = Sales /\ SaleOf[r] \in Sales /\ sale[s] \in Sale
  BY SaleFacts DEF SaleTypes
<1>1. CASE Read(r) \/ LockStock(r) \/ RollbackConfirm(r) \/ SaveReads(r)
           \/ LockSale(r) \/ RollbackPayment(r)
  BY <1>1 DEF Read, LockStock, RollbackConfirm, SaveReads, LockSale, RollbackPayment, stored, history
<1>2. CASE CommitConfirm(r) \/ SaveUpdates(r)
  BY <1>0, <1>2 DEF CommitConfirm, SaveUpdates
<1>3. CASE CommitPayment(r)
  <2>1. sale'[s] = sale[s] \/ sale'[s] = [sale[s] EXCEPT !.paid = seen[r].paid + 1]
    BY <1>0, <1>3 DEF CommitPayment
  <2> QED BY <1>0, <2>1 DEF Sale
<1> QED BY <1>1, <1>2, <1>3 DEF SaleStep

\* A step that saves a row commits a confirmation or updates.
LEMMA SavingStep ==
  ASSUME SaleTypes, RequestsFit, NEW r \in Requests, SaleStep(r),
         stage[r] \in {"commit", "update"}, sale' # sale
  PROVE  /\ CommitConfirm(r) \/ SaveUpdates(r)
         /\ sale'[SaleOf[r]] = Save(sale[SaleOf[r]], entity[r], seen[r])
         /\ stage'[r] = "done" /\ cancels' = cancels
<1>0. SaleOf[r] \in Sales /\ DOMAIN sale = Sales /\ DOMAIN stage = Requests
  BY SaleFacts DEF SaleTypes
<1>1. CommitConfirm(r) \/ SaveUpdates(r)
  BY DEF SaleStep, Read, LockStock, RollbackConfirm, SaveReads, LockSale,
         CommitPayment, RollbackPayment, stored, history
<1> QED BY <1>0, <1>1 DEF CommitConfirm, SaveUpdates, Finish, Proceed, history

LEMMA EarnedStep ==
  ASSUME SaleTypes, NEW r \in Requests, SaleStep(r)
  PROVE  \/ earned' = earned
         \/ earned' = earned \cup {SaleOf[r]} /\ issued'[SaleOf[r]] > 0
<1>0. SaleOf[r] \in Sales /\ issued \in [Sales -> Nat]
  BY SaleFacts DEF SaleTypes
<1>1. CASE CommitConfirm(r)
  BY <1>0, <1>1 DEF CommitConfirm
<1> QED BY <1>1 DEF SaleStep, Read, LockStock, RollbackConfirm, SaveReads, SaveUpdates,
                    LockSale, CommitPayment, RollbackPayment, stored, history

LEMMA CommitIssues ==
  ASSUME SaleTypes, NEW r \in Requests, CommitConfirm(r)
  PROVE  issued'[SaleOf[r]] > 0
<1>0. SaleOf[r] \in Sales /\ issued \in [Sales -> Nat]
  BY SaleFacts DEF SaleTypes
<1> QED BY <1>0 DEF CommitConfirm

LEMMA RowsFitNext ==
  ASSUME SaleTypes, RequestsFit, RowsFit, ReadsFit, NEW r \in Requests, SaleStep(r)
  PROVE  RowsFit'
<1> DEFINE RowFits(s) ==
      /\ sale[s].status = "DRAFT" => sale[s].fulfillment = "NULL"
      /\ sale[s].status = "CANCELLED" => Cancelled(s)
      /\ sale[s].fulfillment # "NULL" \/ sale[s].status = "CONFIRMED" \/ s \in earned
           => issued[s] > 0
      /\ sale[s].status = "CONFIRMED" /\ OneCancel(s) => sale[s].fulfillment # "NULL"
<1> SUFFICES ASSUME NEW s \in Sales PROVE RowFits(s)'
  BY DEF RowsFit
<1>1. /\ Cancelled(s) => Cancelled(s)'
      /\ OneCancel(s)' => OneCancel(s)
      /\ issued[s] > 0 => issued'[s] > 0
      /\ s \in earned' => issued'[s] > 0
  <2>1. issued'[s] >= issued[s] /\ issued[s] \in Nat /\ issued'[s] \in Int
    <3>1. issued'[s] >= issued[s] /\ issued[s] \in Nat
      BY SaleFrame DEF SaleTypes
    <3>2. issued' = issued \/ issued' = [issued EXCEPT ![SaleOf[r]] = @ + 1]
      BY DEF SaleStep, Read, LockStock, CommitConfirm, RollbackConfirm, SaveReads,
             SaveUpdates, LockSale, CommitPayment, RollbackPayment, stored, history
    <3> QED BY <3>1, <3>2 DEF SaleTypes
  <2>2. s \in earned => issued[s] > 0
    BY DEF RowsFit
  <2> QED BY <2>1, <2>2, CancelsStay, EarnedStep
<1>2. CASE stage[r] \in {"commit", "update"} /\ s = SaleOf[r] /\ sale' # sale
  <2>1. /\ CommitConfirm(r) \/ SaveUpdates(r)
        /\ sale'[s] = Save(sale[s], entity[r], seen[r])
        /\ stage'[r] = "done" /\ cancels' = cancels
    BY <1>2, SavingStep
  <2>2. /\ sale'[s].status = "DRAFT" => sale'[s].fulfillment = "NULL"
        /\ sale'[s].status = "CANCELLED" =>
             Cancelled(s) \/ (stage[r] = "update" /\ r \in cancels)
        /\ sale'[s].fulfillment # "NULL" \/ sale'[s].status = "CONFIRMED"
             => stage[r] = "commit" \/ issued[s] > 0
        /\ sale'[s].status = "CONFIRMED" /\ OneCancel(s) => sale'[s].fulfillment # "NULL"
    BY <1>2, <2>1, SavedRow
  <2>3. r \in cancels => Cancelled(s)'
    BY <1>2, <2>1 DEF Cancelled
  <2>4. stage[r] = "commit" => issued'[s] > 0
    BY <1>2, <2>1, CommitIssues DEF SaveUpdates
  <2> QED BY <1>1, <2>2, <2>3, <2>4
<1>3. CASE ~(stage[r] \in {"commit", "update"} /\ s = SaleOf[r] /\ sale' # sale)
  <2>1. sale'[s].status = sale[s].status /\ sale'[s].fulfillment = sale[s].fulfillment
    BY <1>3, OtherRows
  <2>2. RowFits(s)
    BY DEF RowsFit
  <2> QED BY <1>1, <2>1, <2>2
<1> QED BY <1>2, <1>3

LEMMA ReadsFitNext ==
  ASSUME SaleTypes, RequestsFit, RowsFit, ReadsFit, NEW r \in Requests, SaleStep(r)
  PROVE  ReadsFit'
<1> DEFINE Reads(q) ==
      /\ seen[q].status = "DRAFT" => seen[q].fulfillment = "NULL"
      /\ seen[q].status # "DRAFT" => sale[SaleOf[q]].status # "DRAFT"
      /\ seen[q].status = "CANCELLED" => Cancelled(SaleOf[q])
      /\ seen[q].status = "CANCELLED" /\ seen[q].fulfillment # "NULL" /\ OneCancel(SaleOf[q])
           => sale[SaleOf[q]].fulfillment # "NULL"
<1> SUFFICES ASSUME NEW q \in Requests, stage'[q] \in {"commit", "update"} PROVE Reads(q)'
  BY DEF ReadsFit
<1> DEFINE s == SaleOf[q]
<1>0. /\ s \in Sales
      /\ Cancelled(s) => Cancelled(s)'
      /\ OneCancel(s)' => OneCancel(s)
      /\ stage \in [Requests -> {"idle", "stock", "commit", "save", "update", "pay", "done"}]
      /\ seen \in [Requests -> Sale]
  BY SaleFacts, CancelsStay DEF SaleTypes
<1>1. CASE q = r
  <2>1. sale' = sale /\ seen'[r] = sale[s]
    BY <1>0, <1>1 DEF SaleStep, Read, LockStock, CommitConfirm, RollbackConfirm, SaveReads,
         SaveUpdates, LockSale, CommitPayment, RollbackPayment, stored, history, Proceed, Finish
  <2>2. /\ sale[s].status = "DRAFT" => sale[s].fulfillment = "NULL"
        /\ sale[s].status = "CANCELLED" => Cancelled(s)
    BY <1>0 DEF RowsFit
  <2> QED BY <1>0, <1>1, <2>1, <2>2
<1>2. CASE q # r
  <2>1. stage[q] = stage'[q] /\ seen'[q] = seen[q]
    BY <1>2, SaleFrame
  <2>2. Reads(q)
    BY <2>1 DEF ReadsFit
  <2>3. CASE stage[r] \in {"commit", "update"} /\ s = SaleOf[r] /\ sale' # sale
    <3>1. /\ sale'[s] = Save(sale[s], entity[r], seen[r])
      BY <2>3, SavingStep
    <3>2. /\ sale'[s].status = "DRAFT" => sale[s].status = "DRAFT"
          /\ sale'[s].fulfillment = "NULL" /\ sale[s].fulfillment # "NULL" => Cancelling(r)
      BY <2>3, <3>1, SavedRow
    <3>3. Cancelling(r) /\ Cancelled(s) => ~OneCancel(s)
      BY <2>3 DEF Cancelling, Cancelled, OneCancel
    <3> QED BY <1>0, <2>1, <2>2, <3>2, <3>3
  <2>4. CASE ~(stage[r] \in {"commit", "update"} /\ s = SaleOf[r] /\ sale' # sale)
    <3>1. sale'[s].status = sale[s].status /\ sale'[s].fulfillment = sale[s].fulfillment
      BY <1>0, <2>4, OtherRows
    <3> QED BY <1>0, <2>1, <2>2, <3>1
  <2> QED BY <2>3, <2>4
<1> QED BY <1>1, <1>2

LEMMA SaleInvInit ==
  ASSUME SaleInit PROVE SaleInv
<1>1. SaleTypes
  BY SaleFacts, DraftSale DEF SaleInit, SaleTypes
<1>2. RequestsFit /\ StockHeld /\ ReadsFit
  BY DEF SaleInit, RequestsFit, StockHeld, ReadsFit
<1>3. RowsFit
  BY DEF SaleInit, RowsFit, Draft
<1> QED BY <1>1, <1>2, <1>3 DEF SaleInv

LEMMA SaleInvNext ==
  ASSUME SaleInv, [SaleNext]_saleVars PROVE SaleInv'
<1> USE DEF SaleInv
<1>1. ASSUME NEW r \in Requests, SaleStep(r) PROVE SaleInv'
  <2>1. SaleTypes'
    BY <1>1, SaleTypesNext
  <2>2. RequestsFit' /\ StockHeld' /\ RowsFit' /\ ReadsFit'
    BY <1>1, <2>1, RequestsFitNext, StockHeldNext, RowsFitNext, ReadsFitNext
  <2> QED BY <2>1, <2>2
<1>2. CASE UNCHANGED saleVars
  <2>1. SaleTypes' /\ StockHeld'
    BY <1>2 DEF saleVars, stored, history, locks, working, SaleTypes, StockHeld
  <2>2. RequestsFit' /\ RowsFit' /\ ReadsFit'
    BY <1>2 DEF saleVars, stored, history, locks, working, RequestsFit, RowsFit, ReadsFit,
                Confirming, Cancelling, Fulfilling, Paying, Cancelled, OneCancel
  <2> QED BY <2>1, <2>2
<1> QED BY <1>1, <1>2 DEF SaleNext, SaleStep

LEMMA SaleInvariant == SaleSpec => []SaleInv
<1>1. SaleInit => SaleInv
  BY SaleInvInit
<1>2. SaleInv /\ [SaleNext]_saleVars => SaleInv'
  BY SaleInvNext
<1> QED BY <1>1, <1>2, PTL DEF SaleSpec

\* What is shipped, CONFIRMED or has earned points was issued from stock, and no stale
\* save() of confirm(), cancel(), ship() or deliver() takes the fulfillment status from a
\* CONFIRMED sale, unless two cancellations have read it as a draft.
THEOREM SaleConfirmedWasIssued == SaleSpec => []ConfirmedWasIssued
<1>1. SaleInv => ConfirmedWasIssued
  BY DEF SaleInv, RowsFit, ConfirmedWasIssued, OneCancel
<1> QED BY <1>1, SaleInvariant, PTL

-----------------------------------------------------------------------------
\* What the sales have issued and been paid, step by step.
LEMMA TotalBump ==
  ASSUME NEW S, IsFiniteSet(S), NEW f, NEW g, NEW x \in S, \A y \in S : f[y] \in Int,
         g[x] = f[x] + 1, \A y \in S \ {x} : g[y] = f[y]
  PROVE  Total(g, S) = Total(f, S) + 1
<1> DEFINE R == S \ {x}
<1>1. IsFiniteSet(R) /\ \A y \in R : g[y] = f[y]
  BY FS_Subset
<1>2. Total(g, R) = Total(f, R)
  <2> HIDE DEF R
  <2> QED BY <1>1, TotalSame
<1>3. (\A y \in S : f[y] \in Int /\ g[y] \in Int) /\ g[x] = f[x] + 1
  OBVIOUS
<1>4. Total(f, S) = Total(f, R) + f[x] /\ Total(g, S) = Total(g, R) + g[x]
  BY <1>3, TotalRemove
<1>5. Total(f, R) \in Int
  <2>1. \A y \in R : f[y] \in Int
    OBVIOUS
  <2> HIDE DEF R
  <2> QED BY <1>1, <2>1, TotalInt
<1> QED BY <1>2, <1>3, <1>4, <1>5

\* What was issued and what is left are what there was.
UnitsKept == onHand + PerSale * SumFunctionOnSet(issued, Sales) = Opening

LEMMA UnitsKeptNext ==
  ASSUME SaleInv, UnitsKept, [SaleNext]_saleVars PROVE UnitsKept'
<1> DEFINE T == SumFunctionOnSet(issued, Sales)
<1>1. T \in Int
  <2>1. \A s \in Sales : issued[s] \in Int
    BY DEF SaleInv, SaleTypes
  <2> QED BY <2>1, TotalInt, SalesAssumption DEF Total
<1>2. ASSUME NEW r \in Requests, CommitConfirm(r) PROVE UnitsKept'
  <2>1. onHand' = onHand - PerSale /\ onHand \in Nat
    BY <1>2 DEF CommitConfirm, SaleInv, SaleTypes, StockHeld
  <2>2. issued' = [issued EXCEPT ![SaleOf[r]] = @ + 1] /\ issued \in [Sales -> Int]
        /\ SaleOf[r] \in Sales
    BY <1>2, SaleFacts DEF CommitConfirm, SaleInv, SaleTypes
  <2>3. SumFunctionOnSet(issued', Sales) = T + 1
    <3>1. /\ \A s \in Sales : issued[s] \in Int
          /\ issued'[SaleOf[r]] = issued[SaleOf[r]] + 1
          /\ \A s \in Sales \ {SaleOf[r]} : issued'[s] = issued[s]
      BY <2>2
    <3> QED BY <2>2, <3>1, TotalBump, SalesAssumption DEF Total
  <2>4. PerSale * (T + 1) = PerSale * T + PerSale /\ PerSale * T \in Int
    <3> HIDE DEF T
    <3> QED BY <1>1, SaleFacts
  <2>5. onHand + PerSale * T = Opening
    BY DEF UnitsKept
  <2>6. onHand' + PerSale * (T + 1) = Opening
    <3> HIDE DEF T
    <3> QED BY <2>1, <2>4, <2>5, SaleFacts
  <2> QED BY <2>3, <2>6 DEF UnitsKept
<1>3. ASSUME NEW r \in Requests, SaleStep(r), ~CommitConfirm(r)
      PROVE  onHand' = onHand /\ issued' = issued
  BY <1>3 DEF SaleStep, Read, LockStock, RollbackConfirm, SaveReads, SaveUpdates,
              LockSale, CommitPayment, RollbackPayment, stored, history
<1>4. CASE UNCHANGED saleVars
  BY <1>4 DEF saleVars, stored, history, UnitsKept
<1> QED BY <1>2, <1>3, <1>4 DEF SaleNext, SaleStep, UnitsKept

\* A sale that had one confirmation at a time has one open at most, is issued once,
\* and is no draft any more when it is.
OnceFits ==
  \A s \in Sales \ doubled :
    /\ \A p, q \in Confirmations(s) : p = q
    /\ issued[s] <= 1
    /\ issued[s] > 0 => Confirmations(s) = {} /\ sale[s].status # "DRAFT"

\* No step makes a draft of a sale that was none.
LEMMA NoDraftAgain ==
  ASSUME SaleInv, NEW r \in Requests, SaleStep(r), NEW s \in Sales,
         sale'[s].status = "DRAFT"
  PROVE  sale[s].status = "DRAFT"
<1> USE DEF SaleInv
<1>1. CASE stage[r] \in {"commit", "update"} /\ s = SaleOf[r] /\ sale' # sale
  <2>1. sale'[s] = Save(sale[s], entity[r], seen[r])
    BY <1>1, SavingStep
  <2> QED BY <1>1, <2>1, SavedRow
<1>2. CASE ~(stage[r] \in {"commit", "update"} /\ s = SaleOf[r] /\ sale' # sale)
  BY <1>2, OtherRows
<1> QED BY <1>1, <1>2

LEMMA OnceFitsNext ==
  ASSUME SaleInv, OnceFits, [SaleNext]_saleVars PROVE OnceFits'
<1> DEFINE Once(s) ==
      /\ \A p, q \in Confirmations(s) : p = q
      /\ issued[s] <= 1
      /\ issued[s] > 0 => Confirmations(s) = {} /\ sale[s].status # "DRAFT"
<1>1. ASSUME NEW r \in Requests, SaleStep(r), NEW s \in Sales \ doubled' PROVE Once(s)'
  <2>0. /\ stage \in [Requests -> {"idle", "stock", "commit", "save", "update", "pay", "done"}]
        /\ issued \in [Sales -> Nat] /\ SaleOf[r] \in Sales /\ s \in Sales
        /\ RequestsFit /\ ReadsFit /\ SaleTypes
    BY SaleFacts DEF SaleInv, SaleTypes
  <2>1. s \notin doubled
    BY <1>1 DEF SaleStep, Read, LockStock, CommitConfirm, RollbackConfirm, SaveReads,
         SaveUpdates, LockSale, CommitPayment, RollbackPayment, history
  <2>2. Once(s)
    BY <2>1 DEF OnceFits
  <2>3. sale'[s].status = "DRAFT" => sale[s].status = "DRAFT"
    BY <1>1, NoDraftAgain
  <2>4. \A q \in Requests \ {r} : stage'[q] = stage[q]
    BY <1>1, <2>0, SaleFrame
  <2>5. CASE Read(r) /\ Op[r] = "confirm" /\ SaleOf[r] = s
    <3>1. Confirmations(s) = {} /\ sale[s].status = "DRAFT" /\ issued' = issued
      BY <1>1, <2>5 DEF Read, stored, Allowed
    <3>2. Confirmations(s)' \in SUBSET {r}
      BY <2>4, <3>1 DEF Confirmations
    <3>3. issued[s] = 0
      BY <2>0, <2>2, <3>1
    <3> QED BY <3>1, <3>2, <3>3
  <2>6. CASE CommitConfirm(r) /\ SaleOf[r] = s
    <3>1. /\ stage[r] = "commit" /\ stage'[r] = "done" /\ issued'[s] = issued[s] + 1
          /\ sale'[s] = Save(sale[s], entity[r], seen[r])
      BY <2>0, <2>6 DEF CommitConfirm, Finish, Proceed, SaleTypes
    <3>2. r \in Confirmations(s) /\ entity[r].status = "CONFIRMED"
      BY <2>0, <2>6, <3>1 DEF Confirmations, RequestsFit, Confirming
    <3>3. Confirmations(s)' = {}
      BY <2>2, <2>4, <3>1, <3>2 DEF Confirmations
    <3>4. issued[s] = 0
      BY <2>0, <2>2, <3>2
    <3>5. sale'[s].status # "DRAFT"
      <4>1. sale'[s].status =
              IF entity[r].status # seen[r].status THEN entity[r].status ELSE sale[s].status
        BY <2>0, <3>1, SaveIs DEF SaleTypes
      <4>2. seen[r].status # "DRAFT" => sale[s].status # "DRAFT"
        BY <2>0, <2>6, <3>1 DEF ReadsFit
      <4> QED BY <3>2, <4>1, <4>2
    <3> QED BY <3>1, <3>3, <3>4, <3>5
  <2>7. CASE ~(Read(r) /\ Op[r] = "confirm" /\ SaleOf[r] = s)
             /\ ~(CommitConfirm(r) /\ SaleOf[r] = s)
    <3>1. issued'[s] = issued[s]
      BY <1>1, <2>0, <2>7 DEF SaleStep, Read, LockStock, CommitConfirm, RollbackConfirm,
           SaveReads, SaveUpdates, LockSale, CommitPayment, RollbackPayment, stored
    <3>2. r \in Confirmations(s)' => r \in Confirmations(s)
      BY <1>1, <2>0, <2>7 DEF SaleStep, Read, LockStock, CommitConfirm, RollbackConfirm,
           SaveReads, SaveUpdates, LockSale, CommitPayment, RollbackPayment, Finish,
           Proceed, Confirmations
    <3>3. Confirmations(s)' \in SUBSET Confirmations(s)
      BY <2>4, <3>2 DEF Confirmations
    <3> QED BY <2>2, <2>3, <3>1, <3>3
  <2> QED BY <2>5, <2>6, <2>7
<1>2. CASE UNCHANGED saleVars
  BY <1>2 DEF saleVars, stored, history, OnceFits, Confirmations
<1>3. ASSUME NEW r \in Requests, SaleStep(r) PROVE OnceFits'
  BY <1>1, <1>3 DEF OnceFits
<1> QED BY <1>2, <1>3 DEF SaleNext, SaleStep

\* Units leave the stock only through a recorded issue and never more than there are,
\* whichever confirmations compete for the last of them under the lock of the stock row;
\* and no stale save() lets a sale be confirmed again, so that its units leave the stock
\* once but for confirmations of it that were under way at one time.
THEOREM SaleStockAccounted == SaleSpec => []StockAccounted
<1>1. SaleInit => UnitsKept
  <2> SUFFICES ASSUME SaleInit PROVE UnitsKept
    OBVIOUS
  <2>1. \A s \in Sales : issued[s] = 0 * issued[s] /\ issued[s] \in Int
    BY DEF SaleInit
  <2>2. Total(issued, Sales) = 0 * Total(issued, Sales)
    BY <2>1, TotalTimes, SalesAssumption
  <2>3. Total(issued, Sales) \in Int
    BY <2>1, TotalInt, SalesAssumption
  <2>4. Total(issued, Sales) = 0
    BY <2>2, <2>3
  <2> QED BY <2>4, SaleFacts DEF UnitsKept, SaleInit, Total
<1>2. SaleInit => OnceFits
  BY DEF SaleInit, OnceFits, Confirmations
<1>3. SaleInv /\ UnitsKept /\ [SaleNext]_saleVars => UnitsKept'
  BY UnitsKeptNext
<1>4. SaleInv /\ OnceFits /\ [SaleNext]_saleVars => OnceFits'
  BY OnceFitsNext
<1>5. SaleInv /\ UnitsKept /\ OnceFits => StockAccounted
  BY DEF SaleInv, SaleTypes, UnitsKept, OnceFits, StockAccounted
<1> QED BY <1>1, <1>2, <1>3, <1>4, <1>5, SaleInvariant, PTL DEF SaleSpec

\* What was paid is what was allocated, and a request that saves the sale has made its
\* entity of the same paidAmount that its save() finds, or will find.
PaidFits ==
  \A s \in Sales \ overtaken :
    /\ sale[s].paid = allocated[s]
    /\ \A q \in Requests : SaleOf[q] = s =>
         /\ stage[q] \in {"stock", "save"} => entity[q].paid = sale[s].paid
         /\ stage[q] \in {"commit", "update"} => entity[q].paid = seen[q].paid

LEMMA PaidFitsNext ==
  ASSUME SaleInv, PaidFits, [SaleNext]_saleVars PROVE PaidFits'
<1> DEFINE Current(q, s) ==
      /\ stage[q] \in {"stock", "save"} => entity[q].paid = sale[s].paid
      /\ stage[q] \in {"commit", "update"} => entity[q].paid = seen[q].paid
<1>1. ASSUME NEW r \in Requests, SaleStep(r), NEW s \in Sales \ overtaken'
      PROVE  /\ (sale[s].paid = allocated[s])'
             /\ \A q \in Requests : SaleOf[q] = s => Current(q, s)'
  <2>0. /\ stage \in [Requests -> {"idle", "stock", "commit", "save", "update", "pay", "done"}]
        /\ sale \in [Sales -> Sale] /\ allocated \in [Sales -> Nat] /\ SaleOf[r] \in Sales
        /\ entity \in [Requests -> Sale] /\ seen \in [Requests -> Sale] /\ s \in Sales
        /\ RequestsFit /\ SaleTypes
    BY SaleFacts DEF SaleInv, SaleTypes
  <2>1. s \notin overtaken
    BY <1>1 DEF SaleStep, Read, LockStock, CommitConfirm, RollbackConfirm, SaveReads,
         SaveUpdates, LockSale, CommitPayment, RollbackPayment, history
  <2>2. /\ sale[s].paid = allocated[s]
        /\ \A q \in Requests : SaleOf[q] = s => Current(q, s)
    BY <2>1 DEF PaidFits
  <2>3. \A q \in Requests \ {r} :
          stage'[q] = stage[q] /\ entity'[q] = entity[q] /\ seen'[q] = seen[q]
    BY <1>1, <2>0, SaleFrame
  <2>4. CASE CommitPayment(r) /\ SaleOf[r] = s
    <3>1. /\ seen[r] = sale[s] /\ sale'[s].paid = seen[r].paid + 1
          /\ allocated'[s] = allocated[s] + 1 /\ stage'[r] = "done"
      BY <2>0, <2>4 DEF CommitPayment, RequestsFit, Paying, Sale, Finish, Proceed
    <3>2. Readers(s) = {}
      BY <1>1, <2>4 DEF CommitPayment
    <3>3. \A q \in Requests : SaleOf[q] = s => stage'[q] \notin {"stock", "save"}
      BY <2>3, <3>1, <3>2 DEF Readers
    <3> QED BY <2>2, <2>3, <3>1, <3>3
  <2>5. CASE (CommitConfirm(r) \/ SaveUpdates(r)) /\ SaleOf[r] = s
    <3>1. /\ sale'[s] = Save(sale[s], entity[r], seen[r]) /\ allocated' = allocated
          /\ stage[r] \in {"commit", "update"} /\ stage'[r] = "done"
      BY <2>0, <2>5 DEF CommitConfirm, SaveUpdates, Finish, Proceed
    <3>2. entity[r].paid = seen[r].paid
      BY <2>2, <2>5, <3>1
    <3>3. sale'[s].paid = sale[s].paid
      BY <2>0, <3>1, <3>2, SaveIs
    <3> QED BY <2>2, <2>3, <3>1, <3>3
  <2>6. CASE Read(r) /\ SaleOf[r] = s
    <3>1. /\ Op[r] \in Ops \ {"pay"} /\ entity'[r] = Changed(Op[r], sale[s])
          /\ stage'[r] \in {"stock", "save"} /\ sale' = sale /\ allocated' = allocated
      BY <2>0, <2>6, SaleFacts DEF Read, Proceed, stored
    <3>2. entity'[r].paid = sale'[s].paid
      BY <2>0, <3>1, ChangedSale
    <3> QED BY <2>2, <2>3, <3>1, <3>2
  <2>7. CASE (LockStock(r) \/ SaveReads(r)) /\ SaleOf[r] = s
    <3>1. /\ stage[r] \in {"stock", "save"} /\ stage'[r] \in {"commit", "update"}
          /\ entity' = entity /\ seen'[r] = sale[s] /\ sale' = sale /\ allocated' = allocated
      BY <2>0, <2>7 DEF LockStock, SaveReads, Proceed, stored
    <3> QED BY <2>2, <2>3, <2>7, <3>1
  <2>8. CASE (RollbackConfirm(r) \/ LockSale(r) \/ RollbackPayment(r)) /\ SaleOf[r] = s
    <3>1. stage'[r] \in {"done", "pay"} /\ sale' = sale /\ allocated' = allocated
      BY <2>0, <2>8 DEF RollbackConfirm, LockSale, RollbackPayment, Finish, Proceed, stored
    <3> QED BY <2>2, <2>3, <3>1
  <2>9. CASE SaleOf[r] # s
    <3>1. sale'[s] = sale[s] /\ allocated'[s] = allocated[s]
      BY <1>1, <2>0, <2>9 DEF SaleStep, Read, LockStock, CommitConfirm, RollbackConfirm,
           SaveReads, SaveUpdates, LockSale, CommitPayment, RollbackPayment, stored
    <3> QED BY <2>2, <2>3, <2>9, <3>1
  <2> QED BY <1>1, <2>4, <2>5, <2>6, <2>7, <2>8, <2>9 DEF SaleStep
<1>2. CASE UNCHANGED saleVars
  BY <1>2 DEF saleVars, stored, history, working, PaidFits
<1>3. ASSUME NEW r \in Requests, SaleStep(r) PROVE PaidFits'
  BY <1>1, <1>3 DEF PaidFits
<1> QED BY <1>2, <1>3 DEF SaleNext, SaleStep

\* The paidAmount of a sale is the total of the payments allocated to it, and within the
\* grand total, whatever saves the sale meanwhile: applyPayment() works on the row it has
\* locked, and save() writes no column that it finds as it was first read.  Excepted is a
\* sale whose payment committed between a request's first read and its save()'s.
THEOREM SalePaymentsAddUp == SaleSpec => []PaymentsAddUp
<1>1. SaleInit => PaidFits
  BY DEF SaleInit, PaidFits, Draft
<1>2. SaleInv /\ PaidFits /\ [SaleNext]_saleVars => PaidFits'
  BY PaidFitsNext
<1>3. SaleInv /\ PaidFits => PaymentsAddUp
  BY SaleFacts DEF SaleInv, SaleTypes, Sale, PaidFits, PaymentsAddUp
<1> QED BY <1>1, <1>2, <1>3, SaleInvariant, PTL DEF SaleSpec


-----------------------------------------------------------------------------
\* The purchase order, its receipts and its returns.
OrderTypes ==
  /\ orderStatus \in OrderStatus /\ receipts \in SUBSET Receivers
  /\ returns \in [Returners -> {"NONE", "DRAFT", "COMPLETED", "CANCELLED"}]
  /\ at \in [OrderRequests -> {"idle", "begin", "lock", "commit", "save", "update", "done"}]
  /\ itemLocks \in [OrderRequests -> SUBSET OrderItems]
  /\ nextLine \in [OrderRequests -> Nat \ {0}]
  /\ snapshot \in [OrderRequests ->
                     [receipts : SUBSET Receivers, returns : SUBSET Returners]]
  /\ assigned \in [Movers -> OrderStatus] /\ reread \in [Movers -> OrderStatus]
  /\ raced \in BOOLEAN /\ unseen \in SUBSET OrderItems

OrderFinite ==
  /\ IsFiniteSet(receipts) /\ IsFiniteSet(ReturnsMade)
  /\ \A r \in OrderRequests :
       IsFiniteSet(snapshot[r].receipts) /\ IsFiniteSet(snapshot[r].returns)

\* Which request can be where; what it has written, it wrote at its end.
PlacesFit ==
  \A r \in OrderRequests :
    /\ at[r] = "begin" => r \in Receivers
    /\ at[r] \in {"lock", "commit"} => r \in Receivers \cup Returners
    /\ at[r] \in {"save", "update"} => r \in Movers
    /\ r \in receipts => at[r] = "done"
    /\ r \in Returners => (returns[r] # "NONE" => at[r] = "done")

\* The lines that a transaction has behind it: it holds their items, and each of them
\* still fits, in what others have committed or in its own snapshot.
Locking(r) == at[r] \in {"lock", "commit"}
Behind(r)  == {n \in DOMAIN ReceiptLines[r] : at[r] = "commit" \/ n < nextLine[r]}
ItemOf(r, n) == ReceiptLines[r][n].item

LinesLocked ==
  \A r \in OrderRequests :
    /\ at[r] \in {"idle", "begin"} => nextLine[r] = 1
    /\ at[r] = "lock" => nextLine[r] \in DOMAIN ReceiptLines[r]
    /\ itemLocks[r] = IF Locking(r) THEN {ItemOf(r, n) : n \in Behind(r)} ELSE {}

LinesFit ==
  \A r \in OrderRequests : Locking(r) =>
    /\ \A n \in Behind(r) : Fits(r, ReceiptLines[r][n])
    /\ r \in Returners => snapshot[r].receipts \in SUBSET receipts

LocksApart ==
  \A q, r \in OrderRequests : q # r => itemLocks[q] \cap itemLocks[r] = {}

\* Leaving aside the requests that name an item twice, no more of it is handled than
\* was ordered, nor returned than was received.
HandledOnce(i)  == {r \in receipts : Cardinality(LinesWith(r, i)) <= 1}
ReturnedOnce(i) == {r \in ReturnsMade : Cardinality(LinesWith(r, i)) <= 1}
HandledFits == \A i \in OrderItems : Handled(HandledOnce(i), i) <= Ordered[i]
ReturnsFit  ==
  \A i \in OrderItems : i \notin unseen => Goods(ReturnedOnce(i), i) <= Goods(receipts, i)

\* A transition has found an order that may move; none but an overlapping one moves it.
Moving(r) == at[r] \in {"save", "update"}
Released  == {"APPROVED", "CONFIRMED", "CLOSED"}
StatusFits ==
  /\ orderStatus = "CLOSED" => receipts # {} /\ AllHandled
  /\ \A r \in OrderRequests : Moving(r) =>
       /\ assigned[r] = Goal[OrderOp[r]]
       /\ assigned[r] = "CLOSED" => receipts # {} /\ AllHandled
       /\ ~raced => assigned[r] \in Successors[orderStatus]
  /\ ~raced /\ (receipts # {} \/ \E r \in Receivers : UnderWay(r)) => orderStatus \in Released

OrderInv ==
  /\ OrderTypes /\ OrderFinite /\ PlacesFit /\ LinesLocked /\ LinesFit /\ LocksApart
  /\ HandledFits /\ ReturnsFit /\ StatusFits

-----------------------------------------------------------------------------
\* What the lines of receipts and returns hold.
HandledIn(r) == [n \in DOMAIN ReceiptLines[r] |->
                   ReceiptLines[r][n].quantity + ReceiptLines[r][n].rejected]
GoodsIn(r)   == [n \in DOMAIN ReceiptLines[r] |-> ReceiptLines[r][n].quantity]
HandledOf(i) == [r \in OrderRequests |-> HandledBy(r, i)]
GoodsFrom(i) == [r \in OrderRequests |-> GoodsOf(r, i)]

LEMMA OrderFacts ==
  /\ \A r \in OrderRequests : OrderOp[r] \in OrderOps
  /\ \A i \in OrderItems : Ordered[i] \in Nat
  /\ \A r \in Receivers \cup Returners : ReceiptLines[r] # <<>>
  /\ \A r \in Doing({"complete", "withdraw"}) : ReturnOf[r] \in Returners
  /\ Receivers \in SUBSET OrderRequests /\ Returners \in SUBSET OrderRequests
  /\ Movers \in SUBSET OrderRequests
  /\ Receivers \cap Returners = {} /\ Receivers \cap Movers = {} /\ Returners \cap Movers = {}
BY ReceiptsAssumption DEF Receivers, Returners, Movers, Doing, Transitions

LEMMA ReceiptLineFacts ==
  ASSUME NEW r \in OrderRequests
  PROVE  /\ Len(ReceiptLines[r]) \in Nat
         /\ DOMAIN ReceiptLines[r] = 1..Len(ReceiptLines[r])
         /\ IsFiniteSet(DOMAIN ReceiptLines[r])
         /\ ReceiptLines[r] # <<>> => Len(ReceiptLines[r]) # 0
         /\ \A n \in DOMAIN ReceiptLines[r] :
              /\ ReceiptLines[r][n].item \in OrderItems
              /\ ReceiptLines[r][n].quantity \in Nat /\ ReceiptLines[r][n].rejected \in Nat
<1> DEFINE L == [item : OrderItems, quantity : Nat, rejected : Nat]
<1>1. ReceiptLines[r] \in Seq(L)
  BY ReceiptsAssumption
<1>2. Len(ReceiptLines[r]) \in Nat /\ DOMAIN ReceiptLines[r] = 1..Len(ReceiptLines[r])
      /\ (ReceiptLines[r] # <<>> => Len(ReceiptLines[r]) # 0)
  <2> HIDE DEF L
  <2> QED BY <1>1
<1>3. IsFiniteSet(DOMAIN ReceiptLines[r])
  BY <1>2, FS_Interval
<1>4. ASSUME NEW n \in DOMAIN ReceiptLines[r]
      PROVE  /\ ReceiptLines[r][n].item \in OrderItems
             /\ ReceiptLines[r][n].quantity \in Nat /\ ReceiptLines[r][n].rejected \in Nat
  <2>1. ReceiptLines[r][n] \in L
    <3> HIDE DEF L
    <3> QED BY <1>1, <1>2
  <2> QED BY <2>1
<1> QED BY <1>2, <1>3, <1>4

LEMMA LinesWithFinite ==
  ASSUME NEW r \in OrderRequests, NEW i
  PROVE  /\ LinesWith(r, i) \in SUBSET DOMAIN ReceiptLines[r]
         /\ IsFiniteSet(LinesWith(r, i))
         /\ \A n \in LinesWith(r, i) : ReceiptLines[r][n].item = i
<1>1. /\ LinesWith(r, i) \in SUBSET DOMAIN ReceiptLines[r]
      /\ \A n \in LinesWith(r, i) : ReceiptLines[r][n].item = i
  BY DEF LinesWith
<1> QED BY <1>1, ReceiptLineFacts, FS_Subset

\* What a request holds of an item: of one line, its units, of none, nothing.
LEMMA HandledByIs ==
  ASSUME NEW r \in OrderRequests, NEW i
  PROVE  /\ HandledBy(r, i) = Total(HandledIn(r), LinesWith(r, i)) /\ HandledBy(r, i) \in Nat
         /\ LinesWith(r, i) = {} => HandledBy(r, i) = 0
         /\ Cardinality(LinesWith(r, i)) <= 1 /\ HandledBy(r, i) # 0 =>
              \E n \in LinesWith(r, i) :
                HandledBy(r, i) = ReceiptLines[r][n].quantity + ReceiptLines[r][n].rejected
<1> DEFINE N == LinesWith(r, i)
<1>1. HandledBy(r, i) = Total(HandledIn(r), N)
  BY DEF HandledBy, HandledIn, Total
<1>2. \A n \in N : /\ HandledIn(r)[n] \in Nat /\ HandledIn(r)[n] \in Int
                   /\ HandledIn(r)[n] = ReceiptLines[r][n].quantity + ReceiptLines[r][n].rejected
  BY LinesWithFinite, ReceiptLineFacts DEF HandledIn
<1>3. IsFiniteSet(N)
  BY LinesWithFinite
<1>4. Cardinality(N) = Cardinality(LinesWith(r, i))
  OBVIOUS
<1> HIDE DEF N
<1>5. Total(HandledIn(r), N) \in Nat
  BY <1>2, <1>3, TotalNat
<1>6. N = {} => Total(HandledIn(r), N) = 0
  BY TotalEmpty
<1>7. Cardinality(N) <= 1 =>
        Total(HandledIn(r), N) = 0 \/ \E n \in N : Total(HandledIn(r), N) = HandledIn(r)[n]
  BY <1>2, <1>3, TotalOne
<1> QED BY <1>1, <1>2, <1>4, <1>5, <1>6, <1>7 DEF N

LEMMA GoodsOfIs ==
  ASSUME NEW r \in OrderRequests, NEW i
  PROVE  /\ GoodsOf(r, i) = Total(GoodsIn(r), LinesWith(r, i)) /\ GoodsOf(r, i) \in Nat
         /\ LinesWith(r, i) = {} => GoodsOf(r, i) = 0
         /\ Cardinality(LinesWith(r, i)) <= 1 /\ GoodsOf(r, i) # 0 =>
              \E n \in LinesWith(r, i) : GoodsOf(r, i) = ReceiptLines[r][n].quantity
<1> DEFINE N == LinesWith(r, i)
<1>1. GoodsOf(r, i) = Total(GoodsIn(r), N)
  BY DEF GoodsOf, GoodsIn, Total
<1>2. \A n \in N : /\ GoodsIn(r)[n] \in Nat /\ GoodsIn(r)[n] \in Int
                   /\ GoodsIn(r)[n] = ReceiptLines[r][n].quantity
  BY LinesWithFinite, ReceiptLineFacts DEF GoodsIn
<1>3. IsFiniteSet(N)
  BY LinesWithFinite
<1>4. Cardinality(N) = Cardinality(LinesWith(r, i))
  OBVIOUS
<1> HIDE DEF N
<1>5. Total(GoodsIn(r), N) \in Nat
  BY <1>2, <1>3, TotalNat
<1>6. N = {} => Total(GoodsIn(r), N) = 0
  BY TotalEmpty
<1>7. Cardinality(N) <= 1 =>
        Total(GoodsIn(r), N) = 0 \/ \E n \in N : Total(GoodsIn(r), N) = GoodsIn(r)[n]
  BY <1>2, <1>3, TotalOne
<1> QED BY <1>1, <1>2, <1>4, <1>5, <1>6, <1>7 DEF N

LEMMA SumsOfRequests ==
  ASSUME NEW S \in SUBSET OrderRequests, NEW i
  PROVE  /\ Handled(S, i) = Total(HandledOf(i), S) /\ Goods(S, i) = Total(GoodsFrom(i), S)
         /\ \A r \in S : HandledOf(i)[r] \in Nat /\ GoodsFrom(i)[r] \in Nat
         /\ \A r \in S : HandledOf(i)[r] = HandledBy(r, i) /\ GoodsFrom(i)[r] = GoodsOf(r, i)
BY HandledByIs, GoodsOfIs DEF Handled, Goods, HandledOf, GoodsFrom, Total

\* More requests do not hold less.
LEMMA MoreGoods ==
  ASSUME NEW S \in SUBSET OrderRequests, IsFiniteSet(S), NEW T \in SUBSET S, NEW i
  PROVE  /\ IsFiniteSet(T)
         /\ Handled(T, i) \in Nat /\ Handled(S, i) \in Nat /\ Handled(T, i) <= Handled(S, i)
         /\ Goods(T, i) \in Nat /\ Goods(S, i) \in Nat /\ Goods(T, i) <= Goods(S, i)
<1>1. T \in SUBSET OrderRequests
  OBVIOUS
<1>2. \A r \in S : HandledOf(i)[r] \in Nat /\ GoodsFrom(i)[r] \in Nat
  BY SumsOfRequests
<1>3. /\ IsFiniteSet(T) /\ Total(HandledOf(i), T) \in Nat /\ Total(HandledOf(i), S) \in Nat
      /\ Total(HandledOf(i), T) <= Total(HandledOf(i), S)
  BY <1>2, TotalMore
<1>4. /\ Total(GoodsFrom(i), T) \in Nat /\ Total(GoodsFrom(i), S) \in Nat
      /\ Total(GoodsFrom(i), T) <= Total(GoodsFrom(i), S)
  BY <1>2, TotalMore
<1> QED BY <1>1, <1>3, <1>4, SumsOfRequests

LEMMA OneRequestMore ==
  ASSUME NEW S \in SUBSET OrderRequests, IsFiniteSet(S), NEW r \in OrderRequests, r \notin S,
         NEW T, T = S \cup {r}, NEW i
  PROVE  /\ IsFiniteSet(T)
         /\ Handled(T, i) = Handled(S, i) + HandledBy(r, i)
         /\ Goods(T, i) = Goods(S, i) + GoodsOf(r, i)
<1>1. IsFiniteSet(T) /\ T \in SUBSET OrderRequests
  BY FS_AddElement
<1>2. \A q \in S \cup {r} : HandledOf(i)[q] \in Int /\ GoodsFrom(i)[q] \in Int
  BY <1>1, SumsOfRequests
<1>3. /\ Total(HandledOf(i), S \cup {r}) = Total(HandledOf(i), S) + HandledOf(i)[r]
      /\ Total(GoodsFrom(i), S \cup {r}) = Total(GoodsFrom(i), S) + GoodsFrom(i)[r]
  BY <1>2, TotalAdd
<1>4. HandledOf(i)[r] = HandledBy(r, i) /\ GoodsFrom(i)[r] = GoodsOf(r, i)
  BY DEF HandledOf, GoodsFrom
<1>5. /\ Total(HandledOf(i), T) = Total(HandledOf(i), S) + HandledBy(r, i)
      /\ Total(GoodsFrom(i), T) = Total(GoodsFrom(i), S) + GoodsOf(r, i)
  BY <1>3, <1>4
<1>6. /\ Handled(T, i) = Total(HandledOf(i), T) /\ Goods(T, i) = Total(GoodsFrom(i), T)
      /\ Handled(S, i) = Total(HandledOf(i), S) /\ Goods(S, i) = Total(GoodsFrom(i), S)
  BY <1>1, SumsOfRequests
<1> QED BY <1>1, <1>5, <1>6

-----------------------------------------------------------------------------
\* The steps of the order.
OrderStep(r) ==
  \/ ReadOrder(r) \/ LockCounter(r) \/ BeginReturn(r) \/ LockOrderItem(r)
  \/ CommitReceipt(r) \/ CommitReturn(r) \/ Abandon(r) \/ Settle(r)
  \/ BeginTransition(r) \/ TransitionReads(r) \/ TransitionUpdates(r)

\* The steps that write a row are the two commits, Settle and the UPDATE.
LEMMA RowSteps ==
  ASSUME NEW r \in OrderRequests, OrderStep(r)
  PROVE  \/ CommitReceipt(r) \/ CommitReturn(r) \/ Settle(r) \/ TransitionUpdates(r)
         \/ UNCHANGED orderRows
BY DEF OrderStep, ReadOrder, LockCounter, BeginReturn, LockOrderItem, Abandon,
       BeginTransition, TransitionReads

LEMMA OrderTypesNext ==
  ASSUME OrderTypes, PlacesFit, LinesLocked, NEW r \in OrderRequests, OrderStep(r)
  PROVE  OrderTypes'
<1> DEFINE Places == {"idle", "begin", "lock", "commit", "save", "update", "done"}
           Snaps  == [receipts : SUBSET Receivers, returns : SUBSET Returners]
<1> USE DEF OrderTypes
<1>0. Nothing \in Snaps /\ [receipts |-> receipts, returns |-> ReturnsMade] \in Snaps
      /\ [snapshot[r] EXCEPT !.receipts = receipts] \in Snaps
  BY DEF Nothing, ReturnsMade
<1>1. ASSUME NEW where \in Places, End(r, where)
      PROVE  /\ at' \in [OrderRequests -> Places]
             /\ itemLocks' \in [OrderRequests -> SUBSET OrderItems]
             /\ nextLine' \in [OrderRequests -> Nat \ {0}]
             /\ snapshot' \in [OrderRequests -> Snaps]
             /\ assigned' = assigned /\ reread' = reread
  BY <1>0, <1>1 DEF End, Goto
<1>2. CASE ReadOrder(r)
  BY <1>0, <1>2 DEF ReadOrder, Goto, orderRows
<1>3. CASE LockCounter(r)
  BY <1>3 DEF LockCounter, Goto, orderRows, requestLocal
<1>4. CASE BeginReturn(r)
  BY <1>0, <1>4 DEF BeginReturn, Goto, orderRows
<1>5. CASE LockOrderItem(r)
  <2>1. ReceiptLines[r][nextLine[r]].item \in OrderItems
    BY <1>5, ReceiptLineFacts DEF LockOrderItem, LinesLocked
  <2> QED BY <1>5, <2>1 DEF LockOrderItem, Goto, orderRows
<1>6. CASE CommitReceipt(r)
  <2>1. receipts' \in SUBSET Receivers
    BY <1>6 DEF CommitReceipt
  <2> QED BY <1>1, <1>6, <2>1 DEF CommitReceipt
<1>7. CASE CommitReturn(r)
  <2>1. returns' \in [Returners -> {"NONE", "DRAFT", "COMPLETED", "CANCELLED"}]
    BY <1>7 DEF CommitReturn
  <2>2. unseen' \in SUBSET OrderItems
    BY <1>7 DEF CommitReturn
  <2> QED BY <1>1, <1>7, <2>1, <2>2 DEF CommitReturn
<1>8. CASE Abandon(r)
  BY <1>1, <1>8 DEF Abandon, orderRows
<1>9. CASE Settle(r)
  <2>1. returns' \in [Returners -> {"NONE", "DRAFT", "COMPLETED", "CANCELLED"}]
    BY <1>9 DEF Settle
  <2> QED BY <1>9, <2>1 DEF Settle, Goto, requestLocal
<1>10. CASE BeginTransition(r)
  <2>1. Goal[OrderOp[r]] \in OrderStatus
    BY <1>10 DEF BeginTransition, Movers, Doing, Transitions, Goal, OrderStatus
  <2> QED BY <1>10, <2>1 DEF BeginTransition, Goto, orderRows
<1>11. CASE TransitionReads(r)
  BY <1>11 DEF TransitionReads, Goto, orderRows
<1>12. CASE TransitionUpdates(r)
  <2>1. r \in Movers /\ "DRAFT" \in OrderStatus
    BY <1>12 DEF TransitionUpdates, PlacesFit, OrderStatus
  <2>2. orderStatus' \in OrderStatus /\ raced' \in BOOLEAN
    BY <1>12, <2>1 DEF TransitionUpdates
  <2>3. assigned' \in [Movers -> OrderStatus] /\ reread' \in [Movers -> OrderStatus]
    BY <1>12, <2>1 DEF TransitionUpdates
  <2> QED BY <1>12, <2>2, <2>3 DEF TransitionUpdates, Goto
<1> QED BY <1>2, <1>3, <1>4, <1>5, <1>6, <1>7, <1>8, <1>9, <1>10, <1>11, <1>12 DEF OrderStep

\* What every step of r leaves to the others.
LEMMA OrderFrame ==
  ASSUME OrderTypes, NEW r \in OrderRequests, OrderStep(r), NEW q \in OrderRequests \ {r}
  PROVE  /\ at'[q] = at[q] /\ itemLocks'[q] = itemLocks[q] /\ nextLine'[q] = nextLine[q]
         /\ snapshot'[q] = snapshot[q]
         /\ q \in Movers => assigned'[q] = assigned[q]
<1> USE DEF OrderTypes
<1>1. ASSUME NEW where, End(r, where)
      PROVE  /\ at'[q] = at[q] /\ itemLocks'[q] = itemLocks[q] /\ nextLine'[q] = nextLine[q]
             /\ snapshot'[q] = snapshot[q] /\ assigned' = assigned
  BY <1>1 DEF End, Goto
<1>2. CASE ReadOrder(r) \/ LockCounter(r) \/ BeginReturn(r)
  BY <1>2 DEF ReadOrder, LockCounter, BeginReturn, Goto, requestLocal
<1>3. CASE LockOrderItem(r)
  BY <1>3 DEF LockOrderItem, Goto
<1>4. CASE CommitReceipt(r) \/ CommitReturn(r) \/ Abandon(r)
  BY <1>1, <1>4 DEF CommitReceipt, CommitReturn, Abandon
<1>5. CASE Settle(r)
  BY <1>5 DEF Settle, Goto, requestLocal
<1>6. CASE BeginTransition(r) \/ TransitionReads(r)
  BY <1>6 DEF BeginTransition, TransitionReads, Goto
<1>7. CASE TransitionUpdates(r)
  BY <1>7 DEF TransitionUpdates, Goto
<1> QED BY <1>2, <1>3, <1>4, <1>5, <1>6, <1>7 DEF OrderStep

\* Who ends at once, and where.
LEMMA EndsAt ==
  ASSUME OrderTypes, NEW r \in OrderRequests, NEW where, End(r, where)
  PROVE  at'[r] = where /\ itemLocks'[r] = {} /\ nextLine'[r] = 1
BY DEF End, Goto, OrderTypes

\* What the steps do to the sets of receipts and returns.
LEMMA ReceiptCommits ==
  ASSUME OrderTypes, PlacesFit, NEW r \in OrderRequests, CommitReceipt(r)
  PROVE  /\ r \in Receivers /\ r \notin receipts /\ receipts' = receipts \cup {r}
         /\ ReturnsMade' = ReturnsMade /\ returns' = returns /\ unseen' = unseen
         /\ at[r] = "commit" /\ at'[r] = "done"
BY EndsAt DEF CommitReceipt, PlacesFit, ReturnsMade

LEMMA ReturnCommits ==
  ASSUME OrderTypes, PlacesFit, NEW r \in OrderRequests, CommitReturn(r)
  PROVE  /\ r \in Returners /\ r \notin ReturnsMade /\ ReturnsMade' = ReturnsMade \cup {r}
         /\ receipts' = receipts /\ returns' = [returns EXCEPT ![r] = "DRAFT"]
         /\ returns[r] = "NONE" /\ at[r] = "commit" /\ at'[r] = "done"
<1>1. /\ r \in Returners /\ at[r] = "commit" /\ receipts' = receipts
      /\ returns' = [returns EXCEPT ![r] = "DRAFT"]
  BY DEF CommitReturn
<1>2. returns[r] = "NONE" /\ at'[r] = "done"
  BY <1>1, EndsAt DEF CommitReturn, PlacesFit
<1>3. returns'[r] = "DRAFT" /\ \A q \in Returners \ {r} : returns'[q] = returns[q]
  BY <1>1 DEF OrderTypes
<1> QED BY <1>1, <1>2, <1>3 DEF ReturnsMade

LEMMA Settles ==
  ASSUME OrderTypes, NEW r \in OrderRequests, Settle(r)
  PROVE  /\ receipts' = receipts /\ ReturnsMade' \in SUBSET ReturnsMade
         /\ unseen' = unseen /\ orderStatus' = orderStatus /\ raced' = raced
         /\ \A q \in Returners : returns'[q] # "NONE" => returns[q] # "NONE"
         /\ at[r] = "idle" /\ at'[r] = "done" /\ UNCHANGED requestLocal
         /\ r \notin Receivers /\ r \notin Returners /\ r \notin Movers
<1>1. /\ receipts' = receipts /\ unseen' = unseen /\ UNCHANGED requestLocal
      /\ orderStatus' = orderStatus /\ raced' = raced
      /\ at[r] = "idle" /\ at'[r] = "done" /\ returns[ReturnOf[r]] = "DRAFT"
      /\ returns' = [returns EXCEPT ![ReturnOf[r]] =
                       IF OrderOp[r] = "complete" THEN "COMPLETED" ELSE "CANCELLED"]
      /\ OrderOp[r] \in {"complete", "withdraw"}
  BY DEF Settle, Goto, OrderTypes
<1>2. \A q \in Returners : returns'[q] = returns[q] \/ returns[q] = "DRAFT"
  BY <1>1 DEF OrderTypes
<1>3. r \notin Receivers /\ r \notin Returners /\ r \notin Movers
  BY <1>1 DEF Receivers, Returners, Movers, Doing, Transitions
<1>4. ReturnsMade' \in SUBSET ReturnsMade
  BY <1>2 DEF ReturnsMade
<1>5. \A q \in Returners : returns'[q] # "NONE" => returns[q] # "NONE"
  BY <1>2
<1> QED BY <1>1, <1>3, <1>4, <1>5

LEMMA Updates ==
  ASSUME OrderTypes, NEW r \in OrderRequests, TransitionUpdates(r)
  PROVE  /\ receipts' = receipts /\ ReturnsMade' = ReturnsMade /\ returns' = returns
         /\ unseen' = unseen /\ at[r] = "update" /\ at'[r] = "done"
         /\ itemLocks' = itemLocks /\ nextLine' = nextLine /\ snapshot' = snapshot
BY DEF TransitionUpdates, Goto, ReturnsMade, OrderTypes

LEMMA RowsStay ==
  ASSUME UNCHANGED orderRows
  PROVE  /\ receipts' = receipts /\ ReturnsMade' = ReturnsMade /\ returns' = returns
         /\ unseen' = unseen /\ orderStatus' = orderStatus /\ raced' = raced
BY DEF orderRows, ReturnsMade

\* Receipts are never taken back.
LEMMA ReceiptsGrow ==
  ASSUME OrderTypes, PlacesFit, NEW r \in OrderRequests, OrderStep(r)
  PROVE  receipts \in SUBSET receipts'
BY RowSteps, ReceiptCommits, ReturnCommits, Settles, Updates, RowsStay

LEMMA OrderFiniteNext ==
  ASSUME OrderTypes, PlacesFit, OrderFinite, NEW r \in OrderRequests, OrderStep(r)
  PROVE  OrderFinite'
<1>1. IsFiniteSet(receipts') /\ IsFiniteSet(ReturnsMade')
  <2>1. IsFiniteSet(receipts \cup {r}) /\ IsFiniteSet(ReturnsMade \cup {r})
    BY FS_AddElement DEF OrderFinite
  <2>2. CASE CommitReceipt(r)
    BY <2>1, <2>2, ReceiptCommits DEF OrderFinite
  <2>3. CASE CommitReturn(r)
    BY <2>1, <2>3, ReturnCommits DEF OrderFinite
  <2>4. CASE Settle(r)
    BY <2>4, Settles, FS_Subset DEF OrderFinite
  <2>5. CASE TransitionUpdates(r) \/ UNCHANGED orderRows
    BY <2>5, Updates, RowsStay DEF OrderFinite
  <2> QED BY <2>2, <2>3, <2>4, <2>5, RowSteps
<1>2. \/ snapshot'[r] = snapshot[r] \/ snapshot'[r] = Nothing
      \/ snapshot'[r] = [snapshot[r] EXCEPT !.receipts = receipts]
      \/ snapshot'[r] = [receipts |-> receipts, returns |-> ReturnsMade]
  BY DEF OrderStep, ReadOrder, LockCounter, BeginReturn, LockOrderItem, CommitReceipt,
         CommitReturn, Abandon, Settle, BeginTransition, TransitionReads,
         TransitionUpdates, End, requestLocal, OrderTypes
<1>3. snapshot[r] \in [receipts : SUBSET Receivers, returns : SUBSET Returners]
  BY DEF OrderTypes
<1>4. IsFiniteSet(snapshot[r].receipts) /\ IsFiniteSet(snapshot[r].returns)
      /\ IsFiniteSet(receipts) /\ IsFiniteSet(ReturnsMade) /\ IsFiniteSet({})
  BY FS_EmptySet DEF OrderFinite
<1>5. IsFiniteSet(snapshot'[r].receipts) /\ IsFiniteSet(snapshot'[r].returns)
  BY <1>2, <1>3, <1>4 DEF Nothing
<1>6. \A q \in OrderRequests \ {r} : snapshot'[q] = snapshot[q]
  BY OrderFrame
<1> QED BY <1>1, <1>5, <1>6 DEF OrderFinite

LEMMA PlacesFitNext ==
  ASSUME OrderTypes, PlacesFit, NEW r \in OrderRequests, OrderStep(r)
  PROVE  PlacesFit'
<1> DEFINE Place(q) ==
      /\ at[q] = "begin" => q \in Receivers
      /\ at[q] \in {"lock", "commit"} => q \in Receivers \cup Returners
      /\ at[q] \in {"save", "update"} => q \in Movers
      /\ q \in receipts => at[q] = "done"
      /\ q \in Returners => (returns[q] # "NONE" => at[q] = "done")
<1>1. \A q \in OrderRequests : Place(q)
  BY DEF PlacesFit
<1>2. /\ receipts' = receipts \/ (receipts' = receipts \cup {r} /\ at'[r] = "done")
      /\ \A q \in Returners : returns'[q] # "NONE" =>
           returns[q] # "NONE" \/ (q = r /\ at'[r] = "done")
  <2>1. CASE CommitReceipt(r)
    BY <2>1, ReceiptCommits
  <2>2. CASE CommitReturn(r)
    <3>1. \A q \in Returners \ {r} : returns'[q] = returns[q]
      BY <2>2, ReturnCommits DEF OrderTypes
    <3> QED BY <2>2, <3>1, ReturnCommits
  <2>3. CASE Settle(r)
    BY <2>3, Settles
  <2>4. CASE TransitionUpdates(r) \/ UNCHANGED orderRows
    BY <2>4, Updates, RowsStay
  <2> QED BY <2>1, <2>2, <2>3, <2>4, RowSteps
<1>3. ASSUME NEW q \in OrderRequests \ {r} PROVE Place(q)'
  BY <1>1, <1>2, OrderFrame
<1>4. Place(r)'
  <2>1. /\ at[r] # "done"
        /\ at'[r] = "begin" => r \in Receivers
        /\ at'[r] \in {"lock", "commit"} => r \in Receivers \cup Returners
        /\ at'[r] \in {"save", "update"} => r \in Movers
    <3>1. CASE CommitReceipt(r) \/ CommitReturn(r)
      BY <3>1, ReceiptCommits, ReturnCommits
    <3>2. CASE Abandon(r)
      BY <3>2, EndsAt DEF Abandon
    <3>3. CASE Settle(r) \/ TransitionUpdates(r)
      BY <3>3, Settles, Updates
    <3>4. CASE ReadOrder(r) \/ LockCounter(r) \/ BeginReturn(r)
      BY <1>1, <3>4 DEF ReadOrder, LockCounter, BeginReturn, Goto, OrderTypes
    <3>5. CASE LockOrderItem(r)
      BY <1>1, <3>5 DEF LockOrderItem, Goto, OrderTypes
    <3>6. CASE BeginTransition(r) \/ TransitionReads(r)
      BY <1>1, <3>6 DEF BeginTransition, TransitionReads, Goto, OrderTypes
    <3> QED BY <3>1, <3>2, <3>3, <3>4, <3>5, <3>6 DEF OrderStep
  <2> QED BY <1>1, <1>2, <2>1
<1>5. \A q \in OrderRequests : Place(q)'
  BY <1>3, <1>4
<1> QED BY <1>5 DEF PlacesFit

\* Locking the item of the next line.
LEMMA ItemStep ==
  ASSUME OrderTypes, PlacesFit, LinesLocked, NEW r \in OrderRequests, LockOrderItem(r)
  PROVE  /\ nextLine[r] \in DOMAIN ReceiptLines[r]
         /\ Fits(r, ReceiptLines[r][nextLine[r]])
         /\ \A q \in OrderRequests \ {r} : ItemOf(r, nextLine[r]) \notin itemLocks[q]
         /\ itemLocks'[r] = itemLocks[r] \cup {ItemOf(r, nextLine[r])}
         /\ Locking(r) /\ Locking(r)' /\ Behind(r)' = Behind(r) \cup {nextLine[r]}
         /\ at'[r] = "lock" => nextLine'[r] \in DOMAIN ReceiptLines[r]
         /\ at'[r] \in {"lock", "commit"}
         /\ UNCHANGED orderRows /\ snapshot' = snapshot
<1>1. /\ at[r] = "lock" /\ nextLine[r] \in DOMAIN ReceiptLines[r]
      /\ at'[r] = IF nextLine[r] = Len(ReceiptLines[r]) THEN "commit" ELSE "lock"
      /\ nextLine'[r] = nextLine[r] + 1
      /\ itemLocks'[r] = itemLocks[r] \cup {ItemOf(r, nextLine[r])}
  BY DEF LockOrderItem, Goto, OrderTypes, LinesLocked, ItemOf
<1>2. DOMAIN ReceiptLines[r] = 1..Len(ReceiptLines[r]) /\ Len(ReceiptLines[r]) \in Nat
  BY ReceiptLineFacts
<1>3. /\ Locking(r) /\ Locking(r)' /\ Behind(r)' = Behind(r) \cup {nextLine[r]}
      /\ at'[r] = "lock" => nextLine'[r] \in DOMAIN ReceiptLines[r]
  BY <1>1, <1>2 DEF Locking, Behind
<1> QED BY <1>1, <1>3 DEF LockOrderItem, ItemOf

LEMMA LinesLockedNext ==
  ASSUME OrderTypes, PlacesFit, LinesLocked, NEW r \in OrderRequests, OrderStep(r)
  PROVE  LinesLocked'
<1> DEFINE Locked(q) ==
      /\ at[q] \in {"idle", "begin"} => nextLine[q] = 1
      /\ at[q] = "lock" => nextLine[q] \in DOMAIN ReceiptLines[q]
      /\ itemLocks[q] = IF Locking(q) THEN {ItemOf(q, n) : n \in Behind(q)} ELSE {}
<1>1. \A q \in OrderRequests : Locked(q)
  BY DEF LinesLocked
<1>2. ASSUME NEW q \in OrderRequests \ {r} PROVE Locked(q)'
  BY <1>1, OrderFrame DEF Locking, Behind, ItemOf
<1>3. Locked(r)'
  <2>1. CASE LockOrderItem(r)
    <3>1. itemLocks'[r] = {ItemOf(r, n) : n \in Behind(r)} \cup {ItemOf(r, nextLine[r])}
      BY <1>1, <2>1, ItemStep
    <3>2. itemLocks'[r] = {ItemOf(r, n) : n \in Behind(r)'}
      BY <2>1, <3>1, ItemStep
    <3> QED BY <2>1, <3>2, ItemStep DEF ItemOf
  <2>2. CASE LockCounter(r) \/ BeginReturn(r)
    <3>1. /\ at[r] \in {"idle", "begin"} /\ at'[r] = "lock" /\ nextLine'[r] = nextLine[r]
          /\ itemLocks'[r] = itemLocks[r]
      BY <2>2 DEF LockCounter, BeginReturn, Goto, requestLocal, OrderTypes
    <3>2. r \in Receivers \cup Returners
      BY <2>2 DEF LockCounter, BeginReturn, PlacesFit
    <3>3. 1 \in DOMAIN ReceiptLines[r] /\ \A n \in DOMAIN ReceiptLines[r] : ~(n < 1)
      BY <3>2, OrderFacts, ReceiptLineFacts
    <3>4. nextLine[r] = 1 /\ itemLocks[r] = {}
      BY <1>1, <3>1 DEF Locking
    <3>5. Behind(r)' = {}
      BY <3>1, <3>3, <3>4 DEF Behind
    <3>6. {ItemOf(r, n) : n \in Behind(r)'} = {}
      BY <3>5
    <3> QED BY <3>1, <3>3, <3>4, <3>6 DEF Locking, ItemOf
  <2>3. CASE ReadOrder(r) \/ BeginTransition(r) \/ TransitionReads(r)
    <3>1. /\ at[r] \in {"idle", "save"} /\ at'[r] \in {"begin", "save", "update"}
          /\ at'[r] = "begin" => at[r] = "idle"
          /\ nextLine'[r] = nextLine[r] /\ itemLocks'[r] = itemLocks[r]
      BY <2>3 DEF ReadOrder, BeginTransition, TransitionReads, Goto, OrderTypes
    <3> QED BY <1>1, <3>1 DEF Locking
  <2>4. CASE CommitReceipt(r) \/ CommitReturn(r) \/ Abandon(r)
    <3>1. at'[r] \in {"idle", "done"} /\ nextLine'[r] = 1 /\ itemLocks'[r] = {}
      BY <2>4, EndsAt DEF CommitReceipt, CommitReturn, Abandon
    <3> QED BY <3>1 DEF Locking
  <2>5. CASE Settle(r) \/ TransitionUpdates(r)
    <3>1. /\ at[r] \in {"idle", "update"} /\ at'[r] = "done"
          /\ itemLocks'[r] = itemLocks[r]
      BY <2>5, Settles, Updates DEF requestLocal
    <3> QED BY <1>1, <3>1 DEF Locking
  <2> QED BY <2>1, <2>2, <2>3, <2>4, <2>5 DEF OrderStep
<1>4. \A q \in OrderRequests : Locked(q)'
  BY <1>2, <1>3
<1> QED BY <1>4 DEF LinesLocked

LEMMA LocksApartNext ==
  ASSUME OrderTypes, PlacesFit, LinesLocked, LinesLocked', LocksApart,
         NEW r \in OrderRequests, OrderStep(r)
  PROVE  LocksApart'
<1>1. \A q \in OrderRequests \ {r} : itemLocks'[q] = itemLocks[q]
  BY OrderFrame
<1>2. ASSUME NEW q \in OrderRequests \ {r} PROVE itemLocks[q] \cap itemLocks'[r] = {}
  <2>1. itemLocks[q] \cap itemLocks[r] = {}
    BY DEF LocksApart
  <2>2. CASE LockOrderItem(r)
    BY <2>1, <2>2, ItemStep
  <2>3. CASE CommitReceipt(r) \/ CommitReturn(r) \/ Abandon(r)
    BY <2>3, EndsAt DEF CommitReceipt, CommitReturn, Abandon
  <2>4. CASE ~LockOrderItem(r) /\ ~CommitReceipt(r) /\ ~CommitReturn(r) /\ ~Abandon(r)
    <3>1. itemLocks' = itemLocks
      BY <2>4 DEF OrderStep, ReadOrder, LockCounter, BeginReturn, Settle, BeginTransition,
           TransitionReads, TransitionUpdates, requestLocal
    <3> QED BY <2>1, <3>1
  <2> QED BY <2>2, <2>3, <2>4
<1> QED BY <1>1, <1>2 DEF LocksApart

\* A transaction that commits holds the items of all its lines, so that it touches no
\* item which another one holds.
LEMMA CommitTouches ==
  ASSUME OrderTypes, LinesLocked, NEW r \in OrderRequests, at[r] = "commit",
         NEW i, i \notin itemLocks[r]
  PROVE  LinesWith(r, i) = {} /\ HandledBy(r, i) = 0 /\ GoodsOf(r, i) = 0
<1>1. itemLocks[r] = {ItemOf(r, n) : n \in DOMAIN ReceiptLines[r]}
  BY DEF LinesLocked, Locking, Behind
<1>2. LinesWith(r, i) = {}
  BY <1>1 DEF LinesWith, ItemOf
<1> QED BY <1>2, HandledByIs, GoodsOfIs

LEMMA HandledOnCommit ==
  ASSUME OrderTypes, PlacesFit, OrderFinite, NEW r \in OrderRequests, CommitReceipt(r), NEW i
  PROVE  /\ Handled(receipts', i) = Handled(receipts, i) + HandledBy(r, i)
         /\ Goods(receipts', i) = Goods(receipts, i) + GoodsOf(r, i)
         /\ Handled(receipts, i) \in Nat /\ Handled(receipts', i) \in Nat
         /\ Goods(receipts, i) \in Nat /\ Goods(receipts', i) \in Nat
<1>1. receipts \in SUBSET OrderRequests /\ IsFiniteSet(receipts)
  BY OrderFacts DEF OrderTypes, OrderFinite
<1>2. r \notin receipts /\ receipts' = receipts \cup {r}
  BY ReceiptCommits
<1>3. /\ Handled(receipts', i) = Handled(receipts, i) + HandledBy(r, i)
      /\ Goods(receipts', i) = Goods(receipts, i) + GoodsOf(r, i)
  BY <1>1, <1>2, OneRequestMore
<1>4. Handled(receipts, i) \in Nat /\ Goods(receipts, i) \in Nat
  BY <1>1, MoreGoods
<1>5. HandledBy(r, i) \in Nat /\ GoodsOf(r, i) \in Nat
  BY HandledByIs, GoodsOfIs
<1> QED BY <1>3, <1>4, <1>5

LEMMA LinesFitNext ==
  ASSUME OrderTypes, PlacesFit, OrderFinite, LinesLocked, LinesFit, LocksApart,
         NEW r \in OrderRequests, OrderStep(r)
  PROVE  LinesFit'
<1> DEFINE LineFit(q) == Locking(q) =>
      /\ \A n \in Behind(q) : Fits(q, ReceiptLines[q][n])
      /\ q \in Returners => snapshot[q].receipts \in SUBSET receipts
<1>1. \A q \in OrderRequests : LineFit(q)
  BY DEF LinesFit
<1>2. receipts \in SUBSET receipts'
  BY ReceiptsGrow
\* What fits stays so for a request that the step does not move.
<1>3. ASSUME NEW q \in OrderRequests, Locking(q), NEW n \in Behind(q),
             Fits(q, ReceiptLines[q][n]), snapshot'[q] = snapshot[q],
             q = r => receipts' = receipts
      PROVE  Fits(q, ReceiptLines[q][n])'
  <2>1. CASE receipts' = receipts
    BY <1>3, <2>1 DEF Fits
  <2>2. CASE q \notin Receivers
    BY <1>3, <2>2 DEF Fits
  <2>3. CASE receipts' # receipts /\ q \in Receivers
    <3>1. CommitReceipt(r) /\ q # r
      BY <1>3, <2>3, RowSteps, ReturnCommits, Settles, Updates, RowsStay
    <3> DEFINE i == ItemOf(q, n)
    <3>2. i \in itemLocks[q]
      BY <1>3 DEF LinesLocked
    <3>3. i \notin itemLocks[r]
      BY <3>1, <3>2 DEF LocksApart
    <3> HIDE DEF i
    <3>4. HandledBy(r, i) = 0
      BY <3>1, <3>3, CommitTouches DEF CommitReceipt
    <3>5. Handled(receipts', i) = Handled(receipts, i)
      BY <3>1, <3>4, HandledOnCommit
    <3> QED BY <1>3, <2>3, <3>5 DEF i, ItemOf, Fits
  <2> QED BY <2>1, <2>2, <2>3
<1>4. ASSUME NEW q \in OrderRequests \ {r} PROVE LineFit(q)'
  <2>1. at'[q] = at[q] /\ nextLine'[q] = nextLine[q] /\ snapshot'[q] = snapshot[q]
    BY OrderFrame
  <2>2. Locking(q)' = Locking(q) /\ Behind(q)' = Behind(q)
    BY <2>1 DEF Locking, Behind
  <2> SUFFICES ASSUME Locking(q)
               PROVE  /\ \A n \in Behind(q) : Fits(q, ReceiptLines[q][n])'
                      /\ q \in Returners => snapshot'[q].receipts \in SUBSET receipts'
    BY <2>2
  <2>3. \A n \in Behind(q) : Fits(q, ReceiptLines[q][n])'
    BY <1>1, <1>3, <2>1
  <2> QED BY <1>1, <1>2, <2>1, <2>3
<1>5. LineFit(r)'
  <2>1. CASE LockOrderItem(r)
    <3>1. /\ Locking(r) /\ Behind(r)' = Behind(r) \cup {nextLine[r]}
          /\ Fits(r, ReceiptLines[r][nextLine[r]])
          /\ snapshot' = snapshot /\ receipts' = receipts
      BY <2>1, ItemStep, RowsStay
    <3>2. \A n \in Behind(r) \cup {nextLine[r]} : Fits(r, ReceiptLines[r][n])
      BY <1>1, <3>1
    <3>3. \A n \in Behind(r)' : Fits(r, ReceiptLines[r][n])'
      BY <3>1, <3>2 DEF Fits
    <3> QED BY <1>1, <3>1, <3>3
  <2>2. CASE BeginReturn(r)
    <3>1. /\ at[r] = "idle" /\ at'[r] = "lock" /\ nextLine' = nextLine
          /\ snapshot'[r].receipts = receipts /\ receipts' = receipts
      BY <2>2 DEF BeginReturn, Goto, OrderTypes, orderRows
    <3>2. nextLine[r] = 1
      BY <3>1 DEF LinesLocked
    <3>3. Behind(r)' = {}
      BY <3>1, <3>2, ReceiptLineFacts DEF Behind
    <3> QED BY <3>1, <3>3
  <2>3. CASE LockCounter(r)
    <3>1. at[r] = "begin" /\ at'[r] = "lock" /\ nextLine' = nextLine
      BY <2>3 DEF LockCounter, Goto, OrderTypes, requestLocal
    <3>2. nextLine[r] = 1 /\ r \in Receivers
      BY <3>1 DEF LinesLocked, PlacesFit
    <3>3. Behind(r)' = {}
      BY <3>1, <3>2, ReceiptLineFacts DEF Behind
    <3> QED BY <3>2, <3>3, OrderFacts
  <2>4. CASE ~LockOrderItem(r) /\ ~BeginReturn(r) /\ ~LockCounter(r)
    <3>1. at'[r] \notin {"lock", "commit"}
      <4>1. CASE CommitReceipt(r) \/ CommitReturn(r) \/ Abandon(r)
        BY <4>1, EndsAt DEF CommitReceipt, CommitReturn, Abandon
      <4>2. CASE Settle(r) \/ TransitionUpdates(r)
        BY <4>2, Settles, Updates
      <4>3. CASE ReadOrder(r) \/ BeginTransition(r) \/ TransitionReads(r)
        BY <4>3 DEF ReadOrder, BeginTransition, TransitionReads, Goto, OrderTypes
      <4> QED BY <2>4, <4>1, <4>2, <4>3 DEF OrderStep
    <3> QED BY <3>1 DEF Locking
  <2> QED BY <2>1, <2>2, <2>3, <2>4
<1>6. \A q \in OrderRequests : LineFit(q)'
  BY <1>4, <1>5
<1> QED BY <1>6 DEF LinesFit

LEMMA HandledFitsNext ==
  ASSUME OrderTypes, PlacesFit, OrderFinite, LinesLocked, LinesFit, HandledFits,
         NEW r \in OrderRequests, OrderStep(r)
  PROVE  HandledFits'
<1>1. CASE receipts' = receipts
  <2>1. \A i \in OrderItems : HandledOnce(i)' = HandledOnce(i)
    BY <1>1 DEF HandledOnce
  <2> QED BY <2>1 DEF HandledFits, Handled, HandledBy
<1>2. CASE CommitReceipt(r)
  <2> SUFFICES ASSUME NEW i \in OrderItems
               PROVE  Handled(HandledOnce(i)', i) <= Ordered[i]
    BY DEF HandledFits, Handled, HandledBy
  <2> DEFINE S == HandledOnce(i)
             T == HandledOnce(i)'
  <2>1. /\ r \in Receivers /\ r \notin receipts /\ receipts' = receipts \cup {r}
        /\ at[r] = "commit"
    BY <1>2, ReceiptCommits
  <2>2. /\ receipts \in SUBSET OrderRequests /\ IsFiniteSet(receipts) /\ S \in SUBSET receipts
        /\ r \notin S
    BY <2>1, OrderFacts DEF OrderTypes, OrderFinite, HandledOnce
  <2>3. Handled(S, i) <= Ordered[i] /\ Ordered[i] \in Nat
    BY OrderFacts DEF HandledFits
  <2>4. T = IF Cardinality(LinesWith(r, i)) <= 1 THEN S \cup {r} ELSE S
    BY <2>1 DEF HandledOnce
  <2> HIDE DEF S, T
  <2>5. /\ IsFiniteSet(S) /\ Handled(S, i) \in Nat /\ Handled(receipts, i) \in Nat
        /\ Handled(S, i) <= Handled(receipts, i) /\ S \in SUBSET OrderRequests
    BY <2>2, MoreGoods
  <2>6. CASE ~(Cardinality(LinesWith(r, i)) <= 1)
    BY <2>3, <2>4, <2>6 DEF T
  <2>7. CASE Cardinality(LinesWith(r, i)) <= 1
    <3>1. T = S \cup {r}
      BY <2>4, <2>7
    <3>2. S \in SUBSET OrderRequests /\ IsFiniteSet(S) /\ r \notin S
      BY <2>2, <2>5
    <3>3. Handled(T, i) = Handled(S, i) + HandledBy(r, i) /\ HandledBy(r, i) \in Nat
      BY <3>1, <3>2, OneRequestMore, HandledByIs
    <3>4. CASE HandledBy(r, i) = 0
      BY <2>3, <2>5, <3>3, <3>4 DEF T
    <3>5. CASE HandledBy(r, i) # 0
      <4>1. PICK n \in LinesWith(r, i) :
              HandledBy(r, i) = ReceiptLines[r][n].quantity + ReceiptLines[r][n].rejected
        BY <2>7, <3>5, HandledByIs
      <4>2. n \in DOMAIN ReceiptLines[r] /\ ReceiptLines[r][n].item = i
        BY LinesWithFinite
      <4>3. Fits(r, ReceiptLines[r][n])
        BY <2>1, <4>2 DEF LinesFit, Locking, Behind
      <4>4. Handled(receipts, i) + ReceiptLines[r][n].quantity + ReceiptLines[r][n].rejected
              <= Ordered[i]
        BY <2>1, <4>2, <4>3 DEF Fits
      <4>5. ReceiptLines[r][n].quantity \in Nat /\ ReceiptLines[r][n].rejected \in Nat
        BY <4>2, ReceiptLineFacts
      <4>6. Handled(T, i) <= Ordered[i]
        BY <2>3, <2>5, <3>3, <4>1, <4>4, <4>5
      <4> QED BY <4>6 DEF T
    <3> QED BY <3>4, <3>5
  <2> QED BY <2>6, <2>7
<1> QED BY <1>1, <1>2, RowSteps, ReturnCommits, Settles, Updates, RowsStay

\* A return that saw all others of an item leaves it within what was received.
LEMMA ReturnFits ==
  ASSUME OrderTypes, PlacesFit, OrderFinite, LinesLocked, LinesFit, ReturnsFit,
         NEW r \in OrderRequests, CommitReturn(r),
         NEW i \in OrderItems, i \notin unseen', Cardinality(LinesWith(r, i)) <= 1
  PROVE  Goods(ReturnedOnce(i), i) + GoodsOf(r, i) <= Goods(receipts, i)
<1> DEFINE S == ReturnedOnce(i)
           V == snapshot[r].returns
           W == ReturnsMade \ V
           N == snapshot[r].receipts
<1>1. /\ i \notin unseen /\ at[r] = "commit" /\ r \in Returners
      /\ i \in itemLocks[r] => \A q \in W : ~(GoodsOf(q, i) > 0)
  BY DEF CommitReturn
<1>2. snapshot[r] \in [receipts : SUBSET Receivers, returns : SUBSET Returners]
  BY DEF OrderTypes
<1>3. /\ ReturnsMade \in SUBSET OrderRequests /\ IsFiniteSet(ReturnsMade)
      /\ V \in SUBSET OrderRequests /\ IsFiniteSet(V) /\ W \in SUBSET ReturnsMade
      /\ W \in SUBSET OrderRequests /\ S \in SUBSET ReturnsMade
      /\ S \in SUBSET OrderRequests
      /\ receipts \in SUBSET OrderRequests /\ IsFiniteSet(receipts)
      /\ S \subseteq V \cup W
  BY <1>2, OrderFacts DEF OrderTypes, OrderFinite, ReturnedOnce, ReturnsMade
<1>4. N \in SUBSET receipts
  BY <1>1 DEF LinesFit, Locking
<1>5. Goods(S, i) <= Goods(receipts, i)
  BY <1>1 DEF ReturnsFit
<1> HIDE DEF S, V, W, N
<1>6. /\ IsFiniteSet(S) /\ IsFiniteSet(W) /\ Goods(S, i) \in Nat /\ Goods(V, i) \in Nat
      /\ Goods(N, i) \in Nat /\ Goods(receipts, i) \in Nat
      /\ Goods(N, i) <= Goods(receipts, i) /\ GoodsOf(r, i) \in Nat
  BY <1>3, <1>4, MoreGoods, GoodsOfIs
<1>7. CASE GoodsOf(r, i) = 0
  BY <1>5, <1>6, <1>7 DEF S
<1>8. CASE GoodsOf(r, i) # 0
  <2>1. i \in itemLocks[r]
    BY <1>1, <1>8, CommitTouches
  <2>2. PICK n \in LinesWith(r, i) : GoodsOf(r, i) = ReceiptLines[r][n].quantity
    BY <1>8, GoodsOfIs
  <2>3. n \in DOMAIN ReceiptLines[r] /\ ReceiptLines[r][n].item = i
    BY LinesWithFinite
  <2>4. Fits(r, ReceiptLines[r][n]) /\ r \notin Receivers
    BY <1>1, <2>3, OrderFacts DEF LinesFit, Locking, Behind
  <2>5. Goods(V, i) + GoodsOf(r, i) <= Goods(N, i)
    BY <2>2, <2>3, <2>4 DEF Fits, V, N
  <2>6. \A q \in W : GoodsFrom(i)[q] = 0
    <3>1. ASSUME NEW q \in W PROVE GoodsOf(q, i) = 0
      <4>1. ~(GoodsOf(q, i) > 0) /\ q \in OrderRequests
        BY <1>1, <1>3, <2>1, <3>1
      <4>2. GoodsOf(q, i) \in Nat
        BY <4>1, GoodsOfIs
      <4> QED BY <4>1, <4>2
    <3> QED BY <1>3, <3>1, SumsOfRequests
  <2>7. Total(GoodsFrom(i), W) = 0
    <3>1. \A q \in W : GoodsFrom(i)[q] \in Int /\ GoodsFrom(i)[q] = 0 * GoodsFrom(i)[q]
      BY <2>6
    <3>2. Total(GoodsFrom(i), W) = 0 * Total(GoodsFrom(i), W)
      BY <1>6, <3>1, TotalTimes
    <3>3. Total(GoodsFrom(i), W) \in Int
      BY <1>6, <3>1, TotalInt
    <3> QED BY <3>2, <3>3
  <2>8. Total(GoodsFrom(i), S) <= Total(GoodsFrom(i), V) + Total(GoodsFrom(i), W)
    <3>1. \A q \in V \cup W : GoodsFrom(i)[q] \in Nat
      BY <1>3, SumsOfRequests
    <3> QED BY <1>3, <1>6, <3>1, TotalCover
  <2>9. Goods(S, i) = Total(GoodsFrom(i), S) /\ Goods(V, i) = Total(GoodsFrom(i), V)
    BY <1>3, SumsOfRequests
  <2>10. Goods(S, i) <= Goods(V, i)
    BY <1>6, <2>7, <2>8, <2>9
  <2>11. Goods(S, i) + GoodsOf(r, i) <= Goods(receipts, i)
    BY <1>6, <2>5, <2>10
  <2> QED BY <2>11 DEF S
<1> QED BY <1>7, <1>8

LEMMA ReturnsFitNext ==
  ASSUME OrderTypes, PlacesFit, OrderFinite, LinesLocked, LinesFit, ReturnsFit,
         NEW r \in OrderRequests, OrderStep(r)
  PROVE  ReturnsFit'
<1>0. /\ receipts \in SUBSET OrderRequests /\ IsFiniteSet(receipts)
      /\ ReturnsMade \in SUBSET OrderRequests /\ IsFiniteSet(ReturnsMade)
      /\ \A i \in OrderItems : ReturnedOnce(i) \in SUBSET ReturnsMade
  BY OrderFacts DEF OrderTypes, OrderFinite, ReturnedOnce, ReturnsMade
\* Returns that go, receipts that come.
<1>1. ASSUME ReturnsMade' \in SUBSET ReturnsMade, unseen' = unseen,
             \A i \in OrderItems : /\ Goods(receipts', i) \in Nat
                                   /\ Goods(receipts, i) <= Goods(receipts', i)
      PROVE  ReturnsFit'
  <2> SUFFICES ASSUME NEW i \in OrderItems, i \notin unseen
               PROVE  Goods(ReturnedOnce(i)', i) <= Goods(receipts', i)
    BY <1>1 DEF ReturnsFit, Goods, GoodsOf
  <2> DEFINE S == ReturnedOnce(i)
             T == ReturnedOnce(i)'
  <2>1. T \in SUBSET S
    BY <1>1 DEF ReturnedOnce
  <2>2. Goods(S, i) <= Goods(receipts, i)
    BY DEF ReturnsFit
  <2>3. S \in SUBSET OrderRequests /\ IsFiniteSet(S)
    BY <1>0, FS_Subset
  <2> HIDE DEF S, T
  <2>4. Goods(T, i) \in Nat /\ Goods(S, i) \in Nat /\ Goods(T, i) <= Goods(S, i)
        /\ Goods(receipts, i) \in Nat
    BY <1>0, <2>1, <2>3, MoreGoods
  <2>5. Goods(T, i) <= Goods(receipts', i)
    BY <1>1, <2>2, <2>4
  <2> QED BY <2>5 DEF T
<1>2. CASE receipts' = receipts /\ ReturnsMade' \in SUBSET ReturnsMade /\ unseen' = unseen
  <2>1. \A i \in OrderItems : /\ Goods(receipts', i) \in Nat
                              /\ Goods(receipts, i) <= Goods(receipts', i)
    BY <1>0, <1>2, MoreGoods
  <2> QED BY <1>1, <1>2, <2>1
<1>3. CASE CommitReceipt(r)
  <2>1. ReturnsMade' = ReturnsMade /\ unseen' = unseen
    BY <1>3, ReceiptCommits
  <2>2. ASSUME NEW i \in OrderItems
        PROVE  Goods(receipts', i) \in Nat /\ Goods(receipts, i) <= Goods(receipts', i)
    <3>1. /\ Goods(receipts', i) = Goods(receipts, i) + GoodsOf(r, i)
          /\ Goods(receipts, i) \in Nat /\ Goods(receipts', i) \in Nat
      BY <1>3, HandledOnCommit
    <3>2. GoodsOf(r, i) \in Nat
      BY GoodsOfIs
    <3> QED BY <3>1, <3>2
  <2> QED BY <1>1, <2>1, <2>2
<1>4. CASE CommitReturn(r)
  <2>1. r \notin ReturnsMade /\ ReturnsMade' = ReturnsMade \cup {r} /\ receipts' = receipts
    BY <1>4, ReturnCommits
  <2> SUFFICES ASSUME NEW i \in OrderItems, i \notin unseen'
               PROVE  Goods(ReturnedOnce(i)', i) <= Goods(receipts, i)
    BY <2>1 DEF ReturnsFit, Goods, GoodsOf
  <2> DEFINE S == ReturnedOnce(i)
             T == ReturnedOnce(i)'
  <2>2. T = IF Cardinality(LinesWith(r, i)) <= 1 THEN S \cup {r} ELSE S
    BY <2>1 DEF ReturnedOnce
  <2>3. Goods(S, i) <= Goods(receipts, i)
    BY <1>4 DEF ReturnsFit, CommitReturn
  <2>4. S \in SUBSET OrderRequests /\ IsFiniteSet(S) /\ r \notin S
    BY <1>0, <2>1, FS_Subset
  <2>5. Cardinality(LinesWith(r, i)) <= 1 =>
          Goods(S, i) + GoodsOf(r, i) <= Goods(receipts, i)
    BY <1>4, ReturnFits
  <2> HIDE DEF S, T
  <2>6. CASE ~(Cardinality(LinesWith(r, i)) <= 1)
    BY <2>2, <2>3, <2>6 DEF T
  <2>7. CASE Cardinality(LinesWith(r, i)) <= 1
    <3>1. T = S \cup {r}
      BY <2>2, <2>7
    <3>2. Goods(T, i) = Goods(S, i) + GoodsOf(r, i)
      BY <2>4, <3>1, OneRequestMore
    <3>3. Goods(T, i) <= Goods(receipts, i)
      BY <2>5, <2>7, <3>2
    <3> QED BY <3>3 DEF T
  <2> QED BY <2>6, <2>7
<1> QED BY <1>2, <1>3, <1>4, RowSteps, Settles, Updates, RowsStay

\* What is handled stays handled.
LEMMA AllHandledStays ==
  ASSUME OrderTypes, PlacesFit, OrderFinite, NEW r \in OrderRequests, OrderStep(r)
  PROVE  receipts # {} /\ AllHandled => receipts' # {} /\ AllHandled'
<1>1. CASE receipts' = receipts
  BY <1>1 DEF AllHandled, Handled, HandledBy
<1>2. CASE CommitReceipt(r)
  <2>1. ASSUME NEW i \in OrderItems, Handled(receipts, i) >= Ordered[i]
        PROVE  Handled(receipts', i) >= Ordered[i]
    <3>1. /\ Handled(receipts', i) = Handled(receipts, i) + HandledBy(r, i)
          /\ Handled(receipts, i) \in Nat
      BY <1>2, HandledOnCommit
    <3>2. HandledBy(r, i) \in Nat /\ Ordered[i] \in Nat
      BY HandledByIs, OrderFacts
    <3> QED BY <2>1, <3>1, <3>2
  <2>2. AllHandled => \A i \in OrderItems : Handled(receipts', i) >= Ordered[i]
    BY <2>1 DEF AllHandled
  <2>3. receipts' # {}
    BY <1>2, ReceiptCommits
  <2> QED BY <2>2, <2>3 DEF AllHandled, Handled, HandledBy
<1> QED BY <1>1, <1>2, RowSteps, ReturnCommits, Settles, Updates, RowsStay

\* A released order moves to a released status only.
LEMMA ReleasedStays ==
  /\ Released \in SUBSET OrderStatus
  /\ \A s \in Released : Successors[s] \in SUBSET Released
  /\ Successors["CLOSED"] = {}
  /\ \A s \in OrderStatus : s \notin Successors[s]
BY DEF Released, OrderStatus, Successors

LEMMA StatusFitsNext ==
  ASSUME OrderTypes, PlacesFit, OrderFinite, StatusFits, NEW r \in OrderRequests, OrderStep(r)
  PROVE  StatusFits'
<1> DEFINE Done == receipts # {} /\ AllHandled
           Opened == receipts # {} \/ \E q \in Receivers : UnderWay(q)
           Chosen(q) == Moving(q) =>
             /\ assigned[q] = Goal[OrderOp[q]]
             /\ assigned[q] = "CLOSED" => Done
             /\ ~raced => assigned[q] \in Successors[orderStatus]
<1>1. /\ orderStatus = "CLOSED" => Done
      /\ \A q \in OrderRequests : Chosen(q)
      /\ ~raced /\ Opened => orderStatus \in Released
  BY DEF StatusFits
<1>2. Done => Done'
  BY AllHandledStays
<1>3. \A q \in OrderRequests : q # r => (Moving(q)' <=> Moving(q)) /\ (UnderWay(q)' <=> UnderWay(q))
  BY OrderFrame DEF Moving, UnderWay
<1>4. \A q \in OrderRequests : Moving(q) => q \in Movers
  BY DEF Moving, PlacesFit
<1>5. CASE TransitionUpdates(r)
  <2>1. /\ at[r] = "update" /\ at'[r] = "done" /\ receipts' = receipts
        /\ orderStatus' = orderStatus \/ orderStatus' = assigned[r]
        /\ raced' = (raced \/ \E q \in Movers \ {r} : UnderWay(q))
    BY <1>5, Updates DEF TransitionUpdates
  <2>2. Moving(r) /\ ~Moving(r)' /\ ~UnderWay(r)'
    BY <2>1 DEF Moving, UnderWay
  <2>3. assigned[r] = "CLOSED" => Done
    BY <1>1, <2>2
  <2>4. orderStatus' = "CLOSED" => Done'
    BY <1>1, <1>2, <2>1, <2>3
  <2>5. ASSUME NEW q \in OrderRequests, Moving(q)' PROVE Chosen(q)'
    <3>1. q # r /\ Moving(q) /\ q \in Movers /\ UnderWay(q)
      BY <1>3, <1>4, <2>2, <2>5 DEF Moving, UnderWay
    <3>2. raced' /\ assigned'[q] = assigned[q]
      BY <2>1, <3>1, OrderFrame
    <3> QED BY <1>1, <1>2, <3>1, <3>2
  <2>6. ASSUME ~raced', Opened' PROVE orderStatus' \in Released
    <3>1. ~raced
      BY <2>1, <2>6
    <3>2. Opened
      BY <1>3, <2>1, <2>2, <2>6, OrderFacts
    <3>3. orderStatus \in Released /\ assigned[r] \in Successors[orderStatus]
      BY <1>1, <2>2, <3>1, <3>2
    <3> QED BY <2>1, <3>3, ReleasedStays
  <2>7. \A q \in OrderRequests : Chosen(q)'
    BY <2>5
  <2> QED BY <2>4, <2>6, <2>7 DEF StatusFits
<1>6. CASE ~TransitionUpdates(r)
  <2>1. orderStatus' = orderStatus /\ raced' = raced
    BY <1>6, RowSteps, ReceiptCommits, ReturnCommits, Settles, RowsStay
       DEF CommitReceipt, CommitReturn
  <2>2. ASSUME NEW q \in OrderRequests, Moving(q)' PROVE Chosen(q)'
    <3>1. CASE BeginTransition(r) /\ q = r
      <4>1. /\ MayMove(r) /\ r \in Movers /\ receipts' = receipts
            /\ assigned' = [assigned EXCEPT ![r] = Goal[OrderOp[r]]]
        BY <3>1 DEF BeginTransition, orderRows
      <4>2. assigned'[r] = Goal[OrderOp[r]]
        BY <4>1 DEF OrderTypes
      <4>3. Goal[OrderOp[r]] = "CLOSED" => OrderOp[r] = "close"
        BY <4>1 DEF Movers, Doing, Transitions, Goal
      <4>4. Goal[OrderOp[r]] = "CLOSED" => Done
        BY <4>1, <4>3 DEF MayMove
      <4>5. Goal[OrderOp[r]] \in Successors[orderStatus]
        BY <4>1 DEF MayMove
      <4> QED BY <1>2, <2>1, <3>1, <4>2, <4>4, <4>5
    <3>2. CASE ~(BeginTransition(r) /\ q = r)
      <4>1. Moving(q) /\ assigned'[q] = assigned[q]
        <5>1. CASE q # r
          BY <1>3, <1>4, <2>2, <5>1, OrderFrame
        <5>2. CASE q = r
          <6>1. TransitionReads(r)
            <7>1. CASE CommitReceipt(r) \/ CommitReturn(r) \/ Abandon(r)
              BY <2>2, <5>2, <7>1, EndsAt DEF CommitReceipt, CommitReturn, Abandon, Moving
            <7>2. CASE Settle(r)
              BY <2>2, <5>2, <7>2, Settles DEF Moving
            <7>3. CASE ReadOrder(r) \/ LockCounter(r) \/ BeginReturn(r) \/ LockOrderItem(r)
              BY <2>2, <5>2, <7>3 DEF ReadOrder, LockCounter, BeginReturn, LockOrderItem,
                   Goto, OrderTypes, Moving
            <7> QED BY <1>6, <3>2, <5>2, <7>1, <7>2, <7>3 DEF OrderStep
          <6> QED BY <5>2, <6>1 DEF TransitionReads, Moving
        <5> QED BY <5>1, <5>2
      <4> QED BY <1>1, <1>2, <2>1, <4>1
    <3> QED BY <3>1, <3>2
  <2>3. ASSUME ~raced, Opened' PROVE orderStatus \in Released
    <3>1. CASE ReadOrder(r)
      BY <3>1 DEF ReadOrder, Released
    <3>2. CASE ~ReadOrder(r)
      <4>1. Opened
        <5>1. CASE CommitReceipt(r)
          <6>1. r \in Receivers /\ UnderWay(r)
            BY <5>1, ReceiptCommits DEF UnderWay
          <6> QED BY <6>1
        <5>2. CASE receipts' = receipts
          <6>1. r \in Receivers /\ UnderWay(r)' => UnderWay(r)
            <7>1. CASE CommitReturn(r) \/ Abandon(r)
              BY <7>1, EndsAt DEF CommitReturn, Abandon, UnderWay
            <7>2. CASE Settle(r)
              BY <7>2, Settles DEF UnderWay
            <7>3. CASE LockCounter(r) \/ LockOrderItem(r) \/ TransitionReads(r)
              BY <7>3 DEF LockCounter, LockOrderItem, TransitionReads, UnderWay
            <7>4. CASE BeginReturn(r) \/ BeginTransition(r)
              BY <7>4, OrderFacts DEF BeginReturn, BeginTransition
            <7>5. CASE CommitReceipt(r)
              BY <7>5, ReceiptCommits DEF UnderWay
            <7> QED BY <1>6, <3>2, <7>1, <7>2, <7>3, <7>4, <7>5 DEF OrderStep
          <6> QED BY <1>3, <2>3, <5>2, <6>1, OrderFacts
        <5> QED BY <1>6, <5>1, <5>2, RowSteps, ReturnCommits, Settles, RowsStay
      <4> QED BY <1>1, <2>3, <4>1
    <3> QED BY <3>1, <3>2
  <2>4. \A q \in OrderRequests : Chosen(q)'
    BY <2>2
  <2>5. orderStatus' = "CLOSED" => Done'
    BY <1>1, <1>2, <2>1
  <2> QED BY <2>1, <2>3, <2>4, <2>5 DEF StatusFits
<1> QED BY <1>5, <1>6

LEMMA OrderInvInit == OrderInit => OrderInv
<1> SUFFICES ASSUME OrderInit PROVE OrderInv
  OBVIOUS
<1> USE DEF OrderInit
<1>1. OrderTypes
  <2>1. "DRAFT" \in OrderStatus
    BY DEF OrderStatus
  <2>2. snapshot \in [OrderRequests -> [receipts : SUBSET Receivers, returns : SUBSET Returners]]
    BY DEF Nothing
  <2>3. assigned \in [Movers -> OrderStatus] /\ reread \in [Movers -> OrderStatus]
    BY <2>1
  <2>4. at \in [OrderRequests ->
               {"idle", "begin", "lock", "commit", "save", "update", "done"}]
    OBVIOUS
  <2>5. returns \in [Returners -> {"NONE", "DRAFT", "COMPLETED", "CANCELLED"}]
    OBVIOUS
  <2>6. /\ itemLocks \in [OrderRequests -> SUBSET OrderItems]
        /\ nextLine \in [OrderRequests -> Nat \ {0}]
    OBVIOUS
  <2>7. orderStatus \in OrderStatus /\ receipts \in SUBSET Receivers
        /\ raced \in BOOLEAN /\ unseen \in SUBSET OrderItems
    BY <2>1
  <2> HIDE DEF OrderInit
  <2> QED BY <2>2, <2>3, <2>4, <2>5, <2>6, <2>7 DEF OrderTypes
<1>2. ReturnsMade = {} /\ receipts = {}
  BY DEF ReturnsMade
<1>3. OrderFinite
  BY <1>2, FS_EmptySet DEF OrderFinite, Nothing
<1>4. PlacesFit
  BY DEF PlacesFit
<1>5. LinesLocked /\ LinesFit /\ LocksApart
  BY DEF LinesLocked, LinesFit, LocksApart, Locking
<1>6. \A i : Handled({}, i) = 0 /\ Goods({}, i) = 0
  BY SumsOfRequests, TotalEmpty
<1>7. HandledFits
  <2>1. \A i \in OrderItems : HandledOnce(i) = {}
    BY <1>2 DEF HandledOnce
  <2>2. ASSUME NEW i \in OrderItems PROVE Handled(HandledOnce(i), i) <= Ordered[i]
    <3>1. Handled(HandledOnce(i), i) = 0 /\ Ordered[i] \in Nat
      BY <1>6, <2>1, OrderFacts
    <3> QED BY <3>1
  <2> QED BY <2>2 DEF HandledFits
<1>8. ReturnsFit
  <2>1. \A i \in OrderItems : ReturnedOnce(i) = {}
    BY <1>2 DEF ReturnedOnce
  <2> QED BY <1>2, <1>6, <2>1 DEF ReturnsFit
<1>9. StatusFits
  BY <1>2 DEF StatusFits, Moving, UnderWay, Receivers, Doing
<1> QED BY <1>1, <1>3, <1>4, <1>5, <1>7, <1>8, <1>9 DEF OrderInv

LEMMA OrderInvNext == OrderInv /\ [OrderNext]_orderVars => OrderInv'
<1> SUFFICES ASSUME OrderInv, [OrderNext]_orderVars PROVE OrderInv'
  OBVIOUS
<1>0. /\ OrderTypes /\ OrderFinite /\ PlacesFit /\ LinesLocked /\ LinesFit /\ LocksApart
      /\ HandledFits /\ ReturnsFit /\ StatusFits
  BY DEF OrderInv
<1>1. ASSUME NEW r \in OrderRequests, OrderStep(r) PROVE OrderInv'
  <2>1. OrderTypes' /\ OrderFinite' /\ PlacesFit'
    BY <1>0, <1>1, OrderTypesNext, OrderFiniteNext, PlacesFitNext
  <2>2. LinesLocked'
    BY <1>0, <1>1, LinesLockedNext
  <2>3. LinesFit' /\ LocksApart'
    BY <1>0, <1>1, <2>2, LinesFitNext, LocksApartNext
  <2>4. HandledFits' /\ ReturnsFit'
    BY <1>0, <1>1, HandledFitsNext, ReturnsFitNext
  <2>5. StatusFits'
    BY <1>0, <1>1, StatusFitsNext
  <2> QED BY <2>1, <2>2, <2>3, <2>4, <2>5 DEF OrderInv
<1>2. CASE OrderNext
  <2>1. \E r \in OrderRequests : OrderStep(r)
    BY <1>2 DEF OrderNext, OrderStep
  <2> QED BY <1>1, <2>1
<1>3. CASE UNCHANGED orderVars
  <2> USE <1>0, <1>3 DEF orderVars, orderRows, requestLocal
  <2>1. ReturnsMade' = ReturnsMade /\ receipts' = receipts
    BY DEF ReturnsMade
  <2>2. OrderTypes' /\ PlacesFit'
    BY DEF OrderTypes, PlacesFit
  <2>3. OrderFinite'
    BY <2>1 DEF OrderFinite
  <2>4. LinesLocked' /\ LocksApart'
    BY DEF LinesLocked, LocksApart, Locking, Behind, ItemOf
  <2>5. LinesFit'
    BY DEF LinesFit, Locking, Behind, Fits
  <2>6. HandledFits'
    BY DEF HandledFits, HandledOnce
  <2>7. ReturnsFit'
    BY <2>1 DEF ReturnsFit, ReturnedOnce
  <2>8. StatusFits'
    BY DEF StatusFits, Moving, UnderWay, AllHandled
  <2> QED BY <2>2, <2>3, <2>4, <2>5, <2>6, <2>7, <2>8 DEF OrderInv
<1> QED BY <1>2, <1>3

LEMMA OrderInvariant == OrderSpec => []OrderInv
BY OrderInvInit, OrderInvNext, PTL DEF OrderSpec

\* An item which none of the requests names twice is in at most one line of each.
LEMMA NamedOnce ==
  ASSUME NEW S \in SUBSET OrderRequests, NEW i \in OrderItems, i \notin NamedTwice(S)
  PROVE  \A r \in S : Cardinality(LinesWith(r, i)) <= 1
<1> SUFFICES ASSUME NEW r \in S PROVE Cardinality(LinesWith(r, i)) <= 1
  OBVIOUS
<1>1. ~(Cardinality(LinesWith(r, i)) > 1)
  BY DEF NamedTwice
<1>2. Cardinality(LinesWith(r, i)) \in Nat
  BY LinesWithFinite, FS_CardinalityType
<1> QED BY <1>1, <1>2

\* Whatever the requests, and the years whose counters they lock: concurrent receipts
\* of one item of an order never handle more of it than was ordered, unless one of them
\* names the item in two lines, each of which is checked without the other.
THEOREM OrderHandledWithinOrdered == OrderSpec => []HandledWithinOrdered
<1>1. OrderInv => HandledWithinOrdered
  <2> SUFFICES ASSUME OrderInv, NEW i \in OrderItems, i \notin NamedTwice(receipts)
               PROVE  Handled(receipts, i) <= Ordered[i]
    BY DEF HandledWithinOrdered
  <2>1. receipts \in SUBSET OrderRequests /\ Handled(HandledOnce(i), i) <= Ordered[i]
    BY OrderFacts DEF OrderInv, OrderTypes, HandledFits
  <2>2. HandledOnce(i) = receipts
    BY <2>1, NamedOnce DEF HandledOnce
  <2> QED BY <2>1, <2>2
<1> QED BY <1>1, OrderInvariant, PTL

\* The returns that are not cancelled send back no more of an item than was received,
\* unless a return was created in a snapshot that misses another one of the item, or
\* names the item in two lines.
THEOREM OrderReturnedWithinReceived == OrderSpec => []ReturnedWithinReceived
<1>1. OrderInv => ReturnedWithinReceived
  <2> SUFFICES ASSUME OrderInv, NEW i \in OrderItems, i \notin unseen,
                      i \notin NamedTwice(ReturnsMade)
               PROVE  Goods(ReturnsMade, i) <= Goods(receipts, i)
    BY DEF ReturnedWithinReceived
  <2>1. /\ ReturnsMade \in SUBSET OrderRequests
        /\ Goods(ReturnedOnce(i), i) <= Goods(receipts, i)
    BY OrderFacts DEF OrderInv, ReturnsMade, ReturnsFit
  <2>2. ReturnedOnce(i) = ReturnsMade
    BY <2>1, NamedOnce DEF ReturnedOnce
  <2> QED BY <2>1, <2>2
<1> QED BY <1>1, OrderInvariant, PTL

\* An order is closed only when something is received and everything handled, and goods
\* come in against a released order only, unless two transitions of it overlap.
THEOREM OrderStatusFitsReceipts == OrderSpec => []StatusFitsReceipts
<1>1. OrderInv => StatusFitsReceipts
  BY DEF OrderInv, StatusFits, StatusFitsReceipts, Released
<1> QED BY <1>1, OrderInvariant, PTL
==============================================================================
