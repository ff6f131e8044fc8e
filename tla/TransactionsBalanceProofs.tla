--------------------- MODULE TransactionsBalanceProofs ---------------------
(***************************************************************************)
(* IsolatedOverdraftIsRevived and BudgetHolds for every value of the       *)
(* constants in which requests that share a payment hash are alike: what   *)
(* an app spends was validated, row by row, against what it had.           *)
(***************************************************************************)
EXTENDS TransactionsProofs, WellFoundedInduction

-----------------------------------------------------------------------------
(* Sums over finite sets.                                                  *)

LEMMA LeastNumber ==
    ASSUME NEW S \in SUBSET Nat, S # {}
    PROVE  \E n \in S : \A m \in S : ~(m < n)
<1> DEFINE less == OpToRel(<, Nat)
<1>1. less = {ss \in Nat \X Nat : ss[1] < ss[2]}
  BY DEF OpToRel
<1>2. IsWellFoundedOn(less, Nat)
  BY NatLessThanWellFounded
<1> HIDE DEF less
<1>3. \E n \in S : \A m \in S : ~(<<m, n>> \in less)
  BY <1>2, WFMin
<1>4. ASSUME NEW m \in Nat, NEW n \in Nat, m < n PROVE <<m, n>> \in less
  BY <1>1, <1>4
<1> QED BY <1>3, <1>4

(* What holds of a set whenever it holds of every smaller part of it holds *)
(* of every set: G is what it holds of.                                    *)
LEMMA FiniteSetInduction ==
    ASSUME NEW S, IsFiniteSet(S), NEW G,
           \A T \in SUBSET S : (\A U \in SUBSET T : U # T => U \in G) => T \in G
    PROVE  \A T \in SUBSET S : T \in G
<1> DEFINE bad == {T \in SUBSET S : T \notin G}
           sizes == {Cardinality(T) : T \in bad}
<1> SUFFICES ASSUME bad # {} PROVE FALSE
  OBVIOUS
<1>1. \A T \in bad : IsFiniteSet(T) /\ Cardinality(T) \in Nat
  BY FS_Subset, FS_CardinalityType
<1>2. sizes \in SUBSET Nat /\ sizes # {}
  BY <1>1
<1> HIDE DEF sizes, bad
<1>3. PICK n \in sizes : \A m \in sizes : ~(m < n)
  BY <1>2, LeastNumber
<1>4. PICK T \in bad : n = Cardinality(T)
  BY DEF sizes
<1>5. ASSUME NEW U \in SUBSET T, U # T, U \notin G PROVE FALSE
  <2>1. U \in bad /\ Cardinality(U) \in sizes
    BY <1>4, <1>5 DEF bad, sizes
  <2>2. Cardinality(U) <= Cardinality(T) /\ Cardinality(U) # Cardinality(T)
    BY <1>1, <1>5, FS_Subset
  <2>3. Cardinality(U) \in Nat /\ Cardinality(T) \in Nat
    BY <1>1, <2>1
  <2> QED BY <1>3, <1>4, <2>1, <2>2, <2>3
<1> QED BY <1>4, <1>5 DEF bad

(* The element MapThenSumSet takes out first, and the function it defines. *)
Pick(S) == CHOOSE x \in S : TRUE
SumsUp(c, S, sum) ==
    sum = [T \in SUBSET S |-> IF T = {} THEN 0 ELSE c[Pick(T)] + sum[T \ {Pick(T)}]]

LEMMA PickIn == ASSUME NEW S, S # {} PROVE Pick(S) \in S
BY DEF Pick

LEMMA SumIsChosen ==
    ASSUME NEW c, NEW S
    PROVE  SumOver(c, S) = (CHOOSE sum : SumsUp(c, S, sum))[S]
BY DEF SumOver, MapThenSumSet, MapThenFoldSet, SumsUp, Pick

LEMMA SumsUpOnce ==
    ASSUME NEW c, NEW S, IsFiniteSet(S), NEW f, NEW g, SumsUp(c, S, f), SumsUp(c, S, g)
    PROVE  \A T \in SUBSET S : f[T] = g[T]
<1> DEFINE G == {T \in SUBSET S : f[T] = g[T]}
<1>1. ASSUME NEW T \in SUBSET S, \A U \in SUBSET T : U # T => U \in G
      PROVE  T \in G
  <2>1. CASE T = {}
    BY <2>1 DEF SumsUp
  <2>2. CASE T # {}
    <3>1. Pick(T) \in T
      BY <2>2, PickIn
    <3>2. T \ {Pick(T)} \in G
      BY <1>1, <3>1
    <3>3. /\ f[T] = c[Pick(T)] + f[T \ {Pick(T)}]
          /\ g[T] = c[Pick(T)] + g[T \ {Pick(T)}]
      BY <2>2 DEF SumsUp
    <3> QED BY <3>2, <3>3
  <2> QED BY <2>1, <2>2
<1> HIDE DEF G
<1>2. \A T \in SUBSET S : T \in G
  BY <1>1, FiniteSetInduction
<1> QED BY <1>2 DEF G

SumStep(c, T) ==
    SumOver(c, T) = IF T = {} THEN 0 ELSE c[Pick(T)] + SumOver(c, T \ {Pick(T)})

LEMMA SumSteps ==
    ASSUME NEW c, NEW S, IsFiniteSet(S)
    PROVE  SumStep(c, S)
<1> DEFINE G == {T \in SUBSET S : SumStep(c, T)}
<1>1. ASSUME NEW T \in SUBSET S, \A U \in SUBSET T : U # T => U \in G
      PROVE  T \in G
  <2> DEFINE g == [U \in SUBSET T |-> IF U = {} THEN 0
                                      ELSE c[Pick(U)] + SumOver(c, U \ {Pick(U)})]
             f == CHOOSE sum : SumsUp(c, T, sum)
  <2>1. \A U \in SUBSET T : U # T => SumOver(c, U) = g[U]
    BY <1>1 DEF SumStep
  <2>2. SumsUp(c, T, g)
    <3>1. ASSUME NEW U \in SUBSET T, U # {}
          PROVE  g[U] = c[Pick(U)] + g[U \ {Pick(U)}]
      <4>1. Pick(U) \in U
        BY <3>1, PickIn
      <4>2. U \ {Pick(U)} \in SUBSET T /\ U \ {Pick(U)} # T
        BY <4>1
      <4>3. SumOver(c, U \ {Pick(U)}) = g[U \ {Pick(U)}]
        BY <2>1, <4>2
      <4>4. g[U] = c[Pick(U)] + SumOver(c, U \ {Pick(U)})
        BY <3>1
      <4> QED BY <4>3, <4>4
    <3>2. g[{}] = 0
      OBVIOUS
    <3>3. g = [U \in SUBSET T |-> g[U]]
      OBVIOUS
    <3> HIDE DEF g
    <3>4. \A U \in SUBSET T : g[U] = IF U = {} THEN 0 ELSE c[Pick(U)] + g[U \ {Pick(U)}]
      BY <3>1, <3>2
    <3> QED BY <3>3, <3>4 DEF SumsUp
  <2>3. g[T] = IF T = {} THEN 0 ELSE c[Pick(T)] + SumOver(c, T \ {Pick(T)})
    OBVIOUS
  <2>4. SumOver(c, T) = f[T]
    BY SumIsChosen
  <2> HIDE DEF g
  <2>5. SumsUp(c, T, f)
    BY <2>2
  <2> HIDE DEF f
  <2>6. f[T] = g[T]
    <3>1. IsFiniteSet(T)
      BY FS_Subset
    <3> QED BY <2>2, <2>5, <3>1, SumsUpOnce
  <2> QED BY <2>3, <2>4, <2>6 DEF SumStep
<1> HIDE DEF G
<1>2. \A T \in SUBSET S : T \in G
  BY <1>1, FiniteSetInduction
<1> QED BY <1>2 DEF G

LEMMA SumEmpty == ASSUME NEW c PROVE SumOver(c, {}) = 0
BY SumSteps, FS_EmptySet DEF SumStep

LEMMA SumType ==
    ASSUME NEW c, NEW S, IsFiniteSet(S), \A i \in S : c[i] \in Nat
    PROVE  SumOver(c, S) \in Nat
<1> DEFINE G == {T \in SUBSET S : SumOver(c, T) \in Nat}
<1>1. ASSUME NEW T \in SUBSET S, \A U \in SUBSET T : U # T => U \in G
      PROVE  T \in G
  <2>1. SumStep(c, T)
    BY FS_Subset, SumSteps
  <2>2. CASE T = {}
    BY <2>1, <2>2 DEF SumStep
  <2>3. CASE T # {}
    <3>1. Pick(T) \in T
      BY <2>3, PickIn
    <3>2. SumOver(c, T \ {Pick(T)}) \in Nat /\ c[Pick(T)] \in Nat
      BY <1>1, <3>1
    <3> QED BY <2>1, <2>3, <3>2 DEF SumStep
  <2> QED BY <2>2, <2>3
<1> HIDE DEF G
<1>2. \A T \in SUBSET S : T \in G
  BY <1>1, FiniteSetInduction
<1> QED BY <1>2 DEF G

(* Any element can be taken out first.                                     *)
LEMMA SumTake ==
    ASSUME NEW c, NEW S, IsFiniteSet(S), \A i \in S : c[i] \in Nat
    PROVE  \A x \in S : SumOver(c, S) = c[x] + SumOver(c, S \ {x})
<1> DEFINE G == {T \in SUBSET S : \A x \in T : SumOver(c, T) = c[x] + SumOver(c, T \ {x})}
<1>0. ASSUME NEW T \in SUBSET S PROVE SumOver(c, T) \in Nat /\ SumStep(c, T)
  BY FS_Subset, SumSteps, SumType
<1>1. ASSUME NEW T \in SUBSET S, \A U \in SUBSET T : U # T => U \in G
      PROVE  T \in G
  <2>1. ASSUME NEW x \in T PROVE SumOver(c, T) = c[x] + SumOver(c, T \ {x})
    <3> DEFINE y == Pick(T)
    <3>1. y \in T /\ SumOver(c, T) = c[y] + SumOver(c, T \ {y})
      BY <1>0, PickIn DEF SumStep
    <3> HIDE DEF y
    <3>2. CASE x # y
      <4>1. T \ {y} \in G /\ x \in T \ {y} /\ T \ {x} \in G /\ y \in T \ {x}
        BY <1>1, <3>1, <3>2
      <4>2. (T \ {y}) \ {x} = (T \ {x}) \ {y}
        OBVIOUS
      <4>3. /\ SumOver(c, T \ {y}) = c[x] + SumOver(c, (T \ {y}) \ {x})
            /\ SumOver(c, T \ {x}) = c[y] + SumOver(c, (T \ {x}) \ {y})
        BY <4>1
      <4>4. c[x] \in Nat /\ c[y] \in Nat /\ SumOver(c, (T \ {y}) \ {x}) \in Nat
        BY <1>0, <3>1
      <4> QED BY <3>1, <4>2, <4>3, <4>4
    <3> QED BY <3>1, <3>2
  <2> QED BY <2>1
<1> HIDE DEF G
<1>2. \A T \in SUBSET S : T \in G
  BY <1>1, FiniteSetInduction
<1> QED BY <1>2 DEF G

LEMMA SumInsert ==
    ASSUME NEW c, NEW S, IsFiniteSet(S), NEW x, x \notin S, \A i \in S \cup {x} : c[i] \in Nat
    PROVE  SumOver(c, S \cup {x}) = c[x] + SumOver(c, S)
<1>1. IsFiniteSet(S \cup {x}) /\ x \in S \cup {x} /\ (S \cup {x}) \ {x} = S
  BY FS_AddElement
<1> QED BY <1>1, SumTake

(* Two columns: the smaller one has the smaller sum.                       *)
LEMMA SumMonotone ==
    ASSUME NEW S, IsFiniteSet(S), NEW c, NEW d,
           \A i \in S : c[i] \in Nat /\ d[i] \in Nat /\ c[i] <= d[i]
    PROVE  SumOver(c, S) <= SumOver(d, S)
<1> DEFINE G == {T \in SUBSET S : SumOver(c, T) <= SumOver(d, T)}
<1>0. ASSUME NEW T \in SUBSET S
      PROVE  SumOver(c, T) \in Nat /\ SumOver(d, T) \in Nat /\ SumStep(c, T) /\ SumStep(d, T)
  BY FS_Subset, SumSteps, SumType
<1>1. ASSUME NEW T \in SUBSET S, \A U \in SUBSET T : U # T => U \in G
      PROVE  T \in G
  <2>1. CASE T = {}
    BY <1>0, <2>1 DEF SumStep
  <2>2. CASE T # {}
    <3> DEFINE x == Pick(T)
               U == T \ {x}
    <3>1. x \in S /\ U \in SUBSET S /\ U \in G
      BY <1>1, <2>2, PickIn
    <3>2. SumOver(c, T) = c[x] + SumOver(c, U) /\ SumOver(d, T) = d[x] + SumOver(d, U)
      BY <1>0, <2>2 DEF SumStep
    <3> HIDE DEF x, U
    <3>3. c[x] \in Nat /\ d[x] \in Nat /\ c[x] <= d[x]
      BY <3>1
    <3>4. SumOver(c, U) \in Nat /\ SumOver(d, U) \in Nat /\ SumOver(c, U) <= SumOver(d, U)
      BY <1>0, <3>1
    <3> QED BY <3>2, <3>3, <3>4
  <2> QED BY <2>1, <2>2
<1> HIDE DEF G
<1>2. \A T \in SUBSET S : T \in G
  BY <1>1, FiniteSetInduction
<1> QED BY <1>2 DEF G

LEMMA SumSame ==
    ASSUME NEW S, IsFiniteSet(S), NEW c, NEW d, \A i \in S : c[i] \in Nat /\ d[i] = c[i]
    PROVE  SumOver(c, S) = SumOver(d, S)
<1>1. SumOver(c, S) \in Nat /\ SumOver(d, S) \in Nat
  BY SumType
<1>2. SumOver(c, S) <= SumOver(d, S)
  <2>1. \A i \in S : c[i] \in Nat /\ d[i] \in Nat /\ c[i] <= d[i]
    OBVIOUS
  <2> QED BY <2>1, SumMonotone
<1>3. SumOver(d, S) <= SumOver(c, S)
  <2>1. \A i \in S : d[i] \in Nat /\ c[i] \in Nat /\ d[i] <= c[i]
    OBVIOUS
  <2> QED BY <2>1, SumMonotone
<1> QED BY <1>1, <1>2, <1>3

LEMMA SumPlus ==
    ASSUME NEW S, IsFiniteSet(S), NEW c, NEW d, NEW e,
           \A i \in S : c[i] \in Nat /\ d[i] \in Nat /\ e[i] = c[i] + d[i]
    PROVE  SumOver(e, S) = SumOver(c, S) + SumOver(d, S)
<1> DEFINE G == {T \in SUBSET S : SumOver(e, T) = SumOver(c, T) + SumOver(d, T)}
<1>0. ASSUME NEW T \in SUBSET S
      PROVE  /\ SumOver(c, T) \in Nat /\ SumOver(d, T) \in Nat
             /\ SumStep(c, T) /\ SumStep(d, T) /\ SumStep(e, T)
  BY FS_Subset, SumSteps, SumType
<1>1. ASSUME NEW T \in SUBSET S, \A U \in SUBSET T : U # T => U \in G
      PROVE  T \in G
  <2>1. CASE T = {}
    BY <1>0, <2>1 DEF SumStep
  <2>2. CASE T # {}
    <3> DEFINE x == Pick(T)
               U == T \ {x}
    <3>1. x \in S /\ U \in SUBSET S /\ U \in G
      BY <1>1, <2>2, PickIn
    <3>2. /\ SumOver(c, T) = c[x] + SumOver(c, U)
          /\ SumOver(d, T) = d[x] + SumOver(d, U)
          /\ SumOver(e, T) = e[x] + SumOver(e, U)
      BY <1>0, <2>2 DEF SumStep
    <3> HIDE DEF x, U
    <3>3. c[x] \in Nat /\ d[x] \in Nat /\ e[x] = c[x] + d[x]
      BY <3>1
    <3>4. SumOver(c, U) \in Nat /\ SumOver(d, U) \in Nat
          /\ SumOver(e, U) = SumOver(c, U) + SumOver(d, U)
      BY <1>0, <3>1
    <3> QED BY <3>2, <3>3, <3>4
  <2> QED BY <2>1, <2>2
<1> HIDE DEF G
<1>2. \A T \in SUBSET S : T \in G
  BY <1>1, FiniteSetInduction
<1> QED BY <1>2 DEF G

(* A sum over some rows is the sum over all of a column with zeros in it.  *)
LEMMA SumWhere ==
    ASSUME NEW S, IsFiniteSet(S), NEW R, NEW c, NEW d,
           \A i \in S : c[i] \in Nat /\ d[i] = IF i \in R THEN c[i] ELSE 0
    PROVE  SumOver(d, S) = SumOver(c, S \cap R)
<1> DEFINE G == {T \in SUBSET S : SumOver(d, T) = SumOver(c, T \cap R)}
<1>0. ASSUME NEW T \in SUBSET S
      PROVE  SumOver(d, T) \in Nat /\ SumOver(c, T \cap R) \in Nat /\ SumStep(d, T)
             /\ IsFiniteSet(T \cap R)
  <2>1. IsFiniteSet(T) /\ IsFiniteSet(T \cap R)
    BY FS_Subset
  <2> QED BY <2>1, SumSteps, SumType
<1>1. ASSUME NEW T \in SUBSET S, \A U \in SUBSET T : U # T => U \in G
      PROVE  T \in G
  <2>1. CASE T = {}
    <3>1. SumOver(d, T) = 0 /\ T \cap R = {}
      BY <1>0, <2>1 DEF SumStep
    <3> QED BY <2>1, <3>1, SumEmpty
  <2>2. CASE T # {}
    <3> DEFINE x == Pick(T)
               U == T \ {x}
    <3>1. x \in T /\ x \in S /\ U \in SUBSET S /\ U \in G
      BY <1>1, <2>2, PickIn
    <3>2. SumOver(d, T) = d[x] + SumOver(d, U)
      BY <1>0, <2>2 DEF SumStep
    <3>3. x \notin U /\ T = U \cup {x}
      BY <3>1
    <3> HIDE DEF x, U
    <3>4. SumOver(d, U) = SumOver(c, U \cap R) /\ SumOver(c, U \cap R) \in Nat
      BY <1>0, <3>1
    <3>5. CASE x \in R
      <4>1. T \cap R = (U \cap R) \cup {x} /\ x \notin U \cap R
        BY <3>3, <3>5
      <4>2. \A i \in (U \cap R) \cup {x} : c[i] \in Nat
        BY <3>1
      <4>3. SumOver(c, T \cap R) = c[x] + SumOver(c, U \cap R)
        BY <1>0, <3>1, <4>1, <4>2, SumInsert
      <4> QED BY <3>1, <3>2, <3>4, <3>5, <4>3
    <3>6. CASE x \notin R
      <4>1. T \cap R = U \cap R
        BY <3>3, <3>6
      <4> QED BY <3>1, <3>2, <3>4, <3>6, <4>1
    <3> QED BY <3>5, <3>6
  <2> QED BY <2>1, <2>2
<1> HIDE DEF G
<1>2. \A T \in SUBSET S : T \in G
  BY <1>1, FiniteSetInduction
<1> QED BY <1>2 DEF G

-----------------------------------------------------------------------------
(* Columns of a table.  Of the rows outside R a column counts nothing.     *)

Only(c, R) == [i \in DOMAIN c |-> IF i \in R THEN c[i] ELSE 0]

Table(t) == DOMAIN t \subseteq TxId /\ t \in [DOMAIN t -> Row] /\ IsFiniteSet(DOMAIN t)

LEMMA SumOnly ==
    ASSUME NEW S, IsFiniteSet(S), NEW c \in [S -> Nat], NEW R, R \subseteq S
    PROVE  SumOver(Only(c, R), S) = SumOver(c, R) /\ Only(c, R) \in [S -> Nat]
<1>1. \A i \in S : c[i] \in Nat /\ Only(c, R)[i] = IF i \in R THEN c[i] ELSE 0
  BY DEF Only
<1>2. S \cap R = R
  OBVIOUS
<1>3. SumOver(Only(c, R), S) = SumOver(c, S \cap R)
  BY <1>1, SumWhere
<1> QED BY <1>2, <1>3 DEF Only

LEMMA SumSubset ==
    ASSUME NEW S, IsFiniteSet(S), NEW R, R \subseteq S, NEW c, \A i \in S : c[i] \in Nat
    PROVE  SumOver(c, R) <= SumOver(c, S)
<1> DEFINE d == [i \in S |-> IF i \in R THEN c[i] ELSE 0]
<1>1. \A i \in S : c[i] \in Nat /\ d[i] = IF i \in R THEN c[i] ELSE 0
  OBVIOUS
<1>2. \A i \in S : d[i] \in Nat /\ c[i] \in Nat /\ d[i] <= c[i]
  OBVIOUS
<1> HIDE DEF d
<1>3. S \cap R = R
  OBVIOUS
<1>4. SumOver(d, S) = SumOver(c, S \cap R)
  BY <1>1, SumWhere
<1>5. SumOver(d, S) <= SumOver(c, S)
  BY <1>2, SumMonotone
<1> QED BY <1>3, <1>4, <1>5

LEMMA ReserveType ==
    ASSUME NEW x \in Requests
    PROVE  AmountOf[x] \in Nat /\ CalculateFeeReserveMsat(AmountOf[x]) \in Nat
<1>1. AmountOf[x] \in Nat
  BY RequestAssumption
<1> QED BY <1>1, FeeReserveType

(* What a payment was validated for: a self payment without its reserve.   *)
Validated(r) == AmountOf[r.pay] + r.fee + (IF r.self THEN 0 ELSE r.reserve)

LEMMA CostTypes ==
    ASSUME NEW r \in Row
    PROVE  /\ Validated(r) \in Nat /\ Cost(r) \in Nat
           /\ Validated(r) <= Cost(r)
           /\ Cost(r) = Validated(r) + IF r.self THEN r.reserve ELSE 0
<1>1. AmountOf[r.pay] \in Nat /\ r.fee \in Nat /\ r.reserve \in Nat /\ r.self \in BOOLEAN
  BY RequestAssumption DEF Row
<1> QED BY <1>1 DEF Validated, Cost

(* The rows of app a in a table t, but for the revived ones v.             *)
ValidatedColumn(t) == [i \in DOMAIN t |-> Validated(t[i])]
ValidatedCosts(t, v, a) == Only(ValidatedColumn(t), Outgoing(t, a) \ v)
ValidatedMsat(t, v, a) == SumOver(ValidatedCosts(t, v, a), DOMAIN t)

LEMMA ValidatedType ==
    ASSUME NEW t, Table(t), NEW v, NEW a
    PROVE  /\ ValidatedColumn(t) \in [DOMAIN t -> Nat]
           /\ ValidatedCosts(t, v, a) \in [DOMAIN t -> Nat]
           /\ ValidatedMsat(t, v, a) \in Nat
<1>1. \A i \in DOMAIN t : Validated(t[i]) \in Nat
  BY CostTypes DEF Table
<1>2. ValidatedColumn(t) \in [DOMAIN t -> Nat]
  BY <1>1 DEF ValidatedColumn
<1>3. ValidatedCosts(t, v, a) \in [DOMAIN t -> Nat]
  BY <1>2 DEF ValidatedCosts, Only
<1>4. \A i \in DOMAIN t : ValidatedCosts(t, v, a)[i] \in Nat
  BY <1>3
<1>5. ValidatedMsat(t, v, a) \in Nat
  BY <1>4, SumType DEF ValidatedMsat, Table
<1> QED BY <1>2, <1>3, <1>5

LEMMA SpentType ==
    ASSUME NEW t, Table(t), NEW a
    PROVE  /\ Costs(t) \in [DOMAIN t -> Nat]
           /\ Outgoing(t, a) \subseteq DOMAIN t
           /\ SpentMsat(t, a) = SumOver(Only(Costs(t), Outgoing(t, a)), DOMAIN t)
           /\ SpentMsat(t, a) \in Nat
<1>1. Costs(t) \in [DOMAIN t -> Nat]
  BY CostTypes DEF Table, Costs
<1>2. Outgoing(t, a) \subseteq DOMAIN t
  BY DEF Outgoing
<1>3. /\ SpentMsat(t, a) = SumOver(Only(Costs(t), Outgoing(t, a)), DOMAIN t)
      /\ Only(Costs(t), Outgoing(t, a)) \in [DOMAIN t -> Nat]
  BY <1>1, <1>2, SumOnly DEF SpentMsat, Table
<1>4. \A i \in DOMAIN t : Only(Costs(t), Outgoing(t, a))[i] \in Nat
  BY <1>3
<1>5. SpentMsat(t, a) \in Nat
  BY <1>3, <1>4, SumType DEF Table
<1> QED BY <1>1, <1>2, <1>3, <1>5

LEMMA ValidatedIsSpent ==
    ASSUME NEW t, Table(t), NEW v, NEW a
    PROVE  ValidatedMsat(t, v, a) <= SpentMsat(t, a)
<1> DEFINE c == ValidatedCosts(t, v, a)
           d == Only(Costs(t), Outgoing(t, a))
<1>1. \A i \in DOMAIN t : c[i] \in Nat /\ d[i] \in Nat /\ c[i] <= d[i]
  <2>1. ASSUME NEW i \in DOMAIN t PROVE c[i] \in Nat /\ d[i] \in Nat /\ c[i] <= d[i]
    <3>1. Validated(t[i]) \in Nat /\ Cost(t[i]) \in Nat /\ Validated(t[i]) <= Cost(t[i])
      BY CostTypes DEF Table
    <3>2. c[i] = IF i \in Outgoing(t, a) \ v THEN Validated(t[i]) ELSE 0
      BY DEF ValidatedCosts, Only, ValidatedColumn
    <3>3. d[i] = IF i \in Outgoing(t, a) THEN Cost(t[i]) ELSE 0
      BY DEF Only, Costs
    <3> HIDE DEF c, d
    <3> QED BY <3>1, <3>2, <3>3
  <2> QED BY <2>1
<1> HIDE DEF c, d
<1>2. SumOver(c, DOMAIN t) <= SumOver(d, DOMAIN t)
  BY <1>1, SumMonotone DEF Table
<1> QED BY <1>2, SpentType DEF c, d, ValidatedMsat

(* What is spent was validated, is a self payment's reserve, or revived.   *)
SelfColumn(t) == [i \in DOMAIN t |-> IF t[i].self THEN t[i].reserve ELSE 0]

LEMMA SpentIsValidated ==
    ASSUME NEW t, Table(t), NEW v, NEW a
    PROVE  /\ SumOver(SelfColumn(t), Outgoing(t, a)) \in Nat
           /\ SumOver(Costs(t), v \cap Outgoing(t, a)) \in Nat
           /\ SpentMsat(t, a) <= ValidatedMsat(t, v, a) + SumOver(SelfColumn(t), Outgoing(t, a))
                                   + SumOver(Costs(t), v \cap Outgoing(t, a))
<1> DEFINE S == DOMAIN t
           sent == Outgoing(t, a)
           c == ValidatedCosts(t, v, a)
           d == Only(SelfColumn(t), sent)
           e == Only(Costs(t), v \cap sent)
           cd == [i \in S |-> c[i] + d[i]]
           cde == [i \in S |-> cd[i] + e[i]]
           f == Only(Costs(t), sent)
<1>1. IsFiniteSet(S) /\ sent \subseteq S /\ Costs(t) \in [S -> Nat] /\ v \cap sent \subseteq S
  BY SpentType DEF Table
<1>2. SelfColumn(t) \in [S -> Nat]
  BY DEF Table, SelfColumn, Row
<1>3. SumOver(d, S) = SumOver(SelfColumn(t), sent) /\ d \in [S -> Nat]
  BY <1>1, <1>2, SumOnly
<1>4. SumOver(e, S) = SumOver(Costs(t), v \cap sent) /\ e \in [S -> Nat]
  BY <1>1, SumOnly
<1>5. c \in [S -> Nat]
  BY ValidatedType
<1>6. ASSUME NEW i \in S
      PROVE  f[i] \in Nat /\ f[i] <= c[i] + d[i] + e[i]
  <2>1. t[i] \in Row
    BY DEF Table
  <2>2. /\ Validated(t[i]) \in Nat /\ Cost(t[i]) \in Nat
        /\ Cost(t[i]) = Validated(t[i]) + IF t[i].self THEN t[i].reserve ELSE 0
    BY <2>1, CostTypes
  <2>3. c[i] = IF i \in sent \ v THEN Validated(t[i]) ELSE 0
    BY DEF ValidatedCosts, Only, ValidatedColumn
  <2>4. d[i] = IF i \in sent THEN SelfColumn(t)[i] ELSE 0
    BY <1>2 DEF Only
  <2>5. SelfColumn(t)[i] = (IF t[i].self THEN t[i].reserve ELSE 0) /\ SelfColumn(t)[i] \in Nat
    BY <1>2 DEF SelfColumn
  <2>6. e[i] = IF i \in v \cap sent THEN Cost(t[i]) ELSE 0
    BY DEF Only, Costs
  <2>7. f[i] = IF i \in sent THEN Cost(t[i]) ELSE 0
    BY DEF Only, Costs
  <2> HIDE DEF c, d, e, f, sent
  <2> QED BY <2>2, <2>3, <2>4, <2>5, <2>6, <2>7
<1> HIDE DEF c, d, e, f, sent, S
<1>7. \A i \in S : c[i] \in Nat /\ d[i] \in Nat /\ cd[i] = c[i] + d[i]
  BY <1>3, <1>5
<1>8. \A i \in S : cd[i] \in Nat /\ e[i] \in Nat /\ cde[i] = cd[i] + e[i]
  BY <1>4, <1>7
<1>9. \A i \in S : f[i] \in Nat /\ cde[i] \in Nat /\ f[i] <= cde[i]
  <2>1. ASSUME NEW i \in S PROVE f[i] \in Nat /\ cde[i] \in Nat /\ f[i] <= cde[i]
    <3>1. cde[i] = cd[i] + e[i] /\ cd[i] = c[i] + d[i]
          /\ c[i] \in Nat /\ d[i] \in Nat /\ e[i] \in Nat
      BY <1>7, <1>8
    <3> HIDE DEF cd, cde
    <3> QED BY <1>6, <3>1
  <2> QED BY <2>1
<1> HIDE DEF cd, cde
<1>10. SumOver(cd, S) = SumOver(c, S) + SumOver(d, S)
  BY <1>1, <1>7, SumPlus
<1>11. SumOver(cde, S) = SumOver(cd, S) + SumOver(e, S)
  BY <1>1, <1>8, SumPlus
<1>12. SumOver(f, S) <= SumOver(cde, S)
  BY <1>1, <1>9, SumMonotone
<1>13. SumOver(d, S) \in Nat /\ SumOver(e, S) \in Nat
  <2>1. \A i \in S : d[i] \in Nat
    BY <1>7
  <2>2. \A i \in S : e[i] \in Nat
    BY <1>8
  <2> QED BY <1>1, <2>1, <2>2, SumType
<1>14. SpentMsat(t, a) = SumOver(f, S)
  BY SpentType DEF f, sent, S
<1>15. ValidatedMsat(t, v, a) = SumOver(c, S)
  BY DEF ValidatedMsat, c, S
<1> QED BY <1>3, <1>4, <1>10, <1>11, <1>12, <1>13, <1>14, <1>15 DEF sent

-----------------------------------------------------------------------------
(* From a table t with the revived rows v to u with w.                     *)

Kept(t, u) == \A i \in DOMAIN t : /\ i \in DOMAIN u
                                  /\ t[i].state = "SETTLED" => u[i] = t[i]

NotDearer(t, v, u, w) ==
    /\ DOMAIN u = DOMAIN t
    /\ \A a \in Apps : \A i \in DOMAIN t : ValidatedCosts(u, w, a)[i] <= ValidatedCosts(t, v, a)[i]

LEMMA NotDearerSum ==
    ASSUME NEW t, Table(t), NEW u, Table(u), NEW v, NEW w, NotDearer(t, v, u, w),
           NEW a \in Apps
    PROVE  ValidatedMsat(u, w, a) <= ValidatedMsat(t, v, a)
<1> DEFINE c == ValidatedCosts(t, v, a)
           d == ValidatedCosts(u, w, a)
<1>1. c \in [DOMAIN t -> Nat] /\ d \in [DOMAIN t -> Nat] /\ DOMAIN u = DOMAIN t
  BY ValidatedType DEF NotDearer
<1>2. \A i \in DOMAIN t : d[i] <= c[i]
  BY DEF NotDearer
<1>3. ValidatedMsat(u, w, a) = SumOver(d, DOMAIN t) /\ ValidatedMsat(t, v, a) = SumOver(c, DOMAIN t)
  BY <1>1 DEF ValidatedMsat
<1> HIDE DEF c, d
<1>4. \A i \in DOMAIN t : d[i] \in Nat /\ c[i] \in Nat /\ d[i] <= c[i]
  BY <1>1, <1>2
<1> QED BY <1>3, <1>4, SumMonotone DEF Table

(* What an app received never gets less.                                   *)
LEMMA ReceivedGrows ==
    ASSUME NEW t, Table(t), NEW u, Table(u), Kept(t, u), NEW a
    PROVE  /\ ReceivedMsat(t, a) \in Nat /\ ReceivedMsat(u, a) \in Nat
           /\ ReceivedMsat(t, a) <= ReceivedMsat(u, a)
<1> DEFINE S == Received(t, a)
           U == Received(u, a)
           c == [i \in DOMAIN t |-> AmountOf[t[i].pay]]
           d == [i \in DOMAIN u |-> AmountOf[u[i].pay]]
<1>1. IsFiniteSet(S) /\ IsFiniteSet(U)
  BY FS_Subset DEF Table, Received
<1>2. S \subseteq U
  BY DEF Kept, Received
<1>3. \A i \in S : c[i] \in Nat
  BY RequestAssumption DEF Table, Row, Received
<1>4. \A i \in U : d[i] \in Nat
  BY RequestAssumption DEF Table, Row, Received
<1>5. \A i \in S : d[i] = c[i]
  BY DEF Kept, Received
<1>6. ReceivedMsat(t, a) = SumOver(c, S) /\ ReceivedMsat(u, a) = SumOver(d, U)
  BY DEF ReceivedMsat
<1> HIDE DEF S, U, c, d
<1>7. SumOver(c, S) = SumOver(d, S)
  BY <1>1, <1>3, <1>5, SumSame
<1>8. SumOver(d, S) <= SumOver(d, U)
  BY <1>1, <1>2, <1>4, SumSubset
<1>9. SumOver(c, S) \in Nat /\ SumOver(d, U) \in Nat
  BY <1>1, <1>3, <1>4, SumType
<1> QED BY <1>6, <1>7, <1>8, <1>9

(* A new row costs its app what it was validated for.                      *)
LEMMA InsertCosts ==
    ASSUME NEW t, Table(t), NEW v, NEW i, IsNextId(t, i), NEW r \in Row,
           NEW u, u = Insert(t, i, r), NEW a
    PROVE  /\ Table(u) /\ Kept(t, u)
           /\ ValidatedMsat(u, v, a) <=
                ValidatedMsat(t, v, a) + IF r.type = "outgoing" /\ r.app = a THEN Validated(r) ELSE 0
<1> DEFINE S == DOMAIN t
           c == ValidatedCosts(t, v, a)
           d == ValidatedCosts(u, v, a)
<1>1. /\ i \in TxId /\ i \notin S /\ DOMAIN u = S \cup {i} /\ u[i] = r
      /\ \A j \in S : u[j] = t[j]
      /\ u \in [S \cup {i} -> Row] /\ IsFiniteSet(S)
  BY DEF Insert, IsNextId, Table
<1>2. Table(u) /\ Kept(t, u)
  BY <1>1, FS_AddElement DEF Table, Kept
<1>3. c \in [S -> Nat] /\ d \in [S \cup {i} -> Nat]
  BY <1>1, <1>2, ValidatedType
<1>4. \A j \in S : d[j] = c[j]
  BY <1>1 DEF ValidatedCosts, Only, ValidatedColumn, Outgoing
<1>5. Validated(r) \in Nat
  BY CostTypes
<1>6. d[i] <= IF r.type = "outgoing" /\ r.app = a THEN Validated(r) ELSE 0
  BY <1>1, <1>5 DEF ValidatedCosts, Only, ValidatedColumn, Outgoing
<1>7. ValidatedMsat(u, v, a) = SumOver(d, S \cup {i}) /\ ValidatedMsat(t, v, a) = SumOver(c, S)
  BY <1>1 DEF ValidatedMsat
<1> HIDE DEF S, c, d
<1>8. \A j \in S \cup {i} : d[j] \in Nat
  BY <1>3
<1>9. SumOver(d, S \cup {i}) = d[i] + SumOver(d, S)
  BY <1>1, <1>8, SumInsert
<1>10. SumOver(c, S) = SumOver(d, S) /\ SumOver(c, S) \in Nat
  <2>1. \A j \in S : c[j] \in Nat /\ d[j] = c[j]
    BY <1>3, <1>4
  <2> QED BY <1>1, <2>1, SumSame, SumType
<1>11. d[i] \in Nat
  BY <1>8
<1> QED BY <1>2, <1>5, <1>6, <1>7, <1>9, <1>10, <1>11

-----------------------------------------------------------------------------
(* What was validated is covered by what the app received, and by its      *)
(* budget up to the rounding down of the two amounts to sats.              *)

Covered(t, v) ==
    \A a \in Apps :
        /\ a \in Isolated => ValidatedMsat(t, v, a) <= Funding[a] + ReceivedMsat(t, a)
        /\ Budget[a] > 0 => ValidatedMsat(t, v, a) <= 1000 * Budget[a] + 1998

LEMMA CoveredNotDearer ==
    ASSUME NEW t, Table(t), NEW v, NEW u, Table(u), NEW w, Kept(t, u),
           NotDearer(t, v, u, w), Covered(t, v)
    PROVE  Covered(u, w)
<1> SUFFICES ASSUME NEW a \in Apps
             PROVE  /\ a \in Isolated => ValidatedMsat(u, w, a) <= Funding[a] + ReceivedMsat(u, a)
                    /\ Budget[a] > 0 => ValidatedMsat(u, w, a) <= 1000 * Budget[a] + 1998
  BY DEF Covered
<1>1. ValidatedMsat(u, w, a) <= ValidatedMsat(t, v, a)
  BY NotDearerSum
<1>2. ValidatedMsat(u, w, a) \in Nat /\ ValidatedMsat(t, v, a) \in Nat
  BY ValidatedType
<1>3. Funding[a] \in Nat /\ Budget[a] \in Nat
  BY AppAssumption
<1>4. /\ ReceivedMsat(t, a) \in Nat /\ ReceivedMsat(u, a) \in Nat
      /\ ReceivedMsat(t, a) <= ReceivedMsat(u, a)
  BY ReceivedGrows
<1>5. /\ a \in Isolated => ValidatedMsat(t, v, a) <= Funding[a] + ReceivedMsat(t, a)
      /\ Budget[a] > 0 => ValidatedMsat(t, v, a) <= 1000 * Budget[a] + 1998
  BY DEF Covered
<1> QED BY <1>1, <1>2, <1>3, <1>4, <1>5

(* Rounding both sides down to sats loses less than two of them.           *)
LEMMA TwoRoundings ==
    ASSUME NEW n \in Nat, NEW s \in Nat, NEW b \in Nat, n \div 1000 <= b - s \div 1000
    PROVE  s + n <= 1000 * b + 1998
<1>1. \A m \in Nat : m \div 1000 \in Nat /\ m <= 1000 * (m \div 1000) + 999
  OBVIOUS
<1>2. /\ n \div 1000 \in Nat /\ n <= 1000 * (n \div 1000) + 999
      /\ s \div 1000 \in Nat /\ s <= 1000 * (s \div 1000) + 999
  BY <1>1
<1>3. ASSUME NEW p \in Nat, NEW q \in Nat, n <= 1000 * p + 999, s <= 1000 * q + 999, p <= b - q
      PROVE  s + n <= 1000 * b + 1998
  BY <1>3
<1> QED BY <1>2, <1>3

(* The row of a payment that ValidateCanPay let through.                   *)
LEMMA CoveredPayment ==
    ASSUME NEW t, Table(t), NEW v, NEW i, IsNextId(t, i), NEW r \in Row,
           NEW u, u = Insert(t, i, r), r.fee = 0,
           r.reserve = CalculateFeeReserveMsat(AmountOf[r.pay]),
           ValidateCanPay(t, r.app, AmountOf[r.pay], r.self), Covered(t, v)
    PROVE  Covered(u, v)
<1> SUFFICES ASSUME NEW a \in Apps
             PROVE  /\ a \in Isolated => ValidatedMsat(u, v, a) <= Funding[a] + ReceivedMsat(u, a)
                    /\ Budget[a] > 0 => ValidatedMsat(u, v, a) <= 1000 * Budget[a] + 1998
  BY DEF Covered
<1> DEFINE need == Validated(r)
           before == ValidatedMsat(t, v, a)
           after == ValidatedMsat(u, v, a)
           spent == SpentMsat(t, a)
           had == ReceivedMsat(t, a)
           has == ReceivedMsat(u, a)
<1>1. /\ Table(u) /\ Kept(t, u)
      /\ after <= before + IF r.type = "outgoing" /\ r.app = a THEN need ELSE 0
  BY InsertCosts
<1>2. after \in Nat /\ before \in Nat /\ spent \in Nat /\ before <= spent
  BY <1>1, ValidatedType, SpentType, ValidatedIsSpent
<1>3. had \in Nat /\ has \in Nat /\ had <= has
  BY <1>1, ReceivedGrows
<1>4. Funding[a] \in Nat /\ Budget[a] \in Nat /\ a # NoApp
  BY AppAssumption
<1>5. /\ a \in Isolated => before <= Funding[a] + had
      /\ Budget[a] > 0 => before <= 1000 * Budget[a] + 1998
  BY DEF Covered
<1>6. /\ need \in Nat /\ r.pay \in Requests
      /\ need = IF r.self THEN AmountOf[r.pay]
                ELSE AmountOf[r.pay] + CalculateFeeReserveMsat(AmountOf[r.pay])
  <2>1. r.pay \in Requests /\ r.self \in BOOLEAN
    BY DEF Row
  <2> QED BY <2>1, CostTypes, ReserveType DEF Validated
<1>7. CASE r.app = a
  <2>1. /\ a \in Isolated => need <= Funding[a] + had - spent
        /\ Budget[a] > 0 => need \div 1000 <= Budget[a] - spent \div 1000
    BY <1>4, <1>6, <1>7 DEF ValidateCanPay, GetIsolatedBalanceMsat, GetBudgetUsageMsat
  <2>2. Budget[a] > 0 => spent + need <= 1000 * Budget[a] + 1998
    <3> HIDE DEF need, spent
    <3> QED BY <1>2, <1>4, <1>6, <2>1, TwoRoundings
  <2> HIDE DEF need, before, after, spent, had, has
  <2>3. after <= before + need
    BY <1>1, <1>2, <1>6
  <2> QED BY <1>2, <1>3, <1>4, <1>6, <2>1, <2>2, <2>3
         DEF need, before, after, spent, had, has
<1>8. CASE r.app # a
  <2> HIDE DEF before, after, had, has
  <2>1. after <= before
    <3>1. ~(r.type = "outgoing" /\ r.app = a)
      BY <1>8
    <3>2. after <= before + 0
      BY <1>1, <3>1
    <3> QED BY <1>2, <3>2
  <2> QED BY <1>2, <1>3, <1>4, <1>5, <2>1 DEF before, after, had, has
<1> QED BY <1>7, <1>8

(* A row that no app pays for.                                             *)
LEMMA CoveredFree ==
    ASSUME NEW t, Table(t), NEW v, NEW i, IsNextId(t, i), NEW r \in Row,
           NEW u, u = Insert(t, i, r), r.type = "incoming" \/ r.app = NoApp, Covered(t, v)
    PROVE  Covered(u, v)
<1> SUFFICES ASSUME NEW a \in Apps
             PROVE  /\ a \in Isolated => ValidatedMsat(u, v, a) <= Funding[a] + ReceivedMsat(u, a)
                    /\ Budget[a] > 0 => ValidatedMsat(u, v, a) <= 1000 * Budget[a] + 1998
  BY DEF Covered
<1>1. Funding[a] \in Nat /\ Budget[a] \in Nat /\ a # NoApp
  BY AppAssumption
<1>2. ~(r.type = "outgoing" /\ r.app = a)
  BY <1>1
<1>3. Table(u) /\ Kept(t, u) /\ ValidatedMsat(u, v, a) <= ValidatedMsat(t, v, a) + 0
  BY <1>2, InsertCosts
<1>4. /\ ValidatedMsat(u, v, a) \in Nat /\ ValidatedMsat(t, v, a) \in Nat
      /\ ReceivedMsat(t, a) \in Nat /\ ReceivedMsat(u, a) \in Nat
      /\ ReceivedMsat(t, a) <= ReceivedMsat(u, a)
  BY <1>3, ValidatedType, ReceivedGrows
<1>5. /\ a \in Isolated => ValidatedMsat(t, v, a) <= Funding[a] + ReceivedMsat(t, a)
      /\ Budget[a] > 0 => ValidatedMsat(t, v, a) <= 1000 * Budget[a] + 1998
  BY DEF Covered
<1> QED BY <1>1, <1>3, <1>4, <1>5

-----------------------------------------------------------------------------
(* What the operations of the service do to a row.                         *)

Reserve(x) == CalculateFeeReserveMsat(AmountOf[x])

(* An invoice of this hub costs no fee, any other at most its reserve.     *)
MaxFee(x) == IF x \in Own THEN 0 ELSE Reserve(x)

(* Requests that share a hash are alike: both or none of them are this     *)
(* hub's, and a lookup by the hash finds no other reserve.                 *)
HashesApart ==
    \A x \in Requests \ Own, y \in Requests :
        HashOf[x] = HashOf[y] => y \notin Own /\ Reserve(x) = Reserve(y)

(* Whatever request with the hash of x it settles, the fee fits.           *)
FeeFits(x, fee) == \A y \in Requests : HashOf[x] = HashOf[y] => fee <= MaxFee(y)

(* Only own requests are received or paid by this hub itself; a pending    *)
(* payment has its whole reserve and no fee.                               *)
RowFits(r) ==
    /\ r.type = "incoming" => r.pay \in Own
    /\ r.type = "outgoing" =>
         /\ r.state # "ACCEPTED"
         /\ r.self => r.pay \in Own
         /\ r.state = "PENDING" => r.fee = 0 /\ r.reserve = Reserve(r.pay)

RowsFit(t) == \A i \in DOMAIN t : RowFits(t[i])

(* An update of one row which is cheaper, failed, or among the revived w.  *)
FittingUpdate(t, w, i, r) ==
    /\ i \in DOMAIN t /\ t[i].state # "SETTLED"
    /\ r \in Row /\ RowFits(r) /\ r.type = t[i].type /\ r.app = t[i].app
    /\ r.type = "outgoing" =>
         \/ i \in w \/ r.state = "FAILED"
         \/ t[i].state = "PENDING" /\ Validated(r) <= Validated(t[i])

TableFits(t, v) == Table(t) /\ RowsFit(t) /\ Covered(t, v)

LEMMA UpdateFits ==
    ASSUME NEW t, NEW v, TableFits(t, v), NEW w, v \subseteq w, NEW i, NEW r,
           FittingUpdate(t, w, i, r), NEW u, u = [t EXCEPT ![i] = r]
    PROVE  TableFits(u, w)
<1>0. Table(t) /\ RowsFit(t) /\ Covered(t, v)
  BY DEF TableFits
<1>1. /\ DOMAIN u = DOMAIN t /\ u[i] = r
      /\ \A j \in DOMAIN t \ {i} : u[j] = t[j]
      /\ u \in [DOMAIN t -> Row]
  BY <1>0 DEF Table, FittingUpdate
<1>2. Table(u) /\ RowsFit(u) /\ Kept(t, u)
  BY <1>0, <1>1 DEF Table, RowsFit, Kept, FittingUpdate
<1>3. NotDearer(t, v, u, w)
  <2>1. ASSUME NEW a, NEW j \in DOMAIN t
        PROVE  ValidatedCosts(u, w, a)[j] <= ValidatedCosts(t, v, a)[j]
    <3>1. Validated(t[j]) \in Nat /\ Validated(u[j]) \in Nat
      BY <1>0, <1>1, CostTypes DEF Table
    <3>2. ValidatedCosts(t, v, a)[j] = IF j \in Outgoing(t, a) \ v THEN Validated(t[j]) ELSE 0
      BY DEF ValidatedCosts, Only, ValidatedColumn
    <3>3. ValidatedCosts(u, w, a)[j] = IF j \in Outgoing(u, a) \ w THEN Validated(u[j]) ELSE 0
      BY <1>1 DEF ValidatedCosts, Only, ValidatedColumn
    <3>4. j \in Outgoing(u, a) \ w =>
            j \in Outgoing(t, a) \ v /\ Validated(u[j]) <= Validated(t[j])
      <4>1. CASE j # i
        BY <1>1, <3>1, <4>1 DEF Outgoing
      <4>2. CASE j = i
        BY <1>1, <4>2 DEF Outgoing, FittingUpdate
      <4> QED BY <4>1, <4>2
    <3> QED BY <3>1, <3>2, <3>3, <3>4
  <2> QED BY <1>1, <2>1 DEF NotDearer
<1>4. Covered(u, w)
  BY <1>0, <1>2, <1>3, CoveredNotDearer
<1> QED BY <1>2, <1>4 DEF TableFits

(* What a step does to the table, with what it must know to be safe.       *)
FreeInsert ==
    \E i, r : /\ IsNextId(txs, i) /\ r \in Row /\ RowFits(r)
              /\ r.type = "incoming" \/ r.app = NoApp
              /\ txs' = Insert(txs, i, r) /\ UNCHANGED revived

PaidInsert ==
    \E i, r : /\ IsNextId(txs, i) /\ r \in Row /\ RowFits(r)
              /\ r.type = "outgoing" /\ r.fee = 0 /\ r.reserve = Reserve(r.pay)
              /\ ValidateCanPay(txs, r.app, AmountOf[r.pay], r.self)
              /\ txs' = Insert(txs, i, r) /\ UNCHANGED revived

FittingAccept ==
    \E x \in Requests, self \in BOOLEAN : MarkHoldInvoiceAccepted(x, self) /\ UNCHANGED revived

FittingSettle ==
    \E i \in DOMAIN txs, fee \in Nat, self \in BOOLEAN :
        /\ MarkTransactionSettled(i, fee, self)
        /\ txs[i].type = "outgoing" =>
             fee <= MaxFee(txs[i].pay) /\ (self => txs[i].pay \in Own)

FittingCreate ==
    \E i \in TxId, type \in Types, x \in Requests, fee \in Nat :
        /\ CreateSettledTransactionFromNotification(i, type, x, fee)
        /\ type = "incoming" => x \in Own

FittingOperation ==
    \/ UNCHANGED <<txs, revived>>
    \/ FreeInsert \/ PaidInsert \/ FittingAccept \/ Failed \/ FittingSettle \/ FittingCreate

LEMMA InsertFits ==
    ASSUME NEW t, NEW v, TableFits(t, v), NEW i, IsNextId(t, i), NEW r \in Row, RowFits(r),
           NEW u, u = Insert(t, i, r),
           \/ r.type = "incoming" \/ r.app = NoApp
           \/ /\ r.fee = 0 /\ r.reserve = Reserve(r.pay)
              /\ ValidateCanPay(t, r.app, AmountOf[r.pay], r.self)
    PROVE  TableFits(u, v)
<1>1. Table(t) /\ RowsFit(t) /\ Covered(t, v)
  BY DEF TableFits
<1>2. Table(u)
  BY <1>1, InsertCosts
<1>3. RowsFit(u)
  BY <1>1 DEF Insert, RowsFit
<1>4. Covered(u, v)
  BY <1>1, CoveredFree, CoveredPayment DEF Reserve
<1> QED BY <1>2, <1>3, <1>4 DEF TableFits

LEMMA SettleFits ==
    ASSUME TypeOK, TableFits(txs, revived), NEW i \in DOMAIN txs, NEW fee \in Nat,
           NEW self \in BOOLEAN, MarkTransactionSettled(i, fee, self),
           txs[i].type = "outgoing" =>
               fee <= MaxFee(txs[i].pay) /\ (self => txs[i].pay \in Own)
    PROVE  TableFits(txs', revived')
<1> DEFINE row == txs[i]
           r == [row EXCEPT !.state = "SETTLED", !.fee = fee, !.reserve = 0, !.self = self]
<1>1. CASE FindSettled(txs, row.type, row.pay) # {}
  BY <1>1 DEF MarkTransactionSettled
<1>2. CASE FindSettled(txs, row.type, row.pay) = {}
  <2>1. SetSettled(i, fee, self) /\ ~Settled(i)
    BY <1>2, SettledIsFound DEF MarkTransactionSettled
  <2>2. Table(txs) /\ RowsFit(txs) /\ Covered(txs, revived) /\ row \in Row /\ RowFits(row)
    BY DEF TableFits, Table, RowsFit
  <2>3. /\ r \in Row /\ txs' = [txs EXCEPT ![i] = r]
        /\ r.type = row.type /\ r.app = row.app /\ r.pay = row.pay /\ r.state = "SETTLED"
        /\ r.fee = fee /\ r.reserve = 0 /\ r.self = self
    BY <2>1, <2>2 DEF SetSettled, Row, States, Table
  <2>4. revived \subseteq revived' /\ (row.state = "FAILED" => i \in revived')
    BY <2>1 DEF SetSettled
  <2>5. RowFits(r)
    BY <2>2, <2>3 DEF RowFits
  <2> HIDE DEF r
  <2>6. r.type = "outgoing" =>
          \/ i \in revived' \/ r.state = "FAILED"
          \/ row.state = "PENDING" /\ Validated(r) <= Validated(row)
    <3> SUFFICES ASSUME r.type = "outgoing", row.state # "FAILED"
                 PROVE  row.state = "PENDING" /\ Validated(r) <= Validated(row)
      BY <2>4
    <3>1. row.state = "PENDING"
      BY <2>1, <2>2, <2>3 DEF RowFits, Settled, Row, States
    <3>2. /\ row.fee = 0 /\ row.reserve = Reserve(row.pay) /\ (row.self => row.pay \in Own)
          /\ fee <= MaxFee(row.pay)
      BY <2>2, <2>3, <3>1 DEF RowFits
    <3>3. AmountOf[row.pay] \in Nat /\ Reserve(row.pay) \in Nat /\ row.self \in BOOLEAN
      BY <2>2, ReserveType DEF Row, Reserve
    <3>4. Validated(r) = AmountOf[row.pay] + fee
      BY <2>3, <3>3 DEF Validated
    <3>5. Validated(row) = AmountOf[row.pay] + IF row.self THEN 0 ELSE Reserve(row.pay)
      BY <3>2, <3>3 DEF Validated
    <3>6. fee <= IF row.self THEN 0 ELSE Reserve(row.pay)
      BY <3>2, <3>3 DEF MaxFee
    <3> QED BY <3>1, <3>3, <3>4, <3>5, <3>6
  <2>7. row.state # "SETTLED"
    BY <2>1 DEF Settled
  <2>8. FittingUpdate(txs, revived', i, r)
    BY <2>3, <2>5, <2>6, <2>7 DEF FittingUpdate
  <2> QED BY <2>3, <2>4, <2>8, UpdateFits
<1> QED BY <1>1, <1>2

LEMMA FailFits ==
    ASSUME TypeOK, TableFits(txs, revived), NEW i \in DOMAIN txs, MarkPaymentFailed(i)
    PROVE  TableFits(txs', revived')
<1> DEFINE r == [txs[i] EXCEPT !.state = "FAILED", !.reserve = 0]
<1>1. CASE ~CanFail(i)
  BY <1>1 DEF MarkPaymentFailed
<1>2. CASE CanFail(i)
  <2>1. Table(txs) /\ RowsFit(txs) /\ Covered(txs, revived) /\ txs[i] \in Row /\ RowFits(txs[i])
    BY DEF TableFits, Table, RowsFit
  <2>2. /\ r \in Row /\ txs' = [txs EXCEPT ![i] = r] /\ UNCHANGED revived
        /\ r.type = txs[i].type /\ r.app = txs[i].app /\ r.state = "FAILED"
        /\ r.pay = txs[i].pay /\ r.self = txs[i].self
    BY <1>2, <2>1 DEF MarkPaymentFailed, Row, States, Table
  <2>3. txs[i].state # "SETTLED" /\ RowFits(r)
    BY <1>2, <2>1, <2>2 DEF CanFail, RowFits
  <2> HIDE DEF r
  <2>4. FittingUpdate(txs, revived, i, r)
    BY <2>2, <2>3 DEF FittingUpdate
  <2> QED BY <2>2, <2>4, UpdateFits
<1> QED BY <1>1, <1>2

LEMMA AcceptFits ==
    ASSUME TypeOK, TableFits(txs, revived), NEW x, NEW self \in BOOLEAN,
           MarkHoldInvoiceAccepted(x, self), UNCHANGED revived
    PROVE  TableFits(txs', revived')
<1> DEFINE found == FindByRequest(txs, "incoming", {"PENDING"}, x)
<1>1. CASE found = {}
  BY <1>1 DEF MarkHoldInvoiceAccepted
<1>2. CASE found # {}
  <2>1. PICK i \in found : txs' = [txs EXCEPT ![i].state = "ACCEPTED", ![i].self = self]
    BY <1>2 DEF MarkHoldInvoiceAccepted
  <2>2. i \in DOMAIN txs /\ txs[i].type = "incoming" /\ txs[i].state = "PENDING"
    BY DEF FindByRequest, FindByHash
  <2> DEFINE r == [txs[i] EXCEPT !.state = "ACCEPTED", !.self = self]
  <2>3. Table(txs) /\ RowsFit(txs) /\ Covered(txs, revived) /\ txs[i] \in Row /\ RowFits(txs[i])
    BY <2>2 DEF TableFits, Table, RowsFit
  <2>4. txs' = [txs EXCEPT ![i] = r]
    BY <2>1, <2>2
  <2>5. r \in Row /\ r.type = "incoming" /\ r.app = txs[i].app /\ r.pay = txs[i].pay
    BY <2>2, <2>3 DEF Row, States
  <2>6. RowFits(r)
    BY <2>2, <2>3, <2>5 DEF RowFits
  <2> HIDE DEF r, found
  <2>7. FittingUpdate(txs, revived, i, r)
    BY <2>2, <2>5, <2>6 DEF FittingUpdate
  <2> QED BY <2>4, <2>7, UpdateFits
<1> QED BY <1>1, <1>2

LEMMA OperationFits ==
    ASSUME TypeOK, TableFits(txs, revived), FittingOperation
    PROVE  TableFits(txs', revived')
<1>1. CASE UNCHANGED <<txs, revived>>
  BY <1>1
<1>2. CASE FreeInsert
  BY <1>2, InsertFits DEF FreeInsert
<1>3. CASE PaidInsert
  BY <1>3, InsertFits DEF PaidInsert
<1>4. CASE FittingAccept
  BY <1>4, AcceptFits DEF FittingAccept
<1>5. CASE Failed
  BY <1>5, FailFits DEF Failed
<1>6. CASE FittingSettle
  BY <1>6, SettleFits DEF FittingSettle
<1>7. CASE FittingCreate
  <2>1. PICK i \in TxId, type \in Types, x \in Requests, fee \in Nat :
            /\ CreateSettledTransactionFromNotification(i, type, x, fee)
            /\ type = "incoming" => x \in Own
    BY <1>7 DEF FittingCreate
  <2> DEFINE r == [type |-> type, state |-> "SETTLED", pay |-> x,
                   app |-> IF type = "incoming" /\ x \in Keysends \cap Own
                           THEN Payee[x] ELSE NoApp,
                   fee |-> fee, reserve |-> 0, self |-> FALSE]
  <2>2. CASE FindSettled(txs, type, x) # {}
    BY <2>1, <2>2 DEF CreateSettledTransactionFromNotification
  <2>3. CASE FindSettled(txs, type, x) = {}
    <3>1. IsNextId(txs, i) /\ txs' = Insert(txs, i, r) /\ UNCHANGED revived
      BY <2>1, <2>3 DEF CreateSettledTransactionFromNotification
    <3>2. r \in Row /\ RowFits(r) /\ (r.type = "incoming" \/ r.app = NoApp)
      <4>1. type = "incoming" \/ type = "outgoing"
        BY DEF Types
      <4>2. (IF type = "incoming" /\ x \in Keysends \cap Own THEN Payee[x] ELSE NoApp)
              \in Apps \cup {NoApp}
        BY AppAssumption
      <4> QED BY <2>1, <4>1, <4>2 DEF Row, RowFits, States
    <3> HIDE DEF r
    <3> QED BY <3>1, <3>2, InsertFits
  <2> QED BY <2>2, <2>3
<1> QED BY <1>1, <1>2, <1>3, <1>4, <1>5, <1>6, <1>7 DEF FittingOperation

-----------------------------------------------------------------------------
(* The inductive invariant.  A payment of an own request is a self payment *)
(* (which pays no fee), and whoever tells the fee of a settled payment, the *)
(* node or an event on its way, tells one that was reserved.               *)

CallsFit == \A p \in DOMAIN call : call[p].self => call[p].pay \in Own

OutFits ==
    \A h \in DOMAIN out : /\ HashOf[out[h].pay] = h /\ out[h].pay \in Requests \ Own
                          /\ FeeFits(out[h].pay, out[h].fee)

TellsFee(e) ==
    /\ e.kind = "payment_sent" => FeeFits(e.pay, e.fee)
    /\ e.kind \in {"payment_received", "hold_invoice_accepted"} => e.pay \in Own

QueuesFit == /\ \A e \in events : TellsFee(e)
             /\ \A c \in consumers : TellsFee(c)

BalanceInv == TableFits(txs, revived) /\ CallsFit /\ OutFits /\ QueuesFit

LEMMA NoFeeFits ==
    ASSUME NEW x
    PROVE  FeeFits(x, 0)
BY ReserveType DEF FeeFits, MaxFee, Reserve

(* Nothing that shares its hash with a request of others has a lower limit.*)
LEMMA RouteFeeFits ==
    ASSUME HashesApart, NEW x \in Requests \ Own
    PROVE  FeeFits(x, Reserve(x))
<1>1. ASSUME NEW y \in Requests, HashOf[x] = HashOf[y]
      PROVE  Reserve(x) <= MaxFee(y)
  <2>1. y \notin Own /\ Reserve(x) = Reserve(y) /\ Reserve(y) \in Nat
    BY <1>1, ReserveType DEF HashesApart, Reserve
  <2> QED BY <2>1 DEF MaxFee
<1> QED BY <1>1 DEF FeeFits

LEMMA FeeFitsByHash ==
    ASSUME NEW x, NEW y, NEW fee, HashOf[x] = HashOf[y], FeeFits(x, fee)
    PROVE  FeeFits(y, fee)
BY DEF FeeFits

LEMMA FeeFitsMeans ==
    ASSUME NEW x, NEW fee, FeeFits(x, fee), NEW y \in Requests, HashOf[x] = HashOf[y]
    PROVE  fee <= MaxFee(y)
BY DEF FeeFits

-----------------------------------------------------------------------------
(* Every step operates on the table as it should.                          *)

LEMMA CreateOutgoingFits ==
    ASSUME TypeOK, CallsFit, NEW p, NEW i, CreateOutgoing(p, i)
    PROVE  FittingOperation
<1> DEFINE c == call[p]
           r == [type |-> "outgoing", state |-> "PENDING", pay |-> c.pay, app |-> c.app,
                 fee |-> 0, reserve |-> CalculateFeeReserveMsat(AmountOf[c.pay]),
                 self |-> c.self]
<1>1. p \in DOMAIN call /\ c \in Call /\ (c.self => c.pay \in Own) /\ UNCHANGED revived
  BY TypeParts DEF CreateOutgoing, At, CallsOK, CallsFit
<1>2. CASE UNCHANGED txs
  BY <1>1, <1>2 DEF FittingOperation
<1>3. CASE /\ ValidateCanPay(txs, c.app, AmountOf[c.pay], c.self)
           /\ IsNextId(txs, i) /\ txs' = Insert(txs, i, r)
  <2>1. CalculateFeeReserveMsat(AmountOf[c.pay]) \in Nat
    BY <1>1, ReserveType DEF Call
  <2>2. /\ r \in Row /\ r.type = "outgoing" /\ r.fee = 0 /\ r.reserve = Reserve(r.pay)
        /\ r.pay = c.pay /\ r.app = c.app /\ r.self = c.self /\ r.state = "PENDING"
    BY <1>1, <2>1 DEF Row, Types, States, Call, Reserve
  <2> HIDE DEF r
  <2>3. RowFits(r)
    BY <1>1, <2>2 DEF RowFits
  <2> QED BY <1>1, <1>3, <2>2, <2>3 DEF PaidInsert, FittingOperation
<1> QED BY <1>2, <1>3 DEF CreateOutgoing

LEMMA SettleOutgoingFits ==
    ASSUME TypeOK, CallsFit, OutFits, NEW p, SettleOutgoing(p)
    PROVE  FittingOperation
<1> DEFINE c == call[p]
           fee == IF c.self THEN 0 ELSE out[HashOf[c.pay]].fee
<1>1. /\ c \in Call /\ c.row \in DOMAIN txs /\ txs[c.row].pay = c.pay
      /\ c.self => c.pay \in Own
      /\ ~c.self => HashOf[c.pay] \in DOMAIN out
  BY TypeParts DEF SettleOutgoing, At, CallsOK, LocalsOK, CallOK, IsRow, CallsFit
<1>2. c.self \in BOOLEAN /\ c.pay \in Requests
  BY <1>1 DEF Call
<1>3. fee \in Nat
  BY <1>1, TypeParts DEF NodeOK, OutPayment
<1>4. fee <= MaxFee(c.pay)
  <2>1. CASE c.self
    BY <1>2, <2>1, NoFeeFits, FeeFitsMeans
  <2>2. CASE ~c.self
    BY <1>1, <1>2, <2>2, FeeFitsMeans DEF OutFits
  <2> QED BY <2>1, <2>2
<1>5. MarkTransactionSettled(c.row, fee, c.self)
  BY DEF SettleOutgoing
<1> HIDE DEF fee
<1> QED BY <1>1, <1>2, <1>3, <1>4, <1>5 DEF FittingOperation, FittingSettle

LEMMA PayerFits ==
    ASSUME TypeOK, CallsFit, OutFits, NEW p \in Payers, PayerStep(p)
    PROVE  FittingOperation
<1>1. ASSUME NEW i \in TxId, CreateKeysendIncoming(p, i)
      PROVE  FittingOperation
  <2> DEFINE x == call[p].pay
             r == [type |-> "incoming", state |-> "PENDING", pay |-> x,
                   app |-> Payee[x], fee |-> 0, reserve |-> 0, self |-> TRUE]
  <2>1. x \in Own /\ IsNextId(txs, i) /\ txs' = Insert(txs, i, r) /\ UNCHANGED revived
    BY <1>1, TypeParts
       DEF CreateKeysendIncoming, At, LocalsOK, CallOK, SelfPcs
  <2>2. r \in Row /\ r.type = "incoming" /\ RowFits(r)
    BY <2>1, RequestAssumption, AppAssumption DEF Row, Types, States, RowFits
  <2> HIDE DEF r
  <2> QED BY <2>1, <2>2 DEF FreeInsert, FittingOperation
<1>2. CASE SettleIncomingSelfPayment(p)
  <2> DEFINE i == call[p].incoming
  <2>1. i \in DOMAIN txs /\ txs[i].type = "incoming" /\ MarkTransactionSettled(i, 0, TRUE)
    BY <1>2, TypeParts DEF SettleIncomingSelfPayment, At, LocalsOK, CallOK, IsRow
  <2> HIDE DEF i
  <2>2. FittingSettle
    BY <2>1 DEF FittingSettle
  <2> QED BY <2>2 DEF FittingOperation
<1>3. CASE FailOutgoing(p)
  <2>1. call[p].row \in DOMAIN txs /\ MarkPaymentFailed(call[p].row)
    BY <1>3, TypeParts DEF FailOutgoing, At, LocalsOK, CallOK, IsRow
  <2> QED BY <2>1 DEF FittingOperation, Failed
<1>4. CASE AcceptSelfHoldPayment(p)
  <2>1. /\ call[p].pay \in Requests /\ MarkHoldInvoiceAccepted(call[p].pay, TRUE)
        /\ UNCHANGED revived
    BY <1>4, CallsTyped DEF AcceptSelfHoldPayment, At, Call
  <2> QED BY <2>1 DEF FittingOperation, FittingAccept
<1>5. CASE \/ SendToNode(p) \/ InterceptSelfPayment(p) \/ RegisterHoldConsumer(p)
           \/ GetInfoFails(p) \/ WakeSelfHoldPayment(p)
  BY <1>5 DEF SendToNode, InterceptSelfPayment, RegisterHoldConsumer, GetInfoFails,
              WakeSelfHoldPayment, db, FittingOperation
<1> QED BY <1>1, <1>2, <1>3, <1>4, <1>5, CreateOutgoingFits, SettleOutgoingFits DEF PayerStep

LEMMA OperatorFits ==
    ASSUME TypeOK, NEW o \in Operators, OperatorStep(o)
    PROVE  FittingOperation
<1>1. CASE SettleHoldInvoice(o) \/ CancelHoldInvoice(o)
  BY <1>1 DEF SettleHoldInvoice, CancelHoldInvoice, AskNode, db, FittingOperation
<1>2. CASE CommitSettleHoldInvoice(o)
  <2>1. /\ ops[o].row \in DOMAIN txs /\ ops[o].self \in BOOLEAN
        /\ txs[ops[o].row].type = "incoming"
        /\ MarkTransactionSettled(ops[o].row, 0, ops[o].self)
    BY <1>2, TypeParts DEF CommitSettleHoldInvoice, OpAt, LocalsOK, OpsOK, Op
  <2> QED BY <2>1 DEF FittingOperation, FittingSettle
<1>3. CASE CommitCancelHoldInvoice(o)
  <2>1. ops[o].row \in DOMAIN txs /\ MarkPaymentFailed(ops[o].row)
    BY <1>3, TypeParts DEF CommitCancelHoldInvoice, OpAt, LocalsOK
  <2> QED BY <2>1 DEF FittingOperation, Failed
<1> QED BY <1>1, <1>2, <1>3 DEF OperatorStep

LEMMA CommitEventFits ==
    ASSUME TypeOK, QueuesFit, NEW c \in consumers, CommitEvent(c)
    PROVE  FittingOperation
<1>1. /\ c \in Consumer /\ ConsumerHasRow(c) /\ TellsFee(c)
      /\ c.fee \in Nat /\ c.pay \in Requests /\ c.kind \in EventKinds
  BY TypeParts DEF QueuesOK, LocalsOK, QueuesFit, Consumer
<1>2. CASE c.kind = "payment_failed" /\ MarkPaymentFailed(c.row)
  <2>1. c.row \in DOMAIN txs
    BY <1>1, <1>2 DEF ConsumerHasRow, IsRow
  <2> QED BY <1>2, <2>1 DEF FittingOperation, Failed
<1>3. CASE c.kind # "payment_failed" /\ c.row # 0 /\ MarkTransactionSettled(c.row, c.fee, FALSE)
  <2>1. /\ c.row \in DOMAIN txs /\ HashOf[txs[c.row].pay] = HashOf[c.pay]
        /\ txs[c.row].type = "outgoing" => c.kind = "payment_sent"
    BY <1>1, <1>3 DEF ConsumerHasRow, IsRow
  <2>2. txs[c.row].pay \in Requests
    BY <2>1 DEF TypeOK, Row
  <2>3. txs[c.row].type = "outgoing" => c.fee <= MaxFee(txs[c.row].pay)
    BY <1>1, <2>1, <2>2, FeeFitsMeans DEF TellsFee
  <2> QED BY <1>1, <1>3, <2>1, <2>3 DEF FittingOperation, FittingSettle
<1>4. CASE /\ c.kind # "payment_failed"
           /\ \E i \in TxId : CreateSettledTransactionFromNotification(i,
                IF c.kind = "payment_sent" THEN "outgoing" ELSE "incoming", c.pay, c.fee)
  <2> DEFINE type == IF c.kind = "payment_sent" THEN "outgoing" ELSE "incoming"
  <2>1. PICK i \in TxId : CreateSettledTransactionFromNotification(i, type, c.pay, c.fee)
    BY <1>4
  <2>2. type \in Types /\ (type = "incoming" => c.pay \in Own)
    BY <1>1, <1>4 DEF Types, TellsFee, EventKinds
  <2> HIDE DEF type
  <2> QED BY <1>1, <2>1, <2>2 DEF FittingOperation, FittingCreate
<1> QED BY <1>2, <1>3, <1>4 DEF CommitEvent

LEMMA EveryOperationFits ==
    ASSUME TypeOK, BalanceInv, [Next]_vars
    PROVE  FittingOperation
<1> USE DEF BalanceInv
<1>1. CASE \E x \in Own, i \in TxId : MakeInvoice(x, i)
  <2>1. PICK x \in Own, i \in TxId : MakeInvoice(x, i)
    BY <1>1
  <2> DEFINE r == [type |-> "incoming", state |-> "PENDING", pay |-> x,
                   app |-> Payee[x], fee |-> 0, reserve |-> 0, self |-> FALSE]
  <2>2. IsNextId(txs, i) /\ txs' = Insert(txs, i, r) /\ UNCHANGED revived
    BY <2>1 DEF MakeInvoice
  <2>3. r \in Row /\ r.type = "incoming" /\ RowFits(r)
    BY RequestAssumption, AppAssumption DEF Row, Types, States, RowFits
  <2> HIDE DEF r
  <2> QED BY <2>2, <2>3 DEF FreeInsert, FittingOperation
<1>2. CASE \E e \in events : ConsumeEvent(e)
  <2>1. PICK e \in events : ConsumeEvent(e)
    BY <1>2
  <2>2. UNCHANGED revived /\ (UNCHANGED txs \/ MarkHoldInvoiceAccepted(e.pay, FALSE))
        /\ e.pay \in Requests
    BY <2>1, TypeParts DEF QueuesOK, Event, ConsumeEvent, ConsumePaymentReceived,
                            ConsumeHoldInvoiceAccepted, ConsumePaymentSent, ConsumePaymentFailed
  <2> QED BY <2>2 DEF FittingOperation, FittingAccept
<1>3. CASE \/ \E p \in Payers, x \in Payable, a \in Apps \cup {NoApp} : BeginPayment(p, x, a)
           \/ \E o \in Operators, pc \in {"settle", "cancel"} : BeginHoldOperation(o, pc)
           \/ \E i \in TxId : CheckUnsettledTransaction(i)
  BY <1>3 DEF BeginPayment, BeginHoldOperation, CheckUnsettledTransaction, db, FittingOperation
<1>4. CASE \/ \E h \in DOMAIN out : NodeResolves(h)
           \/ \E x \in Reachable : NodeReceives(x) \/ HoldExpires(x)
           \/ \E x \in Outside : PaidOutside(x)
           \/ StopNode \/ StartNode \/ Crash
  <2>1. ASSUME NEW h, NodeResolves(h)
        PROVE  UNCHANGED db
    BY <2>1 DEF NodeResolves, ResolvePayment
  <2>2. UNCHANGED db
    BY <1>4, <2>1 DEF NodeReceives, HoldExpires, PaidOutside, StopNode, StartNode, Crash
  <2> QED BY <2>2 DEF db, FittingOperation
<1>5. CASE UNCHANGED vars
  BY <1>5 DEF vars, FittingOperation
<1>6. CASE \/ \E p \in Payers : PayerStep(p)
           \/ \E o \in Operators : OperatorStep(o)
           \/ \E c \in consumers : CommitEvent(c)
  BY <1>6, PayerFits, OperatorFits, CommitEventFits
<1> QED BY <1>1, <1>2, <1>3, <1>4, <1>5, <1>6 DEF Next

-----------------------------------------------------------------------------
(* The messages of the next state.                                         *)

CallsSame ==
    \A q \in DOMAIN call' :
        q \in DOMAIN call /\ call'[q].pay = call[q].pay /\ call'[q].self = call[q].self

LEMMA CallsUnchanged == ASSUME UNCHANGED call PROVE CallsSame
BY DEF CallsSame

LEMMA GotoKeepsCall ==
    ASSUME TypeOK, NEW p \in DOMAIN call, NEW pc, Goto(p, pc)
    PROVE  CallsSame
<1>1. call' = [call EXCEPT ![p] = [call[p] EXCEPT !.pc = pc]]
  BY DEF Goto
<1> QED BY <1>1, TypeParts DEF CallsOK, CallsSame, Call

LEMMA ReturnKeepsCalls == ASSUME NEW p, Return(p) PROVE CallsSame
BY DEF Return, CallsSame

LEMMA PayerKeepsCalls ==
    ASSUME TypeOK, NEW p \in Payers, PayerStep(p)
    PROVE  CallsSame
<1>1. ASSUME NEW i \in TxId, CreateOutgoing(p, i)
      PROVE  CallsSame
  <2> DEFINE c == call[p]
             pc == IF ~c.self THEN "send"
                   ELSE IF c.pay \in Keysends THEN "keysendIncoming" ELSE "intercept"
  <2>1. p \in DOMAIN call /\ (Return(p) \/ call' = [call EXCEPT ![p].row = i, ![p].pc = pc])
    BY <1>1 DEF CreateOutgoing, At
  <2> HIDE DEF pc
  <2>2. CASE call' = [call EXCEPT ![p].row = i, ![p].pc = pc]
    <3>1. call' = [call EXCEPT ![p] = [call[p] EXCEPT !.row = i, !.pc = pc]]
      BY <2>1, <2>2, TypeParts DEF CallsOK
    <3> QED BY <2>1, <3>1, TypeParts DEF CallsOK, CallsSame, Call
  <2> QED BY <2>1, <2>2, ReturnKeepsCalls
<1>2. CASE InterceptSelfPayment(p)
  <2>1. p \in DOMAIN call
    BY <1>2 DEF InterceptSelfPayment, At
  <2>2. ASSUME NEW i, call' = [call EXCEPT ![p].incoming = i, ![p].pc = "selfSettle"]
        PROVE  CallsSame
    <3>1. call' = [call EXCEPT ![p] = [call[p] EXCEPT !.incoming = i, !.pc = "selfSettle"]]
      BY <2>1, <2>2, TypeParts DEF CallsOK
    <3> QED BY <2>1, <3>1, TypeParts DEF CallsOK, CallsSame, Call
  <2> QED BY <1>2, <2>1, <2>2, GotoKeepsCall DEF InterceptSelfPayment
<1>3. CASE SettleOutgoing(p) \/ FailOutgoing(p)
  BY <1>3, ReturnKeepsCalls DEF SettleOutgoing, FailOutgoing
<1>4. CASE \/ \E i \in TxId : CreateKeysendIncoming(p, i)
           \/ SendToNode(p) \/ SettleIncomingSelfPayment(p) \/ RegisterHoldConsumer(p)
           \/ GetInfoFails(p) \/ AcceptSelfHoldPayment(p) \/ WakeSelfHoldPayment(p)
  <2>1. p \in DOMAIN call /\ \E pc : Goto(p, pc)
    BY <1>4 DEF CreateKeysendIncoming, SendToNode, SettleIncomingSelfPayment,
                RegisterHoldConsumer, GetInfoFails, AcceptSelfHoldPayment,
                WakeSelfHoldPayment, At
  <2> QED BY <2>1, GotoKeepsCall
<1> QED BY <1>1, <1>2, <1>3, <1>4 DEF PayerStep

LEMMA CallsFitStep ==
    ASSUME TypeOK, RowsFit(txs), CallsFit, [Next]_vars
    PROVE  CallsFit'
<1>1. CASE CallsSame
  BY <1>1 DEF CallsFit, CallsSame
<1>2. ASSUME NEW p, NEW x \in Payable, NEW a, BeginPayment(p, x, a)
      PROVE  CallsFit'
  <2> DEFINE self == IF x \in Keysends THEN x \in Own
                     ELSE FindByRequest(txs, "incoming", States, x) # {}
  <2>1. self => x \in Own
    BY DEF FindByRequest, FindByHash, SameRequest, RowsFit, RowFits
  <2>2. \A q \in DOMAIN call' :
          \/ q \in DOMAIN call /\ call'[q] = call[q]
          \/ call'[q].self = self /\ call'[q].pay = x
    BY <1>2 DEF BeginPayment
  <2> HIDE DEF self
  <2> QED BY <2>1, <2>2 DEF CallsFit
<1>3. CASE \E h \in DOMAIN out : NodeResolves(h)
  <2>1. PICK h : \E status, fee : ResolvePayment(h, status, fee)
    BY <1>3 DEF NodeResolves
  <2>2. CallsSame
    BY <2>1, TypeParts DEF ResolvePayment, CallsOK, Call, CallsSame
  <2> QED BY <1>1, <2>2
<1>4. CASE StopNode \/ StartNode \/ Crash
  <2>1. ASSUME StopNode PROVE CallsSame
    BY <2>1, TypeParts DEF StopNode, CallsOK, Call, CallsSame
  <2>2. ASSUME StartNode \/ Crash PROVE CallsSame
    BY <2>2 DEF StartNode, Crash, CallsSame
  <2> QED BY <1>1, <1>4, <2>1, <2>2
<1>5. CASE \/ \E x \in Own, i \in TxId : MakeInvoice(x, i)
           \/ \E o \in Operators, pc \in {"settle", "cancel"} : BeginHoldOperation(o, pc)
           \/ \E o \in Operators : OperatorStep(o)
           \/ \E e \in events : ConsumeEvent(e)
           \/ \E c \in consumers : CommitEvent(c)
           \/ \E i \in TxId : CheckUnsettledTransaction(i)
           \/ \E x \in Reachable : NodeReceives(x) \/ HoldExpires(x)
           \/ \E x \in Outside : PaidOutside(x)
           \/ UNCHANGED vars
  <2>1. UNCHANGED call
    BY <1>5 DEF MakeInvoice, BeginHoldOperation, OperatorStep, SettleHoldInvoice,
                CancelHoldInvoice, AskNode, CommitSettleHoldInvoice, CommitCancelHoldInvoice,
                ConsumeEvent, CommitEvent, CheckUnsettledTransaction, NodeReceives,
                HoldExpires, PaidOutside, vars
  <2> QED BY <1>1, <2>1, CallsUnchanged
<1> QED BY <1>1, <1>2, <1>3, <1>4, <1>5, PayerKeepsCalls DEF Next

(* The node's payments and the events that tell of them.                   *)
NodeFits == OutFits' /\ \A e \in events' : e \in events \/ TellsFee(e)

LEMMA QuietNodeFits ==
    ASSUME OutFits, UNCHANGED out, events' \subseteq events
    PROVE  NodeFits
BY DEF OutFits, NodeFits

LEMMA SendToNodeFits ==
    ASSUME TypeOK, OutFits, NEW p \in Payers, SendToNode(p)
    PROVE  NodeFits
<1>1. p \in DOMAIN call /\ UNCHANGED events
  BY DEF SendToNode, At
<1>2. CASE UNCHANGED out
  BY <1>1, <1>2, QuietNodeFits
<1>3. CASE ~UNCHANGED out
  <2> DEFINE x == call[p].pay
             h == HashOf[x]
             r == [status |-> "inflight", pay |-> x, fee |-> 0]
  <2>1. x \in Requests \ Own /\ out' = [g \in DOMAIN out \cup {h} |-> IF g # h THEN out[g] ELSE r]
    BY <1>1, <1>3, CallsTyped DEF SendToNode, Call
  <2>2. FeeFits(r.pay, r.fee) /\ r.pay = x
    BY NoFeeFits
  <2> HIDE DEF r
  <2>3. OutFits'
    BY <2>1, <2>2 DEF OutFits
  <2> QED BY <1>1, <2>3 DEF NodeFits
<1> QED BY <1>2, <1>3

LEMMA PaidOutsideFits ==
    ASSUME OutFits, NEW x \in Outside, PaidOutside(x)
    PROVE  NodeFits
<1> DEFINE h == HashOf[x]
           r == [status |-> "sent", pay |-> x, fee |-> 0]
           e == [kind |-> "payment_sent", pay |-> x, fee |-> 0]
<1>1. x \in Requests \ Own /\ out' = [g \in DOMAIN out \cup {h} |-> IF g # h THEN out[g] ELSE r]
      /\ Emit(e)
  BY OutsideAssumption DEF PaidOutside
<1>2. FeeFits(r.pay, r.fee) /\ r.pay = x /\ TellsFee(e)
  BY NoFeeFits DEF TellsFee
<1> HIDE DEF r, e
<1>3. OutFits'
  BY <1>1, <1>2 DEF OutFits
<1> QED BY <1>1, <1>2, <1>3 DEF NodeFits, Emit

LEMMA NodeResolvesFits ==
    ASSUME HashesApart, TypeOK, OutFits, NEW h \in DOMAIN out, NodeResolves(h)
    PROVE  NodeFits
<1> DEFINE x == out[h].pay
           kind(status) == IF status = "sent" THEN "payment_sent" ELSE "payment_failed"
<1>1. PICK status \in {"sent", "failed"}, fee \in {0, Reserve(x)} : ResolvePayment(h, status, fee)
  BY DEF NodeResolves, Reserve
<1>2. x \in Requests \ Own /\ HashOf[x] = h
  BY DEF OutFits
<1>3. FeeFits(x, fee)
  BY <1>2, NoFeeFits, RouteFeeFits
<1>4. out' = [out EXCEPT ![h] = [out[h] EXCEPT !.status = status, !.fee = fee]]
      /\ out[h] \in OutPayment
  BY <1>1, TypeParts DEF ResolvePayment, NodeOK
<1>5. /\ DOMAIN out' = DOMAIN out /\ out'[h].pay = x /\ out'[h].fee = fee
      /\ \A g \in DOMAIN out \ {h} : out'[g] = out[g]
  BY <1>4 DEF OutPayment
<1>6. OutFits'
  <2>1. ASSUME NEW g \in DOMAIN out
        PROVE  /\ HashOf[out'[g].pay] = g /\ out'[g].pay \in Requests \ Own
               /\ FeeFits(out'[g].pay, out'[g].fee)
    BY <1>2, <1>3, <1>5 DEF OutFits
  <2> QED BY <1>5, <2>1 DEF OutFits
<1>7. \A e \in events' : e \in events \/ (e.kind = kind(status) /\ e.pay = x /\ e.fee = fee)
  BY <1>1 DEF ResolvePayment, Emit
<1>8. \A e \in events' : e \in events \/ TellsFee(e)
  BY <1>3, <1>7 DEF TellsFee
<1> QED BY <1>6, <1>8 DEF NodeFits

LEMMA AskNodeFits ==
    ASSUME OutFits, NEW o, NEW pc, NEW next, NEW newHtlc, AskNode(o, pc, next, newHtlc)
    PROVE  NodeFits
<1>1. UNCHANGED out
  BY DEF AskNode
<1>2. \A e \in events' : e \in events \/ (e.kind = "payment_received" /\ e.pay \in Own)
  BY DEF AskNode, Emit, Held
<1> QED BY <1>1, <1>2 DEF NodeFits, OutFits, TellsFee

LEMMA NodeReceivesFits ==
    ASSUME OutFits, NEW x \in Reachable, NodeReceives(x)
    PROVE  NodeFits
<1>1. UNCHANGED out /\ x \in Own
  BY OutsideAssumption DEF NodeReceives
<1>2. \A e \in events' : \/ e \in events
                         \/ e.pay = x /\ e.kind \in {"payment_received", "hold_invoice_accepted"}
  BY DEF NodeReceives, Emit
<1> QED BY <1>1, <1>2 DEF NodeFits, OutFits, TellsFee

LEMMA NodeFitsStep ==
    ASSUME HashesApart, TypeOK, OutFits, [Next]_vars
    PROVE  NodeFits
<1>1. CASE \E p \in Payers : PayerStep(p)
  <2>1. PICK p \in Payers : PayerStep(p)
    BY <1>1
  <2>2. CASE SendToNode(p)
    BY <2>2, SendToNodeFits
  <2>3. CASE ~SendToNode(p)
    <3>1. UNCHANGED <<out, events>>
      BY <2>1, <2>3
         DEF PayerStep, node, CreateOutgoing, CreateKeysendIncoming, InterceptSelfPayment,
             SettleIncomingSelfPayment, RegisterHoldConsumer, GetInfoFails,
             AcceptSelfHoldPayment, WakeSelfHoldPayment, SettleOutgoing, FailOutgoing
    <3> QED BY <3>1, QuietNodeFits
  <2> QED BY <2>2, <2>3
<1>2. CASE \E o \in Operators : OperatorStep(o)
  <2>1. PICK o \in Operators : OperatorStep(o)
    BY <1>2
  <2>2. CASE SettleHoldInvoice(o) \/ CancelHoldInvoice(o)
    BY <2>2, AskNodeFits DEF SettleHoldInvoice, CancelHoldInvoice
  <2>3. CASE CommitSettleHoldInvoice(o) \/ CommitCancelHoldInvoice(o)
    BY <2>3, QuietNodeFits DEF CommitSettleHoldInvoice, CommitCancelHoldInvoice, node
  <2> QED BY <2>1, <2>2, <2>3 DEF OperatorStep
<1>3. CASE \/ \E h \in DOMAIN out : NodeResolves(h)
           \/ \E x \in Outside : PaidOutside(x)
  BY <1>3, NodeResolvesFits, PaidOutsideFits
<1>4. CASE \E x \in Reachable : NodeReceives(x) \/ HoldExpires(x)
  <2>1. ASSUME NEW x, HoldExpires(x) PROVE NodeFits
    BY <2>1, QuietNodeFits DEF HoldExpires
  <2> QED BY <1>4, <2>1, NodeReceivesFits
<1>5. CASE \/ \E x \in Own, i \in TxId : MakeInvoice(x, i)
           \/ \E p \in Payers, x \in Payable, a \in Apps \cup {NoApp} : BeginPayment(p, x, a)
           \/ \E o \in Operators, pc \in {"settle", "cancel"} : BeginHoldOperation(o, pc)
           \/ \E e \in events : ConsumeEvent(e)
           \/ \E c \in consumers : CommitEvent(c)
           \/ \E i \in TxId : CheckUnsettledTransaction(i)
           \/ StopNode \/ StartNode \/ Crash
           \/ UNCHANGED vars
  <2>1. UNCHANGED out /\ events' \subseteq events
    BY <1>5 DEF MakeInvoice, BeginPayment, BeginHoldOperation, ConsumeEvent, CommitEvent,
                CheckUnsettledTransaction, StopNode, StartNode, Crash, node, vars
  <2> QED BY <2>1, QuietNodeFits
<1> QED BY <1>1, <1>2, <1>3, <1>4, <1>5 DEF Next

LEMMA ConsumersFitStep ==
    ASSUME TypeOK, BalanceInv, [Next]_vars
    PROVE  \A c \in consumers' : c \in consumers \/ TellsFee(c)
<1>1. ASSUME NEW e, TellsFee(e), NEW row, Consume(e, row)
      PROVE  \A c \in consumers' : c \in consumers \/ TellsFee(c)
  BY <1>1 DEF Consume, TellsFee
<1>2. CASE \E e \in events : ConsumeEvent(e)
  <2>1. PICK e \in events : ConsumeEvent(e)
    BY <1>2
  <2>2. UNCHANGED consumers \/ \E row : Consume(e, row)
    BY <2>1 DEF ConsumeEvent, ConsumePaymentReceived, ConsumeHoldInvoiceAccepted,
                ConsumePaymentSent, ConsumePaymentFailed
  <2>3. TellsFee(e)
    BY DEF BalanceInv, QueuesFit
  <2> QED BY <1>1, <2>2, <2>3
<1>3. CASE \E i \in TxId : CheckUnsettledTransaction(i)
  <2>1. PICK i \in TxId : CheckUnsettledTransaction(i)
    BY <1>3
  <2> DEFINE x == txs[i].pay
             fee == IF HashOf[x] \in DOMAIN out THEN out[HashOf[x]].fee ELSE 0
             e == [kind |-> IF txs[i].type = "incoming" THEN "payment_received" ELSE "payment_sent",
                   pay |-> x, fee |-> fee]
  <2>2. Consume(e, i) /\ i \in DOMAIN txs
    BY <2>1 DEF CheckUnsettledTransaction
  <2>3. txs[i].type = "incoming" => x \in Own
    BY <2>2 DEF BalanceInv, TableFits, RowsFit, RowFits
  <2>4. FeeFits(x, fee)
    <3>1. CASE HashOf[x] \in DOMAIN out
      BY <3>1, FeeFitsByHash DEF BalanceInv, OutFits
    <3>2. CASE HashOf[x] \notin DOMAIN out
      BY <3>2, NoFeeFits
    <3> QED BY <3>1, <3>2
  <2> HIDE DEF fee, x
  <2>5. TellsFee(e)
    BY <2>3, <2>4 DEF TellsFee
  <2> HIDE DEF e
  <2> QED BY <1>1, <2>2, <2>5
<1>4. CASE \/ \E x \in Own, i \in TxId : MakeInvoice(x, i)
           \/ \E p \in Payers, x \in Payable, a \in Apps \cup {NoApp} : BeginPayment(p, x, a)
           \/ \E o \in Operators, pc \in {"settle", "cancel"} : BeginHoldOperation(o, pc)
           \/ \E c \in consumers : CommitEvent(c)
           \/ \E h \in DOMAIN out : NodeResolves(h)
           \/ \E x \in Reachable : NodeReceives(x) \/ HoldExpires(x)
           \/ \E x \in Outside : PaidOutside(x)
           \/ StopNode \/ StartNode \/ Crash \/ UNCHANGED vars
  <2>1. consumers' \subseteq consumers
    BY <1>4 DEF MakeInvoice, BeginPayment, BeginHoldOperation, CommitEvent, NodeResolves,
                ResolvePayment, NodeReceives, HoldExpires, PaidOutside, StopNode, StartNode,
                Crash, vars
  <2> QED BY <2>1
<1>5. CASE \/ \E p \in Payers : PayerStep(p)
           \/ \E o \in Operators : OperatorStep(o)
  <2>1. UNCHANGED consumers
    BY <1>5 DEF PayerStep, CreateOutgoing, CreateKeysendIncoming, SendToNode,
                InterceptSelfPayment, SettleIncomingSelfPayment, RegisterHoldConsumer,
                GetInfoFails, AcceptSelfHoldPayment, WakeSelfHoldPayment, SettleOutgoing,
                FailOutgoing, OperatorStep, SettleHoldInvoice, CancelHoldInvoice, AskNode,
                CommitSettleHoldInvoice, CommitCancelHoldInvoice
  <2> QED BY <2>1
<1> QED BY <1>2, <1>3, <1>4, <1>5 DEF Next

LEMMA BalanceStep ==
    ASSUME HashesApart, TypeOK, BalanceInv, [Next]_vars
    PROVE  BalanceInv'
<1>1. TableFits(txs', revived')
  BY EveryOperationFits, OperationFits DEF BalanceInv
<1>2. CallsFit'
  BY CallsFitStep DEF BalanceInv, TableFits
<1>3. NodeFits
  BY NodeFitsStep DEF BalanceInv
<1>4. QueuesFit'
  BY <1>3, ConsumersFitStep DEF BalanceInv, QueuesFit, NodeFits
<1> QED BY <1>1, <1>2, <1>3, <1>4 DEF BalanceInv, NodeFits

LEMMA BalanceInit == Init => BalanceInv
<1> SUFFICES ASSUME Init PROVE BalanceInv
  OBVIOUS
<1>1. DOMAIN txs = {} /\ txs \in [{} -> Row]
  BY DEF Init
<1>2. Table(txs) /\ RowsFit(txs)
  BY <1>1, FS_EmptySet DEF Table, RowsFit
<1>3. Covered(txs, revived)
  <2>1. ASSUME NEW a \in Apps
        PROVE  /\ ValidatedMsat(txs, revived, a) = 0 /\ ReceivedMsat(txs, a) \in Nat
               /\ Funding[a] \in Nat /\ Budget[a] \in Nat
    <3>1. ValidatedMsat(txs, revived, a) = 0
      BY <1>1, SumEmpty DEF ValidatedMsat
    <3>2. ReceivedMsat(txs, a) \in Nat
      BY <1>2, ReceivedGrows DEF Kept
    <3> QED BY <3>1, <3>2, AppAssumption
  <2> QED BY <2>1 DEF Covered
<1>4. CallsFit /\ OutFits /\ QueuesFit
  BY DEF Init, CallsFit, OutFits, QueuesFit
<1> QED BY <1>2, <1>3, <1>4 DEF BalanceInv, TableFits

LEMMA BalanceMeans == BalanceInv => IsolatedOverdraftIsRevived /\ BudgetHolds
<1> SUFFICES ASSUME BalanceInv PROVE IsolatedOverdraftIsRevived /\ BudgetHolds
  OBVIOUS
<1>1. Table(txs) /\ Covered(txs, revived)
  BY DEF BalanceInv, TableFits
<1>2. ASSUME NEW a \in Apps
      PROVE  /\ SelfReserves(a) \in Nat /\ RevivedMsat(a) \in Nat /\ SpentMsat(txs, a) \in Nat
             /\ ValidatedMsat(txs, revived, a) \in Nat /\ ReceivedMsat(txs, a) \in Nat
             /\ Funding[a] \in Nat /\ Budget[a] \in Nat
             /\ SpentMsat(txs, a) <= ValidatedMsat(txs, revived, a) + SelfReserves(a)
                                       + RevivedMsat(a)
  <2>1. /\ SelfReserves(a) = SumOver(SelfColumn(txs), Outgoing(txs, a))
        /\ RevivedMsat(a) = SumOver(Costs(txs), revived \cap Outgoing(txs, a))
    BY DEF SelfReserves, SelfColumn, RevivedMsat
  <2>2. ReceivedMsat(txs, a) \in Nat
    BY <1>1, ReceivedGrows DEF Kept
  <2>3. Funding[a] \in Nat /\ Budget[a] \in Nat
    BY AppAssumption
  <2>4. /\ SumOver(SelfColumn(txs), Outgoing(txs, a)) \in Nat
        /\ SumOver(Costs(txs), revived \cap Outgoing(txs, a)) \in Nat
        /\ SpentMsat(txs, a) <= ValidatedMsat(txs, revived, a)
                                  + SumOver(SelfColumn(txs), Outgoing(txs, a))
                                  + SumOver(Costs(txs), revived \cap Outgoing(txs, a))
    BY <1>1, SpentIsValidated
  <2>5. SpentMsat(txs, a) \in Nat /\ ValidatedMsat(txs, revived, a) \in Nat
    BY <1>1, SpentType, ValidatedType
  <2> QED BY <2>1, <2>2, <2>3, <2>4, <2>5
<1>3. IsolatedOverdraftIsRevived
  <2>1. ASSUME NEW a \in Isolated
        PROVE  GetIsolatedBalanceMsat(txs, a) + SelfReserves(a) + RevivedMsat(a) >= 0
    <3>1. a \in Apps
      BY AppAssumption
    <3>2. ValidatedMsat(txs, revived, a) <= Funding[a] + ReceivedMsat(txs, a)
      BY <1>1, <3>1 DEF Covered
    <3> QED BY <1>2, <3>1, <3>2 DEF GetIsolatedBalanceMsat
  <2> QED BY <2>1 DEF IsolatedOverdraftIsRevived
<1>4. BudgetHolds
  <2>1. ASSUME NEW a \in Apps, Budget[a] > 0
        PROVE  GetBudgetUsageMsat(txs, a) - SelfReserves(a) - RevivedMsat(a)
                 <= 1000 * Budget[a] + 1998
    <3>1. ValidatedMsat(txs, revived, a) <= 1000 * Budget[a] + 1998
      BY <1>1, <2>1 DEF Covered
    <3> QED BY <1>2, <3>1 DEF GetBudgetUsageMsat
  <2> QED BY <2>1 DEF BudgetHolds
<1> QED BY <1>3, <1>4

LEMMA BalanceAlways ==
    ASSUME HashesApart
    PROVE  Spec => []BalanceInv
<1>1. TypeOK /\ BalanceInv /\ [Next]_vars => BalanceInv'
  BY BalanceStep
<1> QED BY <1>1, BalanceInit, TypeCorrect, PTL DEF Spec

(* Where requests of others share no hash with an invoice of this hub, an  *)
(* isolated app overdraws its balance only by the payments that settled    *)
(* after their row had failed, however its payments, their late answers,   *)
(* the events, the polling and crashes interleave (validateCanPay under    *)
(* balanceValidationLock, and a fee the reserve was kept for).             *)
THEOREM OverdraftIsRevived ==
    ASSUME HashesApart
    PROVE  Spec => []IsolatedOverdraftIsRevived
<1>1. BalanceInv => IsolatedOverdraftIsRevived
  BY BalanceMeans
<1> QED BY <1>1, BalanceAlways, PTL

(* And no app spends more than its budget, but for the same payments and   *)
(* for the two roundings down to sats (validateCanPay compares the amount  *)
(* and the usage in sats).                                                 *)
THEOREM BudgetIsKept ==
    ASSUME HashesApart
    PROVE  Spec => []BudgetHolds
<1>1. BalanceInv => BudgetHolds
  BY BalanceMeans
<1> QED BY <1>1, BalanceAlways, PTL

=============================================================================
