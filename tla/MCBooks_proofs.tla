---------------------------- MODULE MCBooks_proofs ----------------------------
(***************************************************************************)
(* What the books keep for any rows, bank and imports.  The cash of the    *)
(* budget is all in envelopes or unassigned; the groups of the ledger stay *)
(* whole; an import is never refused, leaves as many rows of each amount   *)
(* as it holds and, repeated, adds nothing; a reconciled row is locked.    *)
(*                                                                         *)
(* Sums over a set and recursions over months and batches are what the     *)
(* module's first part is about: each is built, and shown to be the one    *)
(* the model chooses, from the least natural number without it.            *)
(***************************************************************************)
EXTENDS MCBooks, CarryCycle_proofs, Sequences, FiniteSetTheorems, WellFoundedInduction, TLAPS

(* The order of the naturals, as a relation.                                *)
Below == {p \in Nat \X Nat : p[1] < p[2]}

(* A set of naturals that has something has a least member.                 *)
LEMMA LeastMember ==
  ASSUME NEW S \in SUBSET Nat, S # {}
  PROVE  \E x \in S : \A y \in S : x <= y
<1>1. OpToRel(<, Nat) = Below
  BY Zenon DEF OpToRel, Below
<1>2. IsWellFoundedOn(Below, Nat)
  BY <1>1, NatLessThanWellFounded, Zenon
<1>3. PICK x \in S : \A y \in S : ~ (<<y, x>> \in Below)
  BY <1>2, WFMin, Zenon
<1>4. \A y \in S : ~(y < x)
  <2>1. \A y \in S : x \in Nat /\ y \in Nat
    OBVIOUS
  <2>2. \A y \in S : y < x => <<y, x>> \in Below
    BY <2>1, SMT DEF Below
  <2>3. QED
    BY <1>3, <2>2, Zenon
<1>5. \A y \in S : x <= y
  <2> SUFFICES ASSUME NEW y \in S
               PROVE  x <= y
    OBVIOUS
  <2>1. x \in Nat /\ y \in Nat /\ ~(y < x)
    BY <1>4
  <2>2. QED
    BY <2>1
<1>6. QED
  BY <1>5, Zenon

(* Induction over the naturals, of the members of a set.                    *)
LEMMA CountingUp ==
  ASSUME NEW Good, 0 \in Good, \A n \in Nat : n \in Good => n + 1 \in Good
  PROVE  Nat \subseteq Good
<1> SUFFICES ASSUME Nat \ Good # {} PROVE FALSE
  OBVIOUS
<1>1. PICK n \in Nat \ Good : \A m \in Nat \ Good : n <= m
  <2>1. Nat \ Good \in SUBSET Nat
    OBVIOUS
  <2>2. QED
    BY <2>1, LeastMember
<1>2. n # 0 /\ n - 1 \in Nat
  OBVIOUS
<1>3. n - 1 \in Good
  BY <1>1, <1>2
<1>4. QED
  BY <1>2, <1>3

(* Induction over the subsets of a finite set, one member at a time.        *)
LEMMA MemberByMember ==
  ASSUME NEW S, IsFiniteSet(S), NEW Good, {} \in Good,
         \A s \in SUBSET S : \A x \in S \ s : s \in Good => s \cup {x} \in Good
  PROVE  SUBSET S \subseteq Good
<1> DEFINE Sizes == {n \in Nat : \A s \in SUBSET S : Cardinality(s) = n => s \in Good}
<1>1. \A s \in SUBSET S : IsFiniteSet(s) /\ Cardinality(s) \in Nat
  BY FS_Subset, FS_CardinalityType
<1>2. 0 \in Sizes
  BY <1>1, FS_EmptySet
<1>3. ASSUME NEW n \in Nat, n \in Sizes
      PROVE  n + 1 \in Sizes
  <2> SUFFICES ASSUME NEW s \in SUBSET S, Cardinality(s) = n + 1
               PROVE  s \in Good
    OBVIOUS
  <2>1. s # {}
    BY FS_EmptySet
  <2>2. PICK x \in s : TRUE
    BY <2>1
  <2>3. Cardinality(s \ {x}) = n
    <3>1. IsFiniteSet(s) /\ Cardinality(s) = n + 1
      BY <1>1
    <3>2. Cardinality(s \ {x}) = Cardinality(s) - 1
      BY <2>2, <3>1, FS_RemoveElement
    <3>3. QED
      BY <3>1, <3>2
  <2>4. s \ {x} \in Good /\ s \ {x} \in SUBSET S /\ x \in S \ (s \ {x})
    BY <1>3, <2>3
  <2>5. (s \ {x}) \cup {x} \in Good
    BY <2>4
  <2>6. (s \ {x}) \cup {x} = s
    OBVIOUS
  <2>7. QED
    BY <2>5, <2>6
<1> HIDE DEF Sizes
<1>4. Nat \subseteq Sizes
  BY <1>2, <1>3, CountingUp
<1> QED
  BY <1>1, <1>4 DEF Sizes

Pick(s) == CHOOSE x \in s : TRUE

(* A function that gives each subset of S the sum of f over it.             *)
Adds(f, S, sum) ==
  sum = [s \in SUBSET S |-> IF s = {} THEN 0 ELSE f[Pick(s)] + sum[s \ {Pick(s)}]]

(* The sum of the community modules is read from a function over subsets.   *)
LEMMA SumIsChosen ==
  ASSUME NEW f, NEW S
  PROVE  Finance!SumFunctionOnSet(f, S) = (CHOOSE sum : Adds(f, S, sum))[S]
BY DEF Finance!SumFunctionOnSet, Finance!FoldFunctionOnSet, Finance!MapThenFoldSet, Adds, Pick

(* There is one such function, and it is the one the sum is read from.      *)
LEMMA SumsExist ==
  ASSUME NEW f, NEW S, IsFiniteSet(S)
  PROVE  \E sum : Adds(f, S, sum)
<1> DEFINE Small(n) == {s \in SUBSET S : Cardinality(s) <= n}
           Part(n, sum) == sum = [s \in Small(n) |-> IF s = {} THEN 0
                                    ELSE f[Pick(s)] + sum[s \ {Pick(s)}]]
           Built == {n \in Nat : \E sum : Part(n, sum)}
<1>1. \A s \in SUBSET S : IsFiniteSet(s) /\ Cardinality(s) \in Nat
  BY FS_Subset, FS_CardinalityType
<1>2. \A s \in SUBSET S : s # {} => /\ Pick(s) \in s
                                    /\ s \ {Pick(s)} \in SUBSET S
                                    /\ Cardinality(s \ {Pick(s)}) = Cardinality(s) - 1
  BY <1>1, FS_RemoveElement DEF Pick
<1>3. \A s \in SUBSET S : Cardinality(s) = 0 <=> s = {}
  BY <1>1, FS_EmptySet
<1>4. 0 \in Built
  <2>1. \A s \in Small(0) : s = {}
    BY <1>1, <1>3
  <2>2. Part(0, [s \in Small(0) |-> 0])
    BY <2>1
  <2> HIDE DEF Part
  <2>3. QED
    BY <2>2
<1>5. ASSUME NEW n \in Nat, n \in Built
      PROVE  n + 1 \in Built
  <2>1. PICK sum : Part(n, sum)
    BY <1>5
  <2> DEFINE more == [s \in Small(n + 1) |->
                        IF s = {} THEN 0 ELSE f[Pick(s)] + sum[s \ {Pick(s)}]]
  <2>2. \A s \in Small(n + 1) : s # {} => s \ {Pick(s)} \in Small(n)
    BY <1>1, <1>2
  <2>3. \A s \in Small(n) : s \in Small(n + 1) /\ more[s] = sum[s]
    <3>1. \A s \in Small(n) : s \in Small(n + 1)
      BY <1>1
    <3>2. \A s \in Small(n) : sum[s] = IF s = {} THEN 0 ELSE f[Pick(s)] + sum[s \ {Pick(s)}]
      <4> HIDE DEF Small
      <4>1. QED
        BY <2>1
    <3>3. QED
      <4> HIDE DEF Small
      <4>1. QED
        BY <3>1, <3>2
  <2>4. \A s \in Small(n + 1) : s # {} => more[s \ {Pick(s)}] = sum[s \ {Pick(s)}]
    <3> HIDE DEF more, Small
    <3>1. QED
      BY <2>2, <2>3
  <2>5. Part(n + 1, more)
    BY <2>4
  <2> HIDE DEF Part, more
  <2>6. QED
    BY <2>5
<1> HIDE DEF Built
<1>6. Nat \subseteq Built
  BY <1>4, <1>5, CountingUp
<1>7. Small(Cardinality(S)) = SUBSET S
  <2>1. \A s \in SUBSET S : Cardinality(s) <= Cardinality(S)
    BY FS_Subset
  <2>2. QED
    BY <2>1
<1>8. PICK sum : Part(Cardinality(S), sum)
  BY <1>1, <1>6 DEF Built
<1>9. QED
  BY <1>7, <1>8 DEF Adds

(* The functions of two sets agree where both have a value.                 *)
LEMMA SumsAgree ==
  ASSUME NEW f, NEW S, IsFiniteSet(S), NEW T \in SUBSET S, NEW a, NEW b,
         Adds(f, S, a), Adds(f, T, b)
  PROVE  a[T] = b[T]
<1> DEFINE Same == {s \in SUBSET T : a[s] = b[s]}
           Sizes == {n \in Nat : \A s \in SUBSET T : Cardinality(s) <= n => s \in Same}
<1>1. \A s \in SUBSET T : IsFiniteSet(s) /\ Cardinality(s) \in Nat
  BY FS_Subset, FS_CardinalityType
<1>2. \A s \in SUBSET T : s # {} => /\ Pick(s) \in s
                                    /\ s \ {Pick(s)} \in SUBSET T
                                    /\ Cardinality(s \ {Pick(s)}) = Cardinality(s) - 1
  BY <1>1, FS_RemoveElement DEF Pick
<1>3. {} \in Same
  BY DEF Adds
<1>4. 0 \in Sizes
  BY <1>1, <1>3, FS_EmptySet
<1>5. ASSUME NEW n \in Nat, n \in Sizes
      PROVE  n + 1 \in Sizes
  <2> SUFFICES ASSUME NEW s \in SUBSET T, Cardinality(s) <= n + 1, s # {}
               PROVE  s \in Same
    BY <1>3
  <2>1. s \ {Pick(s)} \in Same
    BY <1>1, <1>2, <1>5
  <2>2. s \in SUBSET S
    OBVIOUS
  <2>3. a[s] = f[Pick(s)] + a[s \ {Pick(s)}] /\ b[s] = f[Pick(s)] + b[s \ {Pick(s)}]
    BY <2>2 DEF Adds
  <2>4. QED
    BY <2>1, <2>3
<1> HIDE DEF Sizes
<1>6. Nat \subseteq Sizes
  BY <1>4, <1>5, CountingUp
<1>7. T \in SUBSET T /\ Cardinality(T) \in Sizes
  BY <1>1, <1>6
<1>8. QED
  BY <1>1, <1>7 DEF Sizes

(* The sum of f over a set, as the community modules define it: what its    *)
(* instances in both modules are.                                           *)
Sum(f, S) == (CHOOSE sum : Adds(f, S, sum))[S]

(* A sum takes one member off at a time.                                    *)
LEMMA SumOfMember ==
  ASSUME NEW f, NEW S, IsFiniteSet(S)
  PROVE  Sum(f, S) = IF S = {} THEN 0 ELSE f[Pick(S)] + Sum(f, S \ {Pick(S)})
<1> DEFINE T == S \ {Pick(S)}
           a == CHOOSE sum : Adds(f, S, sum)
           b == CHOOSE sum : Adds(f, T, sum)
<1>1. IsFiniteSet(T)
  BY FS_Subset
<1>2. Adds(f, S, a) /\ Adds(f, T, b)
  BY <1>1, SumsExist
<1>3. a[T] = b[T]
  <2>1. T \in SUBSET S
    OBVIOUS
  <2> HIDE DEF a, b, T
  <2>2. QED
    BY <1>2, <2>1, SumsAgree
<1>4. a[S] = IF S = {} THEN 0 ELSE f[Pick(S)] + a[T]
  <2> HIDE DEF a, b
  <2>1. QED
    BY <1>2 DEF Adds
<1>5. QED
  BY <1>3, <1>4 DEF Sum

(* The sum over no members.                                                 *)
LEMMA SumOfNothing ==
  ASSUME NEW f
  PROVE  Sum(f, {}) = 0
<1>1. IsFiniteSet({})
  BY FS_EmptySet
<1>2. QED
  BY <1>1, SumOfMember

(* A sum of integers is one.                                                *)
LEMMA SumIsInt ==
  ASSUME NEW f, NEW S, IsFiniteSet(S), \A x \in S : f[x] \in Int
  PROVE  Sum(f, S) \in Int
<1> DEFINE Sizes == {n \in Nat : \A s \in SUBSET S : Cardinality(s) <= n => Sum(f, s) \in Int}
<1>1. \A s \in SUBSET S : IsFiniteSet(s) /\ Cardinality(s) \in Nat
  BY FS_Subset, FS_CardinalityType
<1>2. \A s \in SUBSET S : s # {} => /\ Pick(s) \in s
                                    /\ s \ {Pick(s)} \in SUBSET S
                                    /\ Cardinality(s \ {Pick(s)}) = Cardinality(s) - 1
  BY <1>1, FS_RemoveElement DEF Pick
<1>3. Sum(f, {}) \in Int
  BY SumOfNothing
<1>4. 0 \in Sizes
  BY <1>1, <1>3, FS_EmptySet
<1>5. ASSUME NEW n \in Nat, n \in Sizes
      PROVE  n + 1 \in Sizes
  <2> SUFFICES ASSUME NEW s \in SUBSET S, Cardinality(s) <= n + 1, s # {}
               PROVE  Sum(f, s) \in Int
    BY <1>3
  <2>1. Sum(f, s \ {Pick(s)}) \in Int
    BY <1>1, <1>2, <1>5
  <2>2. Sum(f, s) = f[Pick(s)] + Sum(f, s \ {Pick(s)})
    BY <1>1, SumOfMember
  <2>3. f[Pick(s)] \in Int
    BY <1>2
  <2>4. QED
    BY <2>1, <2>2, <2>3
<1> HIDE DEF Sizes
<1>6. Nat \subseteq Sizes
  BY <1>4, <1>5, CountingUp
<1>7. QED
  BY <1>1, <1>6 DEF Sizes

(* Whatever member of the set is taken out first.                           *)
LEMMA SumOfAnother ==
  ASSUME NEW f, NEW S, IsFiniteSet(S), \A x \in S : f[x] \in Int,
         NEW T \in SUBSET S, NEW y \in T
  PROVE  Sum(f, T) = f[y] + Sum(f, T \ {y})
<1> DEFINE Fair(s) == \A x \in s : Sum(f, s) = f[x] + Sum(f, s \ {x})
           Sizes == {n \in Nat : \A s \in SUBSET S : Cardinality(s) <= n => Fair(s)}
<1>1. \A s \in SUBSET S : /\ IsFiniteSet(s) /\ Cardinality(s) \in Nat
                          /\ Sum(f, s) \in Int
  BY FS_Subset, FS_CardinalityType, SumIsInt
<1>2. \A s \in SUBSET S : s # {} => Pick(s) \in s /\ Pick(s) \in S
  BY DEF Pick
<1>3. 0 \in Sizes
  BY <1>1, FS_EmptySet
<1>4. ASSUME NEW n \in Nat, n \in Sizes
      PROVE  n + 1 \in Sizes
  <2> SUFFICES ASSUME NEW s \in SUBSET S, Cardinality(s) <= n + 1, NEW x \in s
               PROVE  Sum(f, s) = f[x] + Sum(f, s \ {x})
    OBVIOUS
  <2> DEFINE p == Pick(s)
  <2>1. p \in s /\ Sum(f, s) = f[p] + Sum(f, s \ {p})
    BY <1>1, <1>2, SumOfMember
  <2>2. CASE x = p
    BY <2>1, <2>2
  <2>3. CASE x # p
    <3>1. Cardinality(s \ {p}) <= n /\ Cardinality(s \ {x}) <= n
      <4> HIDE DEF p
      <4>1. IsFiniteSet(s) /\ Cardinality(s) \in Nat
        BY <1>1
      <4>2. /\ Cardinality(s \ {p}) = Cardinality(s) - 1
            /\ Cardinality(s \ {x}) = Cardinality(s) - 1
        BY <2>1, <4>1, FS_RemoveElement
      <4>3. QED
        BY <4>1, <4>2
    <3>2. Sum(f, s \ {p}) = f[x] + Sum(f, (s \ {p}) \ {x})
      BY <1>4, <2>1, <2>3, <3>1
    <3>3. Sum(f, s \ {x}) = f[p] + Sum(f, (s \ {x}) \ {p})
      BY <1>4, <2>1, <2>3, <3>1
    <3>4. Sum(f, (s \ {p}) \ {x}) = Sum(f, (s \ {x}) \ {p})
      <4>1. (s \ {p}) \ {x} = (s \ {x}) \ {p}
        OBVIOUS
      <4>2. QED
        BY <4>1
    <3>5. f[x] \in Int /\ f[p] \in Int /\ Sum(f, (s \ {x}) \ {p}) \in Int
      <4>1. (s \ {x}) \ {p} \in SUBSET S
        OBVIOUS
      <4>2. QED
        BY <1>1, <2>1, <4>1
    <3>6. Sum(f, s) = f[p] + (f[x] + Sum(f, (s \ {x}) \ {p}))
      BY <2>1, <3>2, <3>4
    <3>7. f[p] + (f[x] + Sum(f, (s \ {x}) \ {p})) = f[x] + (f[p] + Sum(f, (s \ {x}) \ {p}))
      BY <3>5
    <3>8. QED
      BY <3>3, <3>6, <3>7
  <2>4. QED
    BY <2>2, <2>3
<1> HIDE DEF Sizes, Fair
<1>5. Nat \subseteq Sizes
  BY <1>3, <1>4, CountingUp
<1>6. Fair(T)
  BY <1>1, <1>5 DEF Sizes
<1>7. QED
  BY <1>6 DEF Fair

(* One member more.                                                         *)
LEMMA SumOfMore ==
  ASSUME NEW f, NEW S, IsFiniteSet(S), NEW y, y \notin S,
         \A x \in S \cup {y} : f[x] \in Int
  PROVE  Sum(f, S \cup {y}) = Sum(f, S) + f[y]
<1>1. IsFiniteSet(S \cup {y})
  BY FS_AddElement
<1>2. Sum(f, S \cup {y}) = f[y] + Sum(f, (S \cup {y}) \ {y})
  <2> DEFINE T == S \cup {y}
  <2>1. T \in SUBSET T /\ y \in T /\ IsFiniteSet(T) /\ \A x \in T : f[x] \in Int
    BY <1>1
  <2> HIDE DEF T
  <2>2. Sum(f, T) = f[y] + Sum(f, T \ {y})
    BY <2>1, SumOfAnother
  <2>3. QED
    BY <2>2 DEF T
<1>3. (S \cup {y}) \ {y} = S
  OBVIOUS
<1>4. Sum(f, S) \in Int
  BY SumIsInt
<1>5. Sum(f, S \cup {y}) = f[y] + Sum(f, S)
  BY <1>2, <1>3
<1>6. QED
  BY <1>4, <1>5

(* The sum over two members.                                                *)
LEMMA SumOfTwo ==
  ASSUME NEW f, NEW x, NEW y, x # y, f[x] \in Int, f[y] \in Int
  PROVE  Sum(f, {x, y}) = f[x] + f[y]
<1>1. IsFiniteSet({}) /\ IsFiniteSet({x})
  BY FS_EmptySet, FS_Singleton
<1>2. Sum(f, {x}) = Sum(f, {}) + f[x]
  <2>1. Sum(f, {} \cup {x}) = Sum(f, {}) + f[x]
    BY <1>1, SumOfMore
  <2>2. {} \cup {x} = {x}
    OBVIOUS
  <2>3. QED
    BY <2>1, <2>2, Zenon
<1>3. Sum(f, {x, y}) = Sum(f, {x}) + f[y]
  <2>1. Sum(f, {x} \cup {y}) = Sum(f, {x}) + f[y]
    BY <1>1, SumOfMore
  <2>2. {x} \cup {y} = {x, y}
    OBVIOUS
  <2>3. QED
    BY <2>1, <2>2, Zenon
<1>4. Sum(f, {}) = 0
  BY SumOfNothing
<1>5. QED
  BY <1>2, <1>3, <1>4

(* The sum of sums.                                                         *)
LEMMA SumsAddUp ==
  ASSUME NEW f, NEW g, NEW h, NEW S, IsFiniteSet(S),
         \A x \in S : f[x] \in Int /\ g[x] \in Int /\ h[x] = f[x] + g[x]
  PROVE  Sum(h, S) = Sum(f, S) + Sum(g, S)
<1> DEFINE Good == {s \in SUBSET S : Sum(h, s) = Sum(f, s) + Sum(g, s)}
<1>1. \A x \in S : h[x] \in Int
  OBVIOUS
<1>2. \A s \in SUBSET S : IsFiniteSet(s)
  BY FS_Subset
<1>3. \A s \in SUBSET S : Sum(f, s) \in Int /\ Sum(g, s) \in Int /\ Sum(h, s) \in Int
  BY <1>1, <1>2, SumIsInt
<1>4. {} \in Good
  BY SumOfNothing
<1>5. ASSUME NEW s \in SUBSET S, NEW x \in S \ s, s \in Good
      PROVE  s \cup {x} \in Good
  <2>1. /\ Sum(f, s \cup {x}) = Sum(f, s) + f[x]
        /\ Sum(g, s \cup {x}) = Sum(g, s) + g[x]
        /\ Sum(h, s \cup {x}) = Sum(h, s) + h[x]
    BY <1>1, <1>2, SumOfMore
  <2>2. QED
    BY <1>3, <1>5, <2>1
<1> HIDE DEF Good
<1>6. S \in Good
  BY <1>4, <1>5, MemberByMember
<1>7. QED
  BY <1>6 DEF Good

(* The sum is of the values only.                                           *)
LEMMA SumsOfSame ==
  ASSUME NEW f, NEW g, NEW S, IsFiniteSet(S), \A x \in S : f[x] \in Int /\ f[x] = g[x]
  PROVE  Sum(f, S) = Sum(g, S)
<1> DEFINE Good == {s \in SUBSET S : Sum(f, s) = Sum(g, s)}
<1>1. \A s \in SUBSET S : IsFiniteSet(s)
  BY FS_Subset
<1>2. {} \in Good
  BY SumOfNothing
<1>3. ASSUME NEW s \in SUBSET S, NEW x \in S \ s, s \in Good
      PROVE  s \cup {x} \in Good
  <2>1. /\ Sum(f, s \cup {x}) = Sum(f, s) + f[x]
        /\ Sum(g, s \cup {x}) = Sum(g, s) + g[x]
    BY <1>1, SumOfMore
  <2>2. QED
    BY <1>3, <2>1
<1> HIDE DEF Good
<1>4. S \in Good
  BY <1>2, <1>3, MemberByMember
<1>5. QED
  BY <1>4 DEF Good

(* A sum of nothings is nothing.                                            *)
LEMMA SumOfZeros ==
  ASSUME NEW f, NEW S, IsFiniteSet(S), \A x \in S : f[x] = 0
  PROVE  Sum(f, S) = 0
<1> DEFINE Good == {s \in SUBSET S : Sum(f, s) = 0}
<1>1. \A s \in SUBSET S : IsFiniteSet(s)
  BY FS_Subset
<1>2. \A x \in S : f[x] \in Int
  OBVIOUS
<1>3. {} \in Good
  BY SumOfNothing
<1>4. ASSUME NEW s \in SUBSET S, NEW x \in S \ s, s \in Good
      PROVE  s \cup {x} \in Good
  <2>1. Sum(f, s \cup {x}) = Sum(f, s) + f[x]
    BY <1>1, <1>2, SumOfMore
  <2>2. Sum(f, s) = 0 /\ f[x] = 0
    BY <1>4
  <2>3. Sum(f, s \cup {x}) = 0 + 0
    BY <2>1, <2>2, Zenon
  <2>4. 0 + 0 = 0
    OBVIOUS
  <2>5. QED
    BY <2>3, <2>4
<1> HIDE DEF Good
<1>5. S \in Good
  BY <1>3, <1>4, MemberByMember
<1>6. QED
  BY <1>5 DEF Good

(* The sums of the ledger are these.                                        *)
LEMMA FinanceSums ==
  ASSUME NEW f, NEW S
  PROVE  Finance!SumFunctionOnSet(f, S) = Sum(f, S)
BY SumIsChosen DEF Sum

(* The sums of the budget are these.                                        *)
LEMMA BudgetSums ==
  ASSUME NEW f, NEW S
  PROVE  Budget!SumFunctionOnSet(f, S) = Sum(f, S)
BY DEF Budget!SumFunctionOnSet, Budget!FoldFunctionOnSet, Budget!MapThenFoldSet,
       Adds, Pick, Sum

--------------------------------------------------------------------------------
(* The sum of all values of a function.                                     *)
LEMMA BudgetTotals ==
  ASSUME NEW f
  PROVE  Budget!SumFunction(f) = Sum(f, DOMAIN f)
BY BudgetSums DEF Budget!SumFunction

(* What the constants of the budget are.                                    *)
LEMMA BudgetConstants ==
  /\ IsFiniteSet(Months) /\ Months = 1..Cardinality(Months) /\ Cardinality(Months) \in Nat
  /\ IsFiniteSet(Categories) /\ Budget!Income \notin Categories
  /\ Earning \subseteq Int /\ Budgets \subseteq Int /\ Spending \subseteq Int
<1>1. \A S : (Budget!IsFiniteSet(S) <=> IsFiniteSet(S)) /\ Budget!Cardinality(S) = Cardinality(S)
  BY DEF Budget!IsFiniteSet, Budget!Cardinality, IsFiniteSet, Cardinality
<1>2. Budget!EnvelopesAssumption
  BY BooksAssumption
<1>3. QED
  BY <1>1, <1>2, FS_CardinalityType DEF Budget!EnvelopesAssumption

(* A recursion over lo..n: base up to the start, and from there each member *)
(* from the one before.                                                     *)
Steps(lo, n, start, base, step, walk) ==
  walk = [m \in lo..n |-> IF m <= start THEN base ELSE step[m][walk[m - 1]]]

(* Where no step leaves T, no member is outside it.                         *)
LEMMA StaysIn ==
  ASSUME NEW lo \in Nat, NEW n \in Nat, NEW start \in Nat, lo <= start, NEW T, NEW walk,
         \A m \in lo..n : m <= start => walk[m] \in T,
         \A m \in lo..n : ~(m <= start) /\ m - 1 \in lo..n /\ walk[m - 1] \in T
                            => walk[m] \in T
  PROVE  \A m \in lo..n : walk[m] \in T
<1> DEFINE Good == {k \in Nat : \A m \in lo..n : m <= k => walk[m] \in T}
<1>1. 0 \in Good
  OBVIOUS
<1>2. ASSUME NEW k \in Nat, k \in Good
      PROVE  k + 1 \in Good
  <2> SUFFICES ASSUME NEW m \in lo..n, m <= k + 1
               PROVE  walk[m] \in T
    OBVIOUS
  <2>1. CASE m <= k
    BY <1>2, <2>1
  <2>2. CASE m <= start
    BY <2>2
  <2>3. CASE ~(m <= k) /\ ~(m <= start)
    <3>1. m - 1 \in lo..n /\ m - 1 <= k
      BY <2>3
    <3>2. walk[m - 1] \in T
      BY <1>2, <3>1
    <3>3. QED
      BY <2>3, <3>1, <3>2
  <2>4. QED
    BY <2>1, <2>2, <2>3
<1> HIDE DEF Good
<1>3. n \in Good
  BY <1>1, <1>2, CountingUp
<1>4. QED
  BY <1>3 DEF Good

(* There is such a recursion.                                               *)
LEMMA StepsExist ==
  ASSUME NEW lo \in Nat, NEW n \in Nat, NEW start \in Nat, lo <= start,
         NEW base, NEW step
  PROVE  \E walk : Steps(lo, n, start, base, step, walk)
<1> DEFINE Good == {k \in Nat : \E walk : Steps(lo, k, start, base, step, walk)}
<1>1. 0 \in Good
  <2>1. \A m \in lo..0 : m <= start
    OBVIOUS
  <2>2. Steps(lo, 0, start, base, step, [m \in lo..0 |-> base])
    BY <2>1 DEF Steps
  <2>3. QED
    BY <2>2
<1>2. ASSUME NEW k \in Nat, k \in Good
      PROVE  k + 1 \in Good
  <2>1. PICK walk : Steps(lo, k, start, base, step, walk)
    BY <1>2
  <2> DEFINE more == [m \in lo..(k + 1) |-> IF m <= start THEN base ELSE step[m][walk[m - 1]]]
  <2>2. \A m \in lo..(k + 1) : ~(m <= start) => m - 1 \in lo..k
    OBVIOUS
  <2>3. \A m \in lo..k : more[m] = walk[m]
    <3> SUFFICES ASSUME NEW m \in lo..k
                 PROVE  more[m] = walk[m]
      OBVIOUS
    <3>1. walk[m] = IF m <= start THEN base ELSE step[m][walk[m - 1]]
      BY <2>1 DEF Steps
    <3>2. m \in lo..(k + 1)
      OBVIOUS
    <3>3. more[m] = IF m <= start THEN base ELSE step[m][walk[m - 1]]
      BY <3>2, Zenon
    <3>4. QED
      BY <3>1, <3>3, Zenon
  <2>4. \A m \in lo..(k + 1) : ~(m <= start) => more[m - 1] = walk[m - 1]
    <3> HIDE DEF more
    <3> SUFFICES ASSUME NEW m \in lo..(k + 1), ~(m <= start)
                 PROVE  more[m - 1] = walk[m - 1]
      OBVIOUS
    <3>1. m - 1 \in lo..k
      BY <2>2
    <3>2. QED
      BY <2>3, <3>1, Zenon
  <2>5. Steps(lo, k + 1, start, base, step, more)
    BY <2>4 DEF Steps
  <2> HIDE DEF more
  <2>6. \E w : Steps(lo, k + 1, start, base, step, w)
    BY <2>5, Zenon
  <2>7. k + 1 \in Nat
    OBVIOUS
  <2>8. QED
    BY <2>6, <2>7, Zenon
<1> HIDE DEF Good
<1>3. n \in Good
  BY <1>1, <1>2, CountingUp
<1>4. QED
  BY <1>3 DEF Good

(* Where no step leaves T, neither does the whole.                          *)
LEMMA StepsExistIn ==
  ASSUME NEW lo \in Nat, NEW n \in Nat, NEW start \in Nat, lo <= start,
         NEW T, NEW base \in T, NEW step,
         \A m \in lo..n : \A x \in T : step[m][x] \in T
  PROVE  \E walk : /\ Steps(lo, n, start, base, step, walk)
                   /\ \A m \in lo..n : walk[m] \in T
<1>1. PICK walk : Steps(lo, n, start, base, step, walk)
  BY StepsExist
<1>2. \A m \in lo..n : walk[m] = IF m <= start THEN base ELSE step[m][walk[m - 1]]
  BY <1>1 DEF Steps
<1>3. \A m \in lo..n : walk[m] \in T
  <2>1. \A m \in lo..n : m <= start => walk[m] \in T
    BY <1>2
  <2>2. \A m \in lo..n : ~(m <= start) /\ m - 1 \in lo..n /\ walk[m - 1] \in T
                            => walk[m] \in T
    BY <1>2
  <2>3. QED
    BY <2>1, <2>2, StaysIn, Zenon
<1>4. QED
  BY <1>1, <1>3

--------------------------------------------------------------------------------
(* A month's budget of a category is one row or none.                       *)
BudgetInv ==
  /\ Budget!BudgetTypeOK
  /\ \A m \in Months, c \in Categories : \A a, b \in assigned[m][c] : a = b

(* The budget starts empty.                                                 *)
LEMMA BudgetInvHolds == Budget!Init => BudgetInv
<1>1. ASSUME Budget!Init PROVE Budget!BudgetTypeOK
  BY <1>1 DEF Budget!Init, Budget!BudgetTypeOK
<1>2. QED
  BY <1>1 DEF Budget!Init, BudgetInv

(* Transactions, budgets and categories come and go.                        *)
LEMMA BudgetInvStays == BudgetInv /\ [Budget!Next]_envelopes => BudgetInv'
<1> SUFFICES ASSUME BudgetInv, [Budget!Next]_envelopes
             PROVE  BudgetInv'
  OBVIOUS
<1>1. CASE UNCHANGED envelopes
  BY <1>1 DEF BudgetInv, Budget!BudgetTypeOK, envelopes
<1>2. ASSUME NEW m \in Months, NEW k \in Budget!Posting,
             NEW sum \in Budget!Sums(k) \cup {0}, Budget!Post(m, k, sum)
      PROVE  BudgetInv'
  <2>1. sum \in {-x : x \in Spending} \cup Earning \cup {0}
    BY DEF Budget!Sums
  <2>2. QED
    BY <1>2, <2>1 DEF BudgetInv, Budget!BudgetTypeOK, Budget!Post
<1>3. ASSUME NEW m \in Months, NEW c \in Categories, NEW amount \in Budgets,
             NEW modes \in {{}} \cup {{x} : x \in Budget!Modes},
             Budget!Assign(m, c, amount, modes)
      PROVE  BudgetInv'
  <2> DEFINE kept == {row.mode : row \in assigned[m][c]}
             given == IF modes # {} THEN modes ELSE IF kept # {} THEN kept ELSE {"rollover"}
             rows == {[amount |-> amount, mode |-> x] : x \in given}
  <2>1. assigned[m][c] \in SUBSET [amount : Budgets, mode : Budget!Modes]
    BY DEF BudgetInv, Budget!BudgetTypeOK
  <2>2. kept \subseteq Budget!Modes /\ \A x, y \in kept : x = y
    BY <2>1 DEF BudgetInv
  <2>3. modes \subseteq Budget!Modes /\ \A x, y \in modes : x = y
    OBVIOUS
  <2>4. given \subseteq Budget!Modes /\ \A x, y \in given : x = y
    BY <2>2, <2>3 DEF Budget!Modes
  <2> HIDE DEF given
  <2>5. rows \subseteq [amount : Budgets, mode : Budget!Modes] /\ \A x, y \in rows : x = y
    BY <2>4
  <2>6. assigned' = [assigned EXCEPT ![m][c] = rows] /\ UNCHANGED <<posted, shown>>
    BY <1>3 DEF Budget!Assign, given
  <2> HIDE DEF rows
  <2>7. QED
    BY <2>5, <2>6 DEF BudgetInv, Budget!BudgetTypeOK
<1>4. ASSUME NEW c \in Categories, Budget!DeleteCategory(c)
      PROVE  BudgetInv'
  BY <1>4 DEF BudgetInv, Budget!BudgetTypeOK, Budget!DeleteCategory
<1>5. QED
  BY <1>1, <1>2, <1>3, <1>4 DEF Budget!Next

--------------------------------------------------------------------------------
(* What the view is made of, in a state of the budget.                      *)
LEMMA BudgetRowsAreInt ==
  ASSUME BudgetInv
  PROVE  /\ \A m \in Months, k \in Budget!Posting : posted[m][k] \in Int
         /\ \A m \in Months, c \in Categories :
              Budget!Budgeted(m, c) \in Int /\ Budget!Mode(m, c) \in Budget!Modes
<1>1. ASSUME NEW m \in Months, NEW k \in Budget!Posting
      PROVE  posted[m][k] \in Int
  <2>1. posted[m][k] \in {-x : x \in Spending} \cup Earning \cup {0}
    BY DEF BudgetInv, Budget!BudgetTypeOK
  <2>2. \A x \in Int : -x \in Int
    OBVIOUS
  <2>3. {-x : x \in Spending} \subseteq Int
    BY <2>2, BudgetConstants, Zenon
  <2> DEFINE spent == {-x : x \in Spending}
  <2> HIDE DEF spent
  <2>4. posted[m][k] \in spent \cup Earning \cup {0} /\ spent \subseteq Int
    BY <2>1, <2>3 DEF spent
  <2>5. Earning \subseteq Int /\ 0 \in Int
    BY BudgetConstants
  <2>6. QED
    BY <2>4, <2>5, Zenon
<1>2. ASSUME NEW m \in Months, NEW c \in Categories
      PROVE  Budget!Budgeted(m, c) \in Int /\ Budget!Mode(m, c) \in Budget!Modes
  <2> DEFINE rows == assigned[m][c]
             amounts == [row \in rows |-> row.amount]
  <2>1. rows \in SUBSET [amount : Budgets, mode : Budget!Modes]
    BY DEF BudgetInv, Budget!BudgetTypeOK
  <2>2. rows = {} \/ \E row : rows = {row}
    BY DEF BudgetInv
  <2>3. IsFiniteSet(rows)
    BY <2>2, FS_EmptySet, FS_Singleton
  <2>4. \A row \in rows : amounts[row] \in Int
    BY <2>1, BudgetConstants
  <2>5. DOMAIN amounts = rows /\ Budget!Budgeted(m, c) = Sum(amounts, DOMAIN amounts)
    BY BudgetTotals DEF Budget!Budgeted
  <2>6. Budget!Mode(m, c) \in Budget!Modes
    BY <2>1 DEF Budget!Mode, Budget!Modes
  <2> HIDE DEF rows, amounts
  <2>7. QED
    BY <2>3, <2>4, <2>5, <2>6, SumIsInt
<1>3. QED
  BY <1>1, <1>2

(* The categories the view is over.                                         *)
LEMMA ViewTypes ==
  ASSUME BudgetInv
  PROVE  /\ IsFiniteSet(shown) /\ shown \subseteq Categories
         /\ \A c \in shown : c \in Budget!Posting
         /\ Budget!Income \in Budget!Posting
BY BudgetConstants, FS_Subset DEF BudgetInv, Budget!BudgetTypeOK, Budget!Posting

(* A month with nothing in it, before the first that has something.         *)
LEMMA FirstMonth ==
  ASSUME BudgetInv, Budget!InUse # {}
  PROVE  /\ Budget!Min(Budget!InUse) \in Months
         /\ Budget!Min(Budget!InUse) \in Nat \ {0}
         /\ \A m \in Months : m < Budget!Min(Budget!InUse) =>
              \A k \in Budget!Posting : posted[m][k] = 0
<1>1. Months \subseteq Nat \ {0} /\ Budget!InUse \in SUBSET Nat
  BY BudgetConstants DEF Budget!InUse
<1>2. \E x \in Budget!InUse : \A y \in Budget!InUse : x <= y
  BY <1>1, LeastMember
<1>3. /\ Budget!Min(Budget!InUse) \in Budget!InUse
      /\ \A y \in Budget!InUse : Budget!Min(Budget!InUse) <= y
  BY <1>2 DEF Budget!Min
<1>4. ASSUME NEW m \in Months, m < Budget!Min(Budget!InUse)
      PROVE  m \notin Budget!InUse
  <2> SUFFICES ASSUME m \in Budget!InUse PROVE FALSE
    OBVIOUS
  <2>1. /\ Budget!Min(Budget!InUse) <= m /\ m \in Nat
        /\ Budget!Min(Budget!InUse) \in Nat
    BY <1>1, <1>3
  <2>2. QED
    BY <1>4, <2>1
<1>5. QED
  BY <1>1, <1>3, <1>4 DEF Budget!InUse

(* Each month opens with what the one before carried to it.                 *)
LEMMA OpeningsWalk ==
  ASSUME BudgetInv, Budget!InUse # {}, NEW c \in Categories
  PROVE  \A m \in Months :
           /\ Budget!Openings(c)[m] \in Int
           /\ Budget!Openings(c)[m] =
                IF m <= Budget!Min(Budget!InUse) THEN 0
                ELSE Budget!Carried(m - 1, c, Budget!Openings(c)[m - 1])
<1> DEFINE n == Cardinality(Months)
           start == Budget!Min(Budget!InUse)
           step == [m \in Months |-> [x \in Int |->
                      IF m <= start THEN 0 ELSE Budget!Carried(m - 1, c, x)]]
           Opens(w) == w = [m \in Months |-> IF m <= start THEN 0
                                             ELSE Budget!Carried(m - 1, c, w[m - 1])]
<1>1. n \in Nat /\ Months = 1..n /\ start \in Nat \ {0} /\ 1 <= start
  BY BudgetConstants, FirstMonth
<1>2. \A m \in Months : \A x \in Int : Budget!Carried(m, c, x) \in Int
  <2>1. \A m \in Months : /\ posted[m][c] \in Int /\ Budget!Budgeted(m, c) \in Int
                          /\ Budget!Mode(m, c) \in {"rollover", "reset", "hold"}
    BY BudgetRowsAreInt DEF Budget!Posting, Budget!Modes
  <2>2. QED
    BY <2>1 DEF Budget!Carried, Budget!Ending
<1>3. \A m \in 1..n : ~(m <= start) => m - 1 \in 1..n
  BY <1>1
<1>4. \A m \in 1..n : \A x \in Int :
        /\ step[m][x] \in Int
        /\ ~(m <= start) => step[m][x] = Budget!Carried(m - 1, c, x)
  <2> SUFFICES ASSUME NEW m \in 1..n, NEW x \in Int
               PROVE  /\ step[m][x] \in Int
                      /\ ~(m <= start) => step[m][x] = Budget!Carried(m - 1, c, x)
    OBVIOUS
  <2>1. step[m][x] = IF m <= start THEN 0 ELSE Budget!Carried(m - 1, c, x)
    BY <1>1
  <2>2. ~(m <= start) => Budget!Carried(m - 1, c, x) \in Int
    BY <1>1, <1>2, <1>3
  <2> HIDE DEF start, step
  <2>3. QED
    BY <2>1, <2>2
<1> HIDE DEF n, start, step
<1>5. PICK walk : /\ Steps(1, n, start, 0, step, walk)
                  /\ \A m \in 1..n : walk[m] \in Int
  <2>1. 1 \in Nat /\ start \in Nat /\ 0 \in Int
    BY <1>1
  <2>2. \A m \in 1..n : \A x \in Int : step[m][x] \in Int
    BY <1>4
  <2>3. QED
    BY <1>1, <2>1, <2>2, StepsExistIn, Zenon
<1>6. Opens(walk)
  <2>1. walk = [m \in 1..n |-> IF m <= start THEN 0 ELSE step[m][walk[m - 1]]]
    BY <1>5 DEF Steps
  <2>2. \A m \in 1..n : ~(m <= start) =>
          step[m][walk[m - 1]] = Budget!Carried(m - 1, c, walk[m - 1])
    BY <1>3, <1>4, <1>5
  <2>3. QED
    BY <1>1, <2>1, <2>2
<1>7. Budget!Openings(c) = CHOOSE w : Opens(w)
  BY DEF Budget!Openings, start
<1> HIDE DEF Opens
<1>8. Opens(Budget!Openings(c))
  BY <1>6, <1>7
<1> DEFINE w == Budget!Openings(c)
<1>9. w = [m \in Months |-> IF m <= start THEN 0 ELSE Budget!Carried(m - 1, c, w[m - 1])]
  BY <1>8 DEF Opens
<1> HIDE DEF w
<1>10. \A m \in 1..n : w[m] = IF m <= start THEN 0 ELSE Budget!Carried(m - 1, c, w[m - 1])
  BY <1>1, <1>9
<1>11. \A m \in Months : w[m] \in Int
  <2>1. \A m \in 1..n : m <= start => w[m] \in Int
    BY <1>10
  <2>2. \A m \in 1..n : ~(m <= start) /\ m - 1 \in 1..n /\ w[m - 1] \in Int => w[m] \in Int
    BY <1>1, <1>2, <1>10
  <2>3. 1 \in Nat /\ start \in Nat
    BY <1>1
  <2>4. \A m \in 1..n : w[m] \in Int
    BY <1>1, <2>1, <2>2, <2>3, StaysIn, Zenon
  <2>5. QED
    BY <1>1, <2>4
<1>12. QED
  BY <1>1, <1>10, <1>11 DEF w, start

(* The pool opens with what the month before left unassigned.               *)
LEMMA PoolWalks ==
  ASSUME BudgetInv, Budget!InUse # {}
  PROVE  \A m \in Months :
           /\ Budget!Unassigned[m] \in Int
           /\ Budget!Unassigned[m] =
                IF m <= Budget!Min(Budget!InUse) THEN 0
                ELSE Budget!Unassigned[m - 1] + posted[m - 1][Budget!Income]
                       + Sum([c \in shown |-> Budget!Returned(m - 1, c)
                                                - Budget!Budgeted(m - 1, c)], shown)
<1> DEFINE n == Cardinality(Months)
           start == Budget!Min(Budget!InUse)
           left(m) == [c \in shown |-> Budget!Returned(m, c) - Budget!Budgeted(m, c)]
           step == [m \in Months |-> [x \in Int |->
                      IF m <= start THEN 0
                      ELSE x + posted[m - 1][Budget!Income] + Sum(left(m - 1), shown)]]
           Pools(w) == w = [m \in Months |-> IF m <= start THEN 0
                              ELSE w[m - 1] + posted[m - 1][Budget!Income]
                                     + Sum(left(m - 1), shown)]
<1>1. n \in Nat /\ Months = 1..n /\ start \in Nat \ {0} /\ 1 <= start
  BY BudgetConstants, FirstMonth
<1>2. \A m \in Months : Sum(left(m), shown) \in Int /\ posted[m][Budget!Income] \in Int
  <2> SUFFICES ASSUME NEW m \in Months
               PROVE  Sum(left(m), shown) \in Int
    BY BudgetRowsAreInt, ViewTypes
  <2>1. \A c \in shown : left(m)[c] \in Int
    <3> SUFFICES ASSUME NEW c \in shown
                 PROVE  left(m)[c] \in Int
      OBVIOUS
    <3>1. /\ c \in Categories
          /\ posted[m][c] \in Int /\ Budget!Budgeted(m, c) \in Int
          /\ Budget!Mode(m, c) \in {"rollover", "reset", "hold"}
          /\ Budget!Openings(c)[m] \in Int
      BY ViewTypes, BudgetRowsAreInt, OpeningsWalk DEF Budget!Modes
    <3>2. /\ Budget!Ending(m, c, Budget!Openings(c)[m]) \in Int
          /\ Budget!Carried(m, c, Budget!Openings(c)[m]) \in Int
      BY <3>1 DEF Budget!Carried, Budget!Ending
    <3>3. QED
      BY <3>1, <3>2 DEF Budget!Returned
  <2> HIDE DEF left
  <2>2. QED
    BY <2>1, ViewTypes, SumIsInt
<1>3. \A m \in 1..n : ~(m <= start) => m - 1 \in 1..n
  BY <1>1
<1>4. \A m \in 1..n : \A x \in Int :
        /\ step[m][x] \in Int
        /\ ~(m <= start) =>
             step[m][x] = x + posted[m - 1][Budget!Income] + Sum(left(m - 1), shown)
  <2> SUFFICES ASSUME NEW m \in 1..n, NEW x \in Int
               PROVE  /\ step[m][x] \in Int
                      /\ ~(m <= start) => step[m][x] = x + posted[m - 1][Budget!Income]
                                                         + Sum(left(m - 1), shown)
    OBVIOUS
  <2>1. step[m][x] = IF m <= start THEN 0
                     ELSE x + posted[m - 1][Budget!Income] + Sum(left(m - 1), shown)
    BY <1>1
  <2>2. ~(m <= start) => /\ posted[m - 1][Budget!Income] \in Int
                         /\ Sum(left(m - 1), shown) \in Int
    <3> HIDE DEF left
    <3>1. QED
      BY <1>1, <1>2, <1>3
  <2> HIDE DEF start, step, left
  <2>3. QED
    BY <2>1, <2>2
<1> DEFINE Unfolded(w) == w = [m \in Months |-> IF m <= start THEN 0
                              ELSE w[m - 1] + posted[m - 1][Budget!Income]
                                     + Budget!SumFunction(left(m - 1))]
<1>5. Budget!Unassigned = (CHOOSE w : Unfolded(w)) /\ \A w : Unfolded(w) <=> Pools(w)
  <2>1. \A f : DOMAIN f = shown => Budget!SumFunction(f) = Sum(f, shown)
    BY BudgetTotals
  <2>2. \A m : DOMAIN left(m) = shown
    OBVIOUS
  <2>3. \A m : Budget!SumFunction(left(m)) = Sum(left(m), shown)
    BY <2>1, <2>2
  <2>4. Budget!Unassigned = CHOOSE w : Unfolded(w)
    BY DEF Budget!Unassigned, start, left
  <2> HIDE DEF left, start
  <2>5. \A w : Unfolded(w) <=> Pools(w)
    BY <2>3
  <2>6. QED
    BY <2>4, <2>5
<1> HIDE DEF n, start, step, left
<1>6. PICK walk : /\ Steps(1, n, start, 0, step, walk)
                  /\ \A m \in 1..n : walk[m] \in Int
  <2>1. 1 \in Nat /\ start \in Nat /\ 0 \in Int
    BY <1>1
  <2>2. \A m \in 1..n : \A x \in Int : step[m][x] \in Int
    BY <1>4
  <2>3. QED
    BY <1>1, <2>1, <2>2, StepsExistIn, Zenon
<1>7. Pools(walk)
  <2>1. walk = [m \in 1..n |-> IF m <= start THEN 0 ELSE step[m][walk[m - 1]]]
    BY <1>6 DEF Steps
  <2>2. \A m \in 1..n : ~(m <= start) =>
          step[m][walk[m - 1]]
            = walk[m - 1] + posted[m - 1][Budget!Income] + Sum(left(m - 1), shown)
    BY <1>3, <1>6, <1>4
  <2>3. QED
    BY <1>1, <2>1, <2>2
<1> HIDE DEF Pools, Unfolded
<1>8. Pools(Budget!Unassigned)
  BY <1>5, <1>7
<1> DEFINE w == Budget!Unassigned
<1>9. w = [m \in Months |-> IF m <= start THEN 0
                            ELSE w[m - 1] + posted[m - 1][Budget!Income]
                                   + Sum(left(m - 1), shown)]
  BY <1>8 DEF Pools
<1> HIDE DEF w
<1>10. \A m \in 1..n : w[m] = IF m <= start THEN 0
                              ELSE w[m - 1] + posted[m - 1][Budget!Income]
                                     + Sum(left(m - 1), shown)
  BY <1>1, <1>9
<1>11. \A m \in Months : w[m] \in Int
  <2>1. \A m \in 1..n : m <= start => w[m] \in Int
    BY <1>10
  <2>2. \A m \in 1..n : ~(m <= start) /\ m - 1 \in 1..n /\ w[m - 1] \in Int => w[m] \in Int
    <3> SUFFICES ASSUME NEW m \in 1..n, ~(m <= start), m - 1 \in 1..n, w[m - 1] \in Int
                 PROVE  w[m] \in Int
      OBVIOUS
    <3> DEFINE came == posted[m - 1][Budget!Income]
               back == Sum(left(m - 1), shown)
    <3>1. came \in Int /\ back \in Int
      BY <1>1, <1>2, <1>3
    <3>2. w[m] = w[m - 1] + came + back
      BY <1>10
    <3> HIDE DEF came, back
    <3>3. w[m - 1] + came + back \in Int
      BY <3>1
    <3>4. QED
      BY <3>2, <3>3, Zenon
  <2>3. 1 \in Nat /\ start \in Nat
    BY <1>1
  <2>4. \A m \in 1..n : w[m] \in Int
    BY <1>1, <2>1, <2>2, <2>3, StaysIn, Zenon
  <2>5. QED
    BY <1>1, <2>4
<1>12. QED
  BY <1>1, <1>10, <1>11 DEF w, start, left

(* What came in and went out in one month of the categories in view, and    *)
(* what that is up to and with a month.                                     *)
Cash(m) == posted[m][Budget!Income] + Sum([c \in shown |-> posted[m][c]], shown)
CashTo(m) == Sum([past \in 1..m |-> Cash(past)], 1..m)

(* Cash is an integer.                                                      *)
LEMMA CashTypes ==
  ASSUME BudgetInv
  PROVE  \A m \in Months : /\ Sum([c \in shown |-> posted[m][c]], shown) \in Int
                           /\ Cash(m) \in Int
<1> SUFFICES ASSUME NEW m \in Months
             PROVE  Sum([c \in shown |-> posted[m][c]], shown) \in Int /\ Cash(m) \in Int
  OBVIOUS
<1> DEFINE f == [c \in shown |-> posted[m][c]]
<1>1. \A c \in shown : f[c] \in Int
  BY BudgetRowsAreInt, ViewTypes
<1>2. posted[m][Budget!Income] \in Int
  BY BudgetRowsAreInt, ViewTypes
<1> HIDE DEF f
<1>3. Sum(f, shown) \in Int
  BY <1>1, ViewTypes, SumIsInt
<1>4. QED
  BY <1>2, <1>3 DEF Cash, f

(* A month adds its cash to that of the months before.                      *)
LEMMA CashGrows ==
  ASSUME BudgetInv, NEW m \in Nat, m + 1 \in Months
  PROVE  CashTo(m + 1) = CashTo(m) + Cash(m + 1) /\ CashTo(m) \in Int
<1> DEFINE f == [past \in 1..m |-> Cash(past)]
           g == [past \in 1..(m + 1) |-> Cash(past)]
<1>1. \A x \in 1..(m + 1) : x \in Months /\ Cash(x) \in Int
  <2>1. \A x \in 1..(m + 1) : x \in Months
    BY BudgetConstants
  <2>2. QED
    BY <2>1, CashTypes
<1>2. IsFiniteSet(1..m) /\ m + 1 \notin 1..m /\ 1..(m + 1) = (1..m) \cup {m + 1}
  <2>1. IsFiniteSet(1..m)
    BY FS_Interval
  <2>2. QED
    BY <2>1
<1>3. \A x \in 1..m : f[x] = Cash(x) /\ g[x] = Cash(x) /\ x \in 1..(m + 1)
  OBVIOUS
<1>4. \A x \in (1..m) \cup {m + 1} : g[x] = Cash(x) /\ x \in 1..(m + 1)
  OBVIOUS
<1>5. g[m + 1] = Cash(m + 1)
  OBVIOUS
<1> HIDE DEF f, g
<1>6. Sum(f, 1..m) = Sum(g, 1..m) /\ Sum(f, 1..m) \in Int
  <2>1. \A x \in 1..m : f[x] \in Int /\ f[x] = g[x]
    BY <1>1, <1>3
  <2>2. QED
    BY <1>2, <2>1, SumsOfSame, SumIsInt
<1>7. Sum(g, (1..m) \cup {m + 1}) = Sum(g, 1..m) + g[m + 1]
  <2>1. \A x \in (1..m) \cup {m + 1} : g[x] \in Int
    BY <1>1, <1>4
  <2> DEFINE S == 1..m
             y == m + 1
  <2>2. IsFiniteSet(S) /\ y \notin S /\ \A x \in S \cup {y} : g[x] \in Int
    BY <1>2, <2>1
  <2> HIDE DEF S, y
  <2>3. Sum(g, S \cup {y}) = Sum(g, S) + g[y]
    BY <2>2, SumOfMore
  <2>4. QED
    BY <2>3 DEF S, y
<1>8. QED
  BY <1>2, <1>5, <1>6, <1>7 DEF CashTo, f, g

(* What the envelopes of a month open with, together.                       *)
Opened(m) == Sum([c \in shown |-> Budget!Openings(c)[m]], shown)

(* What a month opens with is an integer.                                   *)
LEMMA OpenedTypes ==
  ASSUME BudgetInv, Budget!InUse # {}
  PROVE  \A m \in Months : Opened(m) \in Int
<1> SUFFICES ASSUME NEW m \in Months
             PROVE  Opened(m) \in Int
  OBVIOUS
<1> DEFINE f == [c \in shown |-> Budget!Openings(c)[m]]
<1>1. \A c \in shown : f[c] \in Int
  BY OpeningsWalk, ViewTypes
<1> HIDE DEF f
<1>2. QED
  BY <1>1, ViewTypes, SumIsInt DEF Opened, f

(* Where a month leaves each envelope and the pool: what an envelope holds  *)
(* is carried on or returned to the pool, and nothing else happens to it.   *)
LEMMA MonthTurns ==
  ASSUME BudgetInv, Budget!InUse # {}, NEW m \in Months, m + 1 \in Months,
         ~(m + 1 <= Budget!Min(Budget!InUse))
  PROVE  Budget!Unassigned[m + 1] + Opened(m + 1) = Budget!Unassigned[m] + Opened(m) + Cash(m)
<1> DEFINE left == [c \in shown |-> Budget!Returned(m, c) - Budget!Budgeted(m, c)]
           opens == [c \in shown |-> Budget!Openings(c)[m + 1]]
           had == [c \in shown |-> Budget!Openings(c)[m]]
           came == [c \in shown |-> posted[m][c]]
           all == [c \in shown |-> had[c] + came[c]]
<1>1. m \in Nat /\ (m + 1) - 1 = m
  BY BudgetConstants
<1>2. ASSUME NEW c \in shown
      PROVE  /\ left[c] \in Int /\ opens[c] \in Int /\ had[c] \in Int /\ came[c] \in Int
             /\ all[c] = left[c] + opens[c]
  <2>1. /\ c \in Categories
        /\ posted[m][c] \in Int /\ Budget!Budgeted(m, c) \in Int
        /\ Budget!Openings(c)[m] \in Int /\ Budget!Openings(c)[m + 1] \in Int
    BY ViewTypes, BudgetRowsAreInt, OpeningsWalk
  <2>2. Budget!Openings(c)[m + 1] = Budget!Carried(m, c, Budget!Openings(c)[m])
    BY <1>1, <2>1, OpeningsWalk
  <2>3. Budget!Returned(m, c)
          = Budget!Openings(c)[m] + Budget!Budgeted(m, c) + posted[m][c]
              - Budget!Openings(c)[m + 1]
    <3>1. Budget!Returned(m, c) = Budget!Ending(m, c, Budget!Openings(c)[m])
                                    - Budget!Carried(m, c, Budget!Openings(c)[m])
      BY DEF Budget!Returned
    <3>2. Budget!Ending(m, c, Budget!Openings(c)[m])
            = Budget!Openings(c)[m] + Budget!Budgeted(m, c) + posted[m][c]
      BY DEF Budget!Ending
    <3> DEFINE ending == Budget!Ending(m, c, Budget!Openings(c)[m])
               carried == Budget!Carried(m, c, Budget!Openings(c)[m])
    <3>3. Budget!Returned(m, c) = ending - carried
      BY <3>1
    <3>4. ending = Budget!Openings(c)[m] + Budget!Budgeted(m, c) + posted[m][c]
      BY <3>2
    <3>5. carried = Budget!Openings(c)[m + 1]
      BY <2>2
    <3> HIDE DEF ending, carried
    <3>6. QED
      BY <2>1, <3>3, <3>4, <3>5
  <2>4. QED
    BY <2>1, <2>3
<1>3. Budget!Unassigned[m + 1]
        = Budget!Unassigned[m] + posted[m][Budget!Income] + Sum(left, shown)
  BY <1>1, PoolWalks
<1>4. /\ Budget!Unassigned[m] \in Int /\ posted[m][Budget!Income] \in Int
      /\ IsFiniteSet(shown)
  BY PoolWalks, BudgetRowsAreInt, ViewTypes
<1>5. Opened(m + 1) = Sum(opens, shown) /\ Opened(m) = Sum(had, shown)
      /\ Cash(m) = posted[m][Budget!Income] + Sum(came, shown)
  BY DEF Opened, Cash
<1>6. \A c \in shown : all[c] = had[c] + came[c]
  OBVIOUS
<1> HIDE DEF left, opens, had, came, all
<1>7. Sum(all, shown) = Sum(had, shown) + Sum(came, shown)
  BY <1>2, <1>4, <1>6, SumsAddUp
<1>8. Sum(all, shown) = Sum(left, shown) + Sum(opens, shown)
  BY <1>2, <1>4, SumsAddUp
<1>9. /\ Sum(left, shown) \in Int /\ Sum(opens, shown) \in Int
      /\ Sum(had, shown) \in Int /\ Sum(came, shown) \in Int
  BY <1>2, <1>4, SumIsInt
<1>10. QED
  BY <1>3, <1>4, <1>5, <1>7, <1>8, <1>9

(* Pool and envelopes open a month with the cash of the months before it.   *)
LEMMA OpensWithTheCash ==
  ASSUME BudgetInv, Budget!InUse # {}
  PROVE  \A m \in Months : Budget!Unassigned[m] + Opened(m) = CashTo(m - 1)
<1> DEFINE n == Cardinality(Months)
           start == Budget!Min(Budget!InUse)
           Good == {k \in Nat : k + 1 \in Months =>
                       Budget!Unassigned[k + 1] + Opened(k + 1) = CashTo(k)}
<1>1. n \in Nat /\ Months = 1..n /\ start \in Nat \ {0}
  BY BudgetConstants, FirstMonth
<1>2. \A m \in Months : m <= start => Budget!Unassigned[m] = 0 /\ Opened(m) = 0
  <2> SUFFICES ASSUME NEW m \in Months, m <= start
               PROVE  Budget!Unassigned[m] = 0 /\ Opened(m) = 0
    OBVIOUS
  <2> DEFINE f == [c \in shown |-> Budget!Openings(c)[m]]
  <2>1. \A c \in shown : f[c] = 0
    BY OpeningsWalk, ViewTypes
  <2> HIDE DEF f
  <2>2. Sum(f, shown) = 0
    BY <2>1, ViewTypes, SumOfZeros
  <2>3. Opened(m) = 0
    BY <2>2 DEF Opened, f
  <2>4. QED
    BY <2>3, PoolWalks
<1>3. \A m \in Months : m < start => Cash(m) = 0
  <2> SUFFICES ASSUME NEW m \in Months, m < start
               PROVE  Cash(m) = 0
    OBVIOUS
  <2> DEFINE f == [c \in shown |-> posted[m][c]]
  <2>1. posted[m][Budget!Income] = 0 /\ \A c \in shown : f[c] = 0
    BY FirstMonth, ViewTypes
  <2> HIDE DEF f
  <2>2. Sum(f, shown) = 0
    BY <2>1, ViewTypes, SumOfZeros
  <2>3. Cash(m) = 0 + 0
    BY <2>1, <2>2, Zenon DEF Cash, f
  <2>4. QED
    BY <2>3
<1> HIDE DEF start
<1>4. 0 \in Good
  <2>1. 1..0 = {}
    OBVIOUS
  <2>2. CashTo(0) = 0
    BY <2>1, SumOfNothing DEF CashTo
  <2>3. 1 \in Months => 1 <= start
    BY <1>1
  <2>4. 0 + 1 = 1
    OBVIOUS
  <2>5. QED
    BY <1>2, <2>2, <2>3
<1>5. ASSUME NEW k \in Nat, k \in Good
      PROVE  k + 1 \in Good
  <2> SUFFICES ASSUME (k + 1) + 1 \in Months
               PROVE  Budget!Unassigned[(k + 1) + 1] + Opened((k + 1) + 1) = CashTo(k + 1)
    OBVIOUS
  <2> DEFINE m == k + 1
  <2>1. m \in Months /\ m \in Nat
    BY <1>1
  <2>2. /\ CashTo(m) = CashTo(k) + Cash(m) /\ CashTo(k) \in Int
        /\ Budget!Unassigned[m] + Opened(m) = CashTo(k)
        /\ Cash(m) \in Int /\ Budget!Unassigned[m] \in Int /\ Opened(m) \in Int
    BY <1>5, <2>1, CashGrows, CashTypes, PoolWalks, OpenedTypes
  <2> HIDE DEF m
  <2>3. CASE ~(m + 1 <= start)
    <3>1. Budget!Unassigned[m + 1] + Opened(m + 1) = Budget!Unassigned[m] + Opened(m) + Cash(m)
      BY <2>1, <2>3, MonthTurns DEF m, start
    <3>2. QED
      BY <2>2, <3>1 DEF m
  <2>4. CASE m + 1 <= start
    <3>1. m < start /\ m <= start
      BY <1>1, <2>1, <2>4
    <3>2. /\ Budget!Unassigned[m] = 0 /\ Opened(m) = 0 /\ Cash(m) = 0
          /\ Budget!Unassigned[m + 1] = 0 /\ Opened(m + 1) = 0
      BY <1>2, <1>3, <2>1, <2>4, <3>1 DEF m
    <3>3. QED
      BY <2>2, <3>2 DEF m
  <2>5. QED
    BY <2>3, <2>4
<1> HIDE DEF Good
<1>6. Nat \subseteq Good
  BY <1>4, <1>5, CountingUp
<1>7. QED
  <2> SUFFICES ASSUME NEW m \in Months
               PROVE  Budget!Unassigned[m] + Opened(m) = CashTo(m - 1)
    OBVIOUS
  <2>1. m - 1 \in Good /\ (m - 1) + 1 = m
    BY <1>1, <1>6
  <2>2. QED
    BY <2>1 DEF Good

(* In any state the view may be asked for.                                  *)
LEMMA TheViewHoldsTheCash ==
  ASSUME BudgetInv
  PROVE  Budget!EnvelopesHoldTheCash
<1> SUFFICES ASSUME Budget!InUse # {}, NEW m \in Months
             PROVE  Budget!SumFunction([c \in shown |-> Budget!Available(m, c)])
                      + Budget!AvailableToBudget(m)
                    = Budget!SumFunction([past \in 1..m |-> posted[past][Budget!Income]
                         + Budget!SumFunction([c \in shown |-> posted[past][c]])])
  BY DEF Budget!EnvelopesHoldTheCash
<1> DEFINE has == [c \in shown |-> Budget!Available(m, c)]
           rows == [c \in shown |-> Budget!Budgeted(m, c)]
           had == [c \in shown |-> Budget!Openings(c)[m]]
           came == [c \in shown |-> posted[m][c]]
           both == [c \in shown |-> had[c] + came[c]]
<1>1. m \in Nat /\ m - 1 \in Nat /\ (m - 1) + 1 = m
  BY BudgetConstants
<1>2. \A f : DOMAIN f = shown => Budget!SumFunction(f) = Sum(f, shown)
  BY BudgetTotals
<1>3. Budget!SumFunction(has) = Sum(has, shown)
  BY <1>2
<1>4. Budget!AvailableToBudget(m)
        = Budget!Unassigned[m] + posted[m][Budget!Income] - Sum(rows, shown)
  <2>1. Budget!SumFunction(rows) = Sum(rows, shown)
    BY <1>2
  <2>2. QED
    BY <2>1 DEF Budget!AvailableToBudget
<1>5. Budget!SumFunction([past \in 1..m |-> posted[past][Budget!Income]
                            + Budget!SumFunction([c \in shown |-> posted[past][c]])])
        = CashTo(m)
  <2>1. \A past : Budget!SumFunction([c \in shown |-> posted[past][c]])
                    = Sum([c \in shown |-> posted[past][c]], shown)
    BY <1>2
  <2> DEFINE f == [past \in 1..m |-> posted[past][Budget!Income]
                     + Budget!SumFunction([c \in shown |-> posted[past][c]])]
  <2>2. f = [past \in 1..m |-> Cash(past)]
    BY <2>1 DEF Cash
  <2>3. DOMAIN f = 1..m
    OBVIOUS
  <2> HIDE DEF f
  <2>4. Budget!SumFunction(f) = Sum(f, 1..m)
    BY <2>3, BudgetTotals
  <2>5. QED
    BY <2>2, <2>4 DEF CashTo, f
<1>6. ASSUME NEW c \in shown
      PROVE  /\ has[c] \in Int /\ rows[c] \in Int /\ had[c] \in Int /\ came[c] \in Int
             /\ both[c] = had[c] + came[c] /\ has[c] = rows[c] + both[c]
  <2>1. /\ c \in Categories
        /\ posted[m][c] \in Int /\ Budget!Budgeted(m, c) \in Int
        /\ Budget!Openings(c)[m] \in Int
    BY ViewTypes, BudgetRowsAreInt, OpeningsWalk
  <2>2. QED
    BY <2>1 DEF Budget!Available
<1>7. Opened(m) = Sum(had, shown) /\ Cash(m) = posted[m][Budget!Income] + Sum(came, shown)
  BY DEF Opened, Cash
<1>8. /\ Budget!Unassigned[m] \in Int /\ posted[m][Budget!Income] \in Int
      /\ IsFiniteSet(shown)
  BY PoolWalks, BudgetRowsAreInt, ViewTypes
<1> HIDE DEF has, rows, had, came, both
<1>9. Sum(both, shown) = Sum(had, shown) + Sum(came, shown)
  BY <1>6, <1>8, SumsAddUp
<1>10. Sum(has, shown) = Sum(rows, shown) + Sum(both, shown)
  BY <1>6, <1>8, SumsAddUp
<1>11. /\ Sum(rows, shown) \in Int /\ Sum(had, shown) \in Int /\ Sum(came, shown) \in Int
  BY <1>6, <1>8, SumIsInt
<1>12. Budget!Unassigned[m] + Opened(m) = CashTo(m - 1) /\ CashTo(m) = CashTo(m - 1) + Cash(m)
  BY <1>1, OpensWithTheCash, CashGrows
<1>13. Sum(has, shown) + Budget!AvailableToBudget(m) = CashTo(m)
  BY <1>4, <1>7, <1>8, <1>9, <1>10, <1>11, <1>12
<1>14. QED
  BY <1>3, <1>5, <1>13 DEF has

(* The invariant of the budget.                                             *)
LEMMA BudgetInvAlways == MCSpec => []BudgetInv
<1>1. MCInit => BudgetInv
  BY BudgetInvHolds DEF MCInit
<1>2. [MCNext]_<<part, vars, money, envelopes>> => [Budget!Next]_envelopes
  BY DEF MCNext
<1>3. BudgetInv /\ [MCNext]_<<part, vars, money, envelopes>> => BudgetInv'
  BY <1>2, BudgetInvStays
<1>4. QED
  BY <1>1, <1>3, PTL DEF MCSpec

(* Envelopes and unassigned cash together are the cash there is, for any    *)
(* months, categories and amounts, in whatever order transactions, budgets  *)
(* and categories come and go (budget.py month_view).                       *)
THEOREM NoCashIsMadeOrLost == MCSpec => []EnvelopesHoldTheCash
<1>1. BudgetInv => EnvelopesHoldTheCash
  BY TheViewHoldsTheCash DEF EnvelopesHoldTheCash
<1>2. QED
  BY <1>1, BudgetInvAlways, PTL

--------------------------------------------------------------------------------
(* The rank of each member of a set of naturals: no two share one, and the  *)
(* ranks are 1 up to the size of the set.                                   *)
Rank(S, i) == Cardinality({j \in S : j <= i})

(* A rank is one of the first positions, and each of them is a rank.        *)
LEMMA RanksAreDense ==
  ASSUME NEW n \in Nat, NEW S \in SUBSET (1..n)
  PROVE  /\ IsFiniteSet(S) /\ Cardinality(S) \in Nat
         /\ \A i \in S : Rank(S, i) \in 1..Cardinality(S)
         /\ \A i, j \in S : Rank(S, i) = Rank(S, j) => i = j
         /\ \A r \in 1..Cardinality(S) : \E i \in S : Rank(S, i) = r
<1> DEFINE size == Cardinality(S)
           rank == [i \in S |-> Rank(S, i)]
<1>1. IsFiniteSet(1..n)
  BY FS_Interval
<1>2. IsFiniteSet(S) /\ size \in Nat
  BY <1>1, FS_Subset, FS_CardinalityType
<1>3. ASSUME NEW i \in S
      PROVE  Rank(S, i) \in 1..size
  <2> DEFINE T == {j \in S : j <= i}
  <2>1. T \in SUBSET S /\ i \in T
    OBVIOUS
  <2> HIDE DEF T
  <2>2. IsFiniteSet(T) /\ Cardinality(T) \in Nat /\ Cardinality(T) <= size
    BY <1>2, <2>1, FS_Subset, FS_CardinalityType
  <2>3. Cardinality(T) # 0
    BY <2>1, <2>2, FS_EmptySet
  <2>4. QED
    BY <1>2, <2>2, <2>3 DEF Rank, T
<1>4. ASSUME NEW i \in S, NEW j \in S, i < j
      PROVE  Rank(S, i) # Rank(S, j)
  <2> DEFINE T == {k \in S : k <= i}
             U == {k \in S : k <= j}
  <2>1. T \in SUBSET U /\ U \in SUBSET S /\ j \in U /\ j \notin T
    <3>1. S \subseteq Int
      OBVIOUS
    <3>2. \A k \in S : k <= i => k <= j
      BY <1>4, <3>1
    <3>3. j <= j /\ ~(j <= i)
      BY <1>4, <3>1
    <3>4. QED
      BY <3>2, <3>3
  <2> HIDE DEF T, U
  <2>2. IsFiniteSet(U)
    BY <1>2, <2>1, FS_Subset
  <2>3. Cardinality(U) # Cardinality(T)
    BY <2>1, <2>2, FS_Subset
  <2>4. QED
    BY <2>3 DEF Rank, T, U
<1>5. \A i, j \in S : Rank(S, i) = Rank(S, j) => i = j
  <2> SUFFICES ASSUME NEW i \in S, NEW j \in S, Rank(S, i) = Rank(S, j)
               PROVE  i = j
    OBVIOUS
  <2>1. i \in Nat /\ j \in Nat
    OBVIOUS
  <2>2. ~(i < j) /\ ~(j < i)
    BY <1>4
  <2>3. QED
    BY <2>1, <2>2
<1>6. rank \in Injection(S, 1..size)
  <2>1. rank \in [S -> 1..size]
    BY <1>3
  <2>2. \A i, j \in S : rank[i] = rank[j] => i = j
    BY <1>5
  <2> HIDE DEF rank
  <2>3. QED
    BY <2>1, <2>2 DEF Injection, IsInjective
<1> HIDE DEF rank
<1>7. Cardinality(1..size) = size /\ IsFiniteSet(1..size)
  BY <1>2, FS_Interval
<1>8. rank \in Surjection(S, 1..size)
  BY <1>6, <1>7, FS_Injection
<1>9. \A r \in 1..size : \E i \in S : Rank(S, i) = r
  BY <1>8 DEF Surjection, rank
<1>10. QED
  BY <1>2, <1>3, <1>5, <1>9

--------------------------------------------------------------------------------
(* What the constants of the ledger are.                                    *)
LEMMA LedgerConstants ==
  /\ IsFiniteSet(Slots) /\ Slots = 1..Cardinality(Slots) /\ Cardinality(Slots) \in Nat
  /\ Slots \subseteq Nat /\ 0 \notin Slots
  /\ Window \in Nat /\ MaxPosts \in Nat
  /\ \A e \in Entries \cup Postings : e.amount \in Int \ {0} /\ e.date \in Nat
                                      /\ e.payee \in Finance!Payees
<1>1. \A S : (Finance!IsFiniteSet(S) <=> IsFiniteSet(S)) /\ Finance!Cardinality(S) = Cardinality(S)
  BY DEF Finance!IsFiniteSet, Finance!Cardinality, IsFiniteSet, Cardinality
<1>2. Finance!FinanceLedgerAssumption
  BY BooksAssumption
<1>3. IsFiniteSet(Slots) /\ Slots = 1..Cardinality(Slots) /\ Cardinality(Slots) \in Nat
  BY <1>1, <1>2, FS_CardinalityType DEF Finance!FinanceLedgerAssumption
<1>4. \A e \in Entries \cup Postings : e.payee \in Finance!Payees
  BY DEF Finance!Payees
<1>5. Slots \subseteq Nat /\ 0 \notin Slots
  BY <1>3
<1>6. QED
  BY <1>2, <1>3, <1>4, <1>5 DEF Finance!FinanceLedgerAssumption

(* The instance of the ledger counts as this module does.                   *)
LEMMA SameCardinality ==
  ASSUME NEW S
  PROVE  Finance!Cardinality(S) = Cardinality(S)
BY DEF Finance!Cardinality, Cardinality

(* What is entered, by hand or from the bank.                               *)
LEMMA EntryIsRow ==
  ASSUME NEW account \in Finance!Accounts, NEW amount \in Int, NEW date \in Nat,
         NEW payee \in Finance!Payees
  PROVE  LET entry == Finance!Entry(account, amount, date, payee)
         IN /\ entry \in Finance!Row
            /\ entry.status = "live" /\ entry.account = account /\ entry.amount = amount
            /\ entry.id = 0 /\ entry.parent = 0 /\ entry.partner = 0
            /\ ~entry.reconciled
<1>1. 0 \in 0..MaxPosts /\ 0 \in Slots \cup {0} /\ 0 \in Nat /\ 0 \in Int
  BY LedgerConstants
<1>2. Finance!NoPayee \in Finance!Payees
  BY DEF Finance!Payees
<1>3. QED
  BY <1>1, <1>2 DEF Finance!Entry, Finance!Blank, Finance!Row, Finance!Accounts, Finance!NoId

(* A row with one field changed.                                            *)
LEMMA RowOfParent ==
  ASSUME NEW row \in Finance!Row, NEW v \in Slots \cup {0}
  PROVE  LET new == [row EXCEPT !.parent = v]
         IN /\ new \in Finance!Row /\ new.parent = v
            /\ new.status = row.status /\ new.account = row.account /\ new.id = row.id /\ new.reconciled = row.reconciled
            /\ new.amount = row.amount /\ new.partner = row.partner
BY DEF Finance!Row

LEMMA RowOfPartner ==
  ASSUME NEW row \in Finance!Row, NEW v \in Slots \cup {0}
  PROVE  LET new == [row EXCEPT !.partner = v]
         IN /\ new \in Finance!Row /\ new.partner = v
            /\ new.status = row.status /\ new.account = row.account /\ new.id = row.id /\ new.reconciled = row.reconciled
            /\ new.amount = row.amount /\ new.parent = row.parent
BY DEF Finance!Row

LEMMA RowOfId ==
  ASSUME NEW row \in Finance!Row, NEW v \in 0..MaxPosts
  PROVE  LET new == [row EXCEPT !.id = v]
         IN /\ new \in Finance!Row /\ new.id = v
            /\ new.status = row.status /\ new.account = row.account /\ new.reconciled = row.reconciled
            /\ new.amount = row.amount /\ new.parent = row.parent /\ new.partner = row.partner
BY DEF Finance!Row

LEMMA RowOfFlag ==
  ASSUME NEW row \in Finance!Row, NEW v \in BOOLEAN
  PROVE  LET new == [row EXCEPT !.reconciled = v]
         IN /\ new \in Finance!Row /\ new.reconciled = v
            /\ new.status = row.status /\ new.account = row.account /\ new.id = row.id
            /\ new.amount = row.amount /\ new.parent = row.parent /\ new.partner = row.partner
BY DEF Finance!Row

LEMMA RowDeleted ==
  ASSUME NEW row \in Finance!Row
  PROVE  LET new == [row EXCEPT !.status = "deleted"]
         IN /\ new \in Finance!Row /\ new.status = "deleted"
            /\ new.account = row.account /\ new.id = row.id /\ new.reconciled = row.reconciled
            /\ new.amount = row.amount /\ new.parent = row.parent /\ new.partner = row.partner
BY DEF Finance!Row

(* A row of the account and what the bank says of it.                       *)
LEMMA MergedRow ==
  ASSUME NEW row \in Finance!Row, NEW bankRow \in Finance!BankRow
  PROVE  LET merged == Finance!Merged(row, bankRow)
         IN /\ merged \in Finance!Row
            /\ merged.status = row.status /\ merged.account = row.account
            /\ merged.amount = row.amount /\ merged.partner = row.partner
            /\ merged.parent = row.parent /\ merged.reconciled = row.reconciled
            /\ merged.id = IF row.reconciled \/ bankRow.id = 0 THEN row.id ELSE bankRow.id
<1>1. bankRow.id \in 0..MaxPosts /\ bankRow.payee \in Finance!Payees
  BY LedgerConstants DEF Finance!BankRow
<1>2. QED
  BY <1>1 DEF Finance!Merged, Finance!Row, Finance!NoId

--------------------------------------------------------------------------------
(* The rows of the ledger, one in each slot.                                *)
Rows == [Slots -> Finance!Row]

(* Rows are numbered as they are inserted.                                  *)
Numbered(rows, k) ==
  /\ k \in 0..Cardinality(Slots)
  /\ {n \in Slots : rows[n].status # "none"} = 1..k

(* A split is a parent and the two rows after it, a transfer two rows that  *)
(* point at each other; no row is part of two such groups.                  *)
SplitAt(rows, n) ==
  rows[n].parent # 0 =>
    LET p == rows[n].parent
    IN /\ p \in Slots /\ p + 1 \in Slots /\ p + 2 \in Slots /\ n \in {p + 1, p + 2}
       /\ rows[p].status = rows[n].status
       /\ rows[p].parent = 0 /\ rows[p].partner = 0
       /\ rows[n].partner = 0
       /\ rows[p].amount = rows[p + 1].amount + rows[p + 2].amount
       /\ \A c \in {p + 1, p + 2} : rows[c].parent = p /\ rows[c].status = rows[n].status

TransferAt(rows, n) ==
  rows[n].partner # 0 =>
    LET q == rows[n].partner
    IN /\ q \in Slots
       /\ rows[n].parent = 0
       /\ rows[q].partner = n
       /\ rows[q].status = rows[n].status
       /\ rows[q].amount = -rows[n].amount

Grouped(rows) ==
  \A n \in Slots : rows[n].status # "none" => SplitAt(rows, n) /\ TransferAt(rows, n)

Sound(rows) == rows \in Rows /\ (\E k : Numbered(rows, k)) /\ Grouped(rows)

(* A group stands where no row of its status changes what groups are of.    *)
LEMMA GroupStands ==
  ASSUME NEW rows, NEW after, NEW n \in Slots, SplitAt(rows, n), TransferAt(rows, n),
         \A m \in Slots : rows[m].status = rows[n].status =>
           /\ after[m].status = rows[m].status
           /\ after[m].amount = rows[m].amount /\ after[m].parent = rows[m].parent
           /\ after[m].partner = rows[m].partner
  PROVE  SplitAt(after, n) /\ TransferAt(after, n)
<1>1. /\ after[n].status = rows[n].status
      /\ after[n].amount = rows[n].amount /\ after[n].parent = rows[n].parent
      /\ after[n].partner = rows[n].partner
  OBVIOUS
<1>2. SplitAt(after, n)
  <2> SUFFICES ASSUME rows[n].parent # 0
               PROVE  SplitAt(after, n)
    BY <1>1 DEF SplitAt
  <2> DEFINE p == rows[n].parent
  <2>1. after[n].parent = p
    BY <1>1
  <2>2. /\ p \in Slots /\ p + 1 \in Slots /\ p + 2 \in Slots /\ n \in {p + 1, p + 2}
        /\ rows[p].status = rows[n].status
        /\ rows[p].parent = 0 /\ rows[p].partner = 0 /\ rows[n].partner = 0
        /\ rows[p].amount = rows[p + 1].amount + rows[p + 2].amount
        /\ \A c \in {p + 1, p + 2} : rows[c].parent = p /\ rows[c].status = rows[n].status
    BY DEF SplitAt
  <2> HIDE DEF p
  <2>3. \A c \in {p + 1, p + 2} :
          /\ after[c].parent = p /\ after[c].status = after[n].status
          /\ after[c].amount = rows[c].amount
    BY <1>1, <2>2
  <2>4. /\ after[p].status = after[n].status
        /\ after[p].parent = 0 /\ after[p].partner = 0 /\ after[n].partner = 0
        /\ after[p].amount = rows[p].amount
    BY <1>1, <2>2
  <2>5. after[p].amount = after[p + 1].amount + after[p + 2].amount
    BY <2>2, <2>3, <2>4
  <2>6. QED
    BY <2>1, <2>2, <2>3, <2>4, <2>5 DEF SplitAt
<1>3. TransferAt(after, n)
  <2> SUFFICES ASSUME rows[n].partner # 0
               PROVE  TransferAt(after, n)
    BY <1>1 DEF TransferAt
  <2> DEFINE q == rows[n].partner
  <2>1. after[n].partner = q
    BY <1>1
  <2>2. /\ q \in Slots /\ rows[n].parent = 0
        /\ rows[q].partner = n /\ rows[q].status = rows[n].status
        /\ rows[q].amount = -rows[n].amount
    BY DEF TransferAt
  <2> HIDE DEF q
  <2>3. /\ after[q].partner = n /\ after[q].status = after[n].status
        /\ after[q].amount = -after[n].amount
    BY <1>1, <2>2
  <2>4. QED
    BY <1>1, <2>1, <2>2, <2>3 DEF TransferAt
<1>4. QED
  BY <1>2, <1>3

(* Rows that keep all of what a group is made of.                           *)
LEMMA GroupedStays ==
  ASSUME NEW rows \in Rows, Grouped(rows), NEW after \in Rows,
         \A n \in Slots : /\ after[n].status = rows[n].status
                          /\ after[n].amount = rows[n].amount
                          /\ after[n].parent = rows[n].parent
                          /\ after[n].partner = rows[n].partner
  PROVE  Grouped(after)
<1> SUFFICES ASSUME NEW n \in Slots, after[n].status # "none"
             PROVE  SplitAt(after, n) /\ TransferAt(after, n)
  BY DEF Grouped
<1>1. SplitAt(rows, n) /\ TransferAt(rows, n)
  BY DEF Grouped
<1>2. QED
  BY <1>1, GroupStands

(* The next row is the one after the last.                                  *)
LEMMA FreshRows ==
  ASSUME NEW k, Numbered(ledger, k)
  PROVE  /\ Finance!Fresh = k + 1 /\ k \in Nat /\ Cardinality(Finance!Used) = k
         /\ \A n \in Slots : n <= k <=> ledger[n].status # "none"
<1>1. k \in Nat /\ Finance!Used = 1..k
  BY LedgerConstants DEF Numbered, Finance!Used, Finance!Is
<1>2. Cardinality(1..k) = k
  BY <1>1, FS_Interval
<1>3. \A n \in Slots : n \in 1..k <=> n <= k
  BY <1>1, LedgerConstants
<1>4. QED
  BY <1>1, <1>2, <1>3, SameCardinality DEF Finance!Fresh, Numbered

(* A plain entry is on its own.                                             *)
LEMMA PlainIsSound ==
  ASSUME Sound(ledger), NEW account \in Finance!Accounts, NEW amount \in Int,
         NEW date \in Nat, NEW payee \in Finance!Payees,
         Finance!EnterPlain(account, amount, date, payee)
  PROVE  Sound(ledger')
<1>1. PICK k : Numbered(ledger, k)
  BY DEF Sound
<1> DEFINE f == k + 1
           row == Finance!Entry(account, amount, date, payee)
<1>2. /\ f \in Slots /\ ledger' = [ledger EXCEPT ![f] = row]
      /\ k \in Nat /\ \A n \in Slots : n <= k <=> ledger[n].status # "none"
  BY <1>1, FreshRows DEF Finance!EnterPlain
<1>3. row \in Finance!Row /\ row.status = "live" /\ row.parent = 0 /\ row.partner = 0
  BY EntryIsRow
<1> HIDE DEF row
<1>4. ledger' \in Rows
  BY <1>2, <1>3 DEF Sound, Rows
<1>5. /\ ledger'[f] = row /\ ledger[f].status = "none"
      /\ \A n \in Slots : n # f => ledger'[n] = ledger[n]
  BY <1>2 DEF Sound, Rows
<1>6. Numbered(ledger', f)
  <2>1. \A n \in Slots : n \in 1..f <=> ledger'[n].status # "none"
    BY <1>2, <1>3, <1>5, LedgerConstants
  <2>2. f \in 0..Cardinality(Slots) /\ 1..f \subseteq Slots
    BY <1>2, LedgerConstants
  <2>3. QED
    BY <2>1, <2>2 DEF Numbered
<1>7. Grouped(ledger')
  <2> HIDE DEF f
  <2>1. SplitAt(ledger', f) /\ TransferAt(ledger', f)
    BY <1>3, <1>5 DEF SplitAt, TransferAt
  <2>2. ASSUME NEW n \in Slots, n # f, ledger'[n].status # "none"
        PROVE  SplitAt(ledger', n) /\ TransferAt(ledger', n)
    <3>1. ledger[n].status # "none"
      BY <1>5, <2>2
    <3>2. SplitAt(ledger, n) /\ TransferAt(ledger, n)
      BY <3>1 DEF Sound, Grouped
    <3>3. \A m \in Slots : ledger[m].status = ledger[n].status => ledger'[m] = ledger[m]
      BY <1>5, <3>1
    <3>4. QED
      BY <3>2, <3>3, GroupStands
  <2>3. QED
    BY <2>1, <2>2 DEF Grouped
<1>8. QED
  BY <1>4, <1>6, <1>7 DEF Sound

(* A split is entered whole.                                                *)
LEMMA SplitIsSound ==
  ASSUME Sound(ledger), NEW account \in Finance!Accounts, NEW a \in Int, NEW b \in Int,
         NEW date \in Nat, NEW payee \in Finance!Payees,
         Finance!EnterSplit(account, a, b, date, payee)
  PROVE  Sound(ledger')
<1>1. PICK k : Numbered(ledger, k)
  BY DEF Sound
<1> DEFINE f == k + 1
           row == Finance!Entry(account, a + b, date, payee)
           first == [Finance!Entry(account, a, date, payee) EXCEPT !.parent = f]
           second == [Finance!Entry(account, b, date, payee) EXCEPT !.parent = f]
<1>2. /\ f + 2 \in Slots
      /\ ledger' = [ledger EXCEPT ![f] = row, ![f + 1] = first, ![f + 2] = second]
      /\ k \in Nat /\ \A n \in Slots : n <= k <=> ledger[n].status # "none"
  BY <1>1, FreshRows DEF Finance!EnterSplit
<1>3. f \in Slots /\ f + 1 \in Slots /\ f # 0
  BY <1>2, LedgerConstants
<1>4. /\ row \in Finance!Row /\ row.status = "live" /\ row.parent = 0 /\ row.partner = 0
      /\ row.amount = a + b
      /\ first \in Finance!Row /\ first.status = "live" /\ first.parent = f /\ first.partner = 0
      /\ first.amount = a
      /\ second \in Finance!Row /\ second.status = "live" /\ second.parent = f
      /\ second.partner = 0 /\ second.amount = b
  <2>1. a + b \in Int
    OBVIOUS
  <2>2. row \in Finance!Row /\ row.status = "live" /\ row.parent = 0 /\ row.partner = 0
        /\ row.amount = a + b
    BY <2>1, EntryIsRow
  <2> DEFINE one == Finance!Entry(account, a, date, payee)
             two == Finance!Entry(account, b, date, payee)
  <2>3. one \in Finance!Row /\ one.status = "live" /\ one.partner = 0 /\ one.amount = a
    BY EntryIsRow
  <2>4. two \in Finance!Row /\ two.status = "live" /\ two.partner = 0 /\ two.amount = b
    BY EntryIsRow
  <2>5. first = [one EXCEPT !.parent = f] /\ second = [two EXCEPT !.parent = f]
    OBVIOUS
  <2> HIDE DEF one, two, first, second, f, row
  <2>6. /\ first \in Finance!Row /\ first.status = "live" /\ first.parent = f
        /\ first.partner = 0 /\ first.amount = a
    BY <1>3, <2>3, <2>5, RowOfParent
  <2>7. /\ second \in Finance!Row /\ second.status = "live" /\ second.parent = f
        /\ second.partner = 0 /\ second.amount = b
    BY <1>3, <2>4, <2>5, RowOfParent
  <2>8. QED
    BY <2>2, <2>6, <2>7
<1> HIDE DEF row, first, second
<1>5. ledger' \in Rows
  BY <1>2, <1>3, <1>4 DEF Sound, Rows
<1>6. /\ ledger'[f] = row /\ ledger'[f + 1] = first /\ ledger'[f + 2] = second
      /\ ledger[f].status = "none" /\ ledger[f + 1].status = "none"
      /\ ledger[f + 2].status = "none"
      /\ \A n \in Slots \ {f, f + 1, f + 2} : ledger'[n] = ledger[n]
  BY <1>2, <1>3 DEF Sound, Rows
<1>7. Numbered(ledger', f + 2)
  <2>1. \A n \in Slots : n \in 1..(f + 2) <=> n \in {f, f + 1, f + 2} \/ n <= k
    BY <1>2, LedgerConstants
  <2>2. \A n \in Slots : n \in 1..(f + 2) <=> ledger'[n].status # "none"
    BY <1>2, <1>4, <1>6, <2>1
  <2>3. f + 2 \in 0..Cardinality(Slots) /\ 1..(f + 2) \subseteq Slots
    BY <1>2, LedgerConstants
  <2>4. QED
    BY <2>2, <2>3 DEF Numbered
<1>8. Grouped(ledger')
  <2>1. ASSUME NEW n \in Slots \ {f, f + 1, f + 2}, ledger'[n].status # "none"
        PROVE  SplitAt(ledger', n) /\ TransferAt(ledger', n)
    <3>1. ledger'[n] = ledger[n] /\ ledger[n].status # "none"
      BY <1>6, <2>1
    <3>2. SplitAt(ledger, n) /\ TransferAt(ledger, n)
      BY <3>1 DEF Sound, Grouped
    <3>3. \A m \in Slots : ledger[m].status = ledger[n].status => m \notin {f, f + 1, f + 2}
      BY <1>6, <3>1
    <3>4. \A m \in Slots : ledger[m].status = ledger[n].status => ledger'[m] = ledger[m]
      BY <1>6, <3>3
    <3>5. QED
      BY <3>2, <3>4, GroupStands
  <2>2. SplitAt(ledger', f) /\ TransferAt(ledger', f)
    BY <1>4, <1>6 DEF SplitAt, TransferAt
  <2>3. ASSUME NEW n \in {f + 1, f + 2}
        PROVE  SplitAt(ledger', n) /\ TransferAt(ledger', n)
    <3>1. /\ ledger'[n].parent = f /\ ledger'[n].partner = 0 /\ ledger'[n].status = "live"
          /\ f \in Slots /\ f + 1 \in Slots /\ f + 2 \in Slots
      BY <1>2, <1>3, <1>4, <1>6, <2>3
    <3>2. /\ ledger'[f].status = "live" /\ ledger'[f].parent = 0 /\ ledger'[f].partner = 0
          /\ ledger'[f].amount = a + b
          /\ ledger'[f + 1].amount = a /\ ledger'[f + 2].amount = b
          /\ ledger'[f + 1].parent = f /\ ledger'[f + 1].status = "live"
          /\ ledger'[f + 2].parent = f /\ ledger'[f + 2].status = "live"
      BY <1>4, <1>6
    <3> HIDE DEF f
    <3>3. SplitAt(ledger', n)
      BY <2>3, <3>1, <3>2 DEF SplitAt
    <3>4. TransferAt(ledger', n)
      BY <3>1 DEF TransferAt
    <3>5. QED
      BY <3>3, <3>4
  <2> HIDE DEF f
  <2>4. ASSUME NEW n \in Slots, ledger'[n].status # "none"
        PROVE  SplitAt(ledger', n) /\ TransferAt(ledger', n)
    <3>1. n \in Slots \ {f, f + 1, f + 2} \/ n = f \/ n \in {f + 1, f + 2}
      BY Zenon
    <3>2. QED
      BY <2>1, <2>2, <2>3, <2>4, <3>1, Zenon
  <2>5. QED
    BY <2>4 DEF Grouped
<1>9. QED
  BY <1>5, <1>7, <1>8 DEF Sound

(* A transfer is entered with both its sides.                               *)
LEMMA TransferIsSound ==
  ASSUME Sound(ledger), NEW account \in Finance!Accounts,
         NEW target \in Finance!Accounts, NEW amount \in Int, NEW date \in Nat,
         Finance!EnterTransfer(account, target, amount, date)
  PROVE  Sound(ledger')
<1>1. PICK k : Numbered(ledger, k)
  BY DEF Sound
<1> DEFINE f == k + 1
           one == Finance!Entry(account, amount, date, Finance!Transfer)
           two == Finance!Entry(target, -amount, date, Finance!Transfer)
           side == [one EXCEPT !.partner = f + 1]
           mirror == [two EXCEPT !.partner = f]
<1>2. /\ f + 1 \in Slots
      /\ ledger' = [ledger EXCEPT ![f] = side, ![f + 1] = mirror]
      /\ k \in Nat /\ \A n \in Slots : n <= k <=> ledger[n].status # "none"
  BY <1>1, FreshRows DEF Finance!EnterTransfer
<1>3. f \in Slots /\ f # 0 /\ f + 1 # 0
  BY <1>2, LedgerConstants
<1>4. /\ one \in Finance!Row /\ one.status = "live" /\ one.parent = 0
      /\ one.amount = amount
      /\ two \in Finance!Row /\ two.status = "live" /\ two.parent = 0
      /\ two.amount = -amount
  <2>1. -amount \in Int /\ Finance!Transfer \in Finance!Payees
    BY DEF Finance!Payees
  <2>2. QED
    BY <2>1, EntryIsRow
<1> HIDE DEF one, two
<1>5. /\ side \in Finance!Row /\ side.status = "live" /\ side.parent = 0
      /\ side.amount = amount /\ side.partner = f + 1
      /\ mirror \in Finance!Row /\ mirror.status = "live" /\ mirror.parent = 0
      /\ mirror.amount = -amount /\ mirror.partner = f
  <2> HIDE DEF f
  <2>1. f \in Slots \cup {0} /\ f + 1 \in Slots \cup {0}
    BY <1>2, <1>3
  <2> HIDE DEF side, mirror
  <2>2. /\ side \in Finance!Row /\ side.status = "live" /\ side.parent = 0
        /\ side.amount = amount /\ side.partner = f + 1
    BY <1>4, <2>1, RowOfPartner DEF side
  <2>3. /\ mirror \in Finance!Row /\ mirror.status = "live" /\ mirror.parent = 0
        /\ mirror.amount = -amount /\ mirror.partner = f
    BY <1>4, <2>1, RowOfPartner DEF mirror
  <2>4. QED
    BY <2>2, <2>3
<1> HIDE DEF side, mirror
<1>6. ledger' \in Rows
  BY <1>2, <1>3, <1>5 DEF Sound, Rows
<1>7. /\ ledger'[f] = side /\ ledger'[f + 1] = mirror
      /\ ledger[f].status = "none" /\ ledger[f + 1].status = "none"
      /\ \A n \in Slots \ {f, f + 1} : ledger'[n] = ledger[n]
  BY <1>2, <1>3 DEF Sound, Rows
<1>8. Numbered(ledger', f + 1)
  <2>1. \A n \in Slots : n \in 1..(f + 1) <=> n \in {f, f + 1} \/ n <= k
    BY <1>2, LedgerConstants
  <2>2. \A n \in Slots : n \in 1..(f + 1) <=> ledger'[n].status # "none"
    BY <1>2, <1>5, <1>7, <2>1
  <2>3. f + 1 \in 0..Cardinality(Slots) /\ 1..(f + 1) \subseteq Slots
    BY <1>2, LedgerConstants
  <2>4. QED
    BY <2>2, <2>3 DEF Numbered
<1>9. Grouped(ledger')
  <2>1. ASSUME NEW n \in Slots \ {f, f + 1}, ledger'[n].status # "none"
        PROVE  SplitAt(ledger', n) /\ TransferAt(ledger', n)
    <3>1. ledger'[n] = ledger[n] /\ ledger[n].status # "none"
      BY <1>7, <2>1
    <3>2. SplitAt(ledger, n) /\ TransferAt(ledger, n)
      BY <3>1 DEF Sound, Grouped
    <3>3. \A m \in Slots : ledger[m].status = ledger[n].status => m \notin {f, f + 1}
      BY <1>7, <3>1
    <3>4. \A m \in Slots : ledger[m].status = ledger[n].status => ledger'[m] = ledger[m]
      BY <1>7, <3>3
    <3>5. QED
      BY <3>2, <3>4, GroupStands
  <2>2. ASSUME NEW n \in {f, f + 1}
        PROVE  SplitAt(ledger', n) /\ TransferAt(ledger', n)
    <3>1. /\ ledger'[f].partner = f + 1 /\ ledger'[f + 1].partner = f
          /\ ledger'[f].parent = 0 /\ ledger'[f + 1].parent = 0
          /\ ledger'[f].status = "live" /\ ledger'[f + 1].status = "live"
          /\ ledger'[f].amount = amount /\ ledger'[f + 1].amount = -amount
      BY <1>5, <1>7
    <3>2. f \in Slots /\ f + 1 \in Slots /\ -(-amount) = amount
      BY <1>2, <1>3
    <3> HIDE DEF f
    <3>3. SplitAt(ledger', n)
      BY <2>2, <3>1 DEF SplitAt
    <3>4. TransferAt(ledger', f)
      BY <3>1, <3>2 DEF TransferAt
    <3>5. TransferAt(ledger', f + 1)
      BY <3>1, <3>2 DEF TransferAt
    <3>6. QED
      BY <2>2, <3>3, <3>4, <3>5
  <2> HIDE DEF f
  <2>3. ASSUME NEW n \in Slots, ledger'[n].status # "none"
        PROVE  SplitAt(ledger', n) /\ TransferAt(ledger', n)
    <3>1. n \in Slots \ {f, f + 1} \/ n \in {f, f + 1}
      BY Zenon
    <3>2. QED
      BY <2>1, <2>2, <2>3, <3>1, Zenon
  <2>4. QED
    BY <2>3 DEF Grouped
<1>10. QED
  BY <1>6, <1>8, <1>9 DEF Sound

(* Reconciling a row leaves its group as it is.                             *)
LEMMA FlagIsSound ==
  ASSUME Sound(ledger), NEW n \in Slots, NEW flag \in BOOLEAN,
         Finance!SetReconciled(n, flag)
  PROVE  Sound(ledger')
<1> DEFINE row == [ledger[n] EXCEPT !.reconciled = flag]
<1>1. ledger' = [ledger EXCEPT ![n] = row]
  BY DEF Finance!SetReconciled
<1>2. ledger \in Rows /\ ledger[n] \in Finance!Row
  BY DEF Sound, Rows
<1>3. /\ row \in Finance!Row
      /\ row.status = ledger[n].status /\ row.account = ledger[n].account
      /\ row.amount = ledger[n].amount /\ row.parent = ledger[n].parent
      /\ row.partner = ledger[n].partner
  BY <1>2, RowOfFlag
<1> HIDE DEF row
<1>4. ledger' \in Rows /\ ledger'[n] = row /\ \A m \in Slots : m # n => ledger'[m] = ledger[m]
  BY <1>1, <1>2, <1>3 DEF Rows
<1>5. \A m \in Slots : /\ ledger'[m].status = ledger[m].status
                       /\ ledger'[m].account = ledger[m].account
                       /\ ledger'[m].amount = ledger[m].amount
                       /\ ledger'[m].parent = ledger[m].parent
                       /\ ledger'[m].partner = ledger[m].partner
  BY <1>3, <1>4
<1>6. Grouped(ledger')
  BY <1>2, <1>4, <1>5, GroupedStays DEF Sound
<1>7. \A k : Numbered(ledger, k) => Numbered(ledger', k)
  BY <1>5 DEF Numbered
<1>8. QED
  BY <1>4, <1>6, <1>7 DEF Sound

(* What is deleted with a row is all of what belongs together, or none.     *)
LEMMA GroupsAreWhole ==
  ASSUME Sound(ledger), NEW n \in Slots, ledger[n].status = "live", ledger[n].parent = 0
  PROVE  /\ Finance!Group(n) \subseteq Slots
         /\ \A m \in Finance!Group(n) : ledger[m].status = "live"
         /\ \A m \in Slots : ledger[m].status # "none" =>
              /\ ledger[m].parent # 0 =>
                   (m \in Finance!Group(n) <=> ledger[m].parent \in Finance!Group(n))
              /\ ledger[m].partner # 0 =>
                   (m \in Finance!Group(n) <=> ledger[m].partner \in Finance!Group(n))
<1> DEFINE own == {n} \cup Finance!Children(n)
           partners == Finance!Partners(own)
<1>1. Finance!Group(n) = own \cup partners \cup UNION {Finance!Children(p) : p \in partners}
  BY DEF Finance!Group
<1>2. \A p, m : m \in Finance!Children(p) <=>
                  m \in Slots /\ ledger[m].status = "live" /\ ledger[m].parent = p
  BY DEF Finance!Children, Finance!Live, Finance!Is
<1>3. \A m : m \in partners <=>
               /\ m \in Slots /\ ledger[m].status = "live" /\ ledger[m].partner # 0
               /\ ledger[m].partner \in own \/ \E o \in own : ledger[o].partner = m
  BY DEF Finance!Partners, Finance!Live, Finance!Is
<1>4. \A m \in own : m \in Slots /\ ledger[m].status = "live"
  BY <1>2
<1> HIDE DEF own, partners
<1>5. \A m : m \in own <=> m = n \/ (m \in Slots /\ ledger[m].status = "live"
                                       /\ ledger[m].parent = n)
  BY <1>2 DEF own
<1>6. \A m \in Slots : ledger[m].status # "none" =>
        SplitAt(ledger, m) /\ TransferAt(ledger, m)
  BY DEF Sound, Grouped
<1>7. \A p \in partners : Finance!Children(p) = {}
  BY <1>2, <1>3, <1>6, LedgerConstants DEF SplitAt
<1>8. Finance!Group(n) = own \cup partners
  BY <1>1, <1>7
<1>9. \A m \in own : ledger[m].partner # 0 => ledger[m].partner \in partners
  BY <1>3, <1>4, <1>6, LedgerConstants DEF TransferAt
<1>10. \A m \in partners : ledger[m].partner \in own
  BY <1>3, <1>4, <1>6, LedgerConstants DEF TransferAt
<1>11. ASSUME NEW m \in Slots, ledger[m].status # "none", ledger[m].parent # 0
       PROVE  m \in Finance!Group(n) <=> ledger[m].parent \in Finance!Group(n)
  <2>1. SplitAt(ledger, m)
    BY <1>6, <1>11
  <2>2. m \notin partners /\ ledger[m].parent \notin partners
    BY <1>3, <1>11, <2>1 DEF SplitAt
  <2>3. m \in own <=> ledger[m].parent \in own
    <3> DEFINE p == ledger[m].parent
    <3>1. p \in Slots /\ p # 0 /\ m \in Slots
      BY <1>11, <2>1 DEF SplitAt
    <3>2. ledger[p].parent = 0 /\ ledger[p].status = ledger[m].status
      BY <1>11, <2>1 DEF SplitAt
    <3>3. QED
      BY <1>4, <1>5, <1>11, <3>1, <3>2, LedgerConstants
  <2>4. QED
    BY <1>8, <2>2, <2>3
<1>12. ASSUME NEW m \in Slots, ledger[m].status # "none", ledger[m].partner # 0
       PROVE  m \in Finance!Group(n) <=> ledger[m].partner \in Finance!Group(n)
  <2> DEFINE q == ledger[m].partner
  <2>1. q \in Slots /\ ledger[q].partner = m /\ ledger[q].status = ledger[m].status /\ m # 0
    BY <1>6, <1>12, LedgerConstants DEF TransferAt
  <2>2. m \in own => q \in partners
    BY <1>9, <1>12
  <2>3. m \in partners => q \in own
    BY <1>10
  <2>4. q \in own => m \in partners
    BY <1>9, <2>1
  <2>5. q \in partners => m \in own
    BY <1>10, <2>1
  <2>6. QED
    BY <1>8, <2>2, <2>3, <2>4, <2>5
<1>13. QED
  BY <1>3, <1>4, <1>8, <1>11, <1>12

(* A group is deleted whole.                                                *)
LEMMA DeleteIsSound ==
  ASSUME Sound(ledger), NEW n \in Slots, Finance!Delete(n)
  PROVE  Sound(ledger')
<1> DEFINE G == Finance!Group(n)
<1>1. /\ ledger[n].status = "live" /\ ledger[n].parent = 0
      /\ ledger' = [m \in Slots |-> IF m \in G THEN [ledger[m] EXCEPT !.status = "deleted"]
                                    ELSE ledger[m]]
  BY DEF Finance!Delete, Finance!Live, Finance!Is
<1>2. /\ \A m \in G : m \in Slots /\ ledger[m].status = "live"
      /\ \A m \in Slots : ledger[m].status # "none" =>
           /\ ledger[m].parent # 0 => (m \in G <=> ledger[m].parent \in G)
           /\ ledger[m].partner # 0 => (m \in G <=> ledger[m].partner \in G)
  BY <1>1, GroupsAreWhole
<1> HIDE DEF G
<1>3. ledger \in Rows /\ \A m \in Slots : ledger[m] \in Finance!Row
  BY DEF Sound, Rows
<1>4. \A m \in Slots :
        /\ ledger'[m] \in Finance!Row
        /\ ledger'[m].status = IF m \in G THEN "deleted" ELSE ledger[m].status
        /\ ledger'[m].account = ledger[m].account
        /\ ledger'[m].amount = ledger[m].amount /\ ledger'[m].parent = ledger[m].parent
        /\ ledger'[m].partner = ledger[m].partner
  BY <1>1, <1>3, RowDeleted
<1>5. ledger' \in Rows
  BY <1>1, <1>4 DEF Rows
<1>6. \A m \in Slots : ledger'[m].status # "none" <=> ledger[m].status # "none"
  BY <1>2, <1>4
<1>7. \A k : Numbered(ledger, k) => Numbered(ledger', k)
  BY <1>6 DEF Numbered
<1>8. ASSUME NEW m \in Slots, ledger'[m].status # "none"
      PROVE  SplitAt(ledger', m) /\ TransferAt(ledger', m)
  <2>1. SplitAt(ledger, m) /\ TransferAt(ledger, m) /\ ledger[m].status # "none"
    BY <1>6, <1>8 DEF Sound, Grouped
  <2>2. SplitAt(ledger', m)
    <3> SUFFICES ASSUME ledger[m].parent # 0
                 PROVE  SplitAt(ledger', m)
      BY <1>4 DEF SplitAt
    <3> DEFINE p == ledger[m].parent
    <3>1. /\ p \in Slots /\ p + 1 \in Slots /\ p + 2 \in Slots /\ m \in {p + 1, p + 2}
          /\ \A c \in {p + 1, p + 2} : ledger[c].parent = p /\ ledger[c].status # "none"
      BY <2>1 DEF SplitAt
    <3>2. p # 0
      OBVIOUS
    <3>3. \A c \in {p + 1, p + 2} : c \in G <=> p \in G
      BY <1>2, <3>1, <3>2
    <3>4. /\ ledger[p].status = ledger[m].status
          /\ ledger[p].parent = 0 /\ ledger[p].partner = 0 /\ ledger[m].partner = 0
          /\ ledger[p].amount = ledger[p + 1].amount + ledger[p + 2].amount
          /\ \A c \in {p + 1, p + 2} : ledger[c].status = ledger[m].status
      BY <2>1 DEF SplitAt
    <3>5. ledger'[m].parent = p
      BY <1>4
    <3> HIDE DEF p
    <3>6. \A c \in {p + 1, p + 2} : c \in Slots
      BY <3>1
    <3>7. \A c \in {p + 1, p + 2} : ledger'[c].parent = p
                                     /\ ledger'[c].status = ledger'[p].status
      BY <1>4, <3>1, <3>3, <3>4, <3>6
    <3>8. /\ ledger'[p].parent = 0 /\ ledger'[p].partner = 0 /\ ledger'[m].partner = 0
          /\ ledger'[p].amount = ledger'[p + 1].amount + ledger'[p + 2].amount
      BY <1>4, <3>1, <3>4
    <3>9. ledger'[p].status = ledger'[m].status
      BY <3>1, <3>7
    <3>10. QED
      BY <3>1, <3>5, <3>7, <3>8, <3>9 DEF SplitAt
  <2>3. TransferAt(ledger', m)
    BY <1>2, <1>4, <2>1 DEF TransferAt
  <2>4. QED
    BY <2>2, <2>3
<1>9. Grouped(ledger')
  BY <1>8 DEF Grouped
<1>10. QED
  BY <1>5, <1>7, <1>9 DEF Sound

(* The candidate match_transactions takes is one of those it has.           *)
LEMMA NearestIsOne ==
  ASSUME NEW rows \in Rows, NEW heap \in Finance!Heaps, NEW bankRow \in Finance!BankRow,
         NEW some \in SUBSET Slots, some # {}
  PROVE  Finance!Nearest(rows, heap, bankRow, some) \in some
<1> DEFINE far(n) == Finance!Distance(rows, n, bankRow)
           Fars == {far(n) : n \in some}
<1>1. \A n \in some : far(n) \in Nat
  <2> SUFFICES ASSUME NEW n \in some PROVE far(n) \in Nat
    OBVIOUS
  <2>1. rows[n].date \in Nat /\ bankRow.date \in Nat
    <3>1. rows[n] \in Finance!Row
      BY DEF Rows
    <3>2. QED
      BY <3>1, LedgerConstants DEF Finance!Row, Finance!BankRow
  <2>2. QED
    BY <2>1 DEF Finance!Distance
<1>2. \A n \in some : heap[n] \in Nat
  BY LedgerConstants DEF Finance!Heaps, Finance!Bijection, Finance!Injection
<1> HIDE DEF far
<1>3. PICK d \in Fars : \A e \in Fars : d <= e
  <2>1. Fars \in SUBSET Nat /\ Fars # {}
    BY <1>1
  <2> HIDE DEF Fars
  <2>2. QED
    BY <2>1, LeastMember, Zenon
<1> DEFINE Near == {heap[n] : n \in {m \in some : far(m) = d}}
<1>4. PICK h \in Near : \A g \in Near : h <= g
  <2>1. Near \in SUBSET Nat /\ Near # {}
    BY <1>2, <1>3
  <2> HIDE DEF Near
  <2>2. QED
    BY <2>1, LeastMember
<1>5. PICK n \in some : far(n) = d /\ heap[n] = h
  BY <1>4
<1>6. ASSUME NEW m \in some
      PROVE  far(n) < far(m) \/ (far(n) = far(m) /\ heap[n] <= heap[m])
  <2>1. d <= far(m) /\ far(m) \in Nat /\ d \in Nat
    BY <1>1, <1>3
  <2>2. far(m) = d => h <= heap[m]
    BY <1>4
  <2>3. QED
    BY <1>5, <2>1, <2>2
<1>7. \E k \in some : \A m \in some :
        far(k) < far(m) \/ (far(k) = far(m) /\ heap[k] <= heap[m])
  BY <1>6
<1>8. Finance!Nearest(rows, heap, bankRow, some) =
        CHOOSE k \in some : \A m \in some :
          far(k) < far(m) \/ (far(k) = far(m) /\ heap[k] <= heap[m])
  BY DEF Finance!Nearest, far
<1>9. QED
  BY <1>7, <1>8

(* The rows a row of the batch may be taken for.                            *)
Candidates(rows, bankRow) == Finance!Exact(rows, bankRow) \cup Finance!Similar(rows, bankRow)

(* A matching takes a row of the batch for one it may be the same as, and   *)
(* no two of them for the same.                                             *)
Fits(rows, batch, matching) ==
  /\ matching \in [DOMAIN batch -> Slots \cup {0}]
  /\ \A i \in DOMAIN batch : matching[i] # 0 => matching[i] \in Candidates(rows, batch[i])
  /\ \A i, j \in DOMAIN batch : matching[i] = matching[j] /\ matching[i] # 0 => i = j

(* A pass leaves the matches there are.                                     *)
Completes(matching, base) ==
  \A i \in DOMAIN base : base[i] # 0 => matching[i] = base[i]

(* A batch is a sequence of what the bank reports.                          *)
LEMMA BatchIsTyped ==
  ASSUME NEW batch \in Seq(Finance!BankRow)
  PROVE  /\ Len(batch) \in Nat /\ DOMAIN batch = 1..Len(batch)
         /\ \A i \in DOMAIN batch : batch[i] \in Finance!BankRow
OBVIOUS

(* A pass keeps the matches there are and adds no second claim to a row.    *)
LEMMA PassFits ==
  ASSUME NEW rows \in Rows, NEW heap \in Finance!Heaps, NEW batch \in Seq(Finance!BankRow),
         NEW base, Fits(rows, batch, base), NEW samePayee \in BOOLEAN
  PROVE  LET after == Finance!Match(rows, heap, batch, base, samePayee)
         IN Fits(rows, batch, after) /\ Completes(after, base)
<1> DEFINE n == Len(batch)
           T == {done \in [DOMAIN batch -> Slots \cup {0}] :
                   Fits(rows, batch, done) /\ Completes(done, base)}
           free(done, i) == {k \in Finance!Similar(rows, batch[i]) \ Finance!Taken(done) :
                               samePayee => rows[k].payee = batch[i].payee}
           next(done, i) == IF done[i] # 0 \/ free(done, i) = {} THEN done
                            ELSE [done EXCEPT ![i] =
                                    Finance!Nearest(rows, heap, batch[i], free(done, i))]
           Passes(w) == w = [i \in 0..n |-> IF i = 0 THEN base ELSE next(w[i - 1], i)]
           step == [i \in 0..n |-> [done \in T |-> IF i = 0 THEN done ELSE next(done, i)]]
<1>1. /\ n \in Nat /\ DOMAIN batch = 1..n
      /\ \A i \in 1..n : batch[i] \in Finance!BankRow
  BY BatchIsTyped
<1>2. base \in T
  BY DEF Fits, Completes
<1>3. ASSUME NEW i \in 1..n, NEW done \in T
      PROVE  next(done, i) \in T
  <2>1. CASE done[i] # 0 \/ free(done, i) = {}
    BY <2>1
  <2>2. CASE done[i] = 0 /\ free(done, i) # {}
    <3> DEFINE k == Finance!Nearest(rows, heap, batch[i], free(done, i))
               new == [done EXCEPT ![i] = k]
    <3>1. free(done, i) \in SUBSET Slots
      BY DEF Finance!Similar
    <3>2. k \in free(done, i)
      <4> DEFINE some == free(done, i)
      <4>1. some \in SUBSET Slots /\ some # {} /\ batch[i] \in Finance!BankRow
        BY <1>1, <2>2, <3>1
      <4> HIDE DEF some
      <4>2. Finance!Nearest(rows, heap, batch[i], some) \in some
        BY <4>1, NearestIsOne
      <4>3. QED
        BY <4>2 DEF some
    <3>3. next(done, i) = new
      BY <2>2
    <3> HIDE DEF k
    <3>4. k \in Slots /\ k \in Candidates(rows, batch[i])
          /\ \A j \in DOMAIN done : done[j] # k
      BY <3>1, <3>2 DEF Candidates, Finance!Taken
    <3> HIDE DEF next, free
    <3>5. done \in [1..n -> Slots \cup {0}] /\ Fits(rows, batch, done) /\ Completes(done, base)
      BY <1>1
    <3>6. new \in [1..n -> Slots \cup {0}] /\ new[i] = k
          /\ \A j \in 1..n : j # i => new[j] = done[j]
      BY <3>4, <3>5
    <3> HIDE DEF new
    <3>7. Fits(rows, batch, new)
      BY <1>1, <3>4, <3>5, <3>6 DEF Fits
    <3>8. Completes(new, base)
      <4>1. DOMAIN base = 1..n
        BY <1>1, <1>2
      <4>2. QED
        BY <2>2, <3>5, <3>6, <4>1 DEF Completes
    <3>9. QED
      BY <1>1, <3>3, <3>6, <3>7, <3>8
  <2>3. QED
    BY <2>1, <2>2
<1>4. Finance!Match(rows, heap, batch, base, samePayee) = (CHOOSE w : Passes(w))[n]
  BY DEF Finance!Match
<1> HIDE DEF n, T, next
<1>5. \A i \in 0..n : \A done \in T :
        step[i][done] \in T /\ (i # 0 => step[i][done] = next(done, i))
  BY <1>1, <1>3
<1> HIDE DEF step
<1>6. PICK walk : /\ Steps(0, n, 0, base, step, walk)
                  /\ \A i \in 0..n : walk[i] \in T
  <2>1. 0 \in Nat /\ 0 <= 0 /\ n \in Nat
    BY <1>1
  <2>2. \A i \in 0..n : \A done \in T : step[i][done] \in T
    BY <1>5
  <2>3. QED
    BY <1>2, <2>1, <2>2, StepsExistIn, Zenon
<1>7. Passes(walk)
  <2>1. walk = [i \in 0..n |-> IF i <= 0 THEN base ELSE step[i][walk[i - 1]]]
    BY <1>6 DEF Steps
  <2>2. \A i \in 0..n : (i <= 0 <=> i = 0) /\ (i # 0 => i - 1 \in 0..n)
    BY <1>1
  <2>3. \A i \in 0..n : i # 0 => step[i][walk[i - 1]] = next(walk[i - 1], i)
    BY <1>5, <1>6, <2>2
  <2>4. QED
    BY <2>1, <2>2, <2>3
<1> DEFINE w == CHOOSE v : Passes(v)
<1>8. Passes(w)
  <2> HIDE DEF Passes
  <2>1. QED
    BY <1>7
<1> HIDE DEF w
<1>9. \A i \in 0..n : w[i] = IF i = 0 THEN base ELSE next(w[i - 1], i)
  BY <1>8
<1> HIDE DEF Passes
<1>10. \A i \in 0..n : w[i] \in T
  <2>1. \A i \in 0..n : i <= 0 => w[i] \in T
    BY <1>1, <1>2, <1>9
  <2>2. \A i \in 0..n : ~(i <= 0) /\ i - 1 \in 0..n /\ w[i - 1] \in T => w[i] \in T
    BY <1>1, <1>3, <1>9
  <2>3. 0 \in Nat /\ 0 <= 0 /\ n \in Nat
    BY <1>1
  <2>4. QED
    BY <2>1, <2>2, <2>3, StaysIn, Zenon
<1>11. w[n] \in T
  BY <1>1, <1>10
<1>12. QED
  BY <1>4, <1>11 DEF w, T

--------------------------------------------------------------------------------
(* What the bank has booked under an id is one transaction.                 *)
IdsDiffer(batch) ==
  \A i, j \in DOMAIN batch : batch[i].id = batch[j].id /\ batch[i].id # 0 => i = j

(* A matching claims each row once, and a row with the id before any other. *)
LEMMA MatchingFits ==
  ASSUME NEW rows \in Rows, NEW heap \in Finance!Heaps, NEW batch \in Seq(Finance!BankRow),
         IdsDiffer(batch)
  PROVE  LET matching == Finance!Matching(rows, heap, batch)
         IN /\ Fits(rows, batch, matching)
            /\ \A i \in DOMAIN batch : Finance!Exact(rows, batch[i]) # {}
                                         => matching[i] \in Finance!Exact(rows, batch[i])
<1> DEFINE exact == [i \in DOMAIN batch |->
                       LET found == Finance!Exact(rows, batch[i])
                       IN IF found = {} THEN 0 ELSE CHOOSE n \in found : TRUE]
           payee == Finance!Match(rows, heap, batch, exact, TRUE)
           all == Finance!Match(rows, heap, batch, payee, FALSE)
<1>1. \A i \in DOMAIN batch :
        IF Finance!Exact(rows, batch[i]) = {} THEN exact[i] = 0
        ELSE exact[i] \in Finance!Exact(rows, batch[i]) /\ exact[i] \in Slots
  BY DEF Finance!Exact
<1>2. DOMAIN exact = DOMAIN batch
  OBVIOUS
<1>3. exact \in [DOMAIN batch -> Slots \cup {0}]
  BY <1>1
<1>4. Finance!Matching(rows, heap, batch) = all
  BY DEF Finance!Matching
<1> HIDE DEF exact
<1>5. Fits(rows, batch, exact)
  <2>1. \A i, j \in DOMAIN batch : exact[i] = exact[j] /\ exact[i] # 0 => i = j
    BY <1>1 DEF Finance!Exact, Finance!NoId, IdsDiffer
  <2>2. \A i \in DOMAIN batch : exact[i] # 0 => exact[i] \in Candidates(rows, batch[i])
    BY <1>1 DEF Candidates
  <2>3. QED
    BY <1>3, <2>1, <2>2 DEF Fits
<1>6. Fits(rows, batch, payee) /\ Completes(payee, exact)
  BY <1>5, PassFits
<1> HIDE DEF payee
<1>7. Fits(rows, batch, all) /\ Completes(all, payee)
  BY <1>6, PassFits
<1> HIDE DEF all
<1>8. DOMAIN payee = DOMAIN batch
  BY <1>6 DEF Fits
<1>9. \A i \in DOMAIN batch : exact[i] # 0 => all[i] = exact[i]
  BY <1>2, <1>6, <1>7, <1>8 DEF Completes
<1>10. \A i \in DOMAIN batch : Finance!Exact(rows, batch[i]) # {}
                                 => all[i] \in Finance!Exact(rows, batch[i])
  BY <1>1, <1>9, LedgerConstants
<1>11. QED
  BY <1>4, <1>7, <1>10

(* The row that is added for one of the batch.                              *)
Added(bankRow) ==
  [Finance!Entry("checking", bankRow.amount, bankRow.date, bankRow.payee)
     EXCEPT !.id = bankRow.id]

(* Every row of the batch ends up in a ledger row of its own: its match,    *)
(* merged, or the next one there is room for.  The others stay.             *)
Lands(rows, after, batch, matching, k, landing) ==
  /\ landing \in [DOMAIN batch -> Slots]
  /\ \A i, j \in DOMAIN batch : landing[i] = landing[j] => i = j
  /\ \A i \in DOMAIN batch : matching[i] # 0 =>
       /\ landing[i] = matching[i]
       /\ after[landing[i]] = Finance!Merged(rows[landing[i]], batch[i])
  /\ \A i \in DOMAIN batch : matching[i] = 0 =>
       /\ landing[i] > k
       /\ after[landing[i]] = Added(batch[i])
  /\ \A n \in Slots : (\A i \in DOMAIN batch : landing[i] # n) => after[n] = rows[n]

(* A match is a live row of the account.                                    *)
LEMMA MatchesAreThere ==
  ASSUME NEW rows \in Rows, NEW batch, NEW matching, Fits(rows, batch, matching),
         NEW i \in DOMAIN batch, matching[i] # 0
  PROVE  /\ matching[i] \in Slots
         /\ rows[matching[i]].status = "live" /\ rows[matching[i]].account = "checking"
BY DEF Fits, Candidates, Finance!Exact, Finance!Similar

(* Where the rows of the batch end up.                                      *)
LEMMA ImportLands ==
  ASSUME NEW rows \in Rows, NEW k, Numbered(rows, k), NEW batch \in Seq(Finance!BankRow),
         NEW matching, Fits(rows, batch, matching),
         k + Cardinality(Finance!Unmatched(matching)) \in Slots \cup {0}
  PROVE  LET landing == Finance!Landing(rows, matching)
         IN /\ Lands(rows, Finance!Reconciled(rows, batch, matching), batch, matching, k, landing)
            /\ \A n \in Slots : (n > k /\ n <= k + Cardinality(Finance!Unmatched(matching)))
                 <=> \E i \in DOMAIN batch : matching[i] = 0 /\ landing[i] = n
<1> DEFINE U == Finance!Unmatched(matching)
           u == Cardinality(U)
           landing == Finance!Landing(rows, matching)
           after == Finance!Reconciled(rows, batch, matching)
           last == Cardinality({n \in Slots : rows[n].status # "none"})
<1>1. /\ DOMAIN batch = 1..Len(batch) /\ Len(batch) \in Nat /\ DOMAIN matching = DOMAIN batch
  BY BatchIsTyped DEF Fits
<1>2. \A i \in DOMAIN batch : i \in U <=> matching[i] = 0
  BY <1>1 DEF Finance!Unmatched
<1>3. U \in SUBSET (1..Len(batch))
  BY <1>1 DEF Finance!Unmatched
<1>4. k \in Nat /\ last = k /\ \A n \in Slots : n <= k <=> rows[n].status # "none"
  <2>1. k \in Nat /\ Cardinality(1..k) = k
    BY LedgerConstants, FS_Interval DEF Numbered
  <2>2. \A n \in Slots : n \in 1..k <=> n <= k
    BY <2>1, LedgerConstants
  <2>3. QED
    BY <2>1, <2>2 DEF Numbered
<1>5. /\ DOMAIN landing = DOMAIN batch
      /\ \A i \in DOMAIN batch :
           landing[i] = IF matching[i] # 0 THEN matching[i] ELSE k + Rank(U, i)
  <2>1. \A S : Finance!Cardinality(S) = Cardinality(S)
    BY SameCardinality
  <2>2. landing = [i \in DOMAIN matching |->
                     IF matching[i] # 0 THEN matching[i]
                     ELSE Finance!Cardinality({n \in Slots : rows[n].status # "none"})
                            + Finance!Cardinality({j \in Finance!Unmatched(matching) : j <= i})]
    BY DEF Finance!Landing
  <2>3. QED
    BY <1>1, <1>4, <2>1, <2>2 DEF Rank
<1> HIDE DEF landing, U, last
<1>6. /\ u \in Nat
      /\ \A i \in U : Rank(U, i) \in 1..u
      /\ \A i, j \in U : Rank(U, i) = Rank(U, j) => i = j
      /\ \A r \in 1..u : \E i \in U : Rank(U, i) = r
  BY <1>1, <1>3, RanksAreDense
<1> HIDE DEF u
<1>7. k + u <= Cardinality(Slots) /\ Slots = 1..Cardinality(Slots) /\ Cardinality(Slots) \in Nat
  <2>1. k + u \in Slots \cup {0}
    BY DEF u, U
  <2>2. QED
    BY <2>1, LedgerConstants
<1>8. \A i \in DOMAIN batch : matching[i] # 0 =>
        landing[i] \in Slots /\ landing[i] <= k
  BY <1>4, <1>5, MatchesAreThere
<1>9. \A i \in DOMAIN batch : matching[i] = 0 =>
        landing[i] \in Slots /\ landing[i] > k /\ landing[i] <= k + u
                             /\ landing[i] - k = Rank(U, i)
  BY <1>2, <1>4, <1>5, <1>6, <1>7
<1>10. landing \in [DOMAIN batch -> Slots]
  <2>1. landing = [i \in DOMAIN landing |-> landing[i]]
    BY DEF landing, Finance!Landing
  <2>2. QED
    BY <1>5, <1>8, <1>9, <2>1
<1>11. ASSUME NEW i \in DOMAIN batch, NEW j \in DOMAIN batch, landing[i] = landing[j]
       PROVE  i = j
  <2>1. (matching[i] = 0) = (matching[j] = 0)
    BY <1>4, <1>7, <1>8, <1>9, <1>11
  <2>2. CASE matching[i] = 0
    BY <1>2, <1>6, <1>9, <1>11, <2>1, <2>2
  <2>3. CASE matching[i] # 0
    BY <1>5, <1>11, <2>1, <2>3 DEF Fits
  <2>4. QED
    BY <2>2, <2>3
<1>12. \A n \in Slots : (n > k /\ n <= k + u)
         <=> \E i \in DOMAIN batch : matching[i] = 0 /\ landing[i] = n
  <2>1. ASSUME NEW n \in Slots, n > k, n <= k + u
        PROVE  \E i \in DOMAIN batch : matching[i] = 0 /\ landing[i] = n
    <3>1. n - k \in 1..u
      BY <1>4, <1>6, <1>7, <2>1
    <3>2. PICK i \in U : Rank(U, i) = n - k
      BY <1>6, <3>1
    <3>3. i \in DOMAIN batch /\ matching[i] = 0
      BY <1>1, <1>2, <1>3
    <3>4. landing[i] = n
      BY <1>4, <1>5, <1>7, <3>2, <3>3
    <3>5. QED
      BY <3>3, <3>4
  <2>2. QED
    BY <1>9, <2>1
<1>13. ASSUME NEW i \in DOMAIN batch
       PROVE  after[landing[i]] =
                IF rows[landing[i]].status # "none"
                  THEN Finance!Merged(rows[landing[i]], batch[i])
                ELSE Added(batch[i])
  <2> DEFINE n == landing[i]
             landed == {j \in DOMAIN matching : landing[j] = n}
  <2>1. n \in Slots /\ landed = {i}
    BY <1>1, <1>10, <1>11
  <2>2. after[n] = LET bankRow == batch[CHOOSE j \in landed : TRUE]
                   IN IF landed = {} THEN rows[n]
                      ELSE IF rows[n].status # "none" THEN Finance!Merged(rows[n], bankRow)
                      ELSE Added(bankRow)
    BY <2>1 DEF Finance!Reconciled, landing, Added
  <2>3. (CHOOSE j \in {i} : TRUE) = i
    OBVIOUS
  <2> HIDE DEF landed, n, after
  <2>4. QED
    BY <2>1, <2>2, <2>3 DEF n
<1>14. ASSUME NEW n \in Slots, \A i \in DOMAIN batch : landing[i] # n
       PROVE  after[n] = rows[n]
  <2>1. {j \in DOMAIN matching : landing[j] = n} = {}
    BY <1>1, <1>14
  <2>2. QED
    BY <2>1 DEF Finance!Reconciled, landing
<1> HIDE DEF after
<1>15. Lands(rows, after, batch, matching, k, landing)
  <2>1. \A i \in DOMAIN batch : matching[i] # 0 =>
          /\ landing[i] = matching[i]
          /\ after[landing[i]] = Finance!Merged(rows[landing[i]], batch[i])
    BY <1>4, <1>5, <1>8, <1>13
  <2>2. \A i \in DOMAIN batch : matching[i] = 0 =>
          landing[i] > k /\ after[landing[i]] = Added(batch[i])
    BY <1>4, <1>7, <1>9, <1>13
  <2>3. QED
    BY <1>10, <1>11, <1>14, <2>1, <2>2 DEF Lands
<1>16. QED
  BY <1>12, <1>15 DEF u, U, landing, after

--------------------------------------------------------------------------------
(* What an import adds for a row of the batch.                              *)
LEMMA AddedIsRow ==
  ASSUME NEW bankRow \in Finance!BankRow
  PROVE  LET row == Added(bankRow)
         IN /\ row \in Finance!Row
            /\ row.status = "live" /\ row.account = "checking"
            /\ row.amount = bankRow.amount /\ row.id = bankRow.id
            /\ row.parent = 0 /\ row.partner = 0
<1>1. /\ bankRow.amount \in Int /\ bankRow.date \in Nat /\ bankRow.payee \in Finance!Payees
      /\ bankRow.id \in 0..MaxPosts
  BY LedgerConstants DEF Finance!BankRow
<1> DEFINE entry == Finance!Entry("checking", bankRow.amount, bankRow.date, bankRow.payee)
<1>2. "checking" \in Finance!Accounts
  BY DEF Finance!Accounts
<1>3. /\ entry \in Finance!Row /\ entry.status = "live" /\ entry.account = "checking"
      /\ entry.amount = bankRow.amount /\ entry.parent = 0 /\ entry.partner = 0
  BY <1>1, <1>2, EntryIsRow
<1>4. Added(bankRow) = [entry EXCEPT !.id = bankRow.id]
  BY DEF Added
<1> HIDE DEF entry
<1>5. QED
  BY <1>1, <1>3, <1>4, RowOfId

(* An import keeps the rows numbered and the groups whole.                  *)
LEMMA ImportIsSound ==
  ASSUME NEW rows, Sound(rows), NEW k, Numbered(rows, k), NEW batch \in Seq(Finance!BankRow),
         NEW matching, Fits(rows, batch, matching),
         k + Cardinality(Finance!Unmatched(matching)) \in Slots \cup {0}
  PROVE  Sound(Finance!Reconciled(rows, batch, matching))
<1> DEFINE u == Cardinality(Finance!Unmatched(matching))
           landing == Finance!Landing(rows, matching)
           after == Finance!Reconciled(rows, batch, matching)
<1>1. rows \in Rows /\ \A n \in Slots : rows[n] \in Finance!Row
  BY DEF Sound, Rows
<1>2. /\ Lands(rows, after, batch, matching, k, landing)
      /\ \A n \in Slots : (n > k /\ n <= k + u)
           <=> \E i \in DOMAIN batch : matching[i] = 0 /\ landing[i] = n
  BY <1>1, ImportLands
<1>3. DOMAIN after = Slots /\ after = [n \in Slots |-> after[n]]
  BY DEF Finance!Reconciled
<1>4. k \in Nat /\ k + u \in Nat /\ k + u <= Cardinality(Slots) /\ k <= k + u
  <2>1. k + u \in 0..Cardinality(Slots) /\ k \in 0..Cardinality(Slots)
    BY LedgerConstants DEF Numbered
  <2>2. u \in Nat
    <3>1. DOMAIN matching = 1..Len(batch) /\ Len(batch) \in Nat
      BY BatchIsTyped DEF Fits
    <3>2. Finance!Unmatched(matching) \in SUBSET (1..Len(batch))
      BY <3>1 DEF Finance!Unmatched
    <3>3. IsFiniteSet(1..Len(batch))
      BY <3>1, FS_Interval
    <3>4. IsFiniteSet(Finance!Unmatched(matching))
      BY <3>2, <3>3, FS_Subset
    <3>5. QED
      BY <3>4, FS_CardinalityType
  <2> HIDE DEF u
  <2>3. QED
    BY <2>1, <2>2, LedgerConstants
<1> HIDE DEF after, landing, u
<1>5. \A i \in DOMAIN batch : batch[i] \in Finance!BankRow
  BY BatchIsTyped
<1>6. \A n \in Slots : n <= k <=> rows[n].status # "none"
  <2>1. \A n \in Slots : n \in 1..k <=> n <= k
    BY <1>4, LedgerConstants
  <2>2. QED
    BY <2>1 DEF Numbered
<1>7. ASSUME NEW n \in Slots, n <= k
      PROVE  /\ after[n] \in Finance!Row
             /\ after[n].status = rows[n].status /\ after[n].account = rows[n].account
             /\ after[n].amount = rows[n].amount /\ after[n].parent = rows[n].parent
             /\ after[n].partner = rows[n].partner
  <2>1. CASE \A i \in DOMAIN batch : landing[i] # n
    BY <1>1, <1>2, <2>1 DEF Lands
  <2>2. ASSUME NEW i \in DOMAIN batch, landing[i] = n
        PROVE  after[n] = Finance!Merged(rows[n], batch[i])
    <3>1. matching[i] # 0
      BY <1>2, <1>4, <1>7, <2>2, LedgerConstants DEF Lands
    <3>2. QED
      BY <1>2, <2>2, <3>1 DEF Lands
  <2>3. CASE \E i \in DOMAIN batch : landing[i] = n
    BY <1>1, <1>5, <2>2, <2>3, MergedRow
  <2>4. QED
    BY <2>1, <2>3
<1>8. ASSUME NEW n \in Slots, n > k, n <= k + u
      PROVE  /\ after[n] \in Finance!Row
             /\ after[n].status = "live" /\ after[n].parent = 0 /\ after[n].partner = 0
  <2>1. PICK i \in DOMAIN batch : matching[i] = 0 /\ landing[i] = n
    BY <1>2, <1>8
  <2>2. after[n] = Added(batch[i])
    BY <1>2, <2>1 DEF Lands
  <2>3. QED
    BY <1>5, <2>2, AddedIsRow
<1>9. ASSUME NEW n \in Slots, n > k + u
       PROVE  after[n] = rows[n] /\ rows[n].status = "none"
  <2>1. \A i \in DOMAIN batch : landing[i] # n
    <3> SUFFICES ASSUME NEW i \in DOMAIN batch, landing[i] = n
                 PROVE  FALSE
      OBVIOUS
    <3>1. n \in Int /\ n > k /\ ~(n <= k)
      BY <1>4, <1>9, LedgerConstants
    <3>2. matching[i] # 0
      <4>1. ~(n <= k + u)
        BY <1>4, <1>9, LedgerConstants
      <4>2. QED
        BY <1>2, <4>1
    <3>3. matching[i] = n /\ rows[matching[i]].status = "live"
      BY <1>1, <1>2, <3>2, MatchesAreThere DEF Lands
    <3>4. QED
      BY <1>6, <3>1, <3>3
  <2>2. QED
    BY <1>2, <1>4, <1>6, <1>9, <2>1, LedgerConstants DEF Lands
<1>10. after \in Rows
  <2>1. \A n \in Slots : n <= k \/ (n > k /\ n <= k + u) \/ n > k + u
    BY <1>4, LedgerConstants
  <2>2. \A n \in Slots : after[n] \in Finance!Row
    BY <1>1, <1>7, <1>8, <1>9, <2>1
  <2>3. QED
    BY <1>3, <2>2 DEF Rows
<1>11. \A n \in Slots : after[n].status # "none" <=> n <= k + u
  <2> SUFFICES ASSUME NEW n \in Slots
               PROVE  after[n].status # "none" <=> n <= k + u
    OBVIOUS
  <2>1. n \in Nat
    BY LedgerConstants
  <2>2. CASE n <= k
    BY <1>4, <1>6, <1>7, <2>1, <2>2
  <2>3. CASE n > k /\ n <= k + u
    BY <1>8, <2>3
  <2>4. CASE n > k + u
    BY <1>4, <1>9, <2>1, <2>4
  <2>5. QED
    BY <1>4, <2>1, <2>2, <2>3, <2>4
<1>12. Numbered(after, k + u)
  <2>1. \A n \in Slots : n \in 1..(k + u) <=> n <= k + u
    BY <1>4, LedgerConstants
  <2>2. 1..(k + u) \subseteq Slots /\ k + u \in 0..Cardinality(Slots)
    BY <1>4, LedgerConstants
  <2>3. QED
    BY <1>11, <2>1, <2>2 DEF Numbered
<1>13. Grouped(after)
  <2> SUFFICES ASSUME NEW n \in Slots, after[n].status # "none"
               PROVE  SplitAt(after, n) /\ TransferAt(after, n)
    BY DEF Grouped
  <2>1. CASE n > k
    <3>1. after[n].parent = 0 /\ after[n].partner = 0
      BY <1>8, <1>11, <2>1
    <3>2. QED
      BY <3>1 DEF SplitAt, TransferAt
  <2>2. CASE n <= k
    <3>1. SplitAt(rows, n) /\ TransferAt(rows, n) /\ rows[n].status # "none"
      BY <1>6, <2>2 DEF Sound, Grouped
    <3>2. \A m \in Slots : rows[m].status = rows[n].status => m <= k
      BY <1>6, <3>1
    <3>3. \A m \in Slots : rows[m].status = rows[n].status =>
            /\ after[m].status = rows[m].status /\ after[m].account = rows[m].account
            /\ after[m].amount = rows[m].amount /\ after[m].parent = rows[m].parent
            /\ after[m].partner = rows[m].partner
      BY <1>7, <3>2
    <3> HIDE DEF after
    <3>4. QED
      BY <3>1, <3>3, GroupStands
  <2>3. QED
    BY <1>4, <2>1, <2>2, LedgerConstants
<1>14. QED
  BY <1>10, <1>12, <1>13 DEF Sound, after

--------------------------------------------------------------------------------
(* What the bank has booked, and what it says.                              *)
Booked(bankRows) == {i \in DOMAIN bankRows : bankRows[i].id # 0}

(* The bank gives every transaction it books another id.                    *)
BankInv ==
  /\ statement \in Seq(Finance!BankRow) /\ Len(statement) <= MaxPosts
  /\ \A i \in DOMAIN statement : statement[i].id <= Cardinality(Booked(statement))
  /\ IdsDiffer(statement)

(* A batch says what the bank says, without the ids it had not given then.  *)
Says(batch) ==
  /\ batch \in Seq(Finance!BankRow) /\ Len(batch) <= Len(statement)
  /\ \A i \in DOMAIN batch :
       /\ batch[i].amount = statement[i].amount
       /\ batch[i].id # 0 => batch[i].id = statement[i].id

(* A request holds one batch or none.                                       *)
FetchedInv ==
  /\ DOMAIN fetched = Syncs
  /\ \A s \in Syncs : fetched[s] = {} \/ \E batch : fetched[s] = {batch} /\ Says(batch)

(* An id in the ledger is the bank's, of a transaction of that amount.      *)
IdsAreTheBanks(rows) ==
  \A n \in Slots : rows[n].status = "live" /\ rows[n].id # 0 =>
    /\ rows[n].account = "checking"
    /\ \E i \in DOMAIN statement :
         statement[i].id = rows[n].id /\ statement[i].amount = rows[n].amount

(* The invariant of the ledger, its requests and the bank.                  *)
LedgerInv ==
  /\ Sound(ledger)
  /\ BankInv
  /\ FetchedInv
  /\ IdsAreTheBanks(ledger) /\ Finance!IdsAreUnique(ledger)
  /\ refused = FALSE

(* Rows without an id that was not there before.                            *)
LEMMA NoNewIds ==
  ASSUME IdsAreTheBanks(ledger), Finance!IdsAreUnique(ledger), NEW after,
         \A n \in Slots : after[n].status = "live" /\ after[n].id # 0 =>
           /\ ledger[n].status = "live" /\ ledger[n].id = after[n].id
           /\ ledger[n].account = after[n].account /\ ledger[n].amount = after[n].amount
  PROVE  IdsAreTheBanks(after) /\ Finance!IdsAreUnique(after)
BY DEF IdsAreTheBanks, Finance!IdsAreUnique, Finance!NoId

(* What a batch holds is of the amount of the row it is taken for.          *)
LEMMA MatchedAmounts ==
  ASSUME BankInv, NEW batch, Says(batch), IdsAreTheBanks(ledger), NEW matching,
         Fits(ledger, batch, matching), NEW i \in DOMAIN batch, matching[i] # 0
  PROVE  ledger[matching[i]].amount = batch[i].amount
<1>1. matching[i] \in Candidates(ledger, batch[i])
  BY DEF Fits
<1>2. CASE matching[i] \in Finance!Similar(ledger, batch[i])
  BY <1>2 DEF Finance!Similar
<1>3. CASE matching[i] \in Finance!Exact(ledger, batch[i])
  <2>1. /\ matching[i] \in Slots /\ ledger[matching[i]].status = "live"
        /\ batch[i].id # 0 /\ ledger[matching[i]].id = batch[i].id
    BY <1>3 DEF Finance!Exact, Finance!NoId
  <2>2. PICK j \in DOMAIN statement :
          statement[j].id = batch[i].id /\ statement[j].amount = ledger[matching[i]].amount
    BY <2>1 DEF IdsAreTheBanks
  <2>3. i \in DOMAIN statement /\ statement[i].id = batch[i].id
        /\ statement[i].amount = batch[i].amount
    <3>1. DOMAIN batch = 1..Len(batch) /\ Len(batch) \in Nat /\ DOMAIN statement = 1..Len(statement)
          /\ Len(statement) \in Nat /\ Len(batch) <= Len(statement)
      BY BatchIsTyped DEF Says, BankInv
    <3>2. i \in DOMAIN statement
      BY <3>1
    <3>3. QED
      BY <2>1, <3>2 DEF Says
  <2>4. i = j
    BY <2>1, <2>2, <2>3 DEF BankInv, IdsDiffer
  <2>5. QED
    BY <2>2, <2>3, <2>4
<1>4. QED
  BY <1>1, <1>2, <1>3 DEF Candidates

--------------------------------------------------------------------------------
(* An id on a row of the ledger after an import was there before or is that *)
(* of the row of the batch that landed there.                               *)
LEMMA IdsComeFrom ==
  ASSUME NEW rows \in Rows, NEW k, NEW batch \in Seq(Finance!BankRow), NEW matching,
         Fits(rows, batch, matching), NEW after, NEW landing,
         Lands(rows, after, batch, matching, k, landing), NEW n \in Slots
  PROVE  \/ /\ after[n].status = rows[n].status /\ after[n].account = rows[n].account
            /\ after[n].amount = rows[n].amount /\ after[n].id = rows[n].id
         \/ \E i \in DOMAIN batch :
              /\ landing[i] = n /\ after[n].id = batch[i].id
              /\ after[n].status = "live" /\ after[n].account = "checking"
              /\ after[n].amount = IF matching[i] = 0 THEN batch[i].amount ELSE rows[n].amount
<1>1. CASE \A i \in DOMAIN batch : landing[i] # n
  BY <1>1 DEF Lands
<1>2. ASSUME NEW i \in DOMAIN batch, landing[i] = n, matching[i] = 0
      PROVE  /\ after[n].id = batch[i].id
             /\ after[n].status = "live" /\ after[n].account = "checking"
             /\ after[n].amount = batch[i].amount
  BY <1>2, AddedIsRow, BatchIsTyped DEF Lands
<1>3. ASSUME NEW i \in DOMAIN batch, landing[i] = n, matching[i] # 0
      PROVE  /\ after[n].status = rows[n].status /\ after[n].account = rows[n].account
             /\ after[n].amount = rows[n].amount
             /\ rows[n].status = "live" /\ rows[n].account = "checking"
             /\ after[n].id = rows[n].id \/ after[n].id = batch[i].id
  <2>1. rows[n] \in Finance!Row /\ batch[i] \in Finance!BankRow
    BY BatchIsTyped DEF Rows
  <2>2. matching[i] = n /\ after[n] = Finance!Merged(rows[n], batch[i])
    BY <1>3 DEF Lands
  <2>3. rows[n].status = "live" /\ rows[n].account = "checking"
    BY <1>3, <2>2, MatchesAreThere
  <2>4. QED
    BY <2>1, <2>2, <2>3, MergedRow
<1>4. CASE \E i \in DOMAIN batch : landing[i] = n
  <2>1. PICK i \in DOMAIN batch : landing[i] = n
    BY <1>4
  <2>2. CASE matching[i] = 0
    BY <1>2, <2>1, <2>2
  <2>3. CASE matching[i] # 0
    BY <1>3, <2>1, <2>3
  <2>4. QED
    BY <2>2, <2>3
<1>5. QED
  BY <1>1, <1>4

(* Batch ids are those of the statement, and differ.                        *)
LEMMA BatchIdsDiffer ==
  ASSUME BankInv, NEW batch, Says(batch)
  PROVE  /\ IdsDiffer(batch)
         /\ \A i \in DOMAIN batch : i \in DOMAIN statement
<1>1. /\ DOMAIN batch = 1..Len(batch) /\ Len(batch) \in Nat
      /\ DOMAIN statement = 1..Len(statement) /\ Len(statement) \in Nat
      /\ Len(batch) <= Len(statement)
  BY BatchIsTyped DEF Says, BankInv
<1>2. \A i \in DOMAIN batch : i \in DOMAIN statement
  BY <1>1
<1>3. QED
  BY <1>2 DEF Says, BankInv, IdsDiffer

(* An import is never refused: the ids stay the bank's, and unique.         *)
LEMMA IdsStayUnique ==
  ASSUME Sound(ledger), BankInv, IdsAreTheBanks(ledger), Finance!IdsAreUnique(ledger),
         NEW batch, Says(batch), NEW matching, Fits(ledger, batch, matching),
         \A i \in DOMAIN batch : Finance!Exact(ledger, batch[i]) # {}
                                   => matching[i] \in Finance!Exact(ledger, batch[i]),
         NEW k, NEW landing, NEW after, Lands(ledger, after, batch, matching, k, landing)
  PROVE  IdsAreTheBanks(after) /\ Finance!IdsAreUnique(after)
<1>1. ledger \in Rows /\ batch \in Seq(Finance!BankRow)
  BY DEF Sound, Says
<1> DEFINE Stayed(n) == /\ after[n].status = ledger[n].status
                      /\ after[n].account = ledger[n].account
                      /\ after[n].amount = ledger[n].amount /\ after[n].id = ledger[n].id
           Got(n, i) == /\ landing[i] = n /\ after[n].id = batch[i].id
                        /\ after[n].status = "live" /\ after[n].account = "checking"
                        /\ after[n].amount = batch[i].amount
<1>2. ASSUME NEW n \in Slots
      PROVE  Stayed(n) \/ \E i \in DOMAIN batch : Got(n, i)
  <2>1. \/ Stayed(n)
        \/ \E i \in DOMAIN batch :
             /\ landing[i] = n /\ after[n].id = batch[i].id
             /\ after[n].status = "live" /\ after[n].account = "checking"
             /\ after[n].amount = IF matching[i] = 0 THEN batch[i].amount ELSE ledger[n].amount
    BY <1>1, IdsComeFrom
  <2>2. \A i \in DOMAIN batch : landing[i] = n /\ matching[i] # 0 =>
          ledger[n].amount = batch[i].amount
    BY MatchedAmounts DEF Lands
  <2>3. QED
    BY <2>1, <2>2
<1>3. ASSUME NEW n \in Slots, after[n].status = "live", after[n].id # 0, Stayed(n)
      PROVE  /\ after[n].account = "checking" /\ ledger[n].status = "live"
             /\ ledger[n].id = after[n].id /\ ledger[n].account = "checking"
             /\ \E i \in DOMAIN statement :
                  statement[i].id = after[n].id /\ statement[i].amount = after[n].amount
  BY <1>3 DEF IdsAreTheBanks
<1>4. IdsAreTheBanks(after)
  <2> SUFFICES ASSUME NEW n \in Slots, after[n].status = "live", after[n].id # 0
               PROVE  /\ after[n].account = "checking"
                      /\ \E i \in DOMAIN statement :
                           statement[i].id = after[n].id /\ statement[i].amount = after[n].amount
    BY DEF IdsAreTheBanks
  <2>1. CASE Stayed(n)
    BY <1>3, <2>1
  <2>2. ASSUME NEW i \in DOMAIN batch, Got(n, i)
        PROVE  /\ after[n].account = "checking" /\ i \in DOMAIN statement
               /\ statement[i].id = after[n].id /\ statement[i].amount = after[n].amount
    BY <2>2, BatchIdsDiffer DEF Says
  <2>3. QED
    BY <1>2, <2>1, <2>2
<1>5. ASSUME NEW n \in Slots, NEW m \in Slots, NEW i \in DOMAIN batch,
             n # m, after[m].status = "live", after[m].id # 0,
             after[m].id = after[n].id, Got(n, i), Stayed(m)
      PROVE  FALSE
  <2>1. /\ ledger[m].status = "live" /\ ledger[m].account = "checking"
        /\ ledger[m].id = batch[i].id /\ batch[i].id # 0
    BY <1>3, <1>5
  <2>2. m \in Finance!Exact(ledger, batch[i])
    BY <2>1 DEF Finance!Exact, Finance!NoId
  <2>3. matching[i] \in Finance!Exact(ledger, batch[i])
    BY <2>2
  <2>4. matching[i] = m
    BY <2>1, <2>2, <2>3 DEF Finance!Exact, Finance!IdsAreUnique, Finance!NoId
  <2>5. landing[i] = m
    BY <2>4, LedgerConstants DEF Lands
  <2>6. QED
    BY <1>5, <2>5
<1>6. Finance!IdsAreUnique(after)
  <2> SUFFICES ASSUME NEW n \in Slots, NEW m \in Slots, n # m,
                      after[n].status = "live", after[m].status = "live",
                      after[n].account = after[m].account,
                      after[n].id # 0, after[n].id = after[m].id
               PROVE  FALSE
    BY DEF Finance!IdsAreUnique, Finance!NoId
  <2>1. CASE Stayed(n) /\ Stayed(m)
    <3>1. /\ ledger[n].status = "live" /\ ledger[m].status = "live"
          /\ ledger[n].account = ledger[m].account
          /\ ledger[n].id # 0 /\ ledger[n].id = ledger[m].id
      BY <2>1
    <3>2. \A x, y \in Slots : x # y /\ ledger[x].status = "live" /\ ledger[y].status = "live"
            /\ ledger[x].account = ledger[y].account
            => ledger[x].id = 0 \/ ledger[x].id # ledger[y].id
      BY DEF Finance!IdsAreUnique, Finance!NoId
    <3>3. QED
      BY <3>1, <3>2, Zenon
  <2>2. ASSUME NEW i \in DOMAIN batch, Got(n, i), Stayed(m)
        PROVE  FALSE
    BY <1>5, <2>2
  <2>3. ASSUME NEW i \in DOMAIN batch, Got(m, i), Stayed(n)
        PROVE  FALSE
    BY <1>5, <2>3
  <2>4. ASSUME NEW i \in DOMAIN batch, NEW j \in DOMAIN batch, Got(n, i), Got(m, j)
        PROVE  FALSE
    <3>1. batch[i].id = batch[j].id /\ batch[i].id # 0
      BY <2>4
    <3>2. i = j
      BY <3>1, BatchIdsDiffer DEF IdsDiffer
    <3>3. QED
      BY <2>4, <3>2
  <2>5. QED
    BY <1>2, <2>1, <2>2, <2>3, <2>4
<1>7. QED
  BY <1>4, <1>6

(* After an import every row of the batch is on a row of its own that it is *)
(* the amount of.                                                           *)
LEMMA ImportAccountsForAll ==
  ASSUME Sound(ledger), BankInv, IdsAreTheBanks(ledger), NEW batch, Says(batch),
         NEW matching, Fits(ledger, batch, matching),
         NEW k, NEW landing, NEW after, Lands(ledger, after, batch, matching, k, landing)
  PROVE  \A i \in DOMAIN batch :
           /\ landing[i] \in Slots
           /\ after[landing[i]].status = "live" /\ after[landing[i]].account = "checking"
           /\ after[landing[i]].amount = batch[i].amount
<1>1. /\ ledger \in Rows /\ batch \in Seq(Finance!BankRow)
      /\ \A i \in DOMAIN batch : batch[i] \in Finance!BankRow
  BY BatchIsTyped DEF Sound, Says
<1> SUFFICES ASSUME NEW i \in DOMAIN batch
             PROVE  /\ landing[i] \in Slots
                    /\ after[landing[i]].status = "live"
                    /\ after[landing[i]].account = "checking"
                    /\ after[landing[i]].amount = batch[i].amount
  OBVIOUS
<1>2. landing[i] \in Slots
  BY DEF Lands
<1>3. CASE matching[i] = 0
  BY <1>1, <1>2, <1>3, AddedIsRow DEF Lands
<1>4. CASE matching[i] # 0
  <2>1. landing[i] = matching[i] /\ after[landing[i]] = Finance!Merged(ledger[landing[i]], batch[i])
    BY <1>4 DEF Lands
  <2>2. /\ ledger[landing[i]] \in Finance!Row
        /\ ledger[landing[i]].status = "live" /\ ledger[landing[i]].account = "checking"
        /\ ledger[landing[i]].amount = batch[i].amount
    BY <1>1, <1>2, <1>4, <2>1, MatchesAreThere, MatchedAmounts DEF Rows
  <2>3. QED
    BY <1>1, <1>2, <2>1, <2>2, MergedRow
<1>5. QED
  BY <1>2, <1>3, <1>4

(* Of each amount there are as many rows as in any part of the batch.       *)
LEMMA AsManyAsTheBatch ==
  ASSUME NEW batch, NEW landing, NEW after, NEW amount,
         NEW from \in SUBSET {i \in DOMAIN batch : batch[i].amount = amount},
         \A i, j \in DOMAIN batch : landing[i] = landing[j] => i = j,
         \A i \in DOMAIN batch :
           /\ landing[i] \in Slots
           /\ after[landing[i]].status = "live" /\ after[landing[i]].account = "checking"
           /\ after[landing[i]].amount = batch[i].amount
  PROVE  Finance!Cardinality(Finance!Amounting(after, amount)) >= Finance!Cardinality(from)
<1> DEFINE to == Finance!Amounting(after, amount)
           where == [i \in from |-> landing[i]]
<1>1. IsFiniteSet(to)
  <2>1. to \in SUBSET Slots
    BY DEF Finance!Amounting
  <2> HIDE DEF to
  <2>2. QED
    BY <2>1, LedgerConstants, FS_Subset
<1>2. \A i \in from : landing[i] \in to
  BY DEF Finance!Amounting
<1> HIDE DEF to
<1>3. where \in Injection(from, to)
  <2>1. where \in [from -> to]
    BY <1>2
  <2>2. \A i, j \in from : where[i] = where[j] => i = j
    OBVIOUS
  <2> HIDE DEF where
  <2>3. QED
    BY <2>1, <2>2 DEF Injection, IsInjective
<1> HIDE DEF where
<1>4. Cardinality(from) <= Cardinality(to) /\ IsFiniteSet(from)
  BY <1>1, <1>3, FS_Injection
<1>5. Cardinality(from) \in Nat /\ Cardinality(to) \in Nat
  BY <1>1, <1>4, FS_CardinalityType
<1>6. Finance!Cardinality(from) = Cardinality(from) /\ Finance!Cardinality(to) = Cardinality(to)
  BY SameCardinality
<1>7. Finance!Cardinality(to) >= Finance!Cardinality(from)
  BY <1>4, <1>5, <1>6
<1>8. QED
  BY <1>7 DEF to

(* Where the bank gives ids, and what is reconciled had one, the rows of    *)
(* the batch are all there by their ids: the batch again adds nothing.      *)
LEMMA AgainAddsNothing ==
  ASSUME Sound(ledger), BankInv, IdsAreTheBanks(ledger), NEW batch, Says(batch),
         NEW matching, Fits(ledger, batch, matching),
         NEW k, NEW landing, NEW after, Lands(ledger, after, batch, matching, k, landing),
         Sound(after), Finance!HasAllIds(batch),
         \A n \in Finance!Live : ledger[n].reconciled => ledger[n].id # 0
  PROVE  Finance!AddsNothing(after, batch)
<1>1. /\ ledger \in Rows /\ after \in Rows /\ batch \in Seq(Finance!BankRow)
      /\ \A i \in DOMAIN batch : batch[i] \in Finance!BankRow /\ batch[i].id # 0
  BY BatchIsTyped DEF Sound, Says, Finance!HasAllIds, Finance!NoId
<1>2. ASSUME NEW i \in DOMAIN batch
      PROVE  landing[i] \in Finance!Exact(after, batch[i])
  <2>1. /\ landing[i] \in Slots
        /\ after[landing[i]].status = "live" /\ after[landing[i]].account = "checking"
    BY ImportAccountsForAll
  <2>2. CASE matching[i] = 0
    BY <1>1, <2>1, <2>2, AddedIsRow DEF Lands, Finance!Exact, Finance!NoId
  <2>3. CASE matching[i] # 0
    <3> DEFINE row == ledger[landing[i]]
    <3>1. landing[i] = matching[i] /\ after[landing[i]] = Finance!Merged(row, batch[i])
      BY <2>3 DEF Lands
    <3>2. row \in Finance!Row /\ row.status = "live"
      BY <1>1, <2>1, <2>3, <3>1, MatchesAreThere DEF Rows
    <3>3. after[landing[i]].id = IF row.reconciled THEN row.id ELSE batch[i].id
      <4>1. batch[i] \in Finance!BankRow /\ batch[i].id # 0
        BY <1>1
      <4>2. row \in Finance!Row
        BY <3>2
      <4> HIDE DEF row
      <4>3. Finance!Merged(row, batch[i]).id
              = IF row.reconciled \/ batch[i].id = 0 THEN row.id ELSE batch[i].id
        BY <4>1, <4>2, MergedRow, Zenon
      <4>4. QED
        BY <3>1, <4>1, <4>3, Zenon
    <3>4. row.reconciled => row.id # 0
      BY <2>1, <3>2 DEF Finance!Live, Finance!Is
    <3>5. matching[i] \in Candidates(ledger, batch[i])
      BY <2>3 DEF Fits
    <3>6. row.id = 0 \/ row.id = batch[i].id
      BY <1>1, <3>1, <3>5 DEF Candidates, Finance!Exact, Finance!Similar, Finance!NoId
    <3>7. after[landing[i]].id = batch[i].id
      BY <3>3, <3>4, <3>6
    <3>8. QED
      BY <1>1, <2>1, <3>7 DEF Finance!Exact, Finance!NoId
  <2>4. QED
    BY <2>2, <2>3
<1>3. ASSUME NEW heap \in Finance!Heaps
      PROVE  Finance!Unmatched(Finance!Matching(after, heap, batch)) = {}
  <2> DEFINE again == Finance!Matching(after, heap, batch)
  <2>1. /\ Fits(after, batch, again)
        /\ \A i \in DOMAIN batch : Finance!Exact(after, batch[i]) # {}
                                     => again[i] \in Finance!Exact(after, batch[i])
    BY <1>1, BatchIdsDiffer, MatchingFits
  <2>2. \A i \in DOMAIN batch : again[i] # 0
    BY <1>2, <2>1, LedgerConstants DEF Finance!Exact
  <2>3. DOMAIN again = DOMAIN batch
    BY <2>1 DEF Fits
  <2> HIDE DEF again
  <2>4. Finance!Unmatched(again) = {}
    BY <2>2, <2>3 DEF Finance!Unmatched
  <2>5. QED
    BY <2>4 DEF again
<1>4. QED
  BY <1>3 DEF Finance!AddsNothing

--------------------------------------------------------------------------------
(* What is entered has no id.                                               *)
LEMMA EntriesHaveNoId ==
  ASSUME NEW account, NEW amount, NEW date, NEW payee
  PROVE  LET entry == Finance!Entry(account, amount, date, payee)
         IN /\ entry.id = 0
            /\ \A v : LET child == [entry EXCEPT !.parent = v] IN child.id = 0
            /\ \A v : LET side == [entry EXCEPT !.partner = v] IN side.id = 0
BY DEF Finance!Entry, Finance!Blank, Finance!NoId

(* What the user does leaves the ids alone: a row that is entered has none. *)
LEMMA UserKeepsIds ==
  ASSUME LedgerInv, UNCHANGED statement,
         \/ \E account, amount, date, payee : Finance!EnterPlain(account, amount, date, payee)
         \/ \E account, a, b, date, payee : Finance!EnterSplit(account, a, b, date, payee)
         \/ \E account, target, amount, date :
              Finance!EnterTransfer(account, target, amount, date)
         \/ \E n \in Slots : \E flag : Finance!SetReconciled(n, flag)
         \/ \E n \in Slots : Finance!Delete(n)
  PROVE  (IdsAreTheBanks(ledger))' /\ Finance!IdsAreUnique(ledger')
<1> DEFINE Same == \A n \in Slots : ledger'[n].status = "live" /\ ledger'[n].id # 0 =>
                     /\ ledger[n].status = "live" /\ ledger[n].id = ledger'[n].id
                     /\ ledger[n].account = ledger'[n].account
                     /\ ledger[n].amount = ledger'[n].amount
<1>1. DOMAIN ledger = Slots /\ \A n \in Slots : ledger[n] \in Finance!Row
  BY DEF LedgerInv, Sound, Rows
<1>2. ASSUME NEW account, NEW amount, NEW date, NEW payee,
             Finance!EnterPlain(account, amount, date, payee)
      PROVE  Same
  <2> DEFINE row == Finance!Entry(account, amount, date, payee)
  <2>1. row.id = 0
    BY EntriesHaveNoId
  <2>2. ledger' = [ledger EXCEPT ![Finance!Fresh] = row]
    BY <1>2 DEF Finance!EnterPlain
  <2> HIDE DEF row
  <2>3. QED
    BY <1>1, <2>1, <2>2
<1>3. ASSUME NEW account, NEW a, NEW b, NEW date, NEW payee,
             Finance!EnterSplit(account, a, b, date, payee)
      PROVE  Same
  <2> DEFINE f == Finance!Fresh
             row == Finance!Entry(account, a + b, date, payee)
             first == [Finance!Entry(account, a, date, payee) EXCEPT !.parent = f]
             second == [Finance!Entry(account, b, date, payee) EXCEPT !.parent = f]
  <2>1. row.id = 0 /\ first.id = 0 /\ second.id = 0
    BY EntriesHaveNoId
  <2>2. ledger' = [ledger EXCEPT ![f] = row, ![f + 1] = first, ![f + 2] = second]
    BY <1>3 DEF Finance!EnterSplit
  <2> HIDE DEF f, row, first, second
  <2>3. QED
    BY <1>1, <2>1, <2>2
<1>4. ASSUME NEW account, NEW target, NEW amount, NEW date,
             Finance!EnterTransfer(account, target, amount, date)
      PROVE  Same
  <2> DEFINE f == Finance!Fresh
             side == [Finance!Entry(account, amount, date, Finance!Transfer)
                        EXCEPT !.partner = f + 1]
             mirror == [Finance!Entry(target, -amount, date, Finance!Transfer)
                          EXCEPT !.partner = f]
  <2>1. side.id = 0 /\ mirror.id = 0
    BY EntriesHaveNoId
  <2>2. ledger' = [ledger EXCEPT ![f] = side, ![f + 1] = mirror]
    BY <1>4 DEF Finance!EnterTransfer
  <2> HIDE DEF f, side, mirror
  <2>3. QED
    BY <1>1, <2>1, <2>2
<1>5. ASSUME NEW n \in Slots, NEW flag, Finance!SetReconciled(n, flag)
      PROVE  Same
  <2>1. ledger' = [ledger EXCEPT ![n] = [ledger[n] EXCEPT !.reconciled = flag]]
    BY <1>5 DEF Finance!SetReconciled
  <2>2. QED
    BY <1>1, <2>1 DEF Finance!Row
<1>6. ASSUME NEW n \in Slots, Finance!Delete(n)
      PROVE  Same
  <2>1. ledger' = [m \in Slots |->
                     IF m \in Finance!Group(n) THEN [ledger[m] EXCEPT !.status = "deleted"]
                     ELSE ledger[m]]
    BY <1>6 DEF Finance!Delete
  <2>2. \A m \in Slots : [ledger[m] EXCEPT !.status = "deleted"].status = "deleted"
    BY <1>1, RowDeleted
  <2>3. QED
    BY <2>1, <2>2
<1> HIDE DEF Same
<1>7. Same
  BY <1>2, <1>3, <1>4, <1>5, <1>6
<1>8. IdsAreTheBanks(ledger') /\ Finance!IdsAreUnique(ledger')
  BY <1>7, NoNewIds DEF Same, LedgerInv
<1>9. QED
  BY <1>8 DEF IdsAreTheBanks

(* The bank gives a new id to one more transaction.                         *)
LEMMA BankNumbersOn ==
  ASSUME BankInv
  PROVE  /\ Finance!NewId = Cardinality(Booked(statement)) + 1
         /\ IsFiniteSet(Booked(statement)) /\ Cardinality(Booked(statement)) \in Nat
         /\ DOMAIN statement = 1..Len(statement) /\ Len(statement) \in Nat
         /\ \A i \in DOMAIN statement : statement[i] \in Finance!BankRow
<1>1. /\ DOMAIN statement = 1..Len(statement) /\ Len(statement) \in Nat
      /\ \A i \in DOMAIN statement : statement[i] \in Finance!BankRow
  BY BatchIsTyped DEF BankInv
<1>2. Booked(statement) \in SUBSET (1..Len(statement))
  BY <1>1 DEF Booked
<1>3. IsFiniteSet(1..Len(statement))
  BY <1>1, FS_Interval
<1>4. IsFiniteSet(Booked(statement))
  BY <1>2, <1>3, FS_Subset
<1>5. Finance!NewId = Finance!Cardinality(Booked(statement)) + 1
  BY DEF Finance!NewId, Finance!NoId, Booked
<1>6. QED
  BY <1>1, <1>4, <1>5, SameCardinality, FS_CardinalityType

(* What is not touched stays sound.                                         *)
LEMMA LedgerStands ==
  ASSUME LedgerInv, UNCHANGED ledger
  PROVE  Sound(ledger)' /\ Finance!IdsAreUnique(ledger)'
<1>1. Sound(ledger) /\ Finance!IdsAreUnique(ledger)
  BY DEF LedgerInv
<1>2. Sound(ledger)'
  <2>1. (ledger \in Rows)' /\ (\E k : Numbered(ledger, k))'
    BY <1>1 DEF Sound, Numbered
  <2>2. \A n \in Slots : SplitAt(ledger, n) => SplitAt(ledger, n)'
    BY DEF SplitAt
  <2>3. \A n \in Slots : TransferAt(ledger, n) => TransferAt(ledger, n)'
    BY DEF TransferAt
  <2>4. Grouped(ledger)'
    BY <1>1, <2>2, <2>3 DEF Sound, Grouped
  <2>5. QED
    BY <2>1, <2>4 DEF Sound
<1>3. Finance!IdsAreUnique(ledger)'
  BY <1>1 DEF Finance!IdsAreUnique
<1>4. QED
  BY <1>2, <1>3

(* A request that is not touched holds what the bank still says.            *)
LEMMA RequestsStand ==
  ASSUME LedgerInv, UNCHANGED fetched, \A batch : Says(batch) => Says(batch)'
  PROVE  FetchedInv'
<1>1. DOMAIN fetched = Syncs
      /\ \A s \in Syncs : fetched[s] = {} \/ \E batch : fetched[s] = {batch} /\ Says(batch)
  BY DEF LedgerInv, FetchedInv
<1>2. \A s \in Syncs : fetched'[s] = {} \/ \E batch : fetched'[s] = {batch} /\ Says(batch)'
  BY <1>1, Zenon
<1>3. DOMAIN fetched' = Syncs
  BY <1>1
<1>4. QED
  BY <1>2, <1>3 DEF FetchedInv

(* The bank reports one more.                                               *)
LEMMA BankPostsKeeps ==
  ASSUME LedgerInv, NEW bankRow \in Finance!BankRow, Finance!BankPosts(bankRow)
  PROVE  LedgerInv'
<1> DEFINE L == Len(statement)
           b == Cardinality(Booked(statement))
<1>1. /\ L < MaxPosts /\ bankRow.id \in {0, b + 1}
      /\ statement' = Append(statement, bankRow)
      /\ UNCHANGED <<ledger, fetched, refused>>
  BY BankNumbersOn DEF LedgerInv, Finance!BankPosts, Finance!NoId
<1>2. /\ IsFiniteSet(Booked(statement)) /\ b \in Nat /\ L \in Nat
      /\ DOMAIN statement = 1..L
      /\ \A i \in DOMAIN statement : statement[i] \in Finance!BankRow
  BY BankNumbersOn DEF LedgerInv
<1>3. statement \in Seq(Finance!BankRow)
  BY DEF LedgerInv, BankInv
<1>4. /\ statement' \in Seq(Finance!BankRow) /\ Len(statement') = L + 1
      /\ DOMAIN statement' = 1..(L + 1)
      /\ statement'[L + 1] = bankRow
      /\ \A i \in 1..L : statement'[i] = statement[i]
  BY <1>1, <1>3
<1>5. \A i \in 1..(L + 1) : i \in 1..L \/ i = L + 1
  BY <1>2
<1>6. Booked(statement') = IF bankRow.id = 0 THEN Booked(statement)
                           ELSE Booked(statement) \cup {L + 1}
  <2>1. \A i : i \in Booked(statement') <=>
                 i \in Booked(statement) \/ (i = L + 1 /\ bankRow.id # 0)
    BY <1>2, <1>4, <1>5 DEF Booked
  <2>2. QED
    BY <2>1
<1>7. L + 1 \notin Booked(statement)
  BY <1>2 DEF Booked
<1> HIDE DEF b, L
<1>8. Cardinality(Booked(statement')) = IF bankRow.id = 0 THEN b ELSE b + 1
  BY <1>2, <1>6, <1>7, FS_AddElement DEF b
<1>9. \A i \in 1..L : statement[i].id <= b /\ statement[i].id \in Nat
  <2>1. \A i \in DOMAIN statement : statement[i].id \in 0..MaxPosts
    BY <1>2 DEF Finance!BankRow
  <2>2. QED
    BY <1>2, <2>1, LedgerConstants DEF LedgerInv, BankInv, b
<1>10. \A i \in DOMAIN statement' : statement'[i].id <= Cardinality(Booked(statement'))
  BY <1>1, <1>2, <1>4, <1>5, <1>8, <1>9
<1>11. IdsDiffer(statement')
  <2>1. IdsDiffer(statement)
    BY DEF LedgerInv, BankInv
  <2>2. ASSUME NEW i \in 1..L, bankRow.id # 0
        PROVE  statement[i].id # bankRow.id
    BY <1>1, <1>2, <1>9, <2>2
  <2>3. QED
    BY <1>2, <1>4, <1>5, <2>1, <2>2 DEF IdsDiffer
<1>12. BankInv'
  <2>1. Len(statement') <= MaxPosts
    BY <1>1, <1>2, <1>4, LedgerConstants
  <2>2. QED
    BY <1>4, <1>10, <1>11, <2>1 DEF BankInv, IdsDiffer, Booked
<1>13. FetchedInv'
  <2>1. ASSUME NEW batch, Says(batch)
        PROVE  /\ batch \in Seq(Finance!BankRow) /\ Len(batch) <= Len(statement')
               /\ \A i \in DOMAIN batch :
                    /\ batch[i].amount = statement'[i].amount
                    /\ batch[i].id # 0 => batch[i].id = statement'[i].id
    <3>1. /\ DOMAIN batch = 1..Len(batch) /\ Len(batch) \in Nat /\ Len(batch) <= L
      BY <2>1, BatchIsTyped DEF Says, L
    <3>2. \A i \in DOMAIN batch : i \in 1..L
      BY <1>2, <3>1
    <3>3. QED
      BY <1>2, <1>4, <2>1, <3>1, <3>2 DEF Says
  <2>2. \A batch : Says(batch) => Says(batch)'
    BY <2>1, Zenon DEF Says
  <2>3. QED
    BY <1>1, <2>2, RequestsStand
<1>14. (IdsAreTheBanks(ledger))'
  <2>1. \A i \in DOMAIN statement : i \in DOMAIN statement' /\ statement'[i] = statement[i]
    BY <1>2, <1>4
  <2>2. QED
    BY <1>1, <2>1 DEF LedgerInv, IdsAreTheBanks
<1>15. QED
  <2>1. Sound(ledger)' /\ Finance!IdsAreUnique(ledger)'
    BY <1>1, LedgerStands
  <2>2. refused' = FALSE
    BY <1>1 DEF LedgerInv
  <2>3. QED
    BY <1>12, <1>13, <1>14, <2>1, <2>2 DEF LedgerInv

(* The bank books one that was pending.                                     *)
LEMMA BankBooksKeeps ==
  ASSUME LedgerInv, NEW i \in DOMAIN statement, Finance!BankBooks(i)
  PROVE  LedgerInv'
<1> DEFINE L == Len(statement)
           b == Cardinality(Booked(statement))
           row == [statement[i] EXCEPT !.id = b + 1]
<1>1. /\ statement[i].id = 0
      /\ statement' = [statement EXCEPT ![i] = row]
      /\ UNCHANGED <<ledger, fetched, refused>>
  BY BankNumbersOn DEF LedgerInv, Finance!BankBooks, Finance!NoId
<1>2. /\ IsFiniteSet(Booked(statement)) /\ b \in Nat /\ L \in Nat
      /\ DOMAIN statement = 1..L
      /\ \A j \in DOMAIN statement : statement[j] \in Finance!BankRow
  BY BankNumbersOn DEF LedgerInv
<1>3. statement \in Seq(Finance!BankRow) /\ L <= MaxPosts
  BY DEF LedgerInv, BankInv
<1>4. i \notin Booked(statement) /\ Booked(statement) \cup {i} \in SUBSET (1..L)
  BY <1>1, <1>2 DEF Booked
<1>5. b + 1 \in 0..MaxPosts
  <2> HIDE DEF L
  <2>1. IsFiniteSet(1..L) /\ Cardinality(1..L) = L
    BY <1>2, FS_Interval
  <2>2. Cardinality(Booked(statement) \cup {i}) <= L
    BY <1>2, <1>4, <2>1, FS_Subset
  <2>3. Cardinality(Booked(statement) \cup {i}) = b + 1
    BY <1>2, <1>4, FS_AddElement
  <2> HIDE DEF b
  <2>4. QED
    BY <1>2, <1>3, <2>2, <2>3, LedgerConstants
<1>6. row \in Finance!BankRow /\ row.id = b + 1 /\ row.amount = statement[i].amount
  <2> HIDE DEF b
  <2>1. statement[i] \in Finance!BankRow
    BY <1>2
  <2>2. QED
    BY <1>5, <2>1 DEF Finance!BankRow
<1> HIDE DEF row
<1>7. /\ statement' \in Seq(Finance!BankRow) /\ Len(statement') = L /\ DOMAIN statement' = 1..L
      /\ statement'[i] = row
      /\ \A j \in 1..L : j # i => statement'[j] = statement[j]
  <2>1. statement' \in [1..L -> Finance!BankRow]
    BY <1>1, <1>2, <1>6
  <2>2. statement' \in Seq(Finance!BankRow) /\ Len(statement') = L /\ DOMAIN statement' = 1..L
    BY <1>2, <2>1
  <2>3. QED
    BY <1>1, <1>2, <2>2
<1>8. Booked(statement') = Booked(statement) \cup {i}
  <2> HIDE DEF b
  <2>1. \A j : j \in Booked(statement') <=> j \in Booked(statement) \/ j = i
    BY <1>2, <1>6, <1>7 DEF Booked
  <2>2. QED
    BY <2>1
<1>9. Cardinality(Booked(statement')) = b + 1
  BY <1>2, <1>4, <1>8, FS_AddElement
<1> HIDE DEF b, L
<1>10. \A j \in 1..L : statement[j].id <= b /\ statement[j].id \in Nat
  <2>1. \A j \in DOMAIN statement : statement[j].id \in 0..MaxPosts
    BY <1>2 DEF Finance!BankRow
  <2>2. QED
    BY <1>2, <2>1, LedgerConstants DEF LedgerInv, BankInv, b
<1>11. \A j \in DOMAIN statement' : statement'[j].id <= Cardinality(Booked(statement'))
  BY <1>2, <1>6, <1>7, <1>9, <1>10
<1>12. IdsDiffer(statement')
  <2>1. IdsDiffer(statement)
    BY DEF LedgerInv, BankInv
  <2>2. \A j \in 1..L : statement[j].id # b + 1
    BY <1>2, <1>10
  <2>3. QED
    BY <1>2, <1>6, <1>7, <2>1, <2>2 DEF IdsDiffer
<1>13. BankInv'
  BY <1>3, <1>7, <1>11, <1>12 DEF BankInv, IdsDiffer, Booked
<1>14. \A j \in 1..L : statement'[j].amount = statement[j].amount
                       /\ (statement[j].id # 0 => statement'[j].id = statement[j].id)
  BY <1>1, <1>6, <1>7
<1>15. FetchedInv'
  <2>1. ASSUME NEW batch, Says(batch)
        PROVE  /\ batch \in Seq(Finance!BankRow) /\ Len(batch) <= Len(statement')
               /\ \A j \in DOMAIN batch :
                    /\ batch[j].amount = statement'[j].amount
                    /\ batch[j].id # 0 => batch[j].id = statement'[j].id
    <3>1. DOMAIN batch = 1..Len(batch) /\ Len(batch) \in Nat /\ Len(batch) <= L
      BY <2>1, BatchIsTyped DEF Says, L
    <3>2. \A j \in DOMAIN batch : j \in 1..L
      BY <1>2, <3>1
    <3>3. QED
      BY <1>7, <1>14, <2>1, <3>1, <3>2 DEF Says
  <2>2. \A batch : Says(batch) => Says(batch)'
    BY <2>1, Zenon DEF Says
  <2>3. QED
    BY <1>1, <2>2, RequestsStand
<1>16. (IdsAreTheBanks(ledger))'
  <2>1. \A j \in DOMAIN statement : j \in DOMAIN statement' /\
          (statement[j].id # 0 => statement'[j].id = statement[j].id
                                  /\ statement'[j].amount = statement[j].amount)
    BY <1>2, <1>7, <1>14
  <2>2. QED
    BY <1>1, <2>1 DEF LedgerInv, IdsAreTheBanks
<1>17. QED
  <2>1. Sound(ledger)' /\ Finance!IdsAreUnique(ledger)'
    BY <1>1, LedgerStands
  <2>2. refused' = FALSE
    BY <1>1 DEF LedgerInv
  <2>3. QED
    BY <1>13, <1>15, <1>16, <2>1, <2>2 DEF LedgerInv

--------------------------------------------------------------------------------
(* A request reads what the bank says.                                      *)
LEMMA FetchKeeps ==
  ASSUME LedgerInv, NEW s \in Syncs, NEW withIds \in BOOLEAN, Finance!Fetch(s, withIds)
  PROVE  LedgerInv'
<1> DEFINE said(i) == IF withIds THEN statement[i] ELSE [statement[i] EXCEPT !.id = 0]
           batch == [i \in DOMAIN statement |-> said(i)]
<1>1. fetched' = [fetched EXCEPT ![s] = {batch}] /\ UNCHANGED <<ledger, statement, refused>>
  BY DEF Finance!Fetch, Finance!NoId
<1>2. /\ DOMAIN statement = 1..Len(statement) /\ Len(statement) \in Nat
      /\ \A i \in DOMAIN statement : statement[i] \in Finance!BankRow
  BY BankNumbersOn DEF LedgerInv
<1>3. \A i \in DOMAIN statement :
        /\ said(i) \in Finance!BankRow /\ said(i).amount = statement[i].amount
        /\ said(i).id # 0 => said(i).id = statement[i].id
  <2> SUFFICES ASSUME NEW i \in DOMAIN statement
               PROVE  /\ said(i) \in Finance!BankRow /\ said(i).amount = statement[i].amount
                      /\ said(i).id # 0 => said(i).id = statement[i].id
    OBVIOUS
  <2>1. statement[i] \in Finance!BankRow /\ 0 \in 0..MaxPosts
    BY <1>2, LedgerConstants
  <2>2. LET pending == [statement[i] EXCEPT !.id = 0]
        IN pending \in Finance!BankRow /\ pending.amount = statement[i].amount /\ pending.id = 0
    BY <2>1 DEF Finance!BankRow
  <2>3. QED
    BY <2>1, <2>2
<1> HIDE DEF said
<1>4. Says(batch)
  <2>1. batch \in Seq(Finance!BankRow) /\ Len(batch) = Len(statement)
    BY <1>2, <1>3
  <2>2. QED
    BY <1>2, <1>3, <2>1 DEF Says
<1> HIDE DEF batch
<1>5. FetchedInv'
  <2>1. PICK new : fetched' = [fetched EXCEPT ![s] = {new}] /\ Says(new)
    BY <1>1, <1>4
  <2>2. \A b : Says(b) => Says(b)'
    BY <1>1 DEF Says
  <2>3. DOMAIN fetched = Syncs
        /\ \A t \in Syncs : fetched[t] = {} \/ \E b : fetched[t] = {b} /\ Says(b)
    BY DEF LedgerInv, FetchedInv
  <2>4. DOMAIN fetched' = Syncs /\ fetched'[s] = {new}
        /\ \A t \in Syncs : t # s => fetched'[t] = fetched[t]
    BY <2>1, <2>3
  <2>5. \A t \in Syncs : fetched'[t] = {} \/ \E b : fetched'[t] = {b} /\ Says(b)'
    <3>1. Says(new)'
      BY <2>1, <2>2
    <3>2. QED
      BY <2>2, <2>3, <2>4, <3>1, Zenon
  <2>6. QED
    BY <2>4, <2>5 DEF FetchedInv
<1>6. QED
  <2>1. Sound(ledger)' /\ Finance!IdsAreUnique(ledger)'
    BY <1>1, LedgerStands
  <2>2. BankInv'
    BY <1>1 DEF LedgerInv, BankInv, Booked, IdsDiffer
  <2>3. IdsAreTheBanks(ledger)'
    BY <1>1 DEF LedgerInv, IdsAreTheBanks
  <2>4. refused' = FALSE
    BY <1>1 DEF LedgerInv
  <2>5. QED
    BY <1>5, <2>1, <2>2, <2>3, <2>4 DEF LedgerInv

(* An import, its batch and its matching.                                   *)
LEMMA ImportSteps ==
  ASSUME LedgerInv, NEW s \in Syncs, Finance!Import(s)
  PROVE  \E batch, matching, k, landing :
           /\ fetched[s] = {batch} /\ Says(batch)
           /\ fetched' = [fetched EXCEPT ![s] = {}] /\ UNCHANGED statement
           /\ Fits(ledger, batch, matching)
           /\ Numbered(ledger, k)
           /\ Lands(ledger, ledger', batch, matching, k, landing)
           /\ Sound(ledger') /\ IdsAreTheBanks(ledger') /\ Finance!IdsAreUnique(ledger')
           /\ refused' = FALSE
<1>1. PICK batch \in fetched[s], heap \in Finance!Heaps :
        LET matching == Finance!Matching(ledger, heap, batch)
            after == Finance!Reconciled(ledger, batch, matching)
        IN /\ Finance!Cardinality(Finance!Used)
                + Finance!Cardinality(Finance!Unmatched(matching)) \in Slots \cup {0}
           /\ IF Finance!IdsAreUnique(after)
                THEN ledger' = after /\ refused' = FALSE
                ELSE UNCHANGED ledger /\ refused' = TRUE
  BY DEF Finance!Import
<1> DEFINE matching == Finance!Matching(ledger, heap, batch)
           after == Finance!Reconciled(ledger, batch, matching)
           landing == Finance!Landing(ledger, matching)
<1>2. fetched' = [fetched EXCEPT ![s] = {}] /\ UNCHANGED statement
  BY DEF Finance!Import
<1>3. fetched[s] = {batch} /\ Says(batch)
  BY DEF LedgerInv, FetchedInv
<1>4. /\ Sound(ledger) /\ ledger \in Rows /\ BankInv /\ batch \in Seq(Finance!BankRow)
      /\ IdsAreTheBanks(ledger) /\ Finance!IdsAreUnique(ledger)
  BY <1>3 DEF LedgerInv, Sound, Says
<1>5. /\ Fits(ledger, batch, matching)
      /\ \A i \in DOMAIN batch : Finance!Exact(ledger, batch[i]) # {}
                                   => matching[i] \in Finance!Exact(ledger, batch[i])
  BY <1>3, <1>4, BatchIdsDiffer, MatchingFits
<1>6. PICK k : Numbered(ledger, k)
  BY <1>4 DEF Sound
<1>7. k + Cardinality(Finance!Unmatched(matching)) \in Slots \cup {0}
  BY <1>1, <1>6, FreshRows, SameCardinality
<1>8. (ledger' = after /\ refused' = FALSE) \/ ~Finance!IdsAreUnique(after)
  BY <1>1
<1> HIDE DEF matching
<1>9. Lands(ledger, after, batch, matching, k, landing)
  BY <1>4, <1>5, <1>6, <1>7, ImportLands
<1>10. Sound(after)
  BY <1>4, <1>5, <1>6, <1>7, ImportIsSound
<1> HIDE DEF after, landing
<1>11. IdsAreTheBanks(after) /\ Finance!IdsAreUnique(after)
  BY <1>3, <1>4, <1>5, <1>9, IdsStayUnique
<1>12. ledger' = after /\ refused' = FALSE
  BY <1>8, <1>11
<1>13. QED
  BY <1>2, <1>3, <1>5, <1>6, <1>9, <1>10, <1>11, <1>12

(* An import, of a batch that may be out of date.                           *)
LEMMA ImportKeeps ==
  ASSUME LedgerInv, NEW s \in Syncs, Finance!Import(s)
  PROVE  LedgerInv'
<1>1. /\ fetched' = [fetched EXCEPT ![s] = {}] /\ UNCHANGED statement
      /\ Sound(ledger') /\ IdsAreTheBanks(ledger') /\ Finance!IdsAreUnique(ledger')
      /\ refused' = FALSE
  BY ImportSteps
<1>2. FetchedInv'
  BY <1>1 DEF LedgerInv, FetchedInv, Says
<1>3. BankInv'
  BY <1>1 DEF LedgerInv, BankInv, IdsDiffer, Booked
<1>4. (IdsAreTheBanks(ledger))'
  BY <1>1 DEF IdsAreTheBanks
<1>5. QED
  BY <1>1, <1>2, <1>3, <1>4
  DEF LedgerInv, Finance!IdsAreUnique, Sound, Numbered, Grouped, SplitAt, TransferAt

(* What the user does leaves the bank and the requests alone.               *)
LEMMA UserKeeps ==
  ASSUME LedgerInv, UNCHANGED <<statement, fetched, refused>>,
         Sound(ledger'), IdsAreTheBanks(ledger)', Finance!IdsAreUnique(ledger')
  PROVE  LedgerInv'
<1>1. FetchedInv'
  BY DEF LedgerInv, FetchedInv, Says
<1>2. BankInv'
  BY DEF LedgerInv, BankInv, IdsDiffer, Booked
<1>3. QED
  BY <1>1, <1>2
  DEF LedgerInv, Finance!IdsAreUnique, Sound, Numbered, Grouped, SplitAt, TransferAt

(* The ledger starts empty.                                                 *)
LEMMA LedgerInvHolds == Finance!Init => LedgerInv
<1> SUFFICES ASSUME Finance!Init PROVE LedgerInv
  OBVIOUS
<1>1. /\ ledger = [n \in Slots |-> Finance!Blank] /\ statement = <<>>
      /\ fetched = [s \in Syncs |-> {}] /\ refused = FALSE
  BY DEF Finance!Init
<1>2. /\ Finance!Blank \in Finance!Row /\ Finance!Blank.status = "none"
  BY LedgerConstants DEF Finance!Blank, Finance!Row, Finance!Accounts, Finance!Payees,
     Finance!NoPayee, Finance!NoId
<1>3. Sound(ledger)
  <2>1. Numbered(ledger, 0)
    <3>1. 0 \in 0..Cardinality(Slots) /\ 1..0 = {}
      BY LedgerConstants
    <3>2. {n \in Slots : ledger[n].status # "none"} = {}
      BY <1>1, <1>2
    <3>3. QED
      BY <3>1, <3>2 DEF Numbered
  <2>2. ledger \in Rows /\ Grouped(ledger)
    BY <1>1, <1>2 DEF Rows, Grouped
  <2>3. QED
    BY <2>1, <2>2 DEF Sound
<1>4. BankInv
  BY <1>1, LedgerConstants DEF BankInv, IdsDiffer
<1>5. FetchedInv
  BY <1>1 DEF FetchedInv
<1>6. IdsAreTheBanks(ledger) /\ Finance!IdsAreUnique(ledger)
  BY <1>1, <1>2 DEF IdsAreTheBanks, Finance!IdsAreUnique
<1>7. QED
  BY <1>1, <1>3, <1>4, <1>5, <1>6 DEF LedgerInv

(* Every write of the ledger and every step of the bank.                    *)
LEMMA LedgerInvStays == LedgerInv /\ [Finance!Next]_money => LedgerInv'
<1> SUFFICES ASSUME LedgerInv, [Finance!Next]_money
             PROVE  LedgerInv'
  OBVIOUS
<1>1. Sound(ledger)
  BY DEF LedgerInv
<1>2. CASE UNCHANGED money
  <2>1. UNCHANGED <<ledger, statement, fetched, refused>>
    BY <1>2 DEF money
  <2>2. Sound(ledger)' /\ Finance!IdsAreUnique(ledger)'
    BY <2>1, LedgerStands
  <2>3. \A batch : Says(batch) => Says(batch)'
    BY <2>1 DEF Says
  <2>4. FetchedInv'
    BY <2>1, <2>3, RequestsStand
  <2>5. BankInv'
    BY <2>1 DEF LedgerInv, BankInv, Booked, IdsDiffer
  <2>6. IdsAreTheBanks(ledger)'
    BY <2>1 DEF LedgerInv, IdsAreTheBanks
  <2>7. refused' = FALSE
    BY <2>1 DEF LedgerInv
  <2>8. QED
    BY <2>2, <2>4, <2>5, <2>6, <2>7 DEF LedgerInv
<1>3. ASSUME NEW e \in Entries,
             Finance!EnterPlain("checking", e.amount, e.date, e.payee)
      PROVE  LedgerInv'
  <2>1. /\ "checking" \in Finance!Accounts /\ e.amount \in Int /\ e.date \in Nat
        /\ e.payee \in Finance!Payees
    BY LedgerConstants DEF Finance!Accounts
  <2>2. UNCHANGED <<statement, fetched, refused>>
    BY <1>3 DEF Finance!EnterPlain
  <2>3. Sound(ledger')
    BY <1>1, <1>3, <2>1, PlainIsSound
  <2>4. QED
    BY <1>3, <2>2, <2>3, UserKeepsIds, UserKeeps
<1>4. ASSUME NEW e \in Entries,
             Finance!EnterSplit("checking", e.amount, e.amount, e.date, e.payee)
      PROVE  LedgerInv'
  <2>1. /\ "checking" \in Finance!Accounts /\ e.amount \in Int /\ e.date \in Nat
        /\ e.payee \in Finance!Payees
    BY LedgerConstants DEF Finance!Accounts
  <2>2. UNCHANGED <<statement, fetched, refused>>
    BY <1>4 DEF Finance!EnterSplit
  <2>3. Sound(ledger')
    BY <1>1, <1>4, <2>1, SplitIsSound
  <2>4. QED
    BY <1>4, <2>2, <2>3, UserKeepsIds, UserKeeps
<1>5. ASSUME NEW e \in Entries, NEW account \in Finance!Accounts,
             NEW target \in Finance!Accounts,
             Finance!EnterTransfer(account, target, e.amount, e.date)
      PROVE  LedgerInv'
  <2>1. e.amount \in Int /\ e.date \in Nat
    BY LedgerConstants
  <2>2. UNCHANGED <<statement, fetched, refused>>
    BY <1>5 DEF Finance!EnterTransfer
  <2>3. Sound(ledger')
    BY <1>1, <1>5, <2>1, TransferIsSound
  <2>4. QED
    BY <1>5, <2>2, <2>3, UserKeepsIds, UserKeeps
<1>6. ASSUME NEW n \in Slots, NEW flag \in BOOLEAN, Finance!SetReconciled(n, flag)
      PROVE  LedgerInv'
  <2>1. UNCHANGED <<statement, fetched, refused>>
    BY <1>6 DEF Finance!SetReconciled
  <2>2. Sound(ledger')
    BY <1>1, <1>6, FlagIsSound
  <2>3. QED
    BY <1>6, <2>1, <2>2, UserKeepsIds, UserKeeps
<1>7. ASSUME NEW n \in Slots, Finance!Delete(n)
      PROVE  LedgerInv'
  <2>1. UNCHANGED <<statement, fetched, refused>>
    BY <1>7 DEF Finance!Delete
  <2>2. Sound(ledger')
    BY <1>1, <1>7, DeleteIsSound
  <2>3. QED
    BY <1>7, <2>1, <2>2, UserKeepsIds, UserKeeps
<1>8. QED
  BY <1>2, <1>3, <1>4, <1>5, <1>6, <1>7, BankPostsKeeps, BankBooksKeeps, FetchKeeps, ImportKeeps
  DEF Finance!Next

(* The ledger stays sound, whatever is entered, imported and deleted: rows  *)
(* are numbered, groups whole, and an id is the bank's, of a transaction of *)
(* that amount, and on one live row of the account only (071_finance.sql,   *)
(* finance_transaction_imported_uq): no import is ever refused.             *)
THEOREM LedgerStaysSound == MCSpec => []LedgerInv
<1>1. MCInit => LedgerInv
  BY LedgerInvHolds DEF MCInit
<1>2. [MCNext]_<<part, vars, money, envelopes>> => [Finance!Next]_money
  BY DEF MCNext, LedgerFull
<1>3. LedgerInv /\ [MCNext]_<<part, vars, money, envelopes>> => LedgerInv'
  BY <1>2, LedgerInvStays
<1>4. QED
  BY <1>1, <1>3, PTL DEF MCSpec

--------------------------------------------------------------------------------
(* What a split's children add up to.                                       *)
LEMMA FinanceTotals ==
  ASSUME NEW f
  PROVE  Finance!SumFunction(f) = Sum(f, DOMAIN f)
BY FinanceSums DEF Finance!SumFunction

(* A split and a transfer are one economic unit.                            *)
LEMMA SoundGroupsStand ==
  ASSUME Sound(ledger)
  PROVE  Finance!GroupsStandTogether
<1> SUFFICES ASSUME NEW n \in Slots, ledger[n].status # "none"
             PROVE  /\ ledger[n].parent # 0 =>
                         LET parent == ledger[n].parent
                             family == {c \in Finance!Used : ledger[c].parent = parent}
                         IN /\ ledger[parent].status = ledger[n].status
                            /\ ledger[parent].amount =
                                 Finance!SumFunction([c \in family |-> ledger[c].amount])
                    /\ ledger[n].partner # 0 =>
                         LET partner == ledger[ledger[n].partner]
                         IN /\ partner.partner = n
                            /\ partner.status = ledger[n].status
                            /\ partner.amount = -ledger[n].amount
  BY DEF Finance!GroupsStandTogether, Finance!Used, Finance!Is
<1>1. SplitAt(ledger, n) /\ TransferAt(ledger, n)
  BY DEF Sound, Grouped
<1>2. ASSUME ledger[n].parent # 0
      PROVE  LET parent == ledger[n].parent
                 family == {c \in Finance!Used : ledger[c].parent = parent}
             IN /\ ledger[parent].status = ledger[n].status
                /\ ledger[parent].amount =
                     Finance!SumFunction([c \in family |-> ledger[c].amount])
  <2> DEFINE p == ledger[n].parent
             family == {c \in Finance!Used : ledger[c].parent = p}
             f == [c \in family |-> ledger[c].amount]
  <2>1. /\ p \in Slots /\ p + 1 \in Slots /\ p + 2 \in Slots
        /\ ledger[p].status = ledger[n].status
        /\ ledger[p].amount = ledger[p + 1].amount + ledger[p + 2].amount
        /\ ledger[p + 1].parent = p /\ ledger[p + 1].status # "none"
        /\ ledger[p + 2].parent = p /\ ledger[p + 2].status # "none"
    BY <1>1, <1>2 DEF SplitAt
  <2>2. \A c \in Slots : ledger[c].status # "none" /\ ledger[c].parent = p
                           => c \in {p + 1, p + 2}
    BY <1>2 DEF Sound, Grouped, SplitAt
  <2>3. p \in Nat /\ p + 1 # p + 2
    BY <2>1, LedgerConstants
  <2>4. family = {p + 1, p + 2}
    BY <2>1, <2>2 DEF Finance!Used, Finance!Is
  <2>5. ledger[p + 1].amount \in Int /\ ledger[p + 2].amount \in Int
    BY <2>1 DEF Sound, Rows, Finance!Row
  <2>6. /\ DOMAIN f = {p + 1, p + 2}
        /\ f[p + 1] = ledger[p + 1].amount /\ f[p + 2] = ledger[p + 2].amount
    BY <2>4
  <2> HIDE DEF f, family
  <2>7. Sum(f, {p + 1, p + 2}) = ledger[p + 1].amount + ledger[p + 2].amount
    BY <2>3, <2>5, <2>6, SumOfTwo
  <2>8. Finance!SumFunction(f) = ledger[p].amount
    BY <2>1, <2>6, <2>7, FinanceTotals
  <2>9. QED
    BY <2>1, <2>8 DEF f, family
<1>3. QED
  BY <1>1, <1>2 DEF TransferAt

(* A split and a transfer are one economic unit, for any slots, entries,    *)
(* postings and imports, whatever is entered, edited, imported or deleted   *)
(* and in whatever order (delete_transaction, create_transfer_side).        *)
THEOREM GroupsStayWhole == MCSpec => []GroupsStandTogether
<1>1. LedgerInv => GroupsStandTogether
  BY SoundGroupsStand DEF LedgerInv, GroupsStandTogether
<1>2. QED
  BY <1>1, LedgerStaysSound, PTL

(* Every variable of a part has its type while that part runs.              *)
THEOREM BooksTypeCorrect == MCSpec => []BooksTypeOK
<1>1. LedgerInv => Finance!TypeOK
  <2> SUFFICES ASSUME LedgerInv PROVE Finance!TypeOK
    OBVIOUS
  <2>1. DOMAIN ledger = Slots /\ \A n \in Slots : ledger[n] \in Finance!Row
    BY DEF LedgerInv, Sound, Rows
  <2>2. \A i \in DOMAIN statement : statement[i] \in Finance!BankRow
    BY BankNumbersOn DEF LedgerInv
  <2>3. ASSUME NEW s \in Syncs
        PROVE  /\ Finance!Cardinality(fetched[s]) <= 1
               /\ \A batch \in fetched[s], i \in 1..MaxPosts :
                    i \in DOMAIN batch => batch[i] \in Finance!BankRow
    <3>1. CASE fetched[s] = {}
      <4>1. Finance!Cardinality(fetched[s]) = 0
        BY <3>1, SameCardinality, FS_EmptySet
      <4>2. QED
        BY <3>1, <4>1
    <3>2. CASE \E batch : fetched[s] = {batch} /\ Says(batch)
      <4>1. PICK batch : fetched[s] = {batch} /\ Says(batch)
        BY <3>2
      <4>2. Finance!Cardinality(fetched[s]) = 1
        BY <4>1, SameCardinality, FS_Singleton
      <4>3. \A i \in DOMAIN batch : batch[i] \in Finance!BankRow
        BY <4>1, BatchIsTyped DEF Says
      <4>4. QED
        BY <4>1, <4>2, <4>3
    <3>3. QED
      BY <3>1, <3>2 DEF LedgerInv, FetchedInv
  <2>4. DOMAIN fetched = Syncs /\ refused \in BOOLEAN
    BY DEF LedgerInv, FetchedInv
  <2>5. QED
    BY <2>1, <2>2, <2>3, <2>4 DEF Finance!TypeOK
<1>2. MCInit => Init
  BY DEF MCInit
<1>3. [MCNext]_<<part, vars, money, envelopes>> => [Next]_vars
  BY DEF MCNext
<1>4. MCSpec => Spec
  BY <1>2, <1>3, PTL DEF MCSpec, Spec
<1>5. MCSpec => []BudgetInv
  BY BudgetInvAlways
<1>6. TypeOK /\ LedgerInv /\ BudgetInv => BooksTypeOK
  BY <1>1 DEF BooksTypeOK, BudgetInv
<1>7. QED
  BY <1>4, <1>5, <1>6, CarryTypeCorrect, LedgerStaysSound, PTL

(* An import is never refused; of each amount it leaves at least as many    *)
(* live rows as its batch holds, those apart that the user has deleted; and *)
(* where the bank gives ids and no entry was reconciled before it had one,  *)
(* the same batch adds nothing more --                                      *)
(* for any rows, statement, matching order and overtaking imports           *)
(* (reconcile.py, "one-to-one across the whole batch").                     *)
THEOREM ImportsAreComplete == MCSpec => ImportsAccountForAllOnce
<1> DEFINE Accounted(s, batch) ==
             fetched'[s] = {} =>
               /\ ~refused'
               /\ \A amount \in {e.amount : e \in Postings} :
                    Finance!Cardinality(Finance!Amounting(ledger', amount)) >=
                      Finance!Cardinality(
                        {i \in DOMAIN batch :
                           batch[i].amount = amount /\ ~Finance!IsDeleted(ledger, batch[i].id)})
               /\ Finance!HasAllIds(batch)
                  /\ (\A n \in Finance!Live : ledger[n].reconciled => ledger[n].id # Finance!NoId)
                    => Finance!AddsNothing(ledger', batch)
<1>1. ASSUME LedgerInv, NEW s \in Syncs, NEW batch \in fetched[s], Finance!Import(s)
      PROVE  Accounted(s, batch)
  <2>1. PICK own, matching, k, landing :
          /\ fetched[s] = {own} /\ Says(own)
          /\ Fits(ledger, own, matching)
          /\ Lands(ledger, ledger', own, matching, k, landing)
          /\ Sound(ledger') /\ refused' = FALSE
    BY <1>1, ImportSteps
  <2>2. batch = own
    BY <2>1
  <2>3. Sound(ledger) /\ BankInv /\ IdsAreTheBanks(ledger)
    BY <1>1 DEF LedgerInv
  <2>4. \A i \in DOMAIN own :
          /\ landing[i] \in Slots
          /\ ledger'[landing[i]].status = "live" /\ ledger'[landing[i]].account = "checking"
          /\ ledger'[landing[i]].amount = own[i].amount
    BY <2>1, <2>3, ImportAccountsForAll
  <2>5. \A i, j \in DOMAIN own : landing[i] = landing[j] => i = j
    BY <2>1 DEF Lands
  <2>6. \A amount :
          Finance!Cardinality(Finance!Amounting(ledger', amount)) >=
            Finance!Cardinality(
              {i \in DOMAIN own :
                 own[i].amount = amount /\ ~Finance!IsDeleted(ledger, own[i].id)})
    <3> TAKE amount
    <3> DEFINE from == {i \in DOMAIN own :
                           own[i].amount = amount /\ ~Finance!IsDeleted(ledger, own[i].id)}
    <3>1. from \in SUBSET {i \in DOMAIN own : own[i].amount = amount}
      OBVIOUS
    <3> HIDE DEF from
    <3>2. Finance!Cardinality(Finance!Amounting(ledger', amount)) >= Finance!Cardinality(from)
      BY <2>4, <2>5, <3>1, AsManyAsTheBatch
    <3>3. QED
      BY <3>2 DEF from
  <2>7. Finance!HasAllIds(own)
        /\ (\A n \in Finance!Live : ledger[n].reconciled => ledger[n].id # 0)
          => Finance!AddsNothing(ledger', own)
    BY <2>1, <2>3, AgainAddsNothing
  <2>8. QED
    BY <2>1, <2>2, <2>6, <2>7 DEF Finance!NoId
<1>2. ASSUME LedgerInv, [Finance!Next]_money, NEW s \in Syncs, NEW batch \in fetched[s]
      PROVE  Finance!Import(s) \/ fetched'[s] # {}
  <2>1. DOMAIN fetched = Syncs
    BY <1>2 DEF LedgerInv, FetchedInv
  <2>2. CASE UNCHANGED fetched
    BY <1>2, <2>2
  <2>3. ASSUME NEW t \in Syncs, Finance!Import(t)
        PROVE  Finance!Import(s) \/ fetched'[s] # {}
    BY <1>2, <2>1, <2>3 DEF Finance!Import
  <2>4. ASSUME NEW t \in Syncs, NEW withIds \in BOOLEAN, Finance!Fetch(t, withIds)
        PROVE  fetched'[s] # {}
    BY <1>2, <2>1, <2>4 DEF Finance!Fetch
  <2>5. QED
    BY <1>2, <2>2, <2>3, <2>4
    DEF Finance!Next, money, Finance!EnterPlain, Finance!EnterSplit, Finance!EnterTransfer,
        Finance!SetReconciled, Finance!Delete, Finance!BankPosts, Finance!BankBooks
<1>3. [MCNext]_<<part, vars, money, envelopes>> => [Finance!Next]_money
  BY DEF MCNext, LedgerFull
<1>4. LedgerInv /\ [MCNext]_<<part, vars, money, envelopes>>
        => [\A s \in Syncs : \A batch \in fetched[s] : Accounted(s, batch)]_Finance!vars
  <2> SUFFICES ASSUME LedgerInv, [Finance!Next]_money, NEW s \in Syncs, NEW batch \in fetched[s]
               PROVE  Accounted(s, batch)
    BY <1>3
  <2>1. CASE Finance!Import(s)
    BY <1>1, <2>1
  <2>2. CASE fetched'[s] # {}
    BY <2>2
  <2>3. QED
    BY <1>2, <2>1, <2>2
<1>5. QED
  BY <1>4, LedgerStaysSound, PTL
  DEF MCSpec, ImportsAccountForAllOnce, Finance!ImportsAccountForAllOnce

--------------------------------------------------------------------------------
(* Every slot has a row, and every row a flag.                              *)
Flagged(rows) ==
  /\ DOMAIN rows = Slots
  /\ \A n \in Slots : "reconciled" \in DOMAIN rows[n]

(* Rows that came to be after others and keep what was locked of them.      *)
Keeps(rows, after) ==
  \A n \in Slots : rows[n].reconciled /\ after[n].reconciled => after[n] = rows[n]

(* What is entered, by hand or from the bank, is not reconciled.            *)
LEMMA EntriesAreOpen ==
  ASSUME NEW account, NEW amount, NEW date, NEW payee
  PROVE  LET entry == Finance!Entry(account, amount, date, payee)
         IN /\ "reconciled" \in DOMAIN entry /\ ~entry.reconciled
            /\ \A v : LET child == [entry EXCEPT !.parent = v]
                      IN "reconciled" \in DOMAIN child /\ ~child.reconciled
            /\ \A v : LET side == [entry EXCEPT !.partner = v]
                      IN "reconciled" \in DOMAIN side /\ ~side.reconciled
            /\ \A v : LET booked == [entry EXCEPT !.id = v]
                      IN "reconciled" \in DOMAIN booked /\ ~booked.reconciled
BY DEF Finance!Entry, Finance!Blank

(* A row that is merged with the bank's keeps its flag, and all of itself   *)
(* if it is set.                                                            *)
LEMMA MergesKeep ==
  ASSUME NEW row, "reconciled" \in DOMAIN row, NEW bankRow
  PROVE  LET merged == Finance!Merged(row, bankRow)
         IN /\ "reconciled" \in DOMAIN merged
            /\ row.reconciled => merged = row
BY DEF Finance!Merged

(* An import, whatever it matches.                                          *)
LEMMA ImportsKeep ==
  ASSUME Flagged(ledger), NEW batch, NEW matching
  PROVE  LET after == Finance!Reconciled(ledger, batch, matching)
         IN Flagged(after) /\ Keeps(ledger, after)
<1> DEFINE after == Finance!Reconciled(ledger, batch, matching)
<1>1. DOMAIN after = Slots
  BY DEF Finance!Reconciled
<1>2. ASSUME NEW n \in Slots
      PROVE  \/ after[n] = ledger[n]
             \/ \E bankRow : after[n] = Finance!Merged(ledger[n], bankRow)
             \/ \E a, b, c, d :
                  after[n] = [Finance!Entry("checking", a, b, c) EXCEPT !.id = d]
  BY DEF Finance!Reconciled
<1>3. ASSUME NEW n \in Slots
      PROVE  /\ "reconciled" \in DOMAIN after[n]
             /\ ledger[n].reconciled /\ after[n].reconciled => after[n] = ledger[n]
  <2>1. "reconciled" \in DOMAIN ledger[n]
    BY DEF Flagged
  <2>2. CASE after[n] = ledger[n]
    BY <2>1, <2>2
  <2>3. ASSUME NEW bankRow, after[n] = Finance!Merged(ledger[n], bankRow)
        PROVE  /\ "reconciled" \in DOMAIN after[n]
               /\ ledger[n].reconciled => after[n] = ledger[n]
    BY <2>1, <2>3, MergesKeep
  <2> HIDE DEF after
  <2>4. CASE \E bankRow : after[n] = Finance!Merged(ledger[n], bankRow)
    BY <2>3, <2>4, Zenon
  <2>5. CASE \E a, b, c, d :
               after[n] = [Finance!Entry("checking", a, b, c) EXCEPT !.id = d]
    <3>1. PICK a, b, c, d :
            after[n] = [Finance!Entry("checking", a, b, c) EXCEPT !.id = d]
      BY <2>5
    <3>2. "reconciled" \in DOMAIN after[n] /\ ~after[n].reconciled
      BY <3>1, EntriesAreOpen
    <3>3. QED
      BY <3>2
  <2>6. QED
    BY <1>2, <2>2, <2>4, <2>5, Zenon
<1>4. QED
  BY <1>1, <1>3 DEF Flagged, Keeps

(* Every write keeps what is locked.                                        *)
LEMMA WritesKeep ==
  ASSUME Flagged(ledger), [Finance!Next]_money
  PROVE  Flagged(ledger') /\ Keeps(ledger, ledger')
<1>1. CASE UNCHANGED ledger
  BY <1>1 DEF Flagged, Keeps
<1>2. ASSUME NEW account, NEW amount, NEW date, NEW payee,
             Finance!EnterPlain(account, amount, date, payee)
      PROVE  Flagged(ledger') /\ Keeps(ledger, ledger')
  BY <1>2, EntriesAreOpen DEF Finance!EnterPlain, Flagged, Keeps
<1>3. ASSUME NEW account, NEW a, NEW b, NEW date, NEW payee,
             Finance!EnterSplit(account, a, b, date, payee)
      PROVE  Flagged(ledger') /\ Keeps(ledger, ledger')
  <2>1. PICK first, second, third :
          /\ "reconciled" \in DOMAIN first /\ ~first.reconciled
          /\ "reconciled" \in DOMAIN second /\ ~second.reconciled
          /\ "reconciled" \in DOMAIN third /\ ~third.reconciled
          /\ ledger' = [ledger EXCEPT ![Finance!Fresh] = first,
                                      ![Finance!Fresh + 1] = second,
                                      ![Finance!Fresh + 2] = third]
    BY <1>3, EntriesAreOpen DEF Finance!EnterSplit
  <2>2. QED
    BY <2>1 DEF Flagged, Keeps
<1>4. ASSUME NEW account, NEW target, NEW amount, NEW date,
             Finance!EnterTransfer(account, target, amount, date)
      PROVE  Flagged(ledger') /\ Keeps(ledger, ledger')
  <2>1. PICK side, mirror :
          /\ "reconciled" \in DOMAIN side /\ ~side.reconciled
          /\ "reconciled" \in DOMAIN mirror /\ ~mirror.reconciled
          /\ ledger' = [ledger EXCEPT ![Finance!Fresh] = side,
                                      ![Finance!Fresh + 1] = mirror]
    BY <1>4, EntriesAreOpen DEF Finance!EnterTransfer
  <2>2. QED
    BY <2>1 DEF Flagged, Keeps
<1>5. ASSUME NEW n \in Slots, NEW flag \in BOOLEAN, Finance!SetReconciled(n, flag)
      PROVE  Flagged(ledger') /\ Keeps(ledger, ledger')
  <2>1. ledger[n].reconciled # flag
        /\ ledger' = [ledger EXCEPT ![n] = [ledger[n] EXCEPT !.reconciled = flag]]
    BY <1>5 DEF Finance!SetReconciled
  <2>2. ledger'[n].reconciled = flag /\ \A m \in Slots : m # n => ledger'[m] = ledger[m]
    BY <2>1 DEF Flagged
  <2>3. ~(ledger[n].reconciled /\ ledger'[n].reconciled)
    BY <2>1, <2>2
  <2>4. QED
    BY <2>1, <2>2, <2>3 DEF Flagged, Keeps
<1>6. ASSUME NEW n \in Slots, Finance!Delete(n)
      PROVE  Flagged(ledger') /\ Keeps(ledger, ledger')
  <2>1. \A m \in Finance!Group(n) : ~ledger[m].reconciled
    BY <1>6 DEF Finance!Delete
  <2>2. ledger' = [m \in Slots |->
                     IF m \in Finance!Group(n) THEN [ledger[m] EXCEPT !.status = "deleted"]
                     ELSE ledger[m]]
    BY <1>6 DEF Finance!Delete
  <2>3. QED
    BY <2>1, <2>2 DEF Flagged, Keeps
<1>7. ASSUME NEW s \in Syncs, Finance!Import(s)
      PROVE  Flagged(ledger') /\ Keeps(ledger, ledger')
  <2>1. ledger' = ledger \/ \E batch, matching :
                               ledger' = Finance!Reconciled(ledger, batch, matching)
    BY <1>7 DEF Finance!Import
  <2>2. QED
    BY <1>1, <2>1, ImportsKeep
<1>8. QED
  BY <1>1, <1>2, <1>3, <1>4, <1>5, <1>6, <1>7
     DEF Finance!Next, money, Finance!BankPosts, Finance!BankBooks, Finance!Fetch

(* While a row is reconciled nothing changes it, for any entries, postings, *)
(* imports that overtake each other, edits and deletions -- and whatever    *)
(* the matching makes of an import (reconcile.py, "reconciled rows are      *)
(* locked"; service.py delete_transaction).                                 *)
THEOREM ReconciledRowsAreLocked == MCSpec => ReconciledIsLocked
<1>1. MCInit => Flagged(ledger)
  BY DEF MCInit, Finance!Init, Finance!Blank, Flagged
<1>2. [MCNext]_<<part, vars, money, envelopes>> => [Finance!Next]_money
  BY DEF MCNext, LedgerFull
<1>3. Flagged(ledger) /\ [MCNext]_<<part, vars, money, envelopes>> => Flagged(ledger)'
  BY <1>2, WritesKeep DEF Flagged
<1>4. Flagged(ledger) /\ [MCNext]_<<part, vars, money, envelopes>>
        => [\A n \in Slots :
              ledger[n].reconciled /\ ledger'[n].reconciled
                => ledger'[n] = ledger[n]]_Finance!vars
  BY <1>2, WritesKeep DEF Keeps
<1>5. QED
  BY <1>1, <1>3, <1>4, PTL
  DEF MCSpec, ReconciledIsLocked, Finance!ReconciledIsLocked
================================================================================
