----------------------------- MODULE SumTheorems -----------------------------
(***************************************************************************)
(* Facts about the sums the models are built from: the locks of an account *)
(* (x/lockup's LockedAmount), the amounts of the expiration queue, the     *)
(* delegated shares of a validator, the balances behind a supply.  All of  *)
(* them are SumFunction or SumFunctionOnSet of the module Functions.       *)
(*                                                                         *)
(* The library's induction theorems take the induction predicate as an     *)
(* operator.  LeastNumber and FiniteInduction below say the same of a set: *)
(* the set of numbers, or of subsets, for which the predicate holds.  They *)
(* follow from the well-foundedness of < on Nat and of the strict subset   *)
(* relation on a finite set, and every induction of the project goes       *)
(* through one of the two.                                                 *)
(***************************************************************************)
EXTENDS Functions, FiniteSets, Integers, FiniteSetTheorems,
        WellFoundedInduction, TLAPS

(***************************************************************************)
(* A non-empty set of subsets of a finite set has a minimal member.        *)
(***************************************************************************)
LEMMA MinimalSubset ==
  ASSUME NEW S, IsFiniteSet(S), NEW G \in SUBSET SUBSET S, G # {}
  PROVE  \E T \in G : \A U \in G : ~(U \subseteq T /\ U # T)
<1>1. IsWellFoundedOn(StrictSubsetOrdering(S), FiniteSubsetsOf(S))
  BY FS_StrictSubsetOrderingWellFounded
<1>2. FiniteSubsetsOf(S) = SUBSET S
  BY FS_FiniteSubsetsOfFinite
<1>3. \E T \in G : \A U \in G : ~(<<U, T>> \in StrictSubsetOrdering(S))
  BY <1>1, <1>2, WFMin
<1> QED
  BY Zenon, <1>3 DEF StrictSubsetOrdering

(***************************************************************************)
(* A non-empty set of natural numbers has a least member: the intervals    *)
(* 0..n, for n in the set and up to one of its members, have a minimal one.*)
(***************************************************************************)
LEMMA LeastNumber ==
  ASSUME NEW T \in SUBSET Nat, T # {}
  PROVE  \E n \in T : \A m \in T : n <= m
<1>1. PICK k \in T : TRUE
  BY Zenon
<1> DEFINE G == {0..n : n \in {m \in T : m <= k}}
           S == 0..k
<1>2. G \in SUBSET SUBSET S /\ G # {}
  OBVIOUS
<1>3. IsFiniteSet(S)
  BY FS_Interval
<1> HIDE DEF G, S
<1>4. PICK I \in G : \A J \in G : ~(J \subseteq I /\ J # I)
  BY <1>2, <1>3, MinimalSubset
<1>5. PICK n \in T : n <= k /\ I = 0..n
  BY <1>4 DEF G
<1>6. ASSUME NEW m \in T, m < n
      PROVE  FALSE
  <2>1. 0..m \in G
    BY <1>5, <1>6 DEF G
  <2>2. 0..m \subseteq 0..n /\ n \in 0..n /\ n \notin 0..m
    BY <1>6
  <2> QED
    BY <1>4, <1>5, <2>1, <2>2
<1> QED
  BY <1>6

(***************************************************************************)
(* Induction over the subsets of a finite set: a set G of subsets that     *)
(* holds the empty set, and a subset whenever it holds all that it becomes *)
(* when it loses one element, holds every subset.                          *)
(***************************************************************************)
LEMMA FiniteInduction ==
  ASSUME NEW S, IsFiniteSet(S), NEW G, {} \in G,
         \A T \in SUBSET S : T # {} /\ (\A x \in T : T \ {x} \in G) => T \in G
  PROVE  \A T \in SUBSET S : T \in G
<1> SUFFICES ASSUME NEW U \in SUBSET S, U \notin G
             PROVE  FALSE
  OBVIOUS
<1> DEFINE B == {T \in SUBSET S : T \notin G}
<1>1. PICK T \in B : \A V \in B : ~(V \subseteq T /\ V # T)
  <2>1. U \in B /\ B \in SUBSET SUBSET S
    OBVIOUS
  <2> HIDE DEF B
  <2> QED
    BY <2>1, MinimalSubset
<1>2. ASSUME NEW x \in T
      PROVE  T \ {x} \in G
  BY <1>1, <1>2
<1> QED
  BY <1>1, <1>2

-----------------------------------------------------------------------------
(***************************************************************************)
(* The function the fold computes with: the sum of f over each subset of   *)
(* S, one chosen element at a time.                                        *)
(***************************************************************************)
Chosen(s) == CHOOSE x \in s : TRUE

SumBody(f, g, s) == IF s = {} THEN 0 ELSE f[Chosen(s)] + g[s \ {Chosen(s)}]

SumIter(f, S) == CHOOSE g : g = [s \in SUBSET S |-> SumBody(f, g, s)]

(***************************************************************************)
(* What SumFunctionOnSet expands to.                                       *)
(***************************************************************************)
LEMMA SumIsIter ==
  ASSUME NEW f, NEW S
  PROVE  SumFunctionOnSet(f, S) = SumIter(f, S)[S]
BY DEF SumFunctionOnSet, FoldFunctionOnSet, MapThenFoldSet, SumIter, SumBody, Chosen

(***************************************************************************)
(* On a finite set the recursion has a solution: a solution for the        *)
(* subsets of at most n elements extends to those of at most n + 1.        *)
(***************************************************************************)
LEMMA SumIterExists ==
  ASSUME NEW f, NEW S, IsFiniteSet(S)
  PROVE  \E g : g = [s \in SUBSET S |-> SumBody(f, g, s)]
<1> DEFINE Small(n) == {s \in SUBSET S : Cardinality(s) <= n}
           Solved(n) == \E g : g = [s \in Small(n) |-> SumBody(f, g, s)]
           B == {n \in Nat : ~Solved(n)}
<1>1. Solved(0)
  <2> DEFINE g == [s \in Small(0) |-> 0]
  <2>1. \A s \in Small(0) : s = {}
    BY FS_Subset, FS_EmptySet, FS_CardinalityType
  <2>2. g = [s \in Small(0) |-> SumBody(f, g, s)]
    BY <2>1 DEF SumBody
  <2> QED
    BY Zenon, <2>2
<1>2. ASSUME NEW n \in Nat, Solved(n)
      PROVE  Solved(n + 1)
  <2>1. PICK g : g = [s \in Small(n) |-> SumBody(f, g, s)]
    BY <1>2
  <2> DEFINE h == [s \in Small(n + 1) |->
                     IF s \in Small(n) THEN g[s] ELSE SumBody(f, g, s)]
  <2>2. ASSUME NEW s \in Small(n + 1), s # {}
        PROVE  s \ {Chosen(s)} \in Small(n) /\ s \ {Chosen(s)} \in Small(n + 1)
    <3>1. Chosen(s) \in s
      BY <2>2 DEF Chosen
    <3>2. IsFiniteSet(s) /\ Cardinality(s) \in Nat
      BY FS_Subset, FS_CardinalityType
    <3>3. Cardinality(s \ {Chosen(s)}) = Cardinality(s) - 1
      BY Zenon, <3>1, <3>2, FS_RemoveElement
    <3> QED
      BY <3>2, <3>3
  <2>3. ASSUME NEW s \in Small(n + 1)
        PROVE  h[s] = SumBody(f, h, s)
    <3>1. s \in Small(n) => g[s] = SumBody(f, g, s)
      BY <2>1
    <3>2. h[s] = SumBody(f, g, s)
      BY <3>1
    <3>3. CASE s = {}
      BY <3>2, <3>3 DEF SumBody
    <3>4. CASE s # {}
      <4>1. h[s \ {Chosen(s)}] = g[s \ {Chosen(s)}]
        BY <2>2, <3>4
      <4> QED
        BY <3>2, <4>1 DEF SumBody
    <3> QED
      BY <3>3, <3>4
  <2>4. h = [s \in Small(n + 1) |-> SumBody(f, h, s)]
    BY <2>3
  <2> QED
    BY Zenon, <2>4
<1>3. \A n \in Nat : Solved(n)
  <2> SUFFICES ASSUME B # {} PROVE FALSE
    BY Zenon
  <2> HIDE DEF Solved
  <2>1. PICK n \in B : \A m \in B : n <= m
    BY Zenon, LeastNumber
  <2>2. n # 0
    BY <1>1
  <2>3. n - 1 \in Nat /\ n - 1 \notin B
    BY <2>1, <2>2
  <2>4. Solved(n - 1)
    BY <2>3
  <2>5. Solved((n - 1) + 1)
    BY <1>2, <2>3, <2>4
  <2>6. (n - 1) + 1 = n
    OBVIOUS
  <2> QED
    BY <2>5, <2>6
<1>4. Cardinality(S) \in Nat /\ Small(Cardinality(S)) = SUBSET S
  BY FS_Subset, FS_CardinalityType
<1> QED
  BY Zenon, <1>3, <1>4

(***************************************************************************)
(* The equation the recursion is written with.                             *)
(***************************************************************************)
LEMMA SumIterEquation ==
  ASSUME NEW f, NEW S, IsFiniteSet(S), NEW s \in SUBSET S
  PROVE  SumIter(f, S)[s] = SumBody(f, SumIter(f, S), s)
<1> DEFINE Solves(g) == g = [t \in SUBSET S |-> SumBody(f, g, t)]
<1>1. \E g : Solves(g)
  BY Zenon, SumIterExists
<1>2. SumIter(f, S) = CHOOSE g : Solves(g)
  BY DEF SumIter
<1>3. Solves(SumIter(f, S))
  <2> HIDE DEF Solves
  <2> QED
    BY <1>1, <1>2
<1> QED
  BY <1>3

(***************************************************************************)
(* The sum over a subset is the same within any finite set around it.      *)
(***************************************************************************)
LEMMA SumIterAgree ==
  ASSUME NEW f, NEW S, IsFiniteSet(S), NEW T \in SUBSET S
  PROVE  SumIter(f, T)[T] = SumIter(f, S)[T]
<1> DEFINE G == {U \in SUBSET T : SumIter(f, T)[U] = SumIter(f, S)[U]}
<1>1. IsFiniteSet(T)
  BY FS_Subset
<1>2. {} \in G
  BY <1>1, SumIterEquation DEF SumBody
<1>3. ASSUME NEW U \in SUBSET T, U # {}, \A x \in U : U \ {x} \in G
      PROVE  U \in G
  <2>1. Chosen(U) \in U
    BY <1>3 DEF Chosen
  <2>2. SumIter(f, T)[U \ {Chosen(U)}] = SumIter(f, S)[U \ {Chosen(U)}]
    BY <1>3, <2>1
  <2>3. SumIter(f, T)[U] = SumBody(f, SumIter(f, T), U)
    BY <1>1, SumIterEquation
  <2>4. SumIter(f, S)[U] = SumBody(f, SumIter(f, S), U)
    BY SumIterEquation
  <2> QED
    BY <2>2, <2>3, <2>4 DEF SumBody
<1> HIDE DEF G
<1>4. T \in G
  BY <1>1, <1>2, <1>3, FiniteInduction
<1> QED
  BY <1>4 DEF G

(***************************************************************************)
(* The sum over the empty set is 0; the sum over another finite set is the *)
(* value at the chosen element plus the sum over the others.               *)
(***************************************************************************)
LEMMA SumEmpty ==
  ASSUME NEW f
  PROVE  SumFunctionOnSet(f, {}) = 0
<1>1. SumIter(f, {})[{}] = SumBody(f, SumIter(f, {}), {})
  BY FS_EmptySet, SumIterEquation
<1> QED
  BY <1>1, SumIsIter DEF SumBody

LEMMA SumUnfold ==
  ASSUME NEW f, NEW S, IsFiniteSet(S), S # {}
  PROVE  /\ Chosen(S) \in S
         /\ SumFunctionOnSet(f, S)
              = f[Chosen(S)] + SumFunctionOnSet(f, S \ {Chosen(S)})
<1>1. Chosen(S) \in S
  BY DEF Chosen
<1>2. SumIter(f, S)[S] = f[Chosen(S)] + SumIter(f, S)[S \ {Chosen(S)}]
  BY SumIterEquation DEF SumBody
<1>3. SumIter(f, S)[S \ {Chosen(S)}] = SumIter(f, S \ {Chosen(S)})[S \ {Chosen(S)}]
  BY SumIterAgree
<1> QED
  BY <1>1, <1>2, <1>3, SumIsIter

(***************************************************************************)
(* The sum of integers is an integer, of natural numbers a natural number. *)
(***************************************************************************)
LEMMA SumInt ==
  ASSUME NEW f, NEW S, IsFiniteSet(S), \A x \in S : f[x] \in Int
  PROVE  SumFunctionOnSet(f, S) \in Int
<1> DEFINE G == {U \in SUBSET S : SumFunctionOnSet(f, U) \in Int}
<1>1. {} \in G
  BY SumEmpty
<1>2. ASSUME NEW U \in SUBSET S, U # {}, \A x \in U : U \ {x} \in G
      PROVE  U \in G
  <2>1. IsFiniteSet(U)
    BY FS_Subset
  <2>2. /\ Chosen(U) \in U
        /\ SumFunctionOnSet(f, U)
             = f[Chosen(U)] + SumFunctionOnSet(f, U \ {Chosen(U)})
    BY Zenon, <1>2, <2>1, SumUnfold
  <2> QED
    BY <1>2, <2>2
<1> HIDE DEF G
<1>3. \A U \in SUBSET S : U # {} /\ (\A x \in U : U \ {x} \in G) => U \in G
  BY <1>2
<1>4. \A U \in SUBSET S : U \in G
  BY <1>1, <1>3, FiniteInduction, Zenon
<1> QED
  BY <1>4 DEF G

LEMMA SumNat ==
  ASSUME NEW f, NEW S, IsFiniteSet(S), \A x \in S : f[x] \in Nat
  PROVE  SumFunctionOnSet(f, S) \in Nat
<1> DEFINE G == {U \in SUBSET S : SumFunctionOnSet(f, U) \in Nat}
<1>1. {} \in G
  BY SumEmpty
<1>2. ASSUME NEW U \in SUBSET S, U # {}, \A x \in U : U \ {x} \in G
      PROVE  U \in G
  <2>1. IsFiniteSet(U)
    BY FS_Subset
  <2>2. /\ Chosen(U) \in U
        /\ SumFunctionOnSet(f, U)
             = f[Chosen(U)] + SumFunctionOnSet(f, U \ {Chosen(U)})
    BY Zenon, <1>2, <2>1, SumUnfold
  <2> QED
    BY <1>2, <2>2
<1> HIDE DEF G
<1>3. \A U \in SUBSET S : U # {} /\ (\A x \in U : U \ {x} \in G) => U \in G
  BY <1>2
<1>4. \A U \in SUBSET S : U \in G
  BY <1>1, <1>3, FiniteInduction, Zenon
<1> QED
  BY <1>4 DEF G

(***************************************************************************)
(* Any element may be taken out first.                                     *)
(***************************************************************************)
LEMMA SumRemove ==
  ASSUME NEW f, NEW S, IsFiniteSet(S), \A x \in S : f[x] \in Int
  PROVE  \A x \in S : SumFunctionOnSet(f, S) = f[x] + SumFunctionOnSet(f, S \ {x})
<1> DEFINE Any(U) == \A x \in U :
                       SumFunctionOnSet(f, U) = f[x] + SumFunctionOnSet(f, U \ {x})
           G == {U \in SUBSET S : Any(U)}
<1>1. {} \in G
  OBVIOUS
<1>2. ASSUME NEW U \in SUBSET S, U # {}, \A x \in U : U \ {x} \in G
      PROVE  U \in G
  <2> SUFFICES ASSUME NEW x \in U
               PROVE  SumFunctionOnSet(f, U) = f[x] + SumFunctionOnSet(f, U \ {x})
    OBVIOUS
  <2> DEFINE c == Chosen(U)
  <2>1. IsFiniteSet(U) /\ IsFiniteSet(U \ {x}) /\ IsFiniteSet((U \ {x}) \ {c})
    BY FS_Subset
  <2>2. c \in U /\ SumFunctionOnSet(f, U) = f[c] + SumFunctionOnSet(f, U \ {c})
    BY Zenon, <1>2, <2>1, SumUnfold
  <2> HIDE DEF c
  <2>3. CASE x # c
    <3>1. x \in U \ {c} /\ c \in U \ {x} /\ (U \ {c}) \ {x} = (U \ {x}) \ {c}
      BY <2>2, <2>3
    <3>2. SumFunctionOnSet(f, U \ {c}) = f[x] + SumFunctionOnSet(f, (U \ {x}) \ {c})
      BY <1>2, <2>2, <3>1
    <3>3. SumFunctionOnSet(f, U \ {x}) = f[c] + SumFunctionOnSet(f, (U \ {x}) \ {c})
      BY <1>2, <3>1
    <3>4. SumFunctionOnSet(f, (U \ {x}) \ {c}) \in Int
      BY <2>1, SumInt
    <3>5. f[x] \in Int /\ f[c] \in Int
      BY <2>2
    <3> HIDE DEF G
    <3> QED
      BY <2>2, <3>2, <3>3, <3>4, <3>5
  <2> QED
    BY <2>2, <2>3
<1> HIDE DEF G
<1>3. \A U \in SUBSET S : U # {} /\ (\A x \in U : U \ {x} \in G) => U \in G
  BY <1>2
<1>4. \A U \in SUBSET S : U \in G
  BY <1>1, <1>3, FiniteInduction, Zenon
<1> QED
  BY <1>4 DEF G

(***************************************************************************)
(* Functions that agree on a set have the same sum over it.                *)
(***************************************************************************)
LEMMA SumSame ==
  ASSUME NEW f, NEW g, NEW S, IsFiniteSet(S), \A x \in S : f[x] = g[x]
  PROVE  SumFunctionOnSet(f, S) = SumFunctionOnSet(g, S)
<1> DEFINE G == {U \in SUBSET S : SumFunctionOnSet(f, U) = SumFunctionOnSet(g, U)}
<1>1. {} \in G
  BY SumEmpty
<1>2. ASSUME NEW U \in SUBSET S, U # {}, \A x \in U : U \ {x} \in G
      PROVE  U \in G
  <2>1. IsFiniteSet(U)
    BY Zenon, FS_Subset
  <2>2. /\ Chosen(U) \in U
        /\ SumFunctionOnSet(f, U)
             = f[Chosen(U)] + SumFunctionOnSet(f, U \ {Chosen(U)})
        /\ SumFunctionOnSet(g, U)
             = g[Chosen(U)] + SumFunctionOnSet(g, U \ {Chosen(U)})
    BY <1>2, <2>1, SumUnfold
  <2> QED
    BY <1>2, <2>2
<1> HIDE DEF G
<1>3. \A U \in SUBSET S : U # {} /\ (\A x \in U : U \ {x} \in G) => U \in G
  BY <1>2
<1>4. \A U \in SUBSET S : U \in G
  BY <1>1, <1>3, FiniteInduction, Zenon
<1> QED
  BY <1>4 DEF G

(***************************************************************************)
(* The sum of a pointwise sum is the sum of the sums.                      *)
(***************************************************************************)
LEMMA SumPlus ==
  ASSUME NEW f, NEW g, NEW h, NEW S, IsFiniteSet(S),
         \A x \in S : f[x] \in Int /\ g[x] \in Int /\ h[x] = f[x] + g[x]
  PROVE  SumFunctionOnSet(h, S) = SumFunctionOnSet(f, S) + SumFunctionOnSet(g, S)
<1> DEFINE G == {U \in SUBSET S : 
                        SumFunctionOnSet(h, U)
                          = SumFunctionOnSet(f, U) + SumFunctionOnSet(g, U)}
<1>1. {} \in G
  BY SumEmpty
<1>2. ASSUME NEW U \in SUBSET S, U # {}, \A x \in U : U \ {x} \in G
      PROVE  U \in G
  <2> DEFINE c == Chosen(U)
             V == U \ {c}
  <2>1. IsFiniteSet(U) /\ IsFiniteSet(V)
    BY FS_Subset
  <2>2. /\ c \in U
        /\ SumFunctionOnSet(f, U) = f[c] + SumFunctionOnSet(f, V)
        /\ SumFunctionOnSet(g, U) = g[c] + SumFunctionOnSet(g, V)
        /\ SumFunctionOnSet(h, U) = h[c] + SumFunctionOnSet(h, V)
    BY Zenon, <1>2, <2>1, SumUnfold
  <2>3. SumFunctionOnSet(f, V) \in Int /\ SumFunctionOnSet(g, V) \in Int
    BY <2>1, SumInt
  <2>4. SumFunctionOnSet(h, V) = SumFunctionOnSet(f, V) + SumFunctionOnSet(g, V)
    BY <1>2, <2>2
  <2>5. f[c] \in Int /\ g[c] \in Int /\ h[c] = f[c] + g[c]
    BY <2>2
  <2> HIDE DEF c, V
  <2> QED
    BY <2>2, <2>3, <2>4, <2>5
<1> HIDE DEF G
<1>3. \A U \in SUBSET S : U # {} /\ (\A x \in U : U \ {x} \in G) => U \in G
  BY <1>2
<1>4. \A U \in SUBSET S : U \in G
  BY <1>1, <1>3, FiniteInduction, Zenon
<1> QED
  BY <1>4 DEF G

(***************************************************************************)
(* A common factor comes out of a sum.                                     *)
(***************************************************************************)
LEMMA SumScale ==
  ASSUME NEW f, NEW h, NEW S, NEW k \in Int, IsFiniteSet(S),
         \A x \in S : f[x] \in Int /\ h[x] = f[x] * k
  PROVE  SumFunctionOnSet(h, S) = SumFunctionOnSet(f, S) * k
<1> DEFINE G == {U \in SUBSET S : SumFunctionOnSet(h, U) = SumFunctionOnSet(f, U) * k}
<1>1. {} \in G
  BY SumEmpty
<1>2. ASSUME NEW U \in SUBSET S, U # {}, \A x \in U : U \ {x} \in G
      PROVE  U \in G
  <2> DEFINE c == Chosen(U)
             V == U \ {c}
  <2>1. IsFiniteSet(U) /\ IsFiniteSet(V)
    BY FS_Subset
  <2>2. /\ c \in U
        /\ SumFunctionOnSet(f, U) = f[c] + SumFunctionOnSet(f, V)
        /\ SumFunctionOnSet(h, U) = h[c] + SumFunctionOnSet(h, V)
    BY Zenon, <1>2, <2>1, SumUnfold
  <2>3. SumFunctionOnSet(f, V) \in Int
    BY <2>1, SumInt
  <2>4. SumFunctionOnSet(h, V) = SumFunctionOnSet(f, V) * k
    BY <1>2, <2>2
  <2>5. f[c] \in Int /\ h[c] = f[c] * k
    BY <2>2
  <2> HIDE DEF c, V
  <2>6. \A a, b \in Int : (a + b) * k = a * k + b * k
    OBVIOUS
  <2> QED
    BY <2>2, <2>3, <2>4, <2>5, <2>6
<1> HIDE DEF G
<1>3. \A U \in SUBSET S : U # {} /\ (\A x \in U : U \ {x} \in G) => U \in G
  BY <1>2
<1>4. \A U \in SUBSET S : U \in G
  BY <1>1, <1>3, FiniteInduction, Zenon
<1> QED
  BY <1>4 DEF G

(***************************************************************************)
(* A sum over two sets that share no element.                              *)
(***************************************************************************)
LEMMA SumDisjoint ==
  ASSUME NEW f, NEW S, NEW T, IsFiniteSet(S), IsFiniteSet(T), S \cap T = {},
         \A x \in S \cup T : f[x] \in Int
  PROVE  SumFunctionOnSet(f, S \cup T)
           = SumFunctionOnSet(f, S) + SumFunctionOnSet(f, T)
<1> DEFINE G == {U \in SUBSET S : SumFunctionOnSet(f, U \cup T)
                                    = SumFunctionOnSet(f, U) + SumFunctionOnSet(f, T)}
<1>1. {} \in G
  <2>1. SumFunctionOnSet(f, T) \in Int /\ {} \cup T = T
    BY SumInt
  <2> QED
    BY <2>1, SumEmpty
<1>2. ASSUME NEW U \in SUBSET S, U # {}, \A x \in U : U \ {x} \in G
      PROVE  U \in G
  <2>1. PICK c \in U : TRUE
    BY <1>2
  <2>2. /\ IsFiniteSet(U) /\ IsFiniteSet(U \ {c}) /\ IsFiniteSet(U \cup T)
        /\ (U \cup T) \ {c} = (U \ {c}) \cup T
    BY Zenon, FS_Subset, FS_Union
  <2>3. SumFunctionOnSet(f, U) = f[c] + SumFunctionOnSet(f, U \ {c})
    BY <2>2, SumRemove
  <2>4. SumFunctionOnSet(f, U \cup T) = f[c] + SumFunctionOnSet(f, (U \ {c}) \cup T)
    BY <2>2, SumRemove
  <2>5. /\ f[c] \in Int /\ SumFunctionOnSet(f, T) \in Int
        /\ SumFunctionOnSet(f, U \ {c}) \in Int
    BY <2>2, SumInt
  <2>6. SumFunctionOnSet(f, (U \ {c}) \cup T)
          = SumFunctionOnSet(f, U \ {c}) + SumFunctionOnSet(f, T)
    BY <1>2
  <2>7. SumFunctionOnSet(f, U \cup T) = SumFunctionOnSet(f, U) + SumFunctionOnSet(f, T)
    BY <2>3, <2>4, <2>5, <2>6
  <2> QED
    BY <2>7
<1> HIDE DEF G
<1>3. \A U \in SUBSET S : U # {} /\ (\A x \in U : U \ {x} \in G) => U \in G
  BY <1>2
<1>4. \A U \in SUBSET S : U \in G
  BY <1>1, <1>3, FiniteInduction, Zenon
<1> QED
  BY <1>4 DEF G

(***************************************************************************)
(* A sum does not depend on how its indices are named: h renames S, one to *)
(* one, and g has at h[x] the value f has at x.                            *)
(***************************************************************************)
LEMMA SumRename ==
  ASSUME NEW f, NEW g, NEW h, NEW S, IsFiniteSet(S),
         \A x, y \in S : h[x] = h[y] => x = y,
         \A x \in S : f[x] \in Int /\ g[h[x]] = f[x]
  PROVE  /\ IsFiniteSet({h[x] : x \in S})
         /\ SumFunctionOnSet(g, {h[x] : x \in S}) = SumFunctionOnSet(f, S)
<1> DEFINE Im(U) == {h[x] : x \in U}
           G == {U \in SUBSET S : /\ IsFiniteSet(Im(U))
                                  /\ SumFunctionOnSet(g, Im(U)) = SumFunctionOnSet(f, U)}
<1>1. {} \in G
  <2>1. Im({}) = {}
    OBVIOUS
  <2> QED
    BY <2>1, SumEmpty, FS_EmptySet
<1>2. ASSUME NEW U \in SUBSET S, U # {}, \A x \in U : U \ {x} \in G
      PROVE  U \in G
  <2>1. PICK c \in U : TRUE
    BY <1>2
  <2>2. IsFiniteSet(U)
    BY FS_Subset
  <2> DEFINE V == Im(U)
             W == Im(U \ {c})
             d == h[c]
  <2>3. /\ d \in V /\ V = W \cup {d} /\ V \ {d} = W
        /\ \A y \in V : g[y] \in Int
    OBVIOUS
  <2>4. IsFiniteSet(W) /\ SumFunctionOnSet(g, W) = SumFunctionOnSet(f, U \ {c})
    BY <1>2
  <2>5. SumFunctionOnSet(f, U) = f[c] + SumFunctionOnSet(f, U \ {c}) /\ g[d] = f[c]
    BY <2>2, SumRemove
  <2>6. IsFiniteSet(V) /\ SumFunctionOnSet(g, V) = g[d] + SumFunctionOnSet(g, W)
    <3> HIDE DEF V, W, d, G
    <3>1. IsFiniteSet(W \cup {d})
      BY <2>4, FS_AddElement
    <3>2. IsFiniteSet(V)
      BY <2>3, <3>1, Zenon
    <3>3. SumFunctionOnSet(g, V) = g[d] + SumFunctionOnSet(g, V \ {d})
      BY <2>3, <3>2, SumRemove
    <3> QED
      BY <2>3, <3>2, <3>3, Zenon
  <2>7. SumFunctionOnSet(g, V) = SumFunctionOnSet(f, U)
    BY <2>4, <2>5, <2>6, Zenon
  <2> QED
    BY <2>6, <2>7
<1> HIDE DEF G
<1>3. \A U \in SUBSET S : U # {} /\ (\A x \in U : U \ {x} \in G) => U \in G
  BY <1>2
<1>4. \A U \in SUBSET S : U \in G
  BY <1>1, <1>3, FiniteInduction, Zenon
<1> QED
  BY <1>4 DEF G

-----------------------------------------------------------------------------
(***************************************************************************)
(* One value changed: the sum changes by the same amount.                  *)
(***************************************************************************)
LEMMA SumChange ==
  ASSUME NEW f, NEW g, NEW S, IsFiniteSet(S), NEW x \in S,
         \A y \in S : f[y] \in Int /\ g[y] \in Int,
         \A y \in S \ {x} : g[y] = f[y]
  PROVE  SumFunctionOnSet(g, S) = SumFunctionOnSet(f, S) - f[x] + g[x]
<1>1. IsFiniteSet(S \ {x})
  BY FS_Subset
<1>2. SumFunctionOnSet(f, S) = f[x] + SumFunctionOnSet(f, S \ {x})
  BY SumRemove
<1>3. SumFunctionOnSet(g, S) = g[x] + SumFunctionOnSet(g, S \ {x})
  BY SumRemove
<1>4. SumFunctionOnSet(f, S \ {x}) = SumFunctionOnSet(g, S \ {x})
  BY <1>1, SumSame
<1>5. SumFunctionOnSet(f, S \ {x}) \in Int
  BY <1>1, SumInt
<1> QED
  BY <1>2, <1>3, <1>4, <1>5

(***************************************************************************)
(* No value of natural numbers exceeds their sum.                          *)
(***************************************************************************)
LEMMA SumMember ==
  ASSUME NEW f, NEW S, IsFiniteSet(S), \A y \in S : f[y] \in Nat, NEW x \in S
  PROVE  f[x] <= SumFunctionOnSet(f, S)
<1>1. IsFiniteSet(S \ {x})
  BY FS_Subset
<1>2. SumFunctionOnSet(f, S) = f[x] + SumFunctionOnSet(f, S \ {x})
  BY SumRemove
<1>3. SumFunctionOnSet(f, S \ {x}) \in Nat
  BY <1>1, SumNat
<1> QED
  BY <1>2, <1>3

(***************************************************************************)
(* A sum grows with its values.                                            *)
(***************************************************************************)
LEMMA SumMonotone ==
  ASSUME NEW f, NEW g, NEW S, IsFiniteSet(S),
         \A x \in S : f[x] \in Int /\ g[x] \in Int /\ f[x] <= g[x]
  PROVE  SumFunctionOnSet(f, S) <= SumFunctionOnSet(g, S)
<1> DEFINE d == [x \in S |-> g[x] - f[x]]
<1>1. \A x \in S : d[x] \in Nat /\ d[x] \in Int /\ g[x] = f[x] + d[x]
  OBVIOUS
<1> HIDE DEF d
<1>2. SumFunctionOnSet(g, S) = SumFunctionOnSet(f, S) + SumFunctionOnSet(d, S)
  BY <1>1, SumPlus
<1>3. SumFunctionOnSet(d, S) \in Nat /\ SumFunctionOnSet(f, S) \in Int
  BY <1>1, SumNat, SumInt
<1> QED
  BY <1>2, <1>3

(***************************************************************************)
(* Indices with the value 0 do not count.                                  *)
(***************************************************************************)
LEMMA SumZero ==
  ASSUME NEW f, NEW S, IsFiniteSet(S), \A x \in S : f[x] = 0
  PROVE  SumFunctionOnSet(f, S) = 0
<1> DEFINE h == [x \in S |-> f[x] * 0]
<1>1. \A x \in S : f[x] \in Int /\ h[x] = f[x] * 0 /\ h[x] = f[x]
  OBVIOUS
<1> HIDE DEF h
<1>2. SumFunctionOnSet(h, S) = SumFunctionOnSet(f, S) * 0
  BY <1>1, SumScale
<1>3. SumFunctionOnSet(h, S) = SumFunctionOnSet(f, S)
  BY <1>1, SumSame
<1>4. SumFunctionOnSet(f, S) \in Int
  BY <1>1, SumInt
<1> QED
  BY <1>2, <1>3, <1>4

LEMMA SumSupport ==
  ASSUME NEW f, NEW S, IsFiniteSet(S), NEW T \in SUBSET S,
         \A x \in S : f[x] \in Int, \A x \in S \ T : f[x] = 0
  PROVE  SumFunctionOnSet(f, S) = SumFunctionOnSet(f, T)
<1>1. IsFiniteSet(T) /\ IsFiniteSet(S \ T)
  BY FS_Subset
<1>2. T \cup (S \ T) = S /\ T \cap (S \ T) = {}
  OBVIOUS
<1>3. SumFunctionOnSet(f, T \cup (S \ T))
        = SumFunctionOnSet(f, T) + SumFunctionOnSet(f, S \ T)
  BY <1>1, <1>2, SumDisjoint
<1>4. SumFunctionOnSet(f, S \ T) = 0 /\ SumFunctionOnSet(f, T) \in Int
  BY <1>1, SumZero, SumInt
<1>5. SumFunctionOnSet(f, S) = SumFunctionOnSet(f, T) + SumFunctionOnSet(f, S \ T)
  BY <1>2, <1>3, Zenon
<1> QED
  BY <1>4, <1>5

=============================================================================
