----------------------------- MODULE Recursion -----------------------------
(* What a recursive function  f[x \in Domain] == Def(f, x)  is, and induction  *)
(* over its domain.  A module that defines such a function instantiates this   *)
(* one with the function's domain, its body and a rank that the body descends  *)
(* on; the theorems below are then facts about that function.                  *)
EXTENDS Integers, FiniteSetTheorems, WellFoundedInduction, TLAPS

CONSTANTS
    Domain,      \* the arguments
    Rank(_),     \* a natural number for each of them
    Def(_, _)    \* the body: a function, an argument

\* Natural numbers are well founded: a set of them that is not empty has a least
\* element.
THEOREM LeastNatural ==
    ASSUME NEW S \in SUBSET Nat, S # {}
    PROVE  \E m \in S: \A n \in S: m <= n
<1> DEFINE R == StrictSubsetOrdering(Nat)
           F == FiniteSubsetsOf(Nat)
           Below(n) == 0..(n - 1)
           T == {Below(n): n \in S}
<1>1. IsWellFoundedOn(R, F)
  BY FS_StrictSubsetOrderingWellFounded
<1>2. T \subseteq F
  <2> SUFFICES ASSUME NEW n \in S PROVE Below(n) \in F
    OBVIOUS
  <2>1. IsFiniteSet(Below(n))
    BY FS_Interval
  <2>2. Below(n) \in SUBSET Nat
    OBVIOUS
  <2> QED
    BY <2>1, <2>2 DEF FiniteSubsetsOf
<1>3. T # {}
  OBVIOUS
<1>4. \A m, n \in S: n < m => <<Below(n), Below(m)>> \in R
  <2> SUFFICES ASSUME NEW m \in S, NEW n \in S, n < m
               PROVE  <<Below(n), Below(m)>> \in R
    OBVIOUS
  <2>1. /\ Below(n) \subseteq Below(m)
        /\ n \in Below(m) /\ n \notin Below(n)
        /\ Below(n) \in SUBSET Nat /\ Below(m) \in SUBSET Nat
    OBVIOUS
  <2> QED
    BY <2>1 DEF StrictSubsetOrdering
<1> HIDE DEF R, F
<1>5. \E x \in T: \A y \in T: <<y, x>> \notin R
  BY <1>1, <1>2, <1>3, WFMin
<1>6. PICK m \in S: \A n \in S: <<Below(n), Below(m)>> \notin R
  BY <1>5
<1>7. \A n \in S: ~(n < m)
  BY <1>4, <1>6
<1> QED
  BY <1>7

\* Induction over the domain, in the form in which the proofs use it: what fails for
\* some argument fails for one that no other undercuts.
THEOREM LeastRanked ==
    ASSUME \A x \in Domain: Rank(x) \in Nat,
           NEW S \in SUBSET Domain, S # {}
    PROVE  \E x \in S: \A y \in S: ~(Rank(y) < Rank(x))
<1>1. {Rank(x): x \in S} \in SUBSET Nat /\ {Rank(x): x \in S} # {}
  OBVIOUS
<1>2. PICK m \in {Rank(x): x \in S}: \A n \in {Rank(x): x \in S}: m <= n
  BY <1>1, LeastNatural
<1>3. PICK x \in S: m = Rank(x)
  BY <1>2
<1> QED
  BY <1>1, <1>2, <1>3

-----------------------------------------------------------------------------
(* Functions that satisfy the equation as far as a rank *)

\* The body asks the function only about arguments of a smaller rank.
Descends ==
    \A g, h: \A x \in Domain:
        (\A y \in Domain: Rank(y) < Rank(x) => g[y] = h[y]) => Def(g, x) = Def(h, x)

Upto(n) == {x \in Domain: Rank(x) < n}

Solves(g, n) == \A x \in Upto(n): g[x] = Def(g, x)

\* Two solutions agree as far as both go.
LEMMA SolutionsAgree ==
    ASSUME \A x \in Domain: Rank(x) \in Nat, Descends,
           NEW m \in Nat, NEW n \in Nat, m <= n,
           NEW g, NEW h, Solves(g, m), Solves(h, n)
    PROVE  \A x \in Upto(m): g[x] = h[x]
<1> SUFFICES ASSUME NEW z \in Upto(m), g[z] # h[z]
             PROVE  FALSE
  OBVIOUS
<1> DEFINE S == {x \in Upto(m): g[x] # h[x]}
<1>1. S \in SUBSET Domain /\ S # {}
  BY DEF Upto
<1>2. PICK x \in S: \A y \in S: ~(Rank(y) < Rank(x))
  BY <1>1, LeastRanked
<1>3. x \in Upto(m) /\ x \in Upto(n) /\ x \in Domain /\ Rank(x) \in Nat /\ Rank(x) < m
  BY DEF Upto
<1>4. ASSUME NEW y \in Domain, Rank(y) < Rank(x) PROVE g[y] = h[y]
  <2>1. y \in Upto(m)
    <3>1. Rank(y) \in Nat
      OBVIOUS
    <3> QED
      BY <1>3, <1>4, <3>1 DEF Upto
  <2> QED
    BY <1>2, <1>4, <2>1
<1>5. Def(g, x) = Def(h, x)
  BY <1>3, <1>4 DEF Descends
<1> QED
  BY <1>3, <1>5 DEF Solves

\* There is a solution as far as any rank.
LEMMA SolutionsExist ==
    ASSUME \A x \in Domain: Rank(x) \in Nat, Descends,
           NEW n \in Nat
    PROVE  \E g: Solves(g, n)
<1> DEFINE S == {k \in Nat: ~\E g: Solves(g, k)}
<1> SUFFICES ASSUME S # {} PROVE FALSE
  OBVIOUS
<1>1. PICK k \in S: \A j \in S: k <= j
  <2>1. S \in SUBSET Nat
    OBVIOUS
  <2> QED
    BY <2>1, LeastNatural
<1>2. k # 0
  <2>1. Upto(0) = {}
    BY DEF Upto
  <2> QED
    BY <2>1 DEF Solves
<1>3. k - 1 \in Nat /\ k - 1 \notin S
  BY <1>1, <1>2
<1>4. PICK g: Solves(g, k - 1)
  BY <1>3
<1> DEFINE h == [x \in Upto(k) |-> Def(g, x)]
<1>5. ASSUME NEW x \in Upto(k) PROVE h[x] = Def(h, x)
  <2>1. x \in Domain /\ Rank(x) \in Nat /\ Rank(x) < k
    BY DEF Upto
  <2>2. ASSUME NEW y \in Domain, Rank(y) < Rank(x) PROVE g[y] = h[y]
    <3>1. Rank(y) \in Nat /\ Rank(y) < k - 1 /\ Rank(y) < k
      BY <2>1, <2>2, <1>3
    <3>2. y \in Upto(k - 1) /\ y \in Upto(k)
      BY <3>1 DEF Upto
    <3> QED
      BY <1>4, <3>2 DEF Solves
  <2> HIDE DEF h
  <2>3. Def(g, x) = Def(h, x)
    BY <2>1, <2>2 DEF Descends
  <2> QED
    BY <2>3 DEF h
<1>6. Solves(h, k)
  BY <1>5 DEF Solves
<1> QED
  BY <1>1, <1>6

\* What TLA+ means by the definition is a CHOOSE: it is a function on the domain that
\* satisfies its own equation, provided that the body descends.
THEOREM RecursiveFunction ==
    ASSUME \A x \in Domain: Rank(x) \in Nat, Descends,
           NEW f, f = CHOOSE g: g = [x \in Domain |-> Def(g, x)]
    PROVE  f = [x \in Domain |-> Def(f, x)]
<1> DEFINE S(n) == CHOOSE g: Solves(g, n)
           h == [x \in Domain |-> Def(S(Rank(x)), x)]
<1>1. \A n \in Nat: Solves(S(n), n)
  BY SolutionsExist
<1> HIDE DEF S
<1>2. ASSUME NEW x \in Domain PROVE h[x] = Def(h, x)
  <2>1. ASSUME NEW y \in Domain, Rank(y) < Rank(x) PROVE S(Rank(x))[y] = h[y]
    <3>1. Rank(x) \in Nat /\ Rank(y) \in Nat /\ Rank(y) <= Rank(x)
      BY <2>1
    <3>2. S(Rank(x))[y] = Def(S(Rank(x)), y)
      BY <1>1, <2>1, <3>1 DEF Solves, Upto
    <3>3. \A z \in Upto(Rank(y)): S(Rank(y))[z] = S(Rank(x))[z]
      BY <1>1, <3>1, SolutionsAgree
    <3>4. Def(S(Rank(x)), y) = Def(S(Rank(y)), y)
      BY <3>3 DEF Descends, Upto
    <3> QED
      BY <3>2, <3>4
  <2> HIDE DEF h
  <2>2. Def(S(Rank(x)), x) = Def(h, x)
    BY <2>1 DEF Descends
  <2> QED
    BY <2>2 DEF h
<1>3. h = [x \in Domain |-> Def(h, x)]
  BY <1>2
<1> HIDE DEF h
<1> QED
  BY <1>3
=============================================================================
