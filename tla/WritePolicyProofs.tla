--------------------------- MODULE WritePolicyProofs ---------------------------
(***************************************************************************)
(* What the rules of WritePolicy compute, for any number of aliases of one *)
(* company and journal entries of any length.  Both are recursive: that    *)
(* the recursion defines a function, and what it computes, is shown from a *)
(* least set, or a least number, for which it would not.                   *)
(***************************************************************************)
EXTENDS WritePolicy, FiniteSetTheorems, WellFoundedInduction, TLAPS

\* A set of finite sets has a member without a smaller one.
LEMMA SmallestSet ==
    ASSUME NEW S, IsFiniteSet(S), NEW Bad \in SUBSET SUBSET S, Bad # {}
    PROVE  \E U \in Bad : \A V \in Bad : V \subseteq U => V = U
<1>1. Bad \subseteq FiniteSubsetsOf(S)
    BY FS_Subset DEF FiniteSubsetsOf
<1>2. PICK U \in Bad : \A V \in Bad : ~(<<V, U>> \in StrictSubsetOrdering(S))
    BY <1>1, FS_StrictSubsetOrderingWellFounded, WFMin
<1>3. ASSUME NEW V \in Bad, V \subseteq U, V # U PROVE FALSE
    BY <1>2, <1>3 DEF StrictSubsetOrdering
<1> QED
    BY <1>3

\* A set of numbers up to n has a least one.
LEMMA SmallestNumber ==
    ASSUME NEW n \in Nat, NEW Bad \in SUBSET (0..n), Bad # {}
    PROVE  \E m \in Bad : \A k \in Bad : m <= k
<1> DEFINE T == {0..k : k \in Bad}
<1>1. IsFiniteSet(0..n)
    BY FS_Interval
<1>2. PICK U \in T : \A V \in T : V \subseteq U => V = U
  <2>1. T \in SUBSET SUBSET (0..n)
    <3>1. \A k \in Bad : 0..k \in SUBSET (0..n)
        OBVIOUS
    <3> QED
        BY <3>1
  <2>2. T # {}
      OBVIOUS
  <2> DEFINE R == 0..n
  <2>3. IsFiniteSet(R) /\ T \in SUBSET SUBSET R
      BY <1>1, <2>1
  <2> HIDE DEF T, R
  <2> QED
      BY <2>2, <2>3, SmallestSet
<1>3. PICK m \in Bad : U = 0..m
    BY <1>2
<1>4. ASSUME NEW k \in Bad, ~(m <= k) PROVE FALSE
  <2>1. k \in Nat /\ m \in Nat /\ k < m
      BY <1>4
  <2>2. 0..k \subseteq 0..m /\ m \in 0..m /\ m \notin 0..k
      BY <2>1
  <2> QED
      BY <1>2, <1>3, <2>2
<1> QED
    BY <1>4
-----------------------------------------------------------------------------
(* The merge of the rules of several slugs. *)

Merging(f, p, s, T) ==
    IF T = {} THEN RulesOf(p, s)
    ELSE LET t == CHOOSE x \in T : TRUE
         IN  Stricter(f[T \ {t}], RulesOf(p, t))

Merges(f, p, s, S) == f = [T \in SUBSET S |-> Merging(f, p, s, T)]

\* Two merges agree where both are defined.
LEMMA MergesAgree ==
    ASSUME NEW p, NEW s, NEW S, NEW T \in SUBSET S, IsFiniteSet(T), NEW f, NEW g,
           Merges(f, p, s, S), Merges(g, p, s, T)
    PROVE  \A U \in SUBSET T : f[U] = g[U]
<1> DEFINE Bad == {U \in SUBSET T : f[U] # g[U]}
<1> SUFFICES ASSUME Bad # {} PROVE FALSE
    OBVIOUS
<1>1. PICK U \in Bad : \A V \in Bad : V \subseteq U => V = U
  <2>1. Bad \in SUBSET SUBSET T
      OBVIOUS
  <2> HIDE DEF Bad
  <2> QED
      BY <2>1, SmallestSet
<1>2. f[U] = Merging(f, p, s, U) /\ g[U] = Merging(g, p, s, U)
  <2>1. U \in SUBSET T /\ U \in SUBSET S
      OBVIOUS
  <2>2. \A V \in SUBSET S : f[V] = Merging(f, p, s, V)
      BY DEF Merges
  <2>3. \A V \in SUBSET T : g[V] = Merging(g, p, s, V)
      BY DEF Merges
  <2> QED
      BY <2>1, <2>2, <2>3
<1>3. CASE U = {}
    BY <1>1, <1>2, <1>3 DEF Merging
<1>4. CASE U # {}
  <2> DEFINE t == CHOOSE x \in U : TRUE
  <2>1. t \in U
      BY <1>4
  <2> HIDE DEF t
  <2>2. U \ {t} \in SUBSET T /\ U \ {t} # U
      BY <2>1
  <2>3. f[U \ {t}] = g[U \ {t}]
      BY <1>1, <2>2
  <2> QED
      BY <1>1, <1>2, <1>4, <2>3 DEF Merging, t
<1> QED
    BY <1>3, <1>4

\* The recursion of Effective defines a merge.
LEMMA MergesExist ==
    ASSUME NEW p, NEW s, NEW S, IsFiniteSet(S)
    PROVE  \E f : Merges(f, p, s, S)
<1> DEFINE Bad == {U \in SUBSET S : ~\E f : Merges(f, p, s, U)}
           M(U) == CHOOSE f : Merges(f, p, s, U)
<1> SUFFICES ASSUME Bad # {} PROVE FALSE
    OBVIOUS
<1>1. PICK U \in Bad : \A V \in Bad : V \subseteq U => V = U
  <2>1. Bad \in SUBSET SUBSET S
      OBVIOUS
  <2> HIDE DEF Bad
  <2> QED
      BY <2>1, SmallestSet
<1>2. ASSUME NEW V \in SUBSET U, V # U PROVE Merges(M(V), p, s, V) /\ IsFiniteSet(V)
  <2>1. V \notin Bad /\ V \in SUBSET S
      BY <1>1, <1>2
  <2>2. \E f : Merges(f, p, s, V)
      BY <2>1
  <2>3. IsFiniteSet(V)
      BY <2>1, FS_Subset
  <2> QED
      BY <2>2, <2>3
<1>3. ASSUME NEW V \in SUBSET U, V # U, NEW W \in SUBSET V PROVE M(V)[W] = M(W)[W]
  <2>1. W \in SUBSET U /\ W # U
      BY <1>3
  <2>2. Merges(M(V), p, s, V) /\ Merges(M(W), p, s, W) /\ IsFiniteSet(W)
      BY <1>2, <1>3, <2>1
  <2> HIDE DEF M
  <2> QED
      BY <2>2, MergesAgree
<1> DEFINE f == [T \in SUBSET U |->
                    IF T = {} THEN RulesOf(p, s)
                    ELSE LET t == CHOOSE x \in T : TRUE
                         IN  Stricter(M(T \ {t})[T \ {t}], RulesOf(p, t))]
<1>4. ASSUME NEW V \in SUBSET U, V # U PROVE f[V] = M(V)[V]
  <2>1. M(V)[V] = Merging(M(V), p, s, V)
    <3>1. Merges(M(V), p, s, V)
        BY <1>2, <1>4
    <3> HIDE DEF M
    <3>2. M(V) = [T \in SUBSET V |-> Merging(M(V), p, s, T)]
        BY <3>1 DEF Merges
    <3>3. V \in SUBSET V
        OBVIOUS
    <3> QED
        BY <3>2, <3>3
  <2>2. CASE V = {}
      BY <2>1, <2>2 DEF Merging
  <2>3. CASE V # {}
    <3> DEFINE v == CHOOSE x \in V : TRUE
    <3>1. v \in V
        BY <2>3
    <3>2. f[V] = Stricter(M(V \ {v})[V \ {v}], RulesOf(p, v))
        BY <1>4, <2>3
    <3> HIDE DEF v, f
    <3>3. M(V)[V \ {v}] = M(V \ {v})[V \ {v}]
      <4>1. V \ {v} \in SUBSET V
          OBVIOUS
      <4> HIDE DEF M
      <4> QED
          BY <1>3, <1>4, <4>1
    <3> HIDE DEF M
    <3> QED
        BY <2>1, <2>3, <3>2, <3>3 DEF Merging, v
  <2> QED
      BY <2>2, <2>3
<1>5. Merges(f, p, s, U)
  <2>1. ASSUME NEW T \in SUBSET U
        PROVE  (IF T = {} THEN RulesOf(p, s)
                ELSE LET t == CHOOSE x \in T : TRUE
                     IN  Stricter(M(T \ {t})[T \ {t}], RulesOf(p, t))) = Merging(f, p, s, T)
    <3>1. CASE T = {}
        BY <3>1 DEF Merging
    <3>2. CASE T # {}
      <4> DEFINE t == CHOOSE x \in T : TRUE
      <4>1. t \in T
          BY <3>2
      <4> HIDE DEF t
      <4>2. T \ {t} \in SUBSET U /\ T \ {t} # U
          BY <4>1
      <4> HIDE DEF f, M
      <4>3. f[T \ {t}] = M(T \ {t})[T \ {t}]
          BY <1>4, <4>2
      <4> QED
          BY <3>2, <4>3 DEF Merging, t
    <3> QED
        BY <3>1, <3>2
  <2> HIDE DEF M
  <2> QED
      BY <2>1 DEF Merges
<1> QED
    BY <1>1, <1>5

\* Effective is the last value of such a merge.
LEMMA EffectiveMerges ==
    ASSUME NEW p, NEW s, NEW S, IsFiniteSet(S)
    PROVE  \E f : Merges(f, p, s, S) /\ Effective(p, s, S) = f[S]
<1> DEFINE f == CHOOSE g : Merges(g, p, s, S)
<1>1. Merges(f, p, s, S)
    BY MergesExist
<1>2. Effective(p, s, S) = f[S]
    BY DEF Effective, Merges, Merging
<1> QED
    BY <1>1, <1>2
-----------------------------------------------------------------------------
(* What a merge permits. *)

\* What a slug's rules are.
LEMMA RulesOfTypes ==
    ASSUME NEW p \in Policy, NEW s \in Slug
    PROVE  RulesOf(p, s) \in Rules
    BY DEF RulesOf, Override, Policy, Rules

\* mergeStrictest gives rules, and permits nothing that one of the two refuses.
LEMMA StricterTypes ==
    ASSUME NEW x \in Rules, NEW y \in Rules
    PROVE  Stricter(x, y) \in Rules
    BY DEF Stricter, StricterCap, Rules

LEMMA StricterPermitsLess ==
    ASSUME NEW x \in Rules, NEW y \in Rules, NEW entry, NEW dated,
           WriteAmount(entry.lines) \in Nat, entry.date \in Nat,
           Allows(Stricter(x, y), entry, dated)
    PROVE  Allows(x, entry, dated) /\ Allows(y, entry, dated)
<1> DEFINE z == Stricter(x, y)
           amount == WriteAmount(entry.lines)
<1>1. x.read_only # "locked" /\ y.read_only # "locked"
    BY DEF Stricter, Allows, Rules
<1>2. z.cap = StricterCap(x.cap, y.cap) /\ (z.cap = 0 \/ amount <= z.cap)
    BY DEF Stricter, Allows
<1>3. z.floor = IF y.floor > x.floor THEN y.floor ELSE x.floor
    BY DEF Stricter
<1>4. z.floor = 0 \/ entry.date >= z.floor \/ (entry.date = 0 /\ ~dated)
    BY DEF Allows
<1>5. x.cap \in Nat /\ y.cap \in Nat /\ x.floor \in Nat /\ y.floor \in Nat
    BY DEF Rules
<1> HIDE DEF z, amount
<1>6. amount \in Nat
    BY DEF amount
<1>7. (x.cap = 0 \/ amount <= x.cap) /\ (y.cap = 0 \/ amount <= y.cap)
    BY <1>2, <1>5, <1>6 DEF StricterCap
<1>8. /\ x.floor = 0 \/ entry.date >= x.floor \/ (entry.date = 0 /\ ~dated)
      /\ y.floor = 0 \/ entry.date >= y.floor \/ (entry.date = 0 /\ ~dated)
    BY <1>3, <1>4, <1>5
<1> QED
    BY <1>1, <1>7, <1>8 DEF Allows, amount
-----------------------------------------------------------------------------
(* The amount of an entry. *)

Summed(f, lines, posting, k) ==
    IF k = 0 THEN 0
    ELSE f[k - 1] + IF lines[k].posting = posting THEN lines[k].amount ELSE 0

Sums(f, lines, posting, n) == f = [k \in 0..n |-> Summed(f, lines, posting, k)]

\* The recursion of WriteAmount adds the lines up.
LEMMA SumsExist ==
    ASSUME NEW lines, NEW posting, NEW n \in Nat
    PROVE  \E f : Sums(f, lines, posting, n)
<1> DEFINE Bad == {k \in 0..n : ~\E f : Sums(f, lines, posting, k)}
<1> SUFFICES ASSUME Bad # {} PROVE FALSE
  <2>1. n \in 0..n
      OBVIOUS
  <2> QED
      BY <2>1
<1>1. PICK m \in Bad : \A k \in Bad : m <= k
  <2>1. Bad \in SUBSET (0..n)
      OBVIOUS
  <2> HIDE DEF Bad
  <2> QED
      BY <2>1, SmallestNumber
<1>2. m \in 0..n /\ ~\E f : Sums(f, lines, posting, m)
    BY <1>1
<1>3. CASE m = 0
  <2> DEFINE f == [k \in 0..0 |-> 0]
  <2>1. Sums(f, lines, posting, 0)
      BY DEF Sums, Summed
  <2> QED
      BY <1>2, <1>3, <2>1
<1>4. CASE m # 0
  <2>1. m - 1 \in 0..n /\ ~(m <= m - 1)
      BY <1>2, <1>4
  <2>2. PICK g : Sums(g, lines, posting, m - 1)
      BY <1>1, <2>1
  <2> DEFINE f == [k \in 0..m |-> IF k = m THEN Summed(g, lines, posting, m) ELSE g[k]]
  <2>3. \A k \in 0..(m - 1) : f[k] = g[k]
      BY <1>2, <1>4
  <2>4. ASSUME NEW k \in 0..m
        PROVE  (IF k = m THEN Summed(g, lines, posting, m) ELSE g[k])
                  = Summed(f, lines, posting, k)
    <3> HIDE DEF f
    <3>1. CASE k = m
      <4>1. f[m - 1] = g[m - 1]
          BY <1>2, <1>4, <2>3
      <4> QED
          BY <1>4, <3>1, <4>1 DEF Summed
    <3>2. CASE k # m
      <4>1. k \in 0..(m - 1)
          BY <1>2, <3>2
      <4>2. g[k] = Summed(g, lines, posting, k)
          BY <2>2, <4>1 DEF Sums
      <4>3. k = 0 \/ f[k - 1] = g[k - 1]
          BY <1>2, <2>3, <4>1
      <4> QED
          BY <3>2, <4>2, <4>3 DEF Summed
    <3> QED
        BY <3>1, <3>2
  <2>5. Sums(f, lines, posting, m)
      BY <2>4 DEF Sums
  <2> QED
      BY <1>2, <2>5
<1> QED
    BY <1>3, <1>4

Lines == Seq([posting : {"Debit", "Credit"}, amount : Nat])

LEMMA SumsTypes ==
    ASSUME NEW lines \in Lines, NEW posting, NEW f, Sums(f, lines, posting, Len(lines))
    PROVE  f[Len(lines)] \in Nat
<1> DEFINE n == Len(lines)
           Bad == {k \in 0..n : f[k] \notin Nat}
<1>0. n \in Nat
    BY DEF Lines
<1> SUFFICES ASSUME Bad # {} PROVE FALSE
  <2>1. n \in 0..n
      BY <1>0
  <2> QED
      BY <2>1
<1>1. PICK m \in Bad : \A k \in Bad : m <= k
  <2>1. Bad \in SUBSET (0..n)
      OBVIOUS
  <2> HIDE DEF Bad, n
  <2> QED
      BY <1>0, <2>1, SmallestNumber
<1>2. m \in 0..n /\ f[m] \notin Nat
    BY <1>1
<1>3. f[m] = Summed(f, lines, posting, m)
    BY <1>2 DEF Sums
<1>4. m # 0
    BY <1>2, <1>3 DEF Summed
<1>5. m - 1 \in 0..n /\ ~(m <= m - 1)
    BY <1>0, <1>2, <1>4
<1>6. f[m - 1] \in Nat
    BY <1>1, <1>5
<1>7. lines[m].amount \in Nat
  <2> DEFINE Line == [posting : {"Debit", "Credit"}, amount : Nat]
  <2>1. m \in 1..Len(lines) /\ lines \in Seq(Line)
      BY <1>0, <1>2, <1>4 DEF Lines
  <2> HIDE DEF Line
  <2>2. lines[m] \in Line
      BY <2>1
  <2> QED
      BY <2>2 DEF Line
<1> QED
    BY <1>2, <1>3, <1>4, <1>6, <1>7 DEF Summed

\* The amount the cap is compared with is a number.
LEMMA WriteAmountTypes ==
    ASSUME NEW lines \in Lines
    PROVE  WriteAmount(lines) \in Nat
<1> DEFINE Side(posting) == CHOOSE f : Sums(f, lines, posting, Len(lines))
           debit == Side("Debit")[Len(lines)]
           credit == Side("Credit")[Len(lines)]
<1>1. Len(lines) \in Nat
    BY DEF Lines
<1>2. ASSUME NEW posting PROVE Side(posting)[Len(lines)] \in Nat
  <2>1. Sums(Side(posting), lines, posting, Len(lines))
      BY <1>1, SumsExist
  <2> HIDE DEF Side
  <2> QED
      BY <2>1, SumsTypes
<1>3. WriteAmount(lines) = IF debit > credit THEN debit ELSE credit
    BY DEF WriteAmount, Sums, Summed
<1>4. debit \in Nat /\ credit \in Nat
    BY <1>2
<1> QED
    BY <1>3, <1>4
-----------------------------------------------------------------------------
\* Whatever name a write uses, the merged rules permit nothing that the rules of any name
\* of the same books refuse: an alias without rules, with a higher cap or an earlier date
\* floor loosens nothing (policyFor, mergeStrictest, checkWritePolicy).
THEOREM StrictestWins ==
    ASSUME NEW p \in Policy, NEW s \in Slug, NEW siblings \in SUBSET Slug, NEW dated,
           NEW entry \in [lines : Lines, date : Nat],
           Allows(Effective(p, s, siblings), entry, dated)
    PROVE  \A t \in siblings : Allows(RulesOf(p, t), entry, dated)
<1>0. IsFiniteSet(siblings) /\ WriteAmount(entry.lines) \in Nat /\ entry.date \in Nat
    BY WritePolicyAssumption, FS_Subset, WriteAmountTypes
<1>1. PICK f : Merges(f, p, s, siblings) /\ Effective(p, s, siblings) = f[siblings]
    BY <1>0, EffectiveMerges
<1> DEFINE Fine(T) == /\ f[T] \in Rules
                      /\ Allows(f[T], entry, dated) =>
                             \A t \in T : Allows(RulesOf(p, t), entry, dated)
           Bad == {T \in SUBSET siblings : ~Fine(T)}
<1>2. Bad = {}
  <2> SUFFICES ASSUME Bad # {} PROVE FALSE
      OBVIOUS
  <2>1. PICK U \in Bad : \A V \in Bad : V \subseteq U => V = U
    <3>1. Bad \in SUBSET SUBSET siblings
        OBVIOUS
    <3> HIDE DEF Bad
    <3> QED
        BY <1>0, <3>1, SmallestSet
  <2>2. f[U] = Merging(f, p, s, U) /\ U \in SUBSET siblings /\ ~Fine(U)
    <3>1. \A T \in SUBSET siblings : f[T] = Merging(f, p, s, T)
        BY <1>1 DEF Merges
    <3> QED
        BY <2>1, <3>1
  <2>3. CASE U = {}
      BY <2>2, <2>3, RulesOfTypes DEF Merging
  <2>4. CASE U # {}
    <3> DEFINE u == CHOOSE x \in U : TRUE
               V == U \ {u}
    <3>1. u \in U /\ u \in Slug
        BY <2>2, <2>4
    <3>2. f[U] = Stricter(f[V], RulesOf(p, u))
        BY <2>2, <2>4 DEF Merging
    <3> HIDE DEF u
    <3>3. V \in SUBSET siblings /\ V # U /\ V \subseteq U
        BY <2>2, <3>1
    <3>4. Fine(V)
        BY <2>1, <3>3
    <3>5. RulesOf(p, u) \in Rules
        BY <3>1, RulesOfTypes
    <3>6. U = V \cup {u}
        BY <3>1
    <3> HIDE DEF V
    <3>7. f[U] \in Rules
        BY <3>2, <3>4, <3>5, StricterTypes
    <3>8. Allows(f[U], entry, dated) =>
              Allows(f[V], entry, dated) /\ Allows(RulesOf(p, u), entry, dated)
        BY <1>0, <3>2, <3>4, <3>5, StricterPermitsLess
    <3> QED
        BY <2>2, <3>4, <3>6, <3>7, <3>8
  <2> QED
      BY <2>3, <2>4
<1>3. Fine(siblings)
    BY <1>2
<1> QED
    BY <1>1, <1>3
=============================================================================
