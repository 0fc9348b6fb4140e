-------------------------- MODULE BookkeepingProofs --------------------------
(***************************************************************************)
(* Proofs about Bookkeeping, for any documents, payments, amounts, days    *)
(* and statements.  MoneyInv is the inductive invariant; MatchOptimal and  *)
(* TieOutExact follow from the types of any state.                         *)
(*                                                                         *)
(* What recursive definitions compute is proved by the least-number        *)
(* principle: NatInduct and FiniteInduct take a set in place of a          *)
(* predicate, and Iterates says that a recursive function exists, so that  *)
(* its definition may be unfolded.                                         *)
(***************************************************************************)
EXTENDS Bookkeeping, FiniteSetTheorems, WellFoundedInduction, TLAPS
-----------------------------------------------------------------------------
(* Induction, and sums over finite sets. *)

\* A set of naturals has a least member.
LEMMA LeastNat ==
  ASSUME NEW T \in SUBSET Nat, T # {}
  PROVE  \E x \in T : \A y \in T : x <= y
<1>1. IsWellFoundedOn(OpToRel(<, Nat), Nat)
  BY NatLessThanWellFounded
<1>2. PICK x \in T : \A y \in T : ~(<<y, x>> \in OpToRel(<, Nat))
  BY <1>1, WFMin
<1>3. \A y \in T : ~(y < x)
  BY <1>2 DEF OpToRel
<1> QED
  BY <1>3

\* Induction over the naturals, for a set instead of a predicate.
LEMMA NatInduct ==
  ASSUME NEW C, 0 \in C, \A n \in Nat : n \in C => n + 1 \in C
  PROVE  \A n \in Nat : n \in C
<1> DEFINE D == {n \in Nat : n \notin C}
<1> SUFFICES ASSUME D # {}
             PROVE  FALSE
  OBVIOUS
<1>1. PICK x \in D : \A y \in D : x <= y
  BY LeastNat
<1>2. x # 0 /\ x \in Nat /\ x - 1 \in Nat
  OBVIOUS
<1>3. x - 1 \in C
  BY <1>1, <1>2
<1>4. (x - 1) + 1 \in C
  BY <1>2, <1>3
<1> QED
  BY <1>2, <1>4

\* What is used of finite sets again and again.
LEMMA FiniteParts ==
  ASSUME NEW S, IsFiniteSet(S), NEW T \in SUBSET S
  PROVE  /\ IsFiniteSet(T)
         /\ Cardinality(T) \in Nat
         /\ Cardinality(T) <= Cardinality(S)
         /\ Cardinality(T) = 0 <=> T = {}
         /\ \A x \in T : /\ Cardinality(T \ {x}) \in Nat
                         /\ Cardinality(T \ {x}) = Cardinality(T) - 1
<1>1. IsFiniteSet(T) /\ Cardinality(T) <= Cardinality(S)
  BY FS_Subset
<1>2. Cardinality(T) \in Nat
  BY <1>1, FS_CardinalityType
<1>3. ASSUME NEW x \in T
      PROVE  Cardinality(T \ {x}) \in Nat /\ Cardinality(T \ {x}) = Cardinality(T) - 1
  <2>1. /\ IsFiniteSet(T \ {x})
        /\ Cardinality(T \ {x}) = IF x \in T THEN Cardinality(T) - 1 ELSE Cardinality(T)
    BY <1>1, FS_RemoveElement
  <2> QED
    BY <2>1, FS_CardinalityType
<1> QED
  BY <1>1, <1>2, <1>3, FS_EmptySet

\* Induction over the subsets of a finite set.
LEMMA FiniteInduct ==
  ASSUME NEW S, IsFiniteSet(S), NEW C, {} \in C,
         \A T \in SUBSET S : \A x \in S : T \in C /\ x \notin T => T \cup {x} \in C
  PROVE  S \in C
<1> DEFINE N == {n \in Nat : \A T \in SUBSET S : Cardinality(T) = n => T \in C}
<1>1. \A T \in SUBSET S : IsFiniteSet(T) /\ Cardinality(T) \in Nat
  BY FiniteParts
<1>2. 0 \in N
  BY <1>1, FS_EmptySet
<1>3. ASSUME NEW n \in Nat, n \in N
      PROVE  n + 1 \in N
  <2> SUFFICES ASSUME NEW T \in SUBSET S, Cardinality(T) = n + 1
               PROVE  T \in C
    OBVIOUS
  <2>0. T # {}
    BY <1>1, FS_EmptySet
  <2>1. PICK x \in T : TRUE
    BY <2>0
  <2>2. Cardinality(T \ {x}) = n
    BY <1>1, <2>1, FiniteParts
  <2>3. T \ {x} \in C
    BY <1>3, <2>2
  <2>4. (T \ {x}) \cup {x} = T
    BY <2>1
  <2> QED
    BY <2>1, <2>3, <2>4
<1> HIDE DEF N
<1>4. Cardinality(S) \in N
  BY <1>1, <1>2, <1>3, NatInduct
<1> QED
  BY <1>4 DEF N

\* The member the fold takes first.
Pick(s) == CHOOSE x \in s : TRUE

Adds(it, f, D) == it = [s \in D |-> IF s = {} THEN 0 ELSE f[Pick(s)] + it[s \ {Pick(s)}]]

\* The community module's fold is the function that adds one member after another.
LEMMA SumFunctionOnSetDef ==
  ASSUME NEW f, NEW S
  PROVE  SumFunctionOnSet(f, S) = (CHOOSE it : Adds(it, f, SUBSET S))[S]
BY Zenon DEF SumFunctionOnSet, FoldFunctionOnSet, MapThenFoldSet, Adds, Pick

\* There is a function that adds the members of every subset one after another.
LEMMA AddsExists ==
  ASSUME NEW f, NEW S, IsFiniteSet(S)
  PROVE  \E it : Adds(it, f, SUBSET S)
<1> DEFINE D(n) == {s \in SUBSET S : Cardinality(s) <= n}
           C == {n \in Nat : \E it : Adds(it, f, D(n))}
<1>1. \A T \in SUBSET S : IsFiniteSet(T) /\ Cardinality(T) \in Nat
  BY FiniteParts
<1>2. 0 \in C
  <2>1. D(0) = {{}}
    BY <1>1, FS_EmptySet
  <2>2. Adds([s \in {{}} |-> 0], f, {{}})
    BY DEF Adds
  <2> QED
    BY <2>1, <2>2
<1>3. ASSUME NEW n \in Nat, n \in C
      PROVE  n + 1 \in C
  <2>1. PICK it : Adds(it, f, D(n))
    BY <1>3
  <2> DEFINE jt == [s \in D(n + 1) |-> IF s = {} THEN 0 ELSE f[Pick(s)] + it[s \ {Pick(s)}]]
  <2>2. \A s \in D(n) : s \in D(n + 1) /\ jt[s] = it[s]
    <3> SUFFICES ASSUME NEW s \in D(n)
                 PROVE  s \in D(n + 1) /\ jt[s] = it[s]
      OBVIOUS
    <3>1. s \in D(n + 1)
      BY <1>1
    <3>2. it[s] = IF s = {} THEN 0 ELSE f[Pick(s)] + it[s \ {Pick(s)}]
      <4> HIDE DEF D
      <4> QED
        BY <2>1 DEF Adds
    <3> HIDE DEF D
    <3> QED
      BY <3>1, <3>2
  <2>3. \A s \in D(n + 1) : s # {} => s \ {Pick(s)} \in D(n)
    <3> SUFFICES ASSUME NEW s \in D(n + 1), s # {}
                 PROVE  s \ {Pick(s)} \in D(n)
      OBVIOUS
    <3>1. Pick(s) \in s
      BY DEF Pick
    <3>2. Cardinality(s \ {Pick(s)}) = Cardinality(s) - 1
      BY <1>1, <3>1, FiniteParts
    <3> QED
      BY <1>1, <3>2
  <2>4. \A s \in D(n + 1) : s # {} => jt[s \ {Pick(s)}] = it[s \ {Pick(s)}]
    BY <2>2, <2>3
  <2>5. Adds(jt, f, D(n + 1))
    <3> HIDE DEF D
    <3> QED
      BY <2>4 DEF Adds
  <2> HIDE DEF jt, D
  <2> QED
    BY <2>5
<1> HIDE DEF C
<1>4. Cardinality(S) \in C
  BY <1>1, <1>2, <1>3, NatInduct
<1>5. D(Cardinality(S)) = SUBSET S
  BY FS_Subset, <1>1
<1> QED
  BY <1>4, <1>5 DEF C

\* Two such functions agree, so the fold is one of them.
LEMMA AddsAgree ==
  ASSUME NEW f, NEW S, IsFiniteSet(S), NEW T \in SUBSET S,
         NEW it, Adds(it, f, SUBSET S), NEW jt, Adds(jt, f, SUBSET T)
  PROVE  jt[T] = it[T]
<1> DEFINE C == {n \in Nat : \A s \in SUBSET T : Cardinality(s) = n => jt[s] = it[s]}
<1>1. \A s \in SUBSET T : s \in SUBSET S /\ IsFiniteSet(s) /\ Cardinality(s) \in Nat
  BY FiniteParts
<1>2. 0 \in C
  BY <1>1, FS_EmptySet DEF Adds
<1>3. ASSUME NEW n \in Nat, n \in C
      PROVE  n + 1 \in C
  <2> SUFFICES ASSUME NEW s \in SUBSET T, Cardinality(s) = n + 1
               PROVE  jt[s] = it[s]
    OBVIOUS
  <2>1. s # {}
    BY FS_EmptySet
  <2>2. Pick(s) \in s
    BY <2>1 DEF Pick
  <2>3. Cardinality(s \ {Pick(s)}) = n
    BY <1>1, <2>2, FiniteParts
  <2>4. jt[s \ {Pick(s)}] = it[s \ {Pick(s)}]
    BY <1>3, <2>3
  <2> QED
    BY <1>1, <2>1, <2>4 DEF Adds
<1> HIDE DEF C
<1>4. Cardinality(T) \in C
  BY <1>1, <1>2, <1>3, NatInduct
<1> QED
  BY <1>4 DEF C

\* A sum over no elements, and over one and the others.
LEMMA SumEmpty ==
  ASSUME NEW f
  PROVE  SumFunctionOnSet(f, {}) = 0
<1>1. PICK it : Adds(it, f, SUBSET {})
  BY AddsExists, FS_EmptySet
<1>2. Adds(CHOOSE jt : Adds(jt, f, SUBSET {}), f, SUBSET {})
  BY <1>1
<1> QED
  BY <1>2, SumFunctionOnSetDef DEF Adds

\* A sum is its first member and the sum of the rest.
LEMMA SumPick ==
  ASSUME NEW f, NEW S, IsFiniteSet(S), S # {}
  PROVE  SumFunctionOnSet(f, S) = f[Pick(S)] + SumFunctionOnSet(f, S \ {Pick(S)})
<1> DEFINE T == S \ {Pick(S)}
           it == CHOOSE jt : Adds(jt, f, SUBSET S)
           kt == CHOOSE jt : Adds(jt, f, SUBSET T)
<1>1. IsFiniteSet(T) /\ T \in SUBSET S
  BY FS_Subset
<1>2. Adds(it, f, SUBSET S)
  BY AddsExists
<1>3. Adds(kt, f, SUBSET T)
  BY AddsExists, <1>1
<1>4. kt[T] = it[T]
  BY <1>1, <1>2, <1>3, AddsAgree
<1>5. it[S] = f[Pick(S)] + it[T]
  BY <1>2 DEF Adds
<1> QED
  BY <1>4, <1>5, SumFunctionOnSetDef

\* A sum of integers is an integer.
LEMMA SumType ==
  ASSUME NEW S, IsFiniteSet(S), NEW f, \A x \in S : f[x] \in Int
  PROVE  SumFunctionOnSet(f, S) \in Int
<1> DEFINE C == {n \in Nat : \A T \in SUBSET S :
                                Cardinality(T) = n => SumFunctionOnSet(f, T) \in Int}
<1>1. \A T \in SUBSET S : IsFiniteSet(T) /\ Cardinality(T) \in Nat
  BY FiniteParts
<1>2. 0 \in C
  BY <1>1, FS_EmptySet, SumEmpty
<1>3. ASSUME NEW n \in Nat, n \in C
      PROVE  n + 1 \in C
  <2> SUFFICES ASSUME NEW T \in SUBSET S, Cardinality(T) = n + 1
               PROVE  SumFunctionOnSet(f, T) \in Int
    OBVIOUS
  <2>1. T # {}
    BY FS_EmptySet
  <2>2. Pick(T) \in T
    BY <2>1 DEF Pick
  <2>3. Cardinality(T \ {Pick(T)}) = n
    BY <1>1, <2>2, FiniteParts
  <2>4. SumFunctionOnSet(f, T \ {Pick(T)}) \in Int
    BY <1>3, <2>3
  <2>5. SumFunctionOnSet(f, T) = f[Pick(T)] + SumFunctionOnSet(f, T \ {Pick(T)})
    BY <1>1, <2>1, SumPick
  <2> QED
    BY <2>2, <2>4, <2>5
<1> HIDE DEF C
<1>4. Cardinality(S) \in C
  BY <1>1, <1>2, <1>3, NatInduct
<1> QED
  BY <1>4 DEF C

\* The order in which a sum is taken does not matter.
LEMMA SumRemove ==
  ASSUME NEW S, IsFiniteSet(S), NEW f, \A x \in S : f[x] \in Int, NEW x \in S
  PROVE  SumFunctionOnSet(f, S) = f[x] + SumFunctionOnSet(f, S \ {x})
<1> DEFINE Sm(T) == SumFunctionOnSet(f, T)
           C == {n \in Nat : \A T \in SUBSET S : \A t \in T :
                                Cardinality(T) = n => Sm(T) = f[t] + Sm(T \ {t})}
<1>1. \A T \in SUBSET S : IsFiniteSet(T) /\ Cardinality(T) \in Nat
  BY FiniteParts
<1>2. \A T \in SUBSET S : Sm(T) \in Int
  BY <1>1, SumType
<1>3. 0 \in C
  BY <1>1, FS_EmptySet
<1>4. ASSUME NEW n \in Nat, n \in C
      PROVE  n + 1 \in C
  <2> SUFFICES ASSUME NEW T \in SUBSET S, NEW t \in T, Cardinality(T) = n + 1
               PROVE  Sm(T) = f[t] + Sm(T \ {t})
    OBVIOUS
  <2> DEFINE y == Pick(T)
  <2>1. T # {} /\ y \in T
    BY DEF Pick
  <2>2. Sm(T) = f[y] + Sm(T \ {y})
    BY <1>1, <2>1, SumPick
  <2> HIDE DEF y
  <2>3. \A u \in T : T \ {u} \in SUBSET S /\ Cardinality(T \ {u}) = n
    BY <1>1, FiniteParts
  <2>4. CASE t # y
    <3>1. Sm(T \ {y}) = f[t] + Sm((T \ {y}) \ {t})
      BY <1>4, <2>1, <2>3, <2>4
    <3>2. Sm(T \ {t}) = f[y] + Sm((T \ {t}) \ {y})
      BY <1>4, <2>1, <2>3, <2>4
    <3>3. Sm((T \ {y}) \ {t}) = Sm((T \ {t}) \ {y})
      <4>1. (T \ {y}) \ {t} = (T \ {t}) \ {y}
        OBVIOUS
      <4> HIDE DEF Sm
      <4> QED
        BY <4>1
    <3>4. Sm((T \ {t}) \ {y}) \in Int /\ f[t] \in Int /\ f[y] \in Int
      BY <1>2, <2>1
    <3>5. Sm(T) = f[y] + (f[t] + Sm((T \ {t}) \ {y}))
      BY <2>2, <3>1, <3>3, Zenon
    <3>6. Sm(T) = f[t] + (f[y] + Sm((T \ {t}) \ {y}))
      <4> HIDE DEF Sm
      <4> QED
        BY <3>4, <3>5
    <3> QED
      BY <3>2, <3>6, Zenon
  <2> QED
    BY <2>2, <2>4
<1> HIDE DEF C
<1>5. Cardinality(S) \in C
  BY <1>1, <1>3, <1>4, NatInduct
<1> QED
  BY <1>5 DEF C

\* A member more adds what it is worth.
LEMMA SumInsert ==
  ASSUME NEW S, IsFiniteSet(S), NEW x, x \notin S, NEW f, \A y \in S \cup {x} : f[y] \in Int
  PROVE  SumFunctionOnSet(f, S \cup {x}) = f[x] + SumFunctionOnSet(f, S)
<1>1. IsFiniteSet(S \cup {x})
  BY FS_AddElement
<1>2. (S \cup {x}) \ {x} = S
  OBVIOUS
<1> QED
  BY <1>1, <1>2, SumRemove

\* Functions with the same values on a set have the same sum.
LEMMA SumEqual ==
  ASSUME NEW S, IsFiniteSet(S), NEW f, NEW g,
         \A x \in S : f[x] \in Int /\ f[x] = g[x]
  PROVE  SumFunctionOnSet(f, S) = SumFunctionOnSet(g, S)
<1> DEFINE C == {T \in SUBSET S : SumFunctionOnSet(f, T) = SumFunctionOnSet(g, T)}
<1>1. {} \in C
  BY SumEmpty
<1>2. ASSUME NEW T \in SUBSET S, NEW x \in S, T \in C, x \notin T
      PROVE  T \cup {x} \in C
  <2>1. IsFiniteSet(T)
    BY FiniteParts
  <2>2. SumFunctionOnSet(f, T \cup {x}) = f[x] + SumFunctionOnSet(f, T)
    BY <1>2, <2>1, SumInsert
  <2>3. SumFunctionOnSet(g, T \cup {x}) = g[x] + SumFunctionOnSet(g, T)
    BY <1>2, <2>1, SumInsert
  <2>4. SumFunctionOnSet(f, T) = SumFunctionOnSet(g, T) /\ f[x] = g[x]
    BY <1>2
  <2>5. SumFunctionOnSet(f, T \cup {x}) = SumFunctionOnSet(g, T \cup {x})
    BY <2>2, <2>3, <2>4
  <2>6. T \cup {x} \in SUBSET S
    OBVIOUS
  <2> QED
    BY <2>5, <2>6
<1> HIDE DEF C
<1>3. S \in C
  BY <1>1, <1>2, FiniteInduct
<1> QED
  BY <1>3 DEF C

\* The sum of a difference is the difference of the sums.
LEMMA SumMinus ==
  ASSUME NEW S, IsFiniteSet(S), NEW f, NEW g, NEW h,
         \A x \in S : f[x] \in Int /\ g[x] \in Int /\ h[x] = f[x] - g[x]
  PROVE  SumFunctionOnSet(h, S) = SumFunctionOnSet(f, S) - SumFunctionOnSet(g, S)
<1> DEFINE F(T) == SumFunctionOnSet(f, T)
           G(T) == SumFunctionOnSet(g, T)
           H(T) == SumFunctionOnSet(h, T)
           C == {T \in SUBSET S : H(T) = F(T) - G(T)}
<1>1. {} \in C
  BY SumEmpty
<1>2. ASSUME NEW T \in SUBSET S, NEW x \in S, T \in C, x \notin T
      PROVE  T \cup {x} \in C
  <2>1. IsFiniteSet(T)
    BY FiniteParts
  <2>2. F(T \cup {x}) = f[x] + F(T) /\ F(T) \in Int
    BY <1>2, <2>1, SumInsert, SumType
  <2>3. G(T \cup {x}) = g[x] + G(T) /\ G(T) \in Int
    BY <1>2, <2>1, SumInsert, SumType
  <2>4. H(T \cup {x}) = h[x] + H(T)
    <3>1. \A y \in T \cup {x} : h[y] \in Int
      OBVIOUS
    <3> QED
      BY <1>2, <2>1, <3>1, SumInsert
  <2>5. H(T) = F(T) - G(T) /\ h[x] = f[x] - g[x] /\ f[x] \in Int /\ g[x] \in Int
    BY <1>2
  <2>6. T \cup {x} \in SUBSET S
    OBVIOUS
  <2> HIDE DEF F, G, H
  <2>7. H(T \cup {x}) = F(T \cup {x}) - G(T \cup {x})
    BY <2>2, <2>3, <2>4, <2>5
  <2> QED
    BY <2>6, <2>7
<1> HIDE DEF C
<1>3. S \in C
  BY <1>1, <1>2, FiniteInduct
<1> QED
  BY <1>3 DEF C

\* A sum over two sets without a common element.
LEMMA SumUnion ==
  ASSUME NEW S, IsFiniteSet(S), NEW U, IsFiniteSet(U), S \cap U = {},
         NEW f, \A x \in S \cup U : f[x] \in Int
  PROVE  SumFunctionOnSet(f, S \cup U) = SumFunctionOnSet(f, S) + SumFunctionOnSet(f, U)
<1> DEFINE F(T) == SumFunctionOnSet(f, T)
           C == {T \in SUBSET S : F(T \cup U) = F(T) + F(U)}
<1>0. F(U) \in Int
  BY SumType
<1>1. {} \in C
  <2>1. {} \cup U = U
    OBVIOUS
  <2> QED
    BY <1>0, <2>1, SumEmpty
<1>2. ASSUME NEW T \in SUBSET S, NEW x \in S, T \in C, x \notin T
      PROVE  T \cup {x} \in C
  <2>1. IsFiniteSet(T) /\ IsFiniteSet(T \cup U)
    BY FiniteParts, FS_Union
  <2>2. F(T \cup {x}) = f[x] + F(T) /\ F(T) \in Int
    BY <1>2, <2>1, SumInsert, SumType
  <2>3. F((T \cup U) \cup {x}) = f[x] + F(T \cup U)
    <3>1. x \notin T \cup U /\ \A y \in (T \cup U) \cup {x} : f[y] \in Int
      BY <1>2
    <3> QED
      BY <2>1, <3>1, SumInsert
  <2>4. (T \cup U) \cup {x} = (T \cup {x}) \cup U
    OBVIOUS
  <2>5. F(T \cup U) = F(T) + F(U) /\ f[x] \in Int
    BY <1>2
  <2>6. T \cup {x} \in SUBSET S
    OBVIOUS
  <2>7. F((T \cup {x}) \cup U) = f[x] + F(T \cup U)
    BY <2>3, <2>4
  <2> HIDE DEF F
  <2>8. F((T \cup {x}) \cup U) = F(T \cup {x}) + F(U)
    BY <1>0, <2>2, <2>5, <2>7
  <2> QED
    BY <2>6, <2>8
<1> HIDE DEF C
<1>3. S \in C
  BY <1>1, <1>2, FiniteInduct
<1> QED
  BY <1>3 DEF C

\* A sum may be taken over the images of an injection.
ImageOf(p, S) == {p[x] : x \in S}

\* p takes every member of S to one of its own, where g is what f was.
Carries(p, S, f, g) ==
    /\ \A x \in S : f[x] \in Int /\ g[p[x]] = f[x]
    /\ \A x, y \in S : p[x] = p[y] => x = y

\* A sum over the images of an injection is the sum over what they are images of.
LEMMA SumImage ==
  ASSUME NEW S, IsFiniteSet(S), NEW p, NEW f, NEW g, Carries(p, S, f, g)
  PROVE  /\ IsFiniteSet(ImageOf(p, S))
         /\ SumFunctionOnSet(g, ImageOf(p, S)) = SumFunctionOnSet(f, S)
<1> USE DEF Carries
<1> DEFINE Im(T) == {p[x] : x \in T}
           C == {T \in SUBSET S : /\ IsFiniteSet(Im(T))
                                  /\ SumFunctionOnSet(g, Im(T)) = SumFunctionOnSet(f, T)}
<1>1. {} \in C
  <2>1. Im({}) = {}
    OBVIOUS
  <2> QED
    BY <2>1, SumEmpty, FS_EmptySet
<1>2. ASSUME NEW T \in SUBSET S, NEW x \in S, T \in C, x \notin T
      PROVE  T \cup {x} \in C
  <2>1. IsFiniteSet(T) /\ IsFiniteSet(Im(T))
    BY <1>2, FiniteParts
  <2>2. Im(T \cup {x}) = Im(T) \cup {p[x]} /\ p[x] \notin Im(T)
    BY <1>2
  <2>3. \A y \in Im(T) \cup {p[x]} : g[y] \in Int
    OBVIOUS
  <2>4. SumFunctionOnSet(g, Im(T \cup {x})) = g[p[x]] + SumFunctionOnSet(g, Im(T))
    <3> HIDE DEF Im
    <3> QED
      BY <2>1, <2>2, <2>3, SumInsert
  <2>5. SumFunctionOnSet(f, T \cup {x}) = f[x] + SumFunctionOnSet(f, T)
    BY <1>2, <2>1, SumInsert
  <2>6. SumFunctionOnSet(g, Im(T)) = SumFunctionOnSet(f, T) /\ g[p[x]] = f[x]
    BY <1>2
  <2>7. IsFiniteSet(Im(T \cup {x}))
    <3>1. IsFiniteSet(Im(T) \cup {p[x]})
      <4> HIDE DEF Im
      <4> QED
        BY <2>1, FS_AddElement
    <3> QED
      BY <2>2, <3>1, Zenon
  <2>8. T \cup {x} \in SUBSET S
    OBVIOUS
  <2>9. SumFunctionOnSet(g, Im(T \cup {x})) = SumFunctionOnSet(f, T \cup {x})
    BY <2>4, <2>5, <2>6
  <2> HIDE DEF Im
  <2> QED
    BY <2>7, <2>8, <2>9
<1> HIDE DEF C
<1>3. S \in C
  BY <1>1, <1>2, FiniteInduct
<1> QED
  BY <1>3 DEF C, ImageOf

\* A sum of naturals is at least each of them.
LEMMA SumNat ==
  ASSUME NEW S, IsFiniteSet(S), NEW f, \A x \in S : f[x] \in Nat
  PROVE  SumFunctionOnSet(f, S) \in Nat
<1> DEFINE C == {T \in SUBSET S : SumFunctionOnSet(f, T) \in Nat}
<1>1. {} \in C
  BY SumEmpty
<1>2. ASSUME NEW T \in SUBSET S, NEW x \in S, T \in C, x \notin T
      PROVE  T \cup {x} \in C
  <2>1. SumFunctionOnSet(f, T \cup {x}) = f[x] + SumFunctionOnSet(f, T)
    <3>1. IsFiniteSet(T) /\ \A y \in T \cup {x} : f[y] \in Int
      BY FiniteParts
    <3> QED
      BY <1>2, <3>1, SumInsert
  <2> QED
    BY <1>2, <2>1
<1> HIDE DEF C
<1>3. S \in C
  BY <1>1, <1>2, FiniteInduct
<1> QED
  BY <1>3 DEF C

\* a is made from base in n steps: step[v, k] is what the k-th makes of v, a member of A.
StepOn(step, n, A) == step \in [A \X (1..n) -> A]
Iterated(a, n, A, base, step) ==
    /\ a \in [0..n -> A]
    /\ a[0] = base
    /\ \A k \in 1..n : a[k] = step[<<a[k - 1], k>>]

\* n steps from base have a result.
LEMMA Iterates ==
  ASSUME NEW n \in Nat, NEW A, NEW base \in A, NEW step, StepOn(step, n, A)
  PROVE  \E a : Iterated(a, n, A, base, step)
<1> USE DEF StepOn
<1> DEFINE Ok(m, a) == a[0] = base /\ \A k \in 1..m : a[k] = step[<<a[k - 1], k>>]
           C == {m \in Nat : m <= n => \E a \in [0..m -> A] : Ok(m, a)}
<1>1. 0 \in C
  <2>1. [k \in 0..0 |-> base] \in [0..0 -> A] /\ Ok(0, [k \in 0..0 |-> base])
    OBVIOUS
  <2> QED
    BY <2>1
<1>2. ASSUME NEW m \in Nat, m \in C
      PROVE  m + 1 \in C
  <2> SUFFICES ASSUME m + 1 <= n
               PROVE  \E a \in [0..(m + 1) -> A] : Ok(m + 1, a)
    OBVIOUS
  <2>1. PICK a \in [0..m -> A] : Ok(m, a)
    BY <1>2
  <2> DEFINE b == [k \in 0..(m + 1) |-> IF k = m + 1 THEN step[<<a[m], m + 1>>] ELSE a[k]]
  <2>2. step[<<a[m], m + 1>>] \in A
    OBVIOUS
  <2>3. b \in [0..(m + 1) -> A]
    BY <2>2
  <2>4. Ok(m + 1, b)
    <3>1. b[0] = base
      BY <2>1
    <3>2. ASSUME NEW k \in 1..(m + 1)
          PROVE  b[k] = step[<<b[k - 1], k>>]
      <4>1. CASE k = m + 1
        BY <4>1
      <4>2. CASE k # m + 1
        <5>1. k \in 1..m /\ k - 1 \in 0..m
          BY <4>2
        <5>2. b[k] = a[k] /\ b[k - 1] = a[k - 1]
          BY <5>1
        <5> QED
          BY <2>1, <5>1, <5>2
      <4> QED
        BY <4>1, <4>2
    <3> QED
      BY <3>1, <3>2
  <2> QED
    BY <2>3, <2>4
<1> HIDE DEF C
<1>3. n \in C
  BY <1>1, <1>2, NatInduct
<1>4. PICK a \in [0..n -> A] : Ok(n, a)
  BY <1>3 DEF C
<1> QED
  BY <1>4 DEF Iterated

(* Lines of amounts. *)

\* Positions of a sequence are finitely many.
LEMMA AmountsFinite ==
  ASSUME NEW E, NEW s \in Seq(E), NEW S \in SUBSET (DOMAIN s)
  PROVE  IsFiniteSet(S) /\ S \subseteq 1..Len(s) /\ IsFiniteSet(DOMAIN s)
<1>1. DOMAIN s = 1..Len(s) /\ Len(s) \in Nat
  OBVIOUS
<1>2. IsFiniteSet(1..Len(s))
  BY <1>1, FS_Interval
<1> QED
  BY <1>1, <1>2, FS_Subset

\* What a line adds to a sum over lines.
LEMMA SumAppend ==
  ASSUME NEW E, NEW s \in Seq(E), \A k \in DOMAIN s : s[k].amount \in Int,
         NEW e \in E, e.amount \in Int, NEW T \in SUBSET (DOMAIN s)
  PROVE  LET t == Append(s, e) IN
         /\ SumFunctionOnSet(Amounts(t), T) = SumFunctionOnSet(Amounts(s), T)
         /\ SumFunctionOnSet(Amounts(t), T \cup {Len(s) + 1})
              = SumFunctionOnSet(Amounts(s), T) + e.amount
         /\ SumFunctionOnSet(Amounts(s), T) \in Int
<1> DEFINE t == Append(s, e)
           n == Len(s)
<1>1. /\ t \in Seq(E) /\ Len(t) = n + 1 /\ n \in Nat /\ DOMAIN t = 1..(n + 1) /\ DOMAIN s = 1..n
      /\ \A k \in 1..n : t[k] = s[k]
      /\ t[n + 1] = e
  OBVIOUS
<1> HIDE DEF t, n
<1>2. IsFiniteSet(T) /\ T \subseteq 1..n
  BY <1>1, AmountsFinite
<1>3. \A k \in T : Amounts(s)[k] \in Int /\ Amounts(s)[k] = Amounts(t)[k]
  BY <1>1, <1>2 DEF Amounts
<1>4. SumFunctionOnSet(Amounts(s), T) = SumFunctionOnSet(Amounts(t), T)
  BY <1>2, <1>3, SumEqual
<1>5. Amounts(t)[n + 1] = e.amount /\ n + 1 \notin T
  BY <1>1, <1>2 DEF Amounts
<1>6. SumFunctionOnSet(Amounts(t), T \cup {n + 1}) = e.amount + SumFunctionOnSet(Amounts(t), T)
  <2>1. \A k \in T \cup {n + 1} : Amounts(t)[k] \in Int
    BY <1>3, <1>5
  <2> QED
    BY <1>2, <1>5, <2>1, SumInsert
<1>7. SumFunctionOnSet(Amounts(s), T) \in Int
  BY <1>2, <1>3, SumType
<1> QED
  BY <1>4, <1>6, <1>7 DEF t, n

\* A line more adds its amount to the total of the lines.
LEMMA TotalAppend ==
  ASSUME NEW E, NEW s \in Seq(E), \A k \in DOMAIN s : s[k].amount \in Int,
         NEW e \in E, e.amount \in Int
  PROVE  Total(Append(s, e)) = Total(s) + e.amount /\ Total(s) \in Int
<1> DEFINE t == Append(s, e)
<1>1. /\ Len(s) \in Nat /\ DOMAIN s = 1..Len(s) /\ DOMAIN t = (DOMAIN s) \cup {Len(s) + 1}
  OBVIOUS
<1>2. Total(s) = SumFunctionOnSet(Amounts(s), DOMAIN s)
  BY DEF Total, SumFunction, Amounts
<1>3. Total(t) = SumFunctionOnSet(Amounts(t), DOMAIN t)
  BY DEF Total, SumFunction, Amounts
<1> HIDE DEF t
<1>4. /\ SumFunctionOnSet(Amounts(t), (DOMAIN s) \cup {Len(s) + 1})
              = SumFunctionOnSet(Amounts(s), DOMAIN s) + e.amount
      /\ SumFunctionOnSet(Amounts(s), DOMAIN s) \in Int
  BY SumAppend DEF t
<1> QED
  BY <1>1, <1>2, <1>3, <1>4 DEF t

-----------------------------------------------------------------------------
(* Allocation: the lines of a payment. *)

\* What a payment with these lines takes off a document.
Applied(lines, d) == SumFunctionOnSet(Amounts(lines), {k \in DOMAIN lines : lines[k].doc = d})

\* What the lines on documents of S amount to.
LinesOn(lines, S) ==
    SumFunctionOnSet(Amounts(lines), {k \in DOMAIN lines : lines[k].doc \in S})

\* No document has two lines.
OneLineEach(lines) ==
    \A j, k \in DOMAIN lines : lines[j].doc = lines[k].doc => j = k

\* Lines of a payment on documents of D.
LineOf(D) == [doc : D, amount : Nat \ {0}]

\* The program's test for a document that is listed twice finds every one.
LEMMA DistinctIsOneEach ==
  ASSUME NEW E, NEW s \in Seq(E), Distinct(s)
  PROVE  OneLineEach(s)
<1> DEFINE I == 1..Len(s)
           J == {l.doc : l \in ToSet(s)}
           f == [k \in I |-> s[k].doc]
<1>1. Len(s) \in Nat /\ DOMAIN s = I
  OBVIOUS
<1>2. IsFiniteSet(I) /\ Cardinality(I) = Len(s)
  BY <1>1, FS_Interval
<1>3. f \in Surjection(I, J)
  <2>1. f \in [I -> J]
    BY <1>1 DEF ToSet
  <2>2. \A d \in J : \E k \in I : f[k] = d
    BY <1>1 DEF ToSet
  <2> QED
    BY <2>1, <2>2 DEF Surjection
<1>4. Cardinality(J) = Cardinality(I)
  BY <1>2 DEF Distinct
<1>5. f \in Injection(I, J)
  <2> HIDE DEF f, I, J
  <2> QED
    BY <1>2, <1>3, <1>4, FS_Surjection
<1>6. \A j, k \in I : f[j] = f[k] => j = k
  <2> HIDE DEF f, J
  <2> QED
    BY <1>5 DEF Injection, IsInjective
<1> QED
  BY <1>1, <1>6 DEF OneLineEach

\* The parts of a line of a payment.
LEMMA LineParts ==
  ASSUME NEW D, NEW s \in Seq(LineOf(D)), NEW k \in DOMAIN s
  PROVE  /\ s[k].doc \in D /\ s[k].amount \in Int /\ s[k].amount \in Nat \ {0}
         /\ Amounts(s)[k] = s[k].amount
<1>1. s[k] \in LineOf(D)
  OBVIOUS
<1>2. s[k].doc \in D /\ s[k].amount \in Nat \ {0}
  BY <1>1 DEF LineOf
<1> QED
  BY <1>2 DEF Amounts

\* What is applied to a document is the amount of its line, or nothing.
LEMMA AppliedToOne ==
  ASSUME NEW D, NEW s \in Seq(LineOf(D)), OneLineEach(s)
  PROVE  /\ \A k \in DOMAIN s : Applied(s, s[k].doc) = s[k].amount
         /\ \A d : (\A k \in DOMAIN s : s[k].doc # d) => Applied(s, d) = 0
<1>1. ASSUME NEW k \in DOMAIN s
      PROVE  Applied(s, s[k].doc) = s[k].amount
  <2>1. {j \in DOMAIN s : s[j].doc = s[k].doc} = {} \cup {k}
    BY DEF OneLineEach
  <2>2. Amounts(s)[k] = s[k].amount /\ s[k].amount \in Int
    BY LineParts
  <2>3. SumFunctionOnSet(Amounts(s), {} \cup {k}) = Amounts(s)[k] + SumFunctionOnSet(Amounts(s), {})
    BY <2>2, SumInsert, FS_EmptySet
  <2>4. SumFunctionOnSet(Amounts(s), {} \cup {k}) = s[k].amount
    BY <2>2, <2>3, SumEmpty
  <2> QED
    BY <2>1, <2>4, Zenon DEF Applied
<1>2. ASSUME NEW d, \A k \in DOMAIN s : s[k].doc # d
      PROVE  Applied(s, d) = 0
  <2>1. {j \in DOMAIN s : s[j].doc = d} = {}
    BY <1>2
  <2> QED
    BY <2>1, SumEmpty DEF Applied
<1> QED
  BY <1>1, <1>2

\* What is taken off some documents is what their lines amount to.
LEMMA AppliedToSome ==
  ASSUME NEW D, NEW s \in Seq(LineOf(D)), OneLineEach(s), NEW B, IsFiniteSet(B),
         NEW f, \A d \in B : f[d] = Applied(s, d)
  PROVE  /\ \A d \in B : f[d] \in Nat
         /\ SumFunctionOnSet(f, B)
              = LinesOn(s, B)
<1> DEFINE K == {k \in DOMAIN s : s[k].doc \in B}
           p == [k \in K |-> s[k].doc]
           Im == {p[k] : k \in K}
<1>1. IsFiniteSet(K)
  BY AmountsFinite
<1>2. \A k \in K : Amounts(s)[k] \in Int /\ Amounts(s)[k] = s[k].amount /\ s[k].amount \in Nat
  BY LineParts
<1>3. \A k \in K : f[p[k]] = Amounts(s)[k]
  BY <1>2, AppliedToOne
<1>4. \A j, k \in K : p[j] = p[k] => j = k
  BY DEF OneLineEach
<1>5. SumFunctionOnSet(f, Im) = SumFunctionOnSet(Amounts(s), K) /\ IsFiniteSet(Im)
  <2> HIDE DEF K, p
  <2> QED
    BY <1>1, <1>2, <1>3, <1>4, SumImage DEF ImageOf, Carries
<1>6. \A d \in B \ Im : f[d] = 0
  <2> SUFFICES ASSUME NEW d \in B \ Im
               PROVE  f[d] = 0
    OBVIOUS
  <2>1. \A k \in DOMAIN s : s[k].doc # d
    OBVIOUS
  <2> QED
    BY <2>1, AppliedToOne
<1>7. Im \subseteq B
  OBVIOUS
<1>8. \A d \in B : f[d] \in Nat
  <2> SUFFICES ASSUME NEW d \in B
               PROVE  f[d] \in Nat
    OBVIOUS
  <2>1. CASE d \in Im
    BY <1>2, <1>3, <2>1
  <2>2. CASE d \notin Im
    BY <1>6, <2>2
  <2> QED
    BY <2>1, <2>2
<1> HIDE DEF Im, K, p
<1>9. IsFiniteSet(B \ Im)
  BY FS_Subset
<1>10. SumFunctionOnSet(f, B \ Im) = 0
  <2> DEFINE z == [d \in B |-> 0]
  <2>1. SumFunctionOnSet(z, B \ Im) = SumFunctionOnSet(z, B \ Im) - SumFunctionOnSet(z, B \ Im)
    BY <1>9, SumMinus
  <2>2. SumFunctionOnSet(z, B \ Im) \in Int
    BY <1>9, SumType
  <2>3. SumFunctionOnSet(z, B \ Im) = 0
    <3> HIDE DEF z
    <3> QED
      BY <2>1, <2>2
  <2>4. SumFunctionOnSet(f, B \ Im) = SumFunctionOnSet(z, B \ Im)
    BY <1>6, <1>9, SumEqual
  <2> QED
    BY <2>3, <2>4
<1>11. (B \ Im) \cup Im = B /\ (B \ Im) \cap Im = {}
  BY <1>7
<1>12. SumFunctionOnSet(f, (B \ Im) \cup Im)
         = SumFunctionOnSet(f, B \ Im) + SumFunctionOnSet(f, Im)
  BY <1>5, <1>8, <1>9, <1>11, SumUnion
<1>13. SumFunctionOnSet(Amounts(s), K) \in Int
  BY <1>1, <1>2, SumType
<1>14. SumFunctionOnSet(f, B) = SumFunctionOnSet(Amounts(s), K)
  <2>1. SumFunctionOnSet(f, B) = SumFunctionOnSet(f, B \ Im) + SumFunctionOnSet(f, Im)
    BY <1>11, <1>12, Zenon
  <2> QED
    BY <1>5, <1>10, <1>13, <2>1
<1> QED
  BY <1>8, <1>14 DEF K, LinesOn

\* What is at a position of a sequence is a member.
LEMMA Element ==
  ASSUME NEW E, NEW s \in Seq(E), NEW k \in 1..Len(s)
  PROVE  s[k] \in E
OBVIOUS

\* A plan that is accepted gives every line of the payment to one invoice of the customer,
\* within its balance, and all of the payment.
LEMMA InvoicePlan ==
  ASSUME NEW D, NEW N, NEW O, NEW invoices \in [D -> [owner : O, balance : Nat]],
         NEW allocations \in Seq([doc : N, amount : Nat \ {0}]), NEW total, NEW customer,
         PlanInvoiceAllocations(allocations, invoices, total, customer).ok
  PROVE  LET lines == PlanInvoiceAllocations(allocations, invoices, total, customer).lines
         IN  /\ lines \in Seq(LineOf(D)) /\ lines # <<>> /\ OneLineEach(lines)
             /\ Total(lines) = Money(total)
             /\ \A k \in DOMAIN lines : /\ lines[k].doc \in D
                                        /\ invoices[lines[k].doc].owner = customer
                                        /\ lines[k].amount <= invoices[lines[k].doc].balance
<1> DEFINE applied == [k \in DOMAIN allocations |->
                          [doc |-> allocations[k].doc, amount |-> Money(allocations[k].amount)]]
           lines == PlanInvoiceAllocations(allocations, invoices, total, customer).lines
<1>1. /\ lines = applied
      /\ applied # <<>>
      /\ Distinct(applied)
      /\ \A l \in ToSet(applied) : /\ l.doc \in DOMAIN invoices
                                   /\ invoices[l.doc].owner = customer
                                   /\ l.amount > 0
                                   /\ l.amount <= invoices[l.doc].balance
      /\ Total(applied) = Money(total)
  BY Zenon DEF PlanInvoiceAllocations, Accepted, Refused
<1>2. /\ DOMAIN allocations = 1..Len(allocations) /\ Len(allocations) \in Nat
      /\ DOMAIN applied = 1..Len(allocations)
  OBVIOUS
<1>3. \A k \in DOMAIN applied : /\ allocations[k] \in [doc : N, amount : Nat \ {0}]
                                /\ applied[k] = [doc |-> allocations[k].doc,
                                                 amount |-> Money(allocations[k].amount)]
                                /\ applied[k] \in ToSet(applied)
  <2> SUFFICES ASSUME NEW k \in 1..Len(allocations)
               PROVE  /\ allocations[k] \in [doc : N, amount : Nat \ {0}]
                      /\ applied[k] = [doc |-> allocations[k].doc,
                                       amount |-> Money(allocations[k].amount)]
                      /\ applied[k] \in ToSet(applied)
    BY <1>2
  <2>1. allocations[k] \in [doc : N, amount : Nat \ {0}]
    BY Element
  <2>2. applied[k] = [doc |-> allocations[k].doc, amount |-> Money(allocations[k].amount)]
    BY <1>2
  <2> HIDE DEF applied
  <2>3. applied[k] \in ToSet(applied)
    BY <1>2 DEF ToSet
  <2> QED
    BY <2>1, <2>2, <2>3
<1>4. \A k \in DOMAIN applied : applied[k].amount \in Int
  <2> SUFFICES ASSUME NEW k \in DOMAIN applied
               PROVE  applied[k].amount \in Int
    OBVIOUS
  <2> HIDE DEF applied
  <2>1. allocations[k].amount \in Nat /\ applied[k].amount = Money(allocations[k].amount)
    BY <1>3
  <2> QED
    BY <2>1 DEF Money
<1> HIDE DEF applied
<1>5. \A k \in DOMAIN applied : applied[k] \in LineOf(D)
  <2> SUFFICES ASSUME NEW k \in DOMAIN applied
               PROVE  applied[k] \in LineOf(D)
    OBVIOUS
  <2>1. applied[k].doc \in D /\ applied[k].amount \in Nat \ {0}
    BY <1>1, <1>3, <1>4
  <2> QED
    BY <1>3, <2>1 DEF LineOf
<1>6. applied \in Seq(LineOf(D))
  <2>1. applied \in [1..Len(allocations) -> LineOf(D)]
    BY <1>2, <1>5 DEF applied
  <2> QED
    BY <1>2, <2>1
<1>7. OneLineEach(applied)
  BY <1>1, <1>6, DistinctIsOneEach
<1>8. \A k \in DOMAIN applied : /\ applied[k].doc \in D
                                /\ invoices[applied[k].doc].owner = customer
                                /\ applied[k].amount <= invoices[applied[k].doc].balance
  BY <1>1, <1>3
<1> QED
  BY <1>1, <1>6, <1>7, <1>8

\* What the k-th bill makes of the money that is left and of the lines so far.
Take(v, bills, k) ==
    LET applying == Smaller(v.remaining, bills[k].balance)
    IN  IF applying <= 0 THEN v
        ELSE [remaining |-> v.remaining - applying,
              lines |-> Append(v.lines, [doc |-> bills[k].doc, amount |-> applying])]

\* The money left and the lines so far.
SpreadType(B) == [remaining : Nat, lines : Seq(LineOf(B))]

\* What planBillPaymentApplication takes off the next bill is within its balance and
\* within the money left.
LEMMA TakeApplies ==
  ASSUME NEW B, NEW bills \in Seq([doc : B, balance : Nat]), NEW v \in SpreadType(B),
         NEW k \in 1..Len(bills)
  PROVE  LET a == Smaller(v.remaining, bills[k].balance)
         IN  /\ Take(v, bills, k) \in SpreadType(B)
             /\ a \in Nat /\ a <= v.remaining /\ a <= bills[k].balance
             /\ bills[k].doc \in B /\ bills[k].balance \in Nat
             /\ v.remaining \in Nat /\ v.lines \in Seq(LineOf(B))
             /\ a = 0 => Take(v, bills, k) = v
             /\ a # 0 => /\ [doc |-> bills[k].doc, amount |-> a] \in LineOf(B)
                         /\ Take(v, bills, k)
                              = [remaining |-> v.remaining - a,
                                 lines |-> Append(v.lines,
                                                  [doc |-> bills[k].doc, amount |-> a])]
<1> DEFINE a == Smaller(v.remaining, bills[k].balance)
<1>1. bills[k] \in [doc : B, balance : Nat]
  BY Element
<1>2. bills[k].doc \in B /\ bills[k].balance \in Nat
  BY <1>1
<1>3. v.remaining \in Nat /\ v.lines \in Seq(LineOf(B))
  BY DEF SpreadType
<1>4. a \in Nat /\ v.remaining - a \in Nat /\ a <= v.remaining /\ a <= bills[k].balance
  BY <1>2, <1>3 DEF Smaller
<1> HIDE DEF a
<1>5. CASE a = 0
  <2>1. Take(v, bills, k) = v
    BY <1>5 DEF Take, a
  <2> QED
    BY <1>2, <1>3, <1>4, <1>5, <2>1 DEF a
<1>6. CASE a # 0
  <2>1. [doc |-> bills[k].doc, amount |-> a] \in LineOf(B)
    BY <1>2, <1>4, <1>6 DEF LineOf
  <2>2. Append(v.lines, [doc |-> bills[k].doc, amount |-> a]) \in Seq(LineOf(B))
    BY <1>3, <2>1
  <2>3. ~(a <= 0)
    BY <1>4, <1>6
  <2>4. Take(v, bills, k)
          = [remaining |-> v.remaining - a,
             lines |-> Append(v.lines, [doc |-> bills[k].doc, amount |-> a])]
    BY <2>3 DEF Take, a
  <2>5. Take(v, bills, k) \in SpreadType(B)
    BY <1>4, <2>2, <2>4 DEF SpreadType
  <2> QED
    BY <1>2, <1>3, <1>4, <1>6, <2>1, <2>4, <2>5 DEF a
<1> QED
  BY <1>5, <1>6

\* The money is spread over the bills one after another.
LEMMA SpreadUnfold ==
  ASSUME NEW B, NEW bills \in Seq([doc : B, balance : Nat]), NEW money \in Nat
  PROVE  \E after :
           /\ Spread(bills, money) = after[Len(bills)]
           /\ after[0] = [remaining |-> money, lines |-> <<>>]
           /\ \A k \in 1..Len(bills) : after[k] = Take(after[k - 1], bills, k)
<1> DEFINE n == Len(bills)
           base == [remaining |-> money, lines |-> <<>>]
           step == [p \in SpreadType(B) \X (1..n) |-> Take(p[1], bills, p[2])]
           Rec(a) == a = [k \in 0..n |-> IF k = 0 THEN base ELSE Take(a[k - 1], bills, k)]
<1>1. n \in Nat
  OBVIOUS
<1>2. base \in SpreadType(B)
  BY DEF SpreadType
<1>3. \A v \in SpreadType(B), k \in 1..n : Take(v, bills, k) \in SpreadType(B)
  BY TakeApplies
<1>4. StepOn(step, n, SpreadType(B))
  BY <1>3 DEF StepOn
<1> HIDE DEF n, base, step
<1>5. PICK a : Iterated(a, n, SpreadType(B), base, step)
  BY <1>1, <1>2, <1>4, Iterates
<1>6. \A k \in 1..n : a[k] = Take(a[k - 1], bills, k)
  <2> SUFFICES ASSUME NEW k \in 1..n
               PROVE  a[k] = Take(a[k - 1], bills, k)
    OBVIOUS
  <2>1. a[k - 1] \in SpreadType(B)
    BY <1>1, <1>5 DEF Iterated
  <2>2. step[<<a[k - 1], k>>] = Take(a[k - 1], bills, k)
    BY <2>1 DEF step
  <2> QED
    BY <1>5, <2>2 DEF Iterated
<1>7. Rec(a)
  BY <1>1, <1>5, <1>6 DEF Iterated
<1>8. Rec(CHOOSE after : Rec(after))
  BY <1>7
<1> DEFINE after == CHOOSE b : Rec(b)
<1>9. Spread(bills, money) = after[n]
  BY Zenon DEF Spread, Take, base, n
<1>10. after = [k \in 0..n |-> IF k = 0 THEN base ELSE Take(after[k - 1], bills, k)]
  BY <1>8
<1> HIDE DEF after
<1>11. after[0] = base /\ \A k \in 1..n : after[k] = Take(after[k - 1], bills, k)
  BY <1>1, <1>10
<1> QED
  BY <1>9, <1>11, Zenon DEF base, n

\* The total of lines is a number of cents.
LEMMA TotalType ==
  ASSUME NEW D, NEW s \in Seq(LineOf(D))
  PROVE  Total(s) \in Nat /\ Total(s) = SumFunctionOnSet(Amounts(s), DOMAIN s)
<1>1. Total(s) = SumFunctionOnSet(Amounts(s), DOMAIN s)
  BY DEF Total, SumFunction, Amounts
<1>2. IsFiniteSet(DOMAIN s)
  BY AmountsFinite
<1>3. \A k \in DOMAIN s : Amounts(s)[k] \in Nat
  BY LineParts
<1> QED
  BY <1>1, <1>2, <1>3, SumNat

\* One more line, for a document without one.
LEMMA AppendLine ==
  ASSUME NEW D, NEW s \in Seq(LineOf(D)), OneLineEach(s),
         NEW d \in D, NEW a \in Nat \ {0}, \A k \in DOMAIN s : s[k].doc # d
  PROVE  LET t == Append(s, [doc |-> d, amount |-> a]) IN
         /\ t \in Seq(LineOf(D)) /\ OneLineEach(t)
         /\ Total(t) = Total(s) + a /\ Total(s) \in Nat
         /\ DOMAIN t = (DOMAIN s) \cup {Len(s) + 1}
         /\ \A k \in DOMAIN s : t[k] = s[k] /\ k # Len(s) + 1
         /\ t[Len(s) + 1].doc = d /\ t[Len(s) + 1].amount = a
<1> DEFINE e == [doc |-> d, amount |-> a]
           t == Append(s, e)
<1>1. e \in LineOf(D) /\ e.doc = d /\ e.amount = a /\ e.amount \in Int
  BY DEF LineOf
<1> HIDE DEF e
<1>2. \A k \in DOMAIN s : s[k].amount \in Int
  BY LineParts
<1>3. Total(t) = Total(s) + a
  BY <1>1, <1>2, TotalAppend
<1>4. /\ t \in Seq(LineOf(D)) /\ DOMAIN t = (DOMAIN s) \cup {Len(s) + 1}
      /\ \A k \in DOMAIN s : t[k] = s[k] /\ k # Len(s) + 1
      /\ t[Len(s) + 1] = e
  BY <1>1
<1> HIDE DEF t
<1>5. OneLineEach(t)
  BY <1>1, <1>4 DEF OneLineEach
<1>6. Total(s) \in Nat
  BY TotalType
<1> QED
  BY <1>1, <1>3, <1>4, <1>5, <1>6 DEF t, e

\* The money spread over bills is what their lines take and what is left; every line is
\* that of one bill, within its balance.
FromBills(lines, bills, k) ==
    \A i \in DOMAIN lines : \E q \in 1..k : /\ lines[i].doc = bills[q].doc
                                            /\ lines[i].amount <= bills[q].balance

\* The first k bills have been given money: what is left and what the lines have is all.
SpreadTo(v, bills, money, k) ==
    /\ OneLineEach(v.lines)
    /\ Total(v.lines) + v.remaining = money
    /\ FromBills(v.lines, bills, k)

\* One more bill: the money left and the money on the lines stay what they were together.
LEMMA TakeKeepsMoney ==
  ASSUME NEW B, NEW bills \in Seq([doc : B, balance : Nat]), OneLineEach(bills),
         NEW v \in SpreadType(B), NEW money, NEW k \in 1..Len(bills),
         SpreadTo(v, bills, money, k - 1)
  PROVE  /\ Take(v, bills, k) \in SpreadType(B)
         /\ SpreadTo(Take(v, bills, k), bills, money, k)
<1> DEFINE a == Smaller(v.remaining, bills[k].balance)
           d == bills[k].doc
           w == Take(v, bills, k)
<1>0. k \in Nat /\ k \in DOMAIN bills /\ \A q \in 1..(k - 1) : /\ q \in DOMAIN bills /\ q # k
                                                              /\ q \in 1..k
  OBVIOUS
<1>1. /\ w \in SpreadType(B)
      /\ a \in Nat /\ a <= v.remaining /\ a <= bills[k].balance
      /\ d \in B /\ bills[k].balance \in Nat
      /\ v.remaining \in Nat /\ v.lines \in Seq(LineOf(B))
      /\ a = 0 => w = v
      /\ a # 0 => w = [remaining |-> v.remaining - a,
                       lines |-> Append(v.lines, [doc |-> d, amount |-> a])]
  BY TakeApplies
<1> HIDE DEF a, w
<1>2. CASE a = 0
  <2>1. w = v
    BY <1>1, <1>2
  <2>2. FromBills(v.lines, bills, k)
    BY <1>0 DEF SpreadTo, FromBills
  <2> QED
    BY <1>1, <2>1, <2>2 DEF SpreadTo, w
<1>3. CASE a # 0
  <2> DEFINE s == v.lines
             t == Append(s, [doc |-> d, amount |-> a])
  <2>1. w.remaining = v.remaining - a /\ w.lines = t
    BY <1>1, <1>3
  <2>2. \A i \in DOMAIN s : s[i].doc # d
    BY <1>0 DEF SpreadTo, FromBills, OneLineEach
  <2>3. s \in Seq(LineOf(B)) /\ OneLineEach(s) /\ a \in Nat \ {0}
    BY <1>1, <1>3 DEF SpreadTo
  <2>4. /\ OneLineEach(t)
        /\ Total(t) = Total(s) + a /\ Total(s) \in Nat
        /\ DOMAIN t = (DOMAIN s) \cup {Len(s) + 1}
        /\ \A i \in DOMAIN s : t[i] = s[i]
        /\ t[Len(s) + 1].doc = d /\ t[Len(s) + 1].amount = a
    <3> HIDE DEF d, s
    <3> QED
      BY <1>1, <2>2, <2>3, AppendLine
  <2> HIDE DEF t
  <2>5. FromBills(t, bills, k)
    <3> SUFFICES ASSUME NEW i \in DOMAIN t
                 PROVE  \E q \in 1..k : /\ t[i].doc = bills[q].doc
                                        /\ t[i].amount <= bills[q].balance
      BY DEF FromBills
    <3>1. CASE i \in DOMAIN s
      <4>1. PICK q \in 1..(k - 1) : s[i].doc = bills[q].doc /\ s[i].amount <= bills[q].balance
        BY <3>1 DEF SpreadTo, FromBills
      <4> QED
        BY <1>0, <2>4, <3>1, <4>1
    <3>2. CASE i = Len(s) + 1
      <4>1. k \in 1..k
        BY <1>0
      <4> QED
        BY <1>1, <2>4, <3>2, <4>1
    <3> QED
      BY <2>4, <3>1, <3>2
  <2>6. Total(t) + w.remaining = money
    <3>1. Total(s) + v.remaining = money
      BY DEF SpreadTo
    <3> HIDE DEF s
    <3> QED
      BY <1>1, <2>1, <2>4, <3>1
  <2> QED
    BY <1>1, <2>1, <2>4, <2>5, <2>6 DEF SpreadTo, w
<1> QED
  BY <1>2, <1>3

\* After all the bills too.
LEMMA SpreadPlan ==
  ASSUME NEW B, NEW bills \in Seq([doc : B, balance : Nat]), OneLineEach(bills),
         NEW money \in Nat
  PROVE  /\ Spread(bills, money) \in SpreadType(B)
         /\ SpreadTo(Spread(bills, money), bills, money, Len(bills))
<1>1. PICK after :
           /\ Spread(bills, money) = after[Len(bills)]
           /\ after[0] = [remaining |-> money, lines |-> <<>>]
           /\ \A k \in 1..Len(bills) : after[k] = Take(after[k - 1], bills, k)
  BY SpreadUnfold
<1> DEFINE C == {k \in Nat : k <= Len(bills) => /\ after[k] \in SpreadType(B)
                                                /\ SpreadTo(after[k], bills, money, k)}
<1>2. 0 \in C
  <2>1. after[0] \in SpreadType(B) /\ after[0].lines = <<>> /\ after[0].remaining = money
    BY <1>1 DEF SpreadType
  <2>2. OneLineEach(<<>>) /\ FromBills(<<>>, bills, 0)
    BY DEF OneLineEach, FromBills
  <2>3. Total(<<>>) = 0
    <3>1. <<>> \in Seq(LineOf(B)) /\ DOMAIN <<>> = {}
      OBVIOUS
    <3>2. Total(<<>>) = SumFunctionOnSet(Amounts(<<>>), DOMAIN <<>>)
      BY <3>1, TotalType
    <3> QED
      BY <3>1, <3>2, SumEmpty, Zenon
  <2>4. Total(<<>>) + money = money
    BY <2>3
  <2>5. SpreadTo(after[0], bills, money, 0)
    BY <2>1, <2>2, <2>4 DEF SpreadTo
  <2> QED
    BY <2>1, <2>5
<1>3. ASSUME NEW k \in Nat, k \in C
      PROVE  k + 1 \in C
  <2> SUFFICES ASSUME k + 1 <= Len(bills)
               PROVE  after[k + 1] \in SpreadType(B) /\ SpreadTo(after[k + 1], bills, money, k + 1)
    OBVIOUS
  <2>1. k + 1 \in 1..Len(bills) /\ (k + 1) - 1 = k /\ k <= Len(bills)
    OBVIOUS
  <2>2. after[k] \in SpreadType(B) /\ SpreadTo(after[k], bills, money, (k + 1) - 1)
    BY <1>3, <2>1
  <2>3. after[k + 1] = Take(after[k], bills, k + 1)
    BY <1>1, <2>1
  <2> QED
    BY <2>1, <2>2, <2>3, TakeKeepsMoney
<1> HIDE DEF C
<1>4. Len(bills) \in Nat
  OBVIOUS
<1>5. Len(bills) \in C
  BY <1>2, <1>3, <1>4, NatInduct
<1> QED
  BY <1>1, <1>4, <1>5 DEF C

\* The sums over the two parts of a sequence of lines.
Shifted(n, S) == {n + k : k \in S}

\* The total of two lists of lines, one after the other.
LEMMA SumConcat ==
  ASSUME NEW D, NEW s \in Seq(LineOf(D)), NEW t \in Seq(LineOf(D))
  PROVE  LET u == s \o t
             First == DOMAIN s
             Second == Shifted(Len(s), DOMAIN t)
         IN  /\ u \in Seq(LineOf(D))
             /\ DOMAIN u = First \cup Second /\ First \cap Second = {}
             /\ \A k \in DOMAIN s : u[k] = s[k]
             /\ \A k \in DOMAIN t : u[Len(s) + k] = t[k]
             /\ SumFunctionOnSet(Amounts(u), First) = Total(s)
             /\ SumFunctionOnSet(Amounts(u), Second) = Total(t)
<1> DEFINE u == s \o t
           p == [k \in DOMAIN t |-> Len(s) + k]
           Second == ImageOf(p, DOMAIN t)
<1>1. /\ u \in Seq(LineOf(D)) /\ Len(s) \in Nat /\ Len(t) \in Nat
      /\ DOMAIN s = 1..Len(s) /\ DOMAIN t = 1..Len(t) /\ DOMAIN u = 1..(Len(s) + Len(t))
      /\ \A k \in DOMAIN s : u[k] = s[k]
      /\ \A k \in DOMAIN t : u[Len(s) + k] = t[k]
  OBVIOUS
<1> HIDE DEF u
<1>2. /\ Shifted(Len(s), DOMAIN t) = Second
      /\ Second = {Len(s) + k : k \in DOMAIN t}
  BY DEF Shifted, ImageOf
<1>3. DOMAIN u = (DOMAIN s) \cup Second /\ (DOMAIN s) \cap Second = {}
  <2>1. \A k \in DOMAIN u : k \in DOMAIN s \/ (k - Len(s) \in DOMAIN t /\ k = Len(s) + (k - Len(s)))
    BY <1>1
  <2>2. \A k \in DOMAIN t : Len(s) + k \in DOMAIN u /\ Len(s) + k \notin DOMAIN s
    BY <1>1
  <2> QED
    BY <1>1, <1>2, <2>1, <2>2
<1>4. /\ IsFiniteSet(DOMAIN s) /\ IsFiniteSet(DOMAIN t)
      /\ \A k \in DOMAIN s : Amounts(s)[k] \in Int /\ Amounts(s)[k] = s[k].amount
      /\ \A k \in DOMAIN t : Amounts(t)[k] \in Int /\ Amounts(t)[k] = t[k].amount
  BY AmountsFinite, LineParts
<1>5. \A k \in DOMAIN s : Amounts(u)[k] = Amounts(s)[k]
  <2>1. \A k \in DOMAIN s : k \in DOMAIN u
    BY <1>3
  <2> QED
    BY <1>1, <1>4, <2>1 DEF Amounts
<1>6. SumFunctionOnSet(Amounts(u), DOMAIN s) = Total(s)
  <2>1. SumFunctionOnSet(Amounts(s), DOMAIN s) = SumFunctionOnSet(Amounts(u), DOMAIN s)
    BY <1>4, <1>5, SumEqual
  <2> QED
    BY <2>1, TotalType
<1>7. \A k \in DOMAIN t : Amounts(u)[p[k]] = Amounts(t)[k]
  <2>1. \A k \in DOMAIN t : p[k] \in DOMAIN u /\ u[p[k]] = t[k]
    BY <1>1, <1>3
  <2> HIDE DEF p
  <2> QED
    BY <1>4, <2>1 DEF Amounts
<1>8. \A j, k \in DOMAIN t : p[j] = p[k] => j = k
  BY <1>1
<1>9. SumFunctionOnSet(Amounts(u), Second) = Total(t)
  <2> DEFINE K == DOMAIN t
             f == Amounts(t)
             g == Amounts(u)
  <2>0. /\ IsFiniteSet(K) /\ \A k \in K : f[k] \in Int /\ g[p[k]] = f[k]
        /\ \A j, k \in K : p[j] = p[k] => j = k
    BY <1>4, <1>7, <1>8
  <2>1. SumFunctionOnSet(g, ImageOf(p, K)) = SumFunctionOnSet(f, K)
    <3> HIDE DEF p, f, g, K
    <3> QED
      BY <2>0, SumImage DEF Carries
  <2> HIDE DEF p
  <2> QED
    BY <2>1, TotalType
<1> HIDE DEF Second
<1> QED
  BY <1>1, <1>2, <1>3, <1>6, <1>9 DEF u

\* A plan that is accepted spends the cash and the credits' balances, all of them, on the
\* bills, and takes no document over its balance.
WithinBalance(line, docs) ==
    \E q \in 1..Len(docs) : line.doc = docs[q].doc /\ line.amount <= docs[q].balance

\* The plan of a bill payment: one line for each document, none above its balance, and
\* the bills get the cash and what the credits give.
LEMMA BillPlan ==
  ASSUME NEW B, NEW C, B \cap C = {},
         NEW bills \in Seq([doc : B, balance : Nat]),
         NEW credits \in Seq([doc : C, balance : Nat]),
         NEW cash, Money(cash) \in Nat,
         PlanBillPaymentApplication(bills, credits, cash).ok
  PROVE  LET lines == PlanBillPaymentApplication(bills, credits, cash).lines
         IN  /\ lines \in Seq(LineOf(B \cup C)) /\ OneLineEach(lines)
             /\ LinesOn(lines, B) = Money(cash) + LinesOn(lines, C)
             /\ LinesOn(lines, C) \in Nat
             /\ \A k \in DOMAIN lines : \/ WithinBalance(lines[k], bills)
                                        \/ WithinBalance(lines[k], credits)
<1> DEFINE used == [k \in DOMAIN credits |->
                       [doc |-> credits[k].doc, amount |-> credits[k].balance]]
           spread == Spread(bills, Money(cash) + Total(used))
           lines == PlanBillPaymentApplication(bills, credits, cash).lines
           n == Len(credits)
<1>1. /\ lines = spread.lines \o used
      /\ Distinct(bills)
      /\ Distinct(credits)
      /\ \A l \in ToSet(used) : l.amount > 0
      /\ spread.remaining = 0
  BY Zenon DEF PlanBillPaymentApplication, Accepted, Refused
<1>2. /\ n \in Nat /\ DOMAIN credits = 1..n /\ DOMAIN used = 1..n
      /\ \A k \in 1..n : used[k] = [doc |-> credits[k].doc, amount |-> credits[k].balance]
  OBVIOUS
<1> HIDE DEF n
<1>3. \A k \in 1..n : /\ used[k] \in LineOf(C)
                      /\ used[k].doc = credits[k].doc /\ used[k].amount = credits[k].balance
  <2> SUFFICES ASSUME NEW k \in 1..n
               PROVE  /\ used[k] \in LineOf(C)
                      /\ used[k].doc = credits[k].doc /\ used[k].amount = credits[k].balance
    OBVIOUS
  <2>1. credits[k] \in [doc : C, balance : Nat]
    BY Element DEF n
  <2>2. credits[k].doc \in C /\ credits[k].balance \in Nat
    BY <2>1
  <2> HIDE DEF used
  <2>3. used[k] \in ToSet(used)
    BY <1>2 DEF ToSet
  <2>4. used[k].amount > 0
    BY <1>1, <2>3
  <2>5. used[k].doc = credits[k].doc /\ used[k].amount = credits[k].balance
    BY <1>2
  <2>6. credits[k].balance \in Nat \ {0}
    BY <2>2, <2>4, <2>5
  <2> QED
    BY <1>2, <2>2, <2>5, <2>6 DEF LineOf
<1>4. used \in Seq(LineOf(C))
  <2>1. used \in [1..n -> LineOf(C)]
    BY <1>2, <1>3
  <2> HIDE DEF used
  <2> QED
    BY <1>2, <2>1
<1> HIDE DEF used
<1>5. OneLineEach(bills) /\ OneLineEach(credits)
  BY <1>1, DistinctIsOneEach
<1>6. OneLineEach(used)
  BY <1>2, <1>3, <1>5 DEF OneLineEach
<1>7. Total(used) \in Nat
  BY <1>4, TotalType
<1> DEFINE money == Money(cash) + Total(used)
<1>8. money \in Nat
  BY <1>7
<1> HIDE DEF money
<1>9. spread \in SpreadType(B) /\ SpreadTo(spread, bills, money, Len(bills))
  BY <1>5, <1>8, SpreadPlan DEF money
<1> DEFINE taken == spread.lines
<1> HIDE DEF spread
<1>10. /\ taken \in Seq(LineOf(B)) /\ OneLineEach(taken) /\ FromBills(taken, bills, Len(bills))
       /\ Total(taken) + spread.remaining = money
  BY <1>9 DEF SpreadType, SpreadTo
<1>11. Total(taken) \in Nat
  BY <1>10, TotalType
<1>12. Total(taken) = Money(cash) + Total(used)
  BY <1>1, <1>10, <1>11 DEF money
<1>13. LineOf(B) \subseteq LineOf(B \cup C) /\ LineOf(C) \subseteq LineOf(B \cup C)
  BY DEF LineOf
<1>14. taken \in Seq(LineOf(B \cup C)) /\ used \in Seq(LineOf(B \cup C))
  <2> DEFINE L == LineOf(B \cup C)
  <2>1. LineOf(B) \subseteq L /\ LineOf(C) \subseteq L
    BY <1>13
  <2> HIDE DEF L, taken
  <2>2. taken \in Seq(L) /\ used \in Seq(L)
    BY <1>4, <1>10, <2>1
  <2> QED
    BY <2>2 DEF L
<1> HIDE DEF taken
<1> DEFINE u == taken \o used
           Second == Shifted(Len(taken), DOMAIN used)
<1>15. /\ u \in Seq(LineOf(B \cup C))
       /\ DOMAIN u = (DOMAIN taken) \cup Second /\ (DOMAIN taken) \cap Second = {}
       /\ \A k \in DOMAIN taken : u[k] = taken[k]
       /\ \A k \in DOMAIN used : u[Len(taken) + k] = used[k]
       /\ SumFunctionOnSet(Amounts(u), DOMAIN taken) = Total(taken)
       /\ SumFunctionOnSet(Amounts(u), Second) = Total(used)
  BY <1>14, SumConcat
<1> HIDE DEF u
<1>16. \A k \in DOMAIN taken : taken[k].doc \in B
  BY <1>10, LineParts
<1>17. \A k \in Second : \E j \in 1..n : k = Len(taken) + j /\ u[k] = used[j] /\ u[k].doc \in C
  <2>1. \A j \in 1..n : used[j].doc \in C
    BY <1>2, <1>4, LineParts
  <2> QED
    <3> SUFFICES ASSUME NEW j \in DOMAIN used
                 PROVE  u[Len(taken) + j] = used[j] /\ u[Len(taken) + j].doc \in C /\ j \in 1..n
      BY DEF Shifted
    <3> QED
      BY <1>2, <1>15, <2>1
<1>18. \A k \in DOMAIN u : /\ u[k].doc \in B <=> k \in DOMAIN taken
                           /\ u[k].doc \in C <=> k \in Second
  <2> HIDE DEF Second
  <2> QED
    BY <1>15, <1>16, <1>17
<1>19. /\ {k \in DOMAIN u : u[k].doc \in B} = DOMAIN taken
       /\ {k \in DOMAIN u : u[k].doc \in C} = Second
  <2> HIDE DEF Second
  <2> QED
    BY <1>15, <1>18
<1>20. OneLineEach(u)
  <2> SUFFICES ASSUME NEW j \in DOMAIN u, NEW k \in DOMAIN u, u[j].doc = u[k].doc
               PROVE  j = k
    BY DEF OneLineEach
  <2>1. CASE j \in DOMAIN taken
    <3>1. k \in DOMAIN taken
      BY <1>18, <2>1
    <3> QED
      BY <1>10, <1>15, <2>1, <3>1 DEF OneLineEach
  <2>2. CASE j \in Second
    <3>1. k \in Second
      BY <1>18, <2>2
    <3>2. PICK x \in 1..n : j = Len(taken) + x /\ u[j] = used[x]
      BY <1>17, <2>2
    <3>3. PICK y \in 1..n : k = Len(taken) + y /\ u[k] = used[y]
      BY <1>17, <3>1
    <3>4. x = y
      BY <1>2, <1>6, <3>2, <3>3 DEF OneLineEach
    <3> QED
      BY <3>2, <3>3, <3>4
  <2> QED
    BY <1>15, <2>1, <2>2
<1>21. \A k \in DOMAIN u : WithinBalance(u[k], bills) \/ WithinBalance(u[k], credits)
  <2> SUFFICES ASSUME NEW k \in DOMAIN u
               PROVE  WithinBalance(u[k], bills) \/ WithinBalance(u[k], credits)
    OBVIOUS
  <2>1. CASE k \in DOMAIN taken
    BY <1>10, <1>15, <2>1 DEF FromBills, WithinBalance
  <2>2. CASE k \in Second
    <3>1. PICK j \in 1..n : u[k] = used[j]
      BY <1>17, <2>2
    <3>2. u[k].doc = credits[j].doc /\ u[k].amount = credits[j].balance
      BY <1>3, <3>1
    <3>3. credits[j] \in [doc : C, balance : Nat] /\ j \in 1..Len(credits)
      BY Element DEF n
    <3>4. credits[j].balance <= credits[j].balance
      BY <3>3
    <3> QED
      BY <3>2, <3>3, <3>4 DEF WithinBalance
  <2> QED
    BY <1>15, <2>1, <2>2
<1>22. /\ LinesOn(u, B) = Money(cash) + LinesOn(u, C)
       /\ LinesOn(u, C) \in Nat
  <2> HIDE DEF Second
  <2>1. LinesOn(u, B) = Total(taken)
    BY <1>15, <1>19, Zenon DEF LinesOn
  <2>2. LinesOn(u, C) = Total(used)
    BY <1>15, <1>19, Zenon DEF LinesOn
  <2> QED
    BY <1>7, <1>12, <2>1, <2>2
<1>23. lines = u
  BY <1>1 DEF u, taken
<1> HIDE DEF lines, u
<1>24. /\ lines \in Seq(LineOf(B \cup C)) /\ OneLineEach(lines)
       /\ LinesOn(lines, B) = Money(cash) + LinesOn(lines, C)
       /\ LinesOn(lines, C) \in Nat
       /\ \A k \in DOMAIN lines : \/ WithinBalance(lines[k], bills)
                                  \/ WithinBalance(lines[k], credits)
  BY <1>15, <1>20, <1>21, <1>22, <1>23, Zenon
<1> QED
  BY <1>24 DEF lines

-----------------------------------------------------------------------------
(* Bookkeeping: what payments move. *)

\* What a sum over a set of documents loses when lines are taken off them.
SumOf(o, S) == SumFunctionOnSet(o, S)

\* The balances once the lines are taken off.
Taken(o, lines) == [d \in Document |-> o[d] - Applied(lines, d)]

\* There are finitely many documents of each kind.
LEMMA DocumentsFinite ==
  ASSUME NEW S \in SUBSET Document
  PROVE  IsFiniteSet(S)
BY BookkeepingAssumption, FS_Subset

\* QuickBooks takes the lines off the documents: no balance becomes negative, and the
\* documents together lose what the lines on them amount to.
LEMMA Settled ==
  ASSUME NEW o \in [Document -> Nat], NEW lines \in Seq(LineOf(Document)), OneLineEach(lines),
         \A k \in DOMAIN lines : lines[k].amount <= o[lines[k].doc]
  PROVE  /\ Taken(o, lines) \in [Document -> Nat]
         /\ \A d \in Document : Taken(o, lines)[d] <= o[d]
         /\ \A S \in SUBSET Document :
              /\ SumOf(Taken(o, lines), S) = SumOf(o, S) - LinesOn(lines, S)
              /\ SumOf(o, S) \in Int /\ LinesOn(lines, S) \in Int
<1> DEFINE off == [d \in Document |-> Applied(lines, d)]
           o2 == Taken(o, lines)
<1>1. ASSUME NEW S \in SUBSET Document
      PROVE  /\ \A d \in S : off[d] \in Nat
             /\ SumFunctionOnSet(off, S) = LinesOn(lines, S)
  <2>1. IsFiniteSet(S) /\ \A d \in S : off[d] = Applied(lines, d)
    BY DocumentsFinite
  <2> HIDE DEF off
  <2> QED
    BY <2>1, AppliedToSome
<1>2. ASSUME NEW d \in Document
      PROVE  off[d] \in Nat /\ off[d] <= o[d]
  <2>1. CASE \E k \in DOMAIN lines : lines[k].doc = d
    <3>1. PICK k \in DOMAIN lines : lines[k].doc = d
      BY <2>1
    <3>2. off[d] = lines[k].amount /\ lines[k].amount \in Nat
      BY <3>1, AppliedToOne, LineParts
    <3> QED
      BY <3>1, <3>2
  <2>2. CASE \A k \in DOMAIN lines : lines[k].doc # d
    BY <2>2, AppliedToOne
  <2> QED
    BY <2>1, <2>2
<1>3. \A d \in Document : o2[d] = o[d] - off[d]
  BY DEF Taken
<1> HIDE DEF off
<1>4. o2 \in [Document -> Nat] /\ \A d \in Document : o2[d] <= o[d]
  <2>1. \A d \in Document : o2[d] \in Nat /\ o2[d] <= o[d]
    BY <1>2, <1>3
  <2>2. o2 = [d \in Document |-> o2[d]]
    BY DEF Taken
  <2> QED
    BY <2>1, <2>2
<1> HIDE DEF o2
<1>5. ASSUME NEW S \in SUBSET Document
      PROVE  /\ SumOf(o2, S) = SumOf(o, S) - LinesOn(lines, S)
             /\ SumOf(o, S) \in Int /\ LinesOn(lines, S) \in Int
  <2>1. IsFiniteSet(S)
    BY DocumentsFinite
  <2>2. \A d \in S : o[d] \in Int /\ off[d] \in Int /\ o2[d] = o[d] - off[d]
    BY <1>2, <1>3
  <2>3. SumFunctionOnSet(o2, S) = SumFunctionOnSet(o, S) - SumFunctionOnSet(off, S)
    BY <2>1, <2>2, SumMinus
  <2>4. SumFunctionOnSet(o, S) \in Int /\ SumFunctionOnSet(off, S) \in Int
    BY <2>1, <2>2, SumType
  <2> QED
    BY <1>1, <2>3, <2>4 DEF SumOf
<1> QED
  BY <1>4, <1>5 DEF o2

\* Lines of other documents only take nothing off these; lines of these only, everything.
LEMMA LinesElsewhere ==
  ASSUME NEW D, NEW lines \in Seq(LineOf(D)), NEW S
  PROVE  /\ (\A k \in DOMAIN lines : lines[k].doc \notin S) => LinesOn(lines, S) = 0
         /\ (\A k \in DOMAIN lines : lines[k].doc \in S) => LinesOn(lines, S) = Total(lines)
         /\ \A R : (\A k \in DOMAIN lines : lines[k].doc \in S <=> lines[k].doc \in R)
                     => LinesOn(lines, S) = LinesOn(lines, R)
<1>1. ASSUME \A k \in DOMAIN lines : lines[k].doc \notin S
      PROVE  LinesOn(lines, S) = 0
  <2>1. {k \in DOMAIN lines : lines[k].doc \in S} = {}
    BY <1>1
  <2> QED
    BY <2>1, SumEmpty, Zenon DEF LinesOn
<1>2. ASSUME \A k \in DOMAIN lines : lines[k].doc \in S
      PROVE  LinesOn(lines, S) = Total(lines)
  <2>1. {k \in DOMAIN lines : lines[k].doc \in S} = DOMAIN lines
    BY <1>2
  <2> QED
    BY <2>1, TotalType, Zenon DEF LinesOn
<1>3. ASSUME NEW R, \A k \in DOMAIN lines : lines[k].doc \in S <=> lines[k].doc \in R
      PROVE  LinesOn(lines, S) = LinesOn(lines, R)
  <2>1. {k \in DOMAIN lines : lines[k].doc \in S} = {k \in DOMAIN lines : lines[k].doc \in R}
    BY <1>3
  <2> QED
    BY <2>1, Zenon DEF LinesOn
<1> QED
  BY <1>1, <1>2, <1>3

\* Rows of the books, and of the bank.
Entry == [date : Nat \ {0}, amount : Int, party : Party]
BankRow == [date : Nat \ {0}, amount : Int]

\* The types of the variables.
TypeOK ==
    /\ day \in Nat \ {0}
    /\ open \in [Document -> Nat]
    /\ register \in Seq(Entry)
    /\ bank \in Seq(BankRow)
    /\ file \in File

\* What a party has paid or was paid, in rows of the books.
PaidIn(rows, p) == SumFunctionOnSet(Amounts(rows), {k \in DOMAIN rows : rows[k].party = p})

\* The parts of an entry of the books.
LEMMA EntryParts ==
  ASSUME NEW rows \in Seq(Entry), NEW k \in DOMAIN rows
  PROVE  rows[k].date \in Nat \ {0} /\ rows[k].amount \in Int /\ rows[k].party \in Party
<1>1. rows[k] \in Entry
  BY Element
<1> QED
  BY <1>1 DEF Entry

\* What an entry of the books changes for a party.
LEMMA PaidAppend ==
  ASSUME NEW rows \in Seq(Entry), NEW e \in Entry, NEW p
  PROVE  /\ PaidIn(Append(rows, e), p) = PaidIn(rows, p) + (IF e.party = p THEN e.amount ELSE 0)
         /\ PaidIn(rows, p) \in Int
<1> DEFINE t == Append(rows, e)
           n == Len(rows) + 1
           T == {k \in DOMAIN rows : rows[k].party = p}
           U == {k \in DOMAIN t : t[k].party = p}
<1>1. \A k \in DOMAIN rows : rows[k].amount \in Int
  BY EntryParts
<1>2. e.amount \in Int
  BY DEF Entry
<1>3. /\ SumFunctionOnSet(Amounts(t), T) = SumFunctionOnSet(Amounts(rows), T)
      /\ SumFunctionOnSet(Amounts(t), T \cup {n}) = SumFunctionOnSet(Amounts(rows), T) + e.amount
      /\ SumFunctionOnSet(Amounts(rows), T) \in Int
  <2> HIDE DEF T
  <2>1. T \in SUBSET (DOMAIN rows)
    BY DEF T
  <2> QED
    BY <1>1, <1>2, <2>1, SumAppend
<1>4. /\ DOMAIN t = (DOMAIN rows) \cup {n} /\ t[n] = e
      /\ \A k \in DOMAIN rows : t[k] = rows[k] /\ k # n
  OBVIOUS
<1> HIDE DEF t, n
<1>5. U = IF e.party = p THEN T \cup {n} ELSE T
  BY <1>4
<1> HIDE DEF T, U
<1>6. SumFunctionOnSet(Amounts(t), U)
        = SumFunctionOnSet(Amounts(rows), T) + (IF e.party = p THEN e.amount ELSE 0)
  BY <1>3, <1>5
<1> QED
  BY <1>3, <1>6 DEF PaidIn, T, U, t

\* What a party's documents are open for, with the sign of the money that settles them.
Worth(o, p) == SumOf(o, InvoicesOf(p)) - SumOf(o, BillsOf(p)) + SumOf(o, CreditsOf(p))
AtFirst == [d \in Document |-> Documents[d].balance]

\* The documents of a party, by kind.
LEMMA DocumentKinds ==
  ASSUME NEW p
  PROVE  /\ InvoicesOf(p) \in SUBSET Document /\ BillsOf(p) \in SUBSET Document
         /\ CreditsOf(p) \in SUBSET Document
         /\ InvoicesOf(p) \cap BillsOf(p) = {}
         /\ InvoicesOf(p) \cap CreditsOf(p) = {}
         /\ BillsOf(p) \cap CreditsOf(p) = {}
BY BookkeepingAssumption DEF InvoicesOf, BillsOf, CreditsOf, Document

\* A payment that takes lines off the documents of one party and enters what they amount
\* to for it leaves what every party owes and has paid together as it was.
Settling(lines, p) ==
    LinesOn(lines, InvoicesOf(p)) - LinesOn(lines, BillsOf(p)) + LinesOn(lines, CreditsOf(p))

\* A payment leaves what the party owes, is owed and has paid together as it was.
LEMMA PaymentConserves ==
  ASSUME NEW o \in [Document -> Nat], NEW lines \in Seq(LineOf(Document)), OneLineEach(lines),
         \A k \in DOMAIN lines : lines[k].amount <= o[lines[k].doc],
         NEW rows \in Seq(Entry), NEW e \in Entry, NEW p,
         Settling(lines, p) = IF e.party = p THEN e.amount ELSE 0
  PROVE  Worth(Taken(o, lines), p) + PaidIn(Append(rows, e), p) = Worth(o, p) + PaidIn(rows, p)
<1> DEFINE o2 == Taken(o, lines)
           I == InvoicesOf(p)
           B == BillsOf(p)
           C == CreditsOf(p)
           a == IF e.party = p THEN e.amount ELSE 0
<1>1. I \in SUBSET Document /\ B \in SUBSET Document /\ C \in SUBSET Document
  BY DocumentKinds
<1>2. /\ SumOf(o2, I) = SumOf(o, I) - LinesOn(lines, I)
      /\ SumOf(o, I) \in Int /\ LinesOn(lines, I) \in Int
      /\ SumOf(o2, B) = SumOf(o, B) - LinesOn(lines, B)
      /\ SumOf(o, B) \in Int /\ LinesOn(lines, B) \in Int
      /\ SumOf(o2, C) = SumOf(o, C) - LinesOn(lines, C)
      /\ SumOf(o, C) \in Int /\ LinesOn(lines, C) \in Int
  <2> HIDE DEF I, B, C
  <2> QED
    BY <1>1, Settled
<1>3. PaidIn(Append(rows, e), p) = PaidIn(rows, p) + a /\ PaidIn(rows, p) \in Int
  BY PaidAppend
<1>4. LinesOn(lines, I) - LinesOn(lines, B) + LinesOn(lines, C) = a
  BY DEF Settling
<1>5. /\ Worth(o, p) = SumOf(o, I) - SumOf(o, B) + SumOf(o, C)
      /\ Worth(o2, p) = SumOf(o2, I) - SumOf(o2, B) + SumOf(o2, C)
  BY DEF Worth
<1> HIDE DEF o2, I, B, C, a
<1> QED
  BY <1>2, <1>3, <1>4, <1>5 DEF o2

\* MoneyConserved, in terms of Worth and PaidIn.
LEMMA MoneyConservedParts ==
  MoneyConserved <=> /\ \A d \in Document : open[d] \in 0..Documents[d].balance
                     /\ \A p \in Party : Worth(open, p) + PaidIn(register, p) = Worth(AtFirst, p)
<1>1. \A p : /\ Balance(InvoicesOf(p)) - Balance(BillsOf(p)) + Balance(CreditsOf(p)) = Worth(open, p)
             /\ BalanceBefore(InvoicesOf(p)) - BalanceBefore(BillsOf(p))
                  + BalanceBefore(CreditsOf(p)) = Worth(AtFirst, p)
             /\ Paid(p) = PaidIn(register, p)
  BY Zenon DEF Worth, Balance, BalanceBefore, SumOf, AtFirst, Paid, PaidIn
<1> QED
  BY <1>1, Zenon DEF MoneyConserved

\* The inductive invariant: what is paid was taken off the documents.
MoneyInv == TypeOK /\ MoneyConserved

\* What a payment does to the state keeps the invariant.
LEMMA PaymentStep ==
  ASSUME MoneyInv, NEW lines \in Seq(LineOf(Document)), OneLineEach(lines),
         \A k \in DOMAIN lines : lines[k].amount <= open[lines[k].doc],
         NEW amount \in Int, NEW party \in Party,
         \A p \in Party : Settling(lines, p) = IF party = p THEN amount ELSE 0,
         Settle(lines), Enter(amount, party), UNCHANGED <<day, bank, file>>
  PROVE  MoneyInv'
<1> DEFINE e == [date |-> day, amount |-> amount, party |-> party]
<1>1. e \in Entry /\ e.party = party /\ e.amount = amount
  BY DEF MoneyInv, TypeOK, Entry
<1>2. register' = Append(register, e)
  BY DEF Enter
<1> HIDE DEF e
<1>3. open' = Taken(open, lines)
  BY Zenon DEF Settle, Taken, Applied
<1>4. open \in [Document -> Nat] /\ register \in Seq(Entry)
  BY DEF MoneyInv, TypeOK
<1>5. open' \in [Document -> Nat] /\ \A d \in Document : open'[d] <= open[d]
  BY <1>3, <1>4, Settled
<1>6. register' \in Seq(Entry)
  BY <1>1, <1>2, <1>4
<1>7. TypeOK'
  BY <1>5, <1>6 DEF MoneyInv, TypeOK
<1>8. \A d \in Document : open'[d] \in 0..Documents[d].balance
  <2>1. \A d \in Document : open[d] \in 0..Documents[d].balance
    BY MoneyConservedParts DEF MoneyInv
  <2>2. \A d \in Document : Documents[d].balance \in Nat
    BY BookkeepingAssumption
  <2> QED
    BY <1>4, <1>5, <2>1, <2>2
<1>9. ASSUME NEW p \in Party
      PROVE  Worth(open', p) + PaidIn(register', p) = Worth(AtFirst, p)
  <2>1. Worth(open, p) + PaidIn(register, p) = Worth(AtFirst, p)
    BY MoneyConservedParts DEF MoneyInv
  <2>2. Settling(lines, p) = IF e.party = p THEN e.amount ELSE 0
    BY <1>1
  <2>3. Worth(Taken(open, lines), p) + PaidIn(Append(register, e), p)
          = Worth(open, p) + PaidIn(register, p)
    BY <1>1, <1>4, <2>2, PaymentConserves
  <2> QED
    BY <1>2, <1>3, <2>1, <2>3, Zenon
<1>10. MoneyConserved'
  <2>1. MoneyConserved' <=>
            /\ \A d \in Document : open'[d] \in 0..Documents[d].balance
            /\ \A p \in Party : Worth(open', p) + PaidIn(register', p) = Worth(AtFirst, p)
    <3>1. \A p : /\ (Balance(InvoicesOf(p)) - Balance(BillsOf(p)) + Balance(CreditsOf(p)))'
                      = Worth(open', p)
                 /\ (BalanceBefore(InvoicesOf(p)) - BalanceBefore(BillsOf(p))
                      + BalanceBefore(CreditsOf(p)))' = Worth(AtFirst, p)
                 /\ Paid(p)' = PaidIn(register', p)
      BY Zenon DEF Worth, Balance, BalanceBefore, SumOf, AtFirst, Paid, PaidIn, InvoicesOf,
                   BillsOf, CreditsOf, Document
    <3> QED
      BY <3>1, Zenon DEF MoneyConserved, Party, Document
  <2> QED
    BY <1>8, <1>9, <2>1
<1> QED
  BY <1>7, <1>10 DEF MoneyInv

\* The invariant has the types.
LEMMA MoneyType ==
  ASSUME NEW n \in Nat
  PROVE  Money(n) \in Nat
BY DEF Money

\* Lines of some documents are lines of more.
LEMMA LinesOfMore ==
  ASSUME NEW D, NEW E, D \subseteq E, NEW s \in Seq(LineOf(D))
  PROVE  s \in Seq(LineOf(E))
<1>1. LineOf(D) \subseteq LineOf(E)
  BY DEF LineOf
<1> QED
  BY <1>1

\* create_payment.
LEMMA CreatePaymentKeeps ==
  ASSUME MoneyInv, NEW x \in CustomerPayment, CreatePayment(x)
  PROVE  MoneyInv'
<1> DEFINE invoices == [d \in Invoice |-> [owner |-> Documents[d].owner, balance |-> open[d]]]
           plan == PlanInvoiceAllocations(x.allocations, invoices, x.total, x.customer)
           lines == plan.lines
           N == Invoice \cup {None}
<1>1. plan.ok /\ Settle(lines) /\ Enter(Money(x.total), x.customer) /\ UNCHANGED <<day, bank, file>>
  BY DEF CreatePayment
<1>2. x.allocations \in Seq([doc : N, amount : Nat \ {0}]) /\ x.total \in Nat \ {0}
  BY BookkeepingAssumption DEF Asked
<1>3. invoices \in [Invoice -> [owner : Party, balance : Nat]]
  <2>1. \A d \in Invoice : Documents[d].owner \in Party /\ open[d] \in Nat
    BY DEF MoneyInv, TypeOK, Party, Document
  <2> QED
    BY <2>1
<1>4. \A d \in Invoice : invoices[d].owner = Documents[d].owner /\ invoices[d].balance = open[d]
  OBVIOUS
<1> HIDE DEF invoices, N
<1>5. /\ lines \in Seq(LineOf(Invoice)) /\ lines # <<>> /\ OneLineEach(lines)
      /\ Total(lines) = Money(x.total)
      /\ \A k \in DOMAIN lines : /\ lines[k].doc \in Invoice
                                 /\ invoices[lines[k].doc].owner = x.customer
                                 /\ lines[k].amount <= invoices[lines[k].doc].balance
  BY <1>1, <1>2, <1>3, InvoicePlan
<1> HIDE DEF plan
<1>6. \A k \in DOMAIN lines : /\ lines[k].doc \in Invoice
                              /\ Documents[lines[k].doc].owner = x.customer
                              /\ lines[k].amount <= open[lines[k].doc]
  BY <1>4, <1>5
<1>7. x.customer \in Party
  <2>1. 1 \in DOMAIN lines
    BY <1>5
  <2> QED
    BY <1>6, <2>1 DEF Party, Document
<1>8. ASSUME NEW p \in Party
      PROVE  Settling(lines, p) = IF x.customer = p THEN Money(x.total) ELSE 0
  <2>1. \A k \in DOMAIN lines : lines[k].doc \notin BillsOf(p) /\ lines[k].doc \notin CreditsOf(p)
    BY <1>6, BookkeepingAssumption DEF BillsOf, CreditsOf
  <2>2. LinesOn(lines, BillsOf(p)) = 0 /\ LinesOn(lines, CreditsOf(p)) = 0
    BY <1>5, <2>1, LinesElsewhere
  <2>3. LinesOn(lines, InvoicesOf(p)) = IF x.customer = p THEN Money(x.total) ELSE 0
    <3>1. CASE x.customer = p
      <4>1. \A k \in DOMAIN lines : lines[k].doc \in InvoicesOf(p)
        BY <1>6, <3>1 DEF InvoicesOf
      <4> QED
        BY <1>5, <3>1, <4>1, LinesElsewhere
    <3>2. CASE x.customer # p
      <4>1. \A k \in DOMAIN lines : lines[k].doc \notin InvoicesOf(p)
        BY <1>6, <3>2 DEF InvoicesOf
      <4> QED
        BY <1>5, <3>2, <4>1, LinesElsewhere
    <3> QED
      BY <3>1, <3>2
  <2>4. Money(x.total) \in Int
    BY <1>2, MoneyType
  <2> QED
    BY <2>2, <2>3, <2>4 DEF Settling
<1>9. lines \in Seq(LineOf(Document))
  BY <1>5, LinesOfMore DEF Document
<1>10. Money(x.total) \in Int
  BY <1>2, MoneyType
<1> QED
  BY <1>1, <1>5, <1>6, <1>7, <1>8, <1>9, <1>10, PaymentStep

\* The documents that are fetched have their ids and their open balances.
LEMMA FetchedType ==
  ASSUME MoneyInv, NEW D \in SUBSET Document, NEW docs \in Seq(D)
  PROVE  /\ Fetched(docs) \in Seq([doc : D, balance : Nat])
         /\ Len(Fetched(docs)) = Len(docs)
         /\ \A q \in 1..Len(docs) : /\ Fetched(docs)[q].doc = docs[q]
                                    /\ Fetched(docs)[q].balance = open[docs[q]]
<1>1. Len(docs) \in Nat /\ DOMAIN docs = 1..Len(docs)
  OBVIOUS
<1>2. \A q \in 1..Len(docs) : docs[q] \in D /\ open[docs[q]] \in Nat
  BY Element DEF MoneyInv, TypeOK
<1>3. Fetched(docs) \in [1..Len(docs) -> [doc : D, balance : Nat]]
  BY <1>1, <1>2 DEF Fetched
<1>4. Fetched(docs) \in Seq([doc : D, balance : Nat]) /\ Len(Fetched(docs)) = Len(docs)
  <2> DEFINE R == [doc : D, balance : Nat]
             f == Fetched(docs)
  <2> HIDE DEF R, f
  <2> SUFFICES f \in Seq(R) /\ Len(f) = Len(docs)
    BY DEF R, f
  <2>1. f \in [1..Len(docs) -> R]
    BY <1>3 DEF R, f
  <2> QED
    BY <1>1, <2>1
<1> QED
  BY <1>1, <1>4 DEF Fetched

\* Two sequences one after the other.
LEMMA Joined ==
  ASSUME NEW E, NEW s \in Seq(E), NEW t \in Seq(E)
  PROVE  /\ s \o t \in Seq(E)
         /\ Len(s \o t) = Len(s) + Len(t) /\ Len(s) \in Nat /\ Len(t) \in Nat
         /\ \A q \in 1..Len(s) : q \in DOMAIN (s \o t) /\ (s \o t)[q] = s[q]
         /\ \A q \in 1..Len(t) : /\ Len(s) + q \in DOMAIN (s \o t)
                                 /\ (s \o t)[Len(s) + q] = t[q]
OBVIOUS

\* create_bill_payment.
LEMMA CreateBillPaymentKeeps ==
  ASSUME MoneyInv, NEW x \in BillPayment, CreateBillPayment(x)
  PROVE  MoneyInv'
<1> DEFINE bills == Fetched(x.bills)
           credits == Fetched(x.credits)
           plan == PlanBillPaymentApplication(bills, credits, x.cash)
           lines == plan.lines
<1>1. /\ plan.ok /\ Settle(lines) /\ Enter(-Money(x.cash), x.vendor)
      /\ UNCHANGED <<day, bank, file>>
      /\ x.bills # <<>>
      /\ \A d \in ToSet(x.bills \o x.credits) : Documents[d].owner = x.vendor
  BY DEF CreateBillPayment
<1>2. x.bills \in Seq(Bill) /\ x.credits \in Seq(Credit) /\ x.cash \in Nat
  BY BookkeepingAssumption DEF Asked
<1>3. Bill \in SUBSET Document /\ Credit \in SUBSET Document
  BY DEF Document
<1>4. /\ bills \in Seq([doc : Bill, balance : Nat]) /\ Len(bills) = Len(x.bills)
      /\ \A q \in 1..Len(x.bills) : bills[q].doc = x.bills[q] /\ bills[q].balance = open[x.bills[q]]
      /\ credits \in Seq([doc : Credit, balance : Nat]) /\ Len(credits) = Len(x.credits)
      /\ \A q \in 1..Len(x.credits) : /\ credits[q].doc = x.credits[q]
                                      /\ credits[q].balance = open[x.credits[q]]
  BY <1>2, <1>3, FetchedType
<1>5. /\ \A q \in 1..Len(x.bills) : Documents[x.bills[q]].owner = x.vendor
      /\ \A q \in 1..Len(x.credits) : Documents[x.credits[q]].owner = x.vendor
  <2> DEFINE both == x.bills \o x.credits
  <2>1. /\ \A q \in 1..Len(x.bills) : q \in DOMAIN both /\ both[q] = x.bills[q]
        /\ \A q \in 1..Len(x.credits) : /\ Len(x.bills) + q \in DOMAIN both
                                        /\ both[Len(x.bills) + q] = x.credits[q]
    <3> DEFINE s == x.bills
               t == x.credits
    <3>1. s \in Seq(Document) /\ t \in Seq(Document)
      BY <1>2, <1>3
    <3> HIDE DEF s, t
    <3>2. /\ \A q \in 1..Len(s) : q \in DOMAIN (s \o t) /\ (s \o t)[q] = s[q]
          /\ \A q \in 1..Len(t) : /\ Len(s) + q \in DOMAIN (s \o t)
                                  /\ (s \o t)[Len(s) + q] = t[q]
      BY <3>1, Joined
    <3> QED
      BY <3>2 DEF s, t
  <2> HIDE DEF both
  <2>2. \A k \in DOMAIN both : Documents[both[k]].owner = x.vendor
    BY <1>1 DEF both, ToSet
  <2> QED
    BY <2>1, <2>2
<1> HIDE DEF bills, credits
<1>6. Money(x.cash) \in Nat
  BY <1>2, MoneyType
<1>7. Bill \cap Credit = {}
  BY BookkeepingAssumption
<1>8. /\ lines \in Seq(LineOf(Bill \cup Credit)) /\ OneLineEach(lines)
      /\ LinesOn(lines, Bill) = Money(x.cash) + LinesOn(lines, Credit)
      /\ LinesOn(lines, Credit) \in Nat
      /\ \A k \in DOMAIN lines : WithinBalance(lines[k], bills) \/ WithinBalance(lines[k], credits)
  BY <1>1, <1>4, <1>6, <1>7, BillPlan
<1> HIDE DEF plan
<1>9. \A k \in DOMAIN lines : /\ lines[k].doc \in Bill \cup Credit
                              /\ Documents[lines[k].doc].owner = x.vendor
                              /\ lines[k].amount <= open[lines[k].doc]
  <2> SUFFICES ASSUME NEW k \in DOMAIN lines
               PROVE  /\ Documents[lines[k].doc].owner = x.vendor
                      /\ lines[k].amount <= open[lines[k].doc]
    BY <1>8, LineParts
  <2>1. CASE WithinBalance(lines[k], bills)
    BY <1>4, <1>5, <2>1 DEF WithinBalance
  <2>2. CASE WithinBalance(lines[k], credits)
    BY <1>4, <1>5, <2>2 DEF WithinBalance
  <2> QED
    BY <1>8, <2>1, <2>2
<1>10. x.vendor \in Party
  <2>1. 1 \in 1..Len(x.bills) /\ x.bills[1] \in Bill
    BY <1>1, <1>2
  <2> QED
    BY <1>5, <2>1 DEF Party, Document
<1>11. ASSUME NEW p \in Party
       PROVE  Settling(lines, p) = IF x.vendor = p THEN -Money(x.cash) ELSE 0
  <2>1. \A k \in DOMAIN lines : lines[k].doc \notin InvoicesOf(p)
    BY <1>9, BookkeepingAssumption DEF InvoicesOf
  <2>2. LinesOn(lines, InvoicesOf(p)) = 0
    BY <1>8, <2>1, LinesElsewhere
  <2>3. CASE x.vendor = p
    <3>1. \A k \in DOMAIN lines : /\ lines[k].doc \in BillsOf(p) <=> lines[k].doc \in Bill
                                  /\ lines[k].doc \in CreditsOf(p) <=> lines[k].doc \in Credit
      BY <1>9, <2>3 DEF BillsOf, CreditsOf
    <3>2. /\ LinesOn(lines, BillsOf(p)) = LinesOn(lines, Bill)
          /\ LinesOn(lines, CreditsOf(p)) = LinesOn(lines, Credit)
      BY <1>8, <3>1, LinesElsewhere
    <3> QED
      BY <1>6, <1>8, <2>2, <2>3, <3>2 DEF Settling
  <2>4. CASE x.vendor # p
    <3>1. \A k \in DOMAIN lines : lines[k].doc \notin BillsOf(p) /\ lines[k].doc \notin CreditsOf(p)
      BY <1>9, <2>4 DEF BillsOf, CreditsOf
    <3>2. LinesOn(lines, BillsOf(p)) = 0 /\ LinesOn(lines, CreditsOf(p)) = 0
      BY <1>8, <3>1, LinesElsewhere
    <3> QED
      BY <2>2, <2>4, <3>2 DEF Settling
  <2> QED
    BY <2>3, <2>4
<1>12. lines \in Seq(LineOf(Document))
  <2>1. Bill \cup Credit \subseteq Document
    BY DEF Document
  <2> QED
    BY <1>8, <2>1, LinesOfMore
<1>13. -Money(x.cash) \in Int
  BY <1>6
<1> QED
  BY <1>1, <1>8, <1>9, <1>10, <1>11, <1>12, <1>13, PaymentStep

\* At first everything is open and nothing is paid.
LEMMA MoneyInit ==
  ASSUME Init
  PROVE  MoneyInv
<1>1. \A d \in Document : Documents[d].balance \in Nat
  BY BookkeepingAssumption
<1>2. open \in [Document -> Nat] /\ \A d \in Document : open[d] = Documents[d].balance
  BY <1>1 DEF Init
<1>3. TypeOK
  BY <1>2 DEF Init, TypeOK
<1>4. open = AtFirst
  BY DEF Init, AtFirst
<1>5. ASSUME NEW p \in Party
      PROVE  Worth(open, p) + PaidIn(register, p) = Worth(AtFirst, p)
  <2>1. PaidIn(register, p) = 0
    <3>1. {k \in DOMAIN register : register[k].party = p} = {}
      BY DEF Init
    <3> QED
      BY <3>1, SumEmpty, Zenon DEF PaidIn
  <2>2. Worth(AtFirst, p) \in Int
    <3>1. \A S \in SUBSET Document : SumOf(AtFirst, S) \in Int
      <4>1. \A d \in Document : AtFirst[d] \in Int
        BY <1>1 DEF AtFirst
      <4> QED
        BY <4>1, DocumentsFinite, SumType DEF SumOf
    <3> QED
      BY <3>1, DocumentKinds DEF Worth
  <2> QED
    BY <1>4, <2>1, <2>2
<1>6. MoneyConserved
  BY <1>1, <1>2, <1>5, MoneyConservedParts
<1> QED
  BY <1>3, <1>6 DEF MoneyInv

\* The bank and the days do not touch the books.
LEMMA MoneyUntouched ==
  ASSUME MoneyConserved, UNCHANGED <<open, register>>
  PROVE  MoneyConserved'
BY DEF MoneyConserved, Balance, BalanceBefore, Paid, InvoicesOf, BillsOf, CreditsOf, Party, Document

\* What the bank shows changes neither the books nor the documents.
LEMMA BankShowsKeeps ==
  ASSUME MoneyInv, NEW amount \in BankAmount, BankShows(amount)
  PROVE  MoneyInv'
<1>1. [date |-> day, amount |-> amount] \in BankRow
  BY BookkeepingAssumption DEF MoneyInv, TypeOK, BankRow
<1>2. bank' \in Seq(BankRow)
  BY <1>1 DEF BankShows, MoneyInv, TypeOK
<1>3. TypeOK'
  BY <1>2 DEF BankShows, MoneyInv, TypeOK
<1>4. MoneyConserved'
  BY MoneyUntouched DEF BankShows, MoneyInv
<1> QED
  BY <1>3, <1>4 DEF MoneyInv

\* Every step keeps the invariant.
LEMMA MoneyStep ==
  ASSUME MoneyInv, [Next]_vars
  PROVE  MoneyInv'
<1>1. ASSUME NEW p \in CustomerPayment, CreatePayment(p)
      PROVE  MoneyInv'
  BY <1>1, CreatePaymentKeeps
<1>2. ASSUME NEW p \in BillPayment, CreateBillPayment(p)
      PROVE  MoneyInv'
  BY <1>2, CreateBillPaymentKeeps
<1>3. ASSUME NEW amount \in BankAmount, BankShows(amount)
      PROVE  MoneyInv'
  BY <1>3, BankShowsKeeps
<1>4. CASE NextDay
  <2>1. TypeOK'
    BY <1>4 DEF NextDay, MoneyInv, TypeOK
  <2>2. MoneyConserved'
    BY <1>4, MoneyUntouched DEF NextDay, MoneyInv
  <2> QED
    BY <2>1, <2>2 DEF MoneyInv
<1>5. CASE UNCHANGED vars
  <2>1. TypeOK'
    BY <1>5 DEF vars, MoneyInv, TypeOK
  <2>2. MoneyConserved'
    BY <1>5, MoneyUntouched DEF vars, MoneyInv
  <2> QED
    BY <2>1, <2>2 DEF MoneyInv
<1> QED
  BY <1>1, <1>2, <1>3, <1>4, <1>5 DEF Next

\* Types, and what create_payment and create_bill_payment move, for any documents,
\* payments, amounts and number of days: the inductive invariant of the module.
THEOREM MoneyInvHolds == Spec => []MoneyInv
<1>1. Init => MoneyInv
  BY MoneyInit
<1>2. MoneyInv /\ [Next]_vars => MoneyInv'
  BY MoneyStep
<1> QED
  BY <1>1, <1>2, PTL DEF Spec

\* Every cent a party pays or is paid comes off its own documents, and none of them is
\* settled for more than it was open for (planInvoiceAllocations,
\* planBillPaymentApplication).
THEOREM MoneyIsConserved == Spec => []MoneyConserved
<1>1. MoneyInv => MoneyConserved
  BY DEF MoneyInv
<1> QED
  BY <1>1, MoneyInvHolds, PTL

-----------------------------------------------------------------------------
(* Reconciliation: the rows that are kept, and their sums. *)

\* kept is the rows at the positions of S, one after another; p says where each was.
Places(p, kept, rows, S) ==
    /\ p \in [DOMAIN kept -> S]
    /\ \A j \in DOMAIN kept : kept[j] = rows[p[j]]
    /\ \A i, j \in DOMAIN kept : i < j => p[i] < p[j]
    /\ \A s \in S : \E j \in DOMAIN kept : p[j] = s

\* Keep goes through the rows one after another.
LEMMA KeepUnfold ==
  ASSUME NEW E, NEW rows \in Seq(E), NEW S
  PROVE  \E kept : /\ Keep(rows, S) = kept[Len(rows)]
                   /\ kept[0] = <<>>
                   /\ \A k \in 1..Len(rows) :
                        kept[k] = IF k \in S THEN Append(kept[k - 1], rows[k]) ELSE kept[k - 1]
<1> DEFINE n == Len(rows)
           More(v, k) == IF k \in S THEN Append(v, rows[k]) ELSE v
           step == [p \in Seq(E) \X (1..n) |-> More(p[1], p[2])]
           Rec(a) == a = [k \in 0..n |-> IF k = 0 THEN <<>> ELSE More(a[k - 1], k)]
<1>1. n \in Nat /\ <<>> \in Seq(E)
  OBVIOUS
<1>2. \A v \in Seq(E), k \in 1..n : More(v, k) \in Seq(E)
  BY Element
<1> HIDE DEF More
<1>3. StepOn(step, n, Seq(E))
  BY <1>2 DEF StepOn
<1> HIDE DEF n, step
<1>4. PICK a : Iterated(a, n, Seq(E), <<>>, step)
  BY <1>1, <1>3, Iterates
<1>5. \A k \in 1..n : a[k] = More(a[k - 1], k)
  <2> SUFFICES ASSUME NEW k \in 1..n
               PROVE  a[k] = More(a[k - 1], k)
    OBVIOUS
  <2>1. a[k - 1] \in Seq(E)
    BY <1>1, <1>4 DEF Iterated
  <2>2. step[<<a[k - 1], k>>] = More(a[k - 1], k)
    BY <2>1 DEF step
  <2> QED
    BY <1>4, <2>2 DEF Iterated
<1>6. Rec(a)
  BY <1>1, <1>4, <1>5 DEF Iterated
<1>7. Rec(CHOOSE b : Rec(b))
  BY <1>6
<1> DEFINE kept == CHOOSE b : Rec(b)
<1>8. Keep(rows, S) = kept[n]
  BY Zenon DEF Keep, More, n
<1>9. kept = [k \in 0..n |-> IF k = 0 THEN <<>> ELSE More(kept[k - 1], k)]
  BY <1>7
<1> HIDE DEF kept
<1>10. kept[0] = <<>> /\ \A k \in 1..n : kept[k] = More(kept[k - 1], k)
  BY <1>1, <1>9
<1> QED
  BY <1>8, <1>10, Zenon DEF More, n

\* One more row is kept.
LEMMA PlacesMore ==
  ASSUME NEW E, NEW rows \in Seq(E), NEW k \in 1..Len(rows), NEW S \in SUBSET (1..(k - 1)),
         NEW kept \in Seq(E), NEW p, Places(p, kept, rows, S)
  PROVE  \E q : Places(q, Append(kept, rows[k]), rows, S \cup {k})
<1> DEFINE t == Append(kept, rows[k])
           m == Len(kept) + 1
           q == [j \in 1..m |-> IF j = m THEN k ELSE p[j]]
<1>1. m \in Nat \ {0} /\ DOMAIN kept = 1..(m - 1) /\ DOMAIN t = 1..m /\ k \in Nat
  OBVIOUS
<1>2. t[m] = rows[k] /\ \A j \in 1..(m - 1) : t[j] = kept[j]
  OBVIOUS
<1> HIDE DEF t, m
<1>3. \A j \in 1..(m - 1) : j \in 1..m /\ j # m /\ q[j] = p[j] /\ p[j] \in S
  BY <1>1 DEF Places
<1>4. q[m] = k /\ m \in 1..m /\ \A j \in 1..m : j = m \/ j \in 1..(m - 1)
  BY <1>1
<1>5. q \in [DOMAIN t -> S \cup {k}]
  <2>1. \A j \in 1..m : q[j] \in S \cup {k}
    BY <1>3, <1>4
  <2>2. q = [j \in 1..m |-> q[j]]
    OBVIOUS
  <2> HIDE DEF q
  <2> QED
    BY <1>1, <2>1, <2>2
<1>6. \A j \in DOMAIN t : t[j] = rows[q[j]]
  BY <1>1, <1>2, <1>3, <1>4 DEF Places
<1>7. \A s \in S \cup {k} : \E j \in DOMAIN t : q[j] = s
  BY <1>1, <1>3, <1>4 DEF Places
<1> HIDE DEF q
<1>8. ASSUME NEW i \in DOMAIN t, NEW j \in DOMAIN t, i < j
      PROVE  q[i] < q[j]
  <2>1. i \in 1..(m - 1)
    BY <1>1, <1>8
  <2>2. CASE j \in 1..(m - 1)
    BY <1>1, <1>3, <1>8, <2>1, <2>2 DEF Places
  <2>3. CASE j = m
    <3>1. q[i] \in 1..(k - 1) /\ q[j] = k
      BY <1>3, <1>4, <2>1, <2>3
    <3> QED
      BY <1>1, <3>1
  <2> QED
    BY <1>1, <1>4, <2>2, <2>3
<1>9. Places(q, t, rows, S \cup {k})
  BY <1>5, <1>6, <1>7, <1>8 DEF Places
<1> QED
  BY <1>9 DEF t

\* What Keep returns is the rows at the positions of S, in their order.
LEMMA KeepPlaces ==
  ASSUME NEW E, NEW rows \in Seq(E), NEW S \in SUBSET (DOMAIN rows)
  PROVE  /\ Keep(rows, S) \in Seq(E)
         /\ \E p : Places(p, Keep(rows, S), rows, S)
<1>1. PICK kept : /\ Keep(rows, S) = kept[Len(rows)]
                  /\ kept[0] = <<>>
                  /\ \A k \in 1..Len(rows) :
                       kept[k] = IF k \in S THEN Append(kept[k - 1], rows[k]) ELSE kept[k - 1]
  BY KeepUnfold
<1> DEFINE Upto(k) == {s \in S : s <= k}
           Good(k) == kept[k] \in Seq(E) /\ \E p : Places(p, kept[k], rows, Upto(k))
           C == {k \in Nat : k <= Len(rows) => Good(k)}
<1>2. Len(rows) \in Nat /\ DOMAIN rows = 1..Len(rows)
  OBVIOUS
<1>3. 0 \in C
  <2>1. Upto(0) = {}
    BY <1>2
  <2>2. Places([j \in {} |-> 0], <<>>, rows, {})
    <3>1. DOMAIN <<>> = {}
      OBVIOUS
    <3>2. [j \in {} |-> 0] \in [{} -> {}]
      OBVIOUS
    <3> QED
      BY <3>1, <3>2, Zenon DEF Places
  <2>3. <<>> \in Seq(E)
    OBVIOUS
  <2>4. Good(0)
    BY <1>1, <2>1, <2>2, <2>3, Zenon
  <2> HIDE DEF Good
  <2> QED
    BY <2>4
<1>4. ASSUME NEW k \in Nat, k \in C
      PROVE  k + 1 \in C
  <2> DEFINE c == k + 1
  <2> SUFFICES ASSUME c <= Len(rows)
               PROVE  Good(c)
    <3> HIDE DEF Good
    <3> QED
      OBVIOUS
  <2>1. c \in 1..Len(rows) /\ c - 1 = k /\ k <= Len(rows)
    BY <1>2
  <2>2. Good(k)
    <3> HIDE DEF Good
    <3> QED
      BY <1>4, <2>1
  <2>3. kept[c] = IF c \in S THEN Append(kept[k], rows[c]) ELSE kept[k]
    BY <1>1, <2>1
  <2>4. Upto(k) \in SUBSET (1..(c - 1))
    BY <1>2, <2>1
  <2>5. Upto(c) = IF c \in S THEN Upto(k) \cup {c} ELSE Upto(k)
    BY <1>2, <2>1
  <2>6. rows[c] \in E
    BY <2>1, Element
  <2> HIDE DEF Upto, c
  <2>7. CASE c \in S
    <3>1. PICK p : Places(p, kept[k], rows, Upto(k))
      BY <2>2
    <3>2. \E q : Places(q, Append(kept[k], rows[c]), rows, Upto(k) \cup {c})
      BY <2>1, <2>2, <2>4, <3>1, PlacesMore
    <3>3. kept[c] = Append(kept[k], rows[c]) /\ Upto(c) = Upto(k) \cup {c}
      BY <2>3, <2>5, <2>7
    <3>4. Append(kept[k], rows[c]) \in Seq(E)
      BY <2>2, <2>6
    <3> QED
      BY <3>2, <3>3, <3>4, Zenon
  <2>8. CASE c \notin S
    BY <2>2, <2>3, <2>5, <2>8, Zenon
  <2> QED
    BY <2>7, <2>8
<1> HIDE DEF C
<1>5. Len(rows) \in C
  BY <1>2, <1>3, <1>4, NatInduct
<1>6. Upto(Len(rows)) = S
  BY <1>2
<1>7. Good(Len(rows))
  <2> HIDE DEF Good
  <2> QED
    BY <1>2, <1>5 DEF C
<1> QED
  BY <1>1, <1>6, <1>7, Zenon

\* The sizes of the amounts of rows, which are integers.
Sizes(rows) == [k \in DOMAIN rows |-> Size(rows[k].amount)]
InInt(rows) == \A k \in DOMAIN rows : rows[k].amount \in Int

\* The size of an amount, and its sign.
LEMMA SizeType ==
  ASSUME NEW n \in Int
  PROVE  /\ Size(n) \in Nat /\ Size(Size(n)) = Size(n)
         /\ n = IF n > 0 THEN Size(n) ELSE IF n < 0 THEN -Size(n) ELSE 0
         /\ n > 0 => Size(n) > 0
         /\ n < 0 => Size(n) > 0
         /\ Size(n) > 0 <=> n # 0
BY DEF Size

\* Amounts and sizes of rows are integers, and so are their sums.
LEMMA SizesType ==
  ASSUME NEW E, NEW rows \in Seq(E), InInt(rows)
  PROVE  /\ IsFiniteSet(DOMAIN rows)
         /\ \A k \in DOMAIN rows : /\ Sizes(rows)[k] \in Nat /\ Sizes(rows)[k] = Size(rows[k].amount)
                                   /\ Amounts(rows)[k] \in Int /\ Amounts(rows)[k] = rows[k].amount
         /\ \A S \in SUBSET (DOMAIN rows) :
              /\ IsFiniteSet(S)
              /\ SumFunctionOnSet(Sizes(rows), S) \in Int
              /\ SumFunctionOnSet(Amounts(rows), S) \in Int
<1>1. IsFiniteSet(DOMAIN rows)
  BY AmountsFinite
<1>2. \A k \in DOMAIN rows :
         /\ Sizes(rows)[k] \in Nat /\ Sizes(rows)[k] = Size(rows[k].amount)
         /\ Amounts(rows)[k] \in Int /\ Amounts(rows)[k] = rows[k].amount
  BY SizeType DEF InInt, Sizes, Amounts
<1>3. ASSUME NEW S \in SUBSET (DOMAIN rows)
      PROVE  /\ IsFiniteSet(S)
             /\ SumFunctionOnSet(Sizes(rows), S) \in Int
             /\ SumFunctionOnSet(Amounts(rows), S) \in Int
  <2>1. IsFiniteSet(S)
    BY AmountsFinite
  <2>2. \A k \in S : Sizes(rows)[k] \in Int /\ Amounts(rows)[k] \in Int
    BY <1>2
  <2> QED
    BY <2>1, <2>2, SumType
<1> QED
  BY <1>1, <1>2, <1>3

\* A sum over the rows that were kept is one over their positions.
KeptAs(rows, S, f, h) ==
    /\ \A s \in S : f[s] \in Int
    /\ \A j \in DOMAIN Keep(rows, S) : \A s \in S : Keep(rows, S)[j] = rows[s] => h[j] = f[s]

\* The sum over what is kept is the sum over the positions.
LEMMA KeepSum ==
  ASSUME NEW E, NEW rows \in Seq(E), NEW S \in SUBSET (DOMAIN rows), NEW f, NEW h,
         KeptAs(rows, S, f, h)
  PROVE  SumFunctionOnSet(h, DOMAIN Keep(rows, S)) = SumFunctionOnSet(f, S)
<1> DEFINE kept == Keep(rows, S)
           J == DOMAIN kept
<1>1. PICK p : Places(p, kept, rows, S)
  BY KeepPlaces
<1>2. kept \in Seq(E)
  BY KeepPlaces
<1>3. IsFiniteSet(J) /\ J \subseteq Nat
  <2> HIDE DEF kept
  <2> QED
    BY <1>2, AmountsFinite
<1> HIDE DEF kept
<1>4. \A j \in J : p[j] \in S /\ kept[j] = rows[p[j]]
  BY <1>1 DEF Places
<1>5. \A j \in J : h[j] \in Int /\ f[p[j]] = h[j]
  BY <1>4 DEF kept, KeptAs
<1>6. \A i, j \in J : p[i] = p[j] => i = j
  <2> SUFFICES ASSUME NEW i \in J, NEW j \in J, p[i] = p[j], i # j
               PROVE  FALSE
    OBVIOUS
  <2>1. p[i] < p[j] \/ p[j] < p[i]
    BY <1>1, <1>3 DEF Places
  <2>2. p[i] \in 1..Len(rows)
    BY <1>4
  <2> QED
    BY <2>1, <2>2
<1>7. ImageOf(p, J) = S
  BY <1>1, <1>4 DEF Places, ImageOf
<1> HIDE DEF J
<1>8. SumFunctionOnSet(f, ImageOf(p, J)) = SumFunctionOnSet(h, J)
  <2>1. Carries(p, J, h, f)
    BY <1>5, <1>6 DEF Carries
  <2> QED
    BY <1>3, <2>1, SumImage
<1> QED
  BY <1>7, <1>8 DEF J, kept

\* The net and the sum of the rows that were kept.
LEMMA KeepNet ==
  ASSUME NEW E, NEW rows \in Seq(E), InInt(rows), NEW S \in SUBSET (DOMAIN rows)
  PROVE  /\ InInt(Keep(rows, S))
         /\ Net(Keep(rows, S)) = SumFunctionOnSet(Amounts(rows), S)
         /\ Sum(Keep(rows, S)) = SumFunctionOnSet(Sizes(rows), S)
<1> DEFINE kept == Keep(rows, S)
<1>1. PICK p : Places(p, kept, rows, S)
  BY KeepPlaces
<1>2. /\ \A j \in DOMAIN kept : p[j] \in DOMAIN rows /\ kept[j] = rows[p[j]]
  BY <1>1 DEF Places
<1> HIDE DEF kept
<1>3. InInt(kept)
  BY <1>2 DEF InInt
<1>4. \A k \in S : Amounts(rows)[k] \in Int /\ Sizes(rows)[k] \in Int
  BY SizesType
<1>5. \A j \in DOMAIN kept : \A s \in S : kept[j] = rows[s] =>
         Amounts(kept)[j] = Amounts(rows)[s] /\ Sizes(kept)[j] = Sizes(rows)[s]
  BY DEF Amounts, Sizes
<1>6. /\ SumFunctionOnSet(Amounts(kept), DOMAIN kept) = SumFunctionOnSet(Amounts(rows), S)
      /\ SumFunctionOnSet(Sizes(kept), DOMAIN kept) = SumFunctionOnSet(Sizes(rows), S)
  <2>1. KeptAs(rows, S, Amounts(rows), Amounts(kept)) /\ KeptAs(rows, S, Sizes(rows), Sizes(kept))
    BY <1>4, <1>5 DEF kept, KeptAs
  <2> QED
    BY <2>1, KeepSum DEF kept
<1>7. Net(kept) = SumFunctionOnSet(Amounts(kept), DOMAIN kept)
  BY DEF Net, SumFunction, Amounts
<1>8. Sum(kept) = SumFunctionOnSet(Sizes(kept), DOMAIN kept)
  BY DEF Sum, SumFunction, Sizes
<1> QED
  BY <1>3, <1>6, <1>7, <1>8 DEF kept

\* Net and Sum of rows are sums over their positions.
LEMMA NetIs ==
  ASSUME NEW E, NEW rows \in Seq(E), InInt(rows)
  PROVE  /\ Net(rows) = SumFunctionOnSet(Amounts(rows), DOMAIN rows) /\ Net(rows) \in Int
         /\ Sum(rows) = SumFunctionOnSet(Sizes(rows), DOMAIN rows) /\ Sum(rows) \in Int
<1>1. Net(rows) = SumFunctionOnSet(Amounts(rows), DOMAIN rows)
  BY DEF Net, SumFunction, Amounts
<1>2. Sum(rows) = SumFunctionOnSet(Sizes(rows), DOMAIN rows)
  BY DEF Sum, SumFunction, Sizes
<1> QED
  BY <1>1, <1>2, SizesType

\* What came in less what went out.
LEMMA SignSplit ==
  ASSUME NEW E, NEW rows \in Seq(E), InInt(rows), NEW T \in SUBSET (DOMAIN rows)
  PROVE  SumFunctionOnSet(Amounts(rows), T)
           = SumFunctionOnSet(Sizes(rows), {k \in T : rows[k].amount > 0})
               - SumFunctionOnSet(Sizes(rows), {k \in T : rows[k].amount < 0})
<1> DEFINE P == {k \in T : rows[k].amount > 0}
           N == {k \in T : rows[k].amount < 0}
           Z == {k \in T : rows[k].amount = 0}
           A(S) == SumFunctionOnSet(Amounts(rows), S)
           G(S) == SumFunctionOnSet(Sizes(rows), S)
           zero == [k \in DOMAIN rows |-> 0]
<1>0. \A k \in T : rows[k].amount \in Int
  BY DEF InInt
<1>1. /\ P \in SUBSET (DOMAIN rows) /\ N \in SUBSET (DOMAIN rows) /\ Z \in SUBSET (DOMAIN rows)
      /\ P \cup N \in SUBSET (DOMAIN rows)
      /\ T = (P \cup N) \cup Z /\ (P \cup N) \cap Z = {} /\ P \cap N = {}
  BY <1>0
<1>2. /\ \A k \in P : rows[k].amount \in Int /\ rows[k].amount > 0
      /\ \A k \in N : rows[k].amount \in Int /\ rows[k].amount < 0
      /\ \A k \in Z : rows[k].amount = 0
  BY <1>0
<1> HIDE DEF P, N, Z
<1>3. /\ IsFiniteSet(P) /\ IsFiniteSet(N) /\ IsFiniteSet(Z) /\ IsFiniteSet(P \cup N)
      /\ \A k \in DOMAIN rows : Amounts(rows)[k] = rows[k].amount /\ Amounts(rows)[k] \in Int
      /\ \A k \in DOMAIN rows : Sizes(rows)[k] = Size(rows[k].amount) /\ Sizes(rows)[k] \in Int
  BY <1>1, SizesType
<1>4. A(P) = G(P)
  <2>1. \A k \in P : Amounts(rows)[k] = Sizes(rows)[k] /\ Amounts(rows)[k] \in Int
    BY <1>1, <1>2, <1>3, SizeType
  <2> QED
    BY <1>3, <2>1, SumEqual
<1>5. \A S \in SUBSET (DOMAIN rows) : A(S) \in Int /\ G(S) \in Int
  BY SizesType
<1>6. SumFunctionOnSet(zero, Z) = 0 /\ SumFunctionOnSet(zero, N) = 0
  <2> SUFFICES ASSUME NEW S \in SUBSET (DOMAIN rows)
               PROVE  SumFunctionOnSet(zero, S) = 0
    BY <1>1
  <2>1. IsFiniteSet(S) /\ \A k \in S : zero[k] \in Int /\ zero[k] = zero[k] - zero[k]
    BY SizesType
  <2> HIDE DEF zero
  <2>2. SumFunctionOnSet(zero, S) = SumFunctionOnSet(zero, S) - SumFunctionOnSet(zero, S)
    BY <2>1, SumMinus
  <2>3. SumFunctionOnSet(zero, S) \in Int
    BY <2>1, SumType
  <2> QED
    BY <2>2, <2>3
<1>7. A(N) = 0 - G(N)
  <2>1. \A k \in N : /\ Amounts(rows)[k] = zero[k] - Sizes(rows)[k]
                     /\ zero[k] \in Int /\ Sizes(rows)[k] \in Int
    <3> SUFFICES ASSUME NEW k \in N
                 PROVE  /\ Amounts(rows)[k] = zero[k] - Sizes(rows)[k]
                        /\ zero[k] \in Int /\ Sizes(rows)[k] \in Int
      OBVIOUS
    <3>1. k \in DOMAIN rows /\ zero[k] = 0
      BY <1>1
    <3>2. rows[k].amount \in Int /\ rows[k].amount < 0
      BY <1>2
    <3>3. rows[k].amount = 0 - Size(rows[k].amount)
      BY <3>2 DEF Size
    <3> QED
      BY <1>3, <3>1, <3>3
  <2> HIDE DEF zero
  <2>2. A(N) = SumFunctionOnSet(zero, N) - G(N)
    BY <1>3, <2>1, SumMinus
  <2> QED
    BY <1>6, <2>2
<1>8. A(Z) = 0
  <2>1. \A k \in Z : Amounts(rows)[k] = zero[k] /\ Amounts(rows)[k] \in Int
    BY <1>1, <1>2, <1>3
  <2> HIDE DEF zero
  <2>2. A(Z) = SumFunctionOnSet(zero, Z)
    BY <1>3, <2>1, SumEqual
  <2> QED
    BY <1>6, <2>2
<1>9. A(P \cup N) = A(P) + A(N)
  <2>1. \A k \in P \cup N : Amounts(rows)[k] \in Int
    BY <1>1, <1>3
  <2> QED
    BY <1>1, <1>3, <2>1, SumUnion
<1>10. A((P \cup N) \cup Z) = A(P \cup N) + A(Z)
  <2>1. \A k \in (P \cup N) \cup Z : Amounts(rows)[k] \in Int
    BY <1>1, <1>3
  <2> QED
    BY <1>1, <1>3, <2>1, SumUnion
<1>11. A(T) = G(P) - G(N)
  <2>1. A(T) = A((P \cup N) \cup Z)
    BY <1>1
  <2>2. A(P) \in Int /\ A(N) \in Int /\ G(N) \in Int /\ G(P) \in Int
    BY <1>1, <1>5
  <2> HIDE DEF A, G
  <2> QED
    BY <1>4, <1>7, <1>8, <1>9, <1>10, <2>1, <2>2
<1> QED
  BY <1>11 DEF P, N

\* pairs takes rows of the statement and of the books of one amount, each at most once.
PairsOff(pairs, statement, regs) ==
    /\ \A q \in pairs : \E i \in DOMAIN statement, j \in DOMAIN regs : q = <<i, j>>
    /\ \A i, j : <<i, j>> \in pairs => statement[i].amount = regs[j].amount
    /\ \A i, j, k, l : <<i, j>> \in pairs /\ <<k, l>> \in pairs => (i = k <=> j = l)

\* The sum over the rows that are not in S.
LEMMA SumDifference ==
  ASSUME NEW E, NEW rows \in Seq(E), InInt(rows), NEW S \in SUBSET (DOMAIN rows)
  PROVE  SumFunctionOnSet(Sizes(rows), (DOMAIN rows) \ S)
           = Sum(rows) - SumFunctionOnSet(Sizes(rows), S)
<1> DEFINE D == (DOMAIN rows) \ S
           G(T) == SumFunctionOnSet(Sizes(rows), T)
<1>1. D \cup S = DOMAIN rows /\ D \cap S = {} /\ D \in SUBSET (DOMAIN rows)
  OBVIOUS
<1> HIDE DEF D
<1>2. IsFiniteSet(D) /\ IsFiniteSet(S) /\ G(D) \in Int /\ G(S) \in Int
  BY <1>1, SizesType
<1>3. \A k \in D \cup S : Sizes(rows)[k] \in Int
  BY <1>1, SizesType
<1>4. G(D \cup S) = G(D) + G(S)
  BY <1>1, <1>2, <1>3, SumUnion
<1>5. Sum(rows) = G(D) + G(S)
  <2>1. Sum(rows) = G(DOMAIN rows)
    BY NetIs
  <2> HIDE DEF G
  <2> QED
    BY <1>1, <1>4, <2>1
<1> HIDE DEF G
<1>6. G(D) = Sum(rows) - G(S)
  BY <1>2, <1>5
<1> QED
  BY <1>6 DEF G, D

\* What two statements leave unmatched differs by what they differ.
LEMMA LeftOver ==
  ASSUME NEW E, NEW statement \in Seq(E), InInt(statement),
         NEW F, NEW regs \in Seq(F), InInt(regs),
         NEW pairs, PairsOff(pairs, statement, regs)
  PROVE  LET statementOnly == Keep(statement, DOMAIN statement \ {q[1] : q \in pairs})
             registerOnly == Keep(regs, DOMAIN regs \ {q[2] : q \in pairs})
         IN  /\ Sum(registerOnly) - Sum(statementOnly) = Sum(regs) - Sum(statement)
             /\ Sum(registerOnly) \in Int /\ Sum(statementOnly) \in Int
<1> DEFINE P == {q[1] : q \in pairs}
           R == {q[2] : q \in pairs}
           p == [i \in P |-> CHOOSE j \in R : <<i, j>> \in pairs]
           Gs(T) == SumFunctionOnSet(Sizes(statement), T)
           Gr(T) == SumFunctionOnSet(Sizes(regs), T)
<1>0. /\ \A i \in P : \E j \in DOMAIN regs : <<i, j>> \in pairs /\ i \in DOMAIN statement
      /\ \A j \in R : \E i \in DOMAIN statement : <<i, j>> \in pairs /\ j \in DOMAIN regs
      /\ \A i, j : <<i, j>> \in pairs => i \in P /\ j \in R
  <2>1. ASSUME NEW q \in pairs
        PROVE  \E i \in DOMAIN statement, j \in DOMAIN regs :
                  q = <<i, j>> /\ q[1] = i /\ q[2] = j
    BY DEF PairsOff
  <2>2. \A i, j : <<i, j>> \in pairs => i \in P /\ j \in R
    <3> SUFFICES ASSUME NEW i, NEW j, <<i, j>> \in pairs
                 PROVE  i \in P /\ j \in R
      OBVIOUS
    <3>1. <<i, j>>[1] = i /\ <<i, j>>[2] = j
      OBVIOUS
    <3> QED
      BY <3>1
  <2> QED
    BY <2>1, <2>2
<1>1. /\ P \in SUBSET (DOMAIN statement) /\ R \in SUBSET (DOMAIN regs)
      /\ \A i \in P : \E j \in R : <<i, j>> \in pairs
      /\ \A j \in R : \E i \in P : <<i, j>> \in pairs
  <2> HIDE DEF P, R
  <2> QED
    BY <1>0
<1> HIDE DEF P, R
<1>2. \A i \in P : p[i] \in R /\ <<i, p[i]>> \in pairs
  BY <1>1
<1> HIDE DEF p
<1>3. ImageOf(p, P) = R
  <2>1. \A j \in R : \E i \in P : p[i] = j
    <3> SUFFICES ASSUME NEW j \in R
                 PROVE  \E i \in P : p[i] = j
      OBVIOUS
    <3>1. PICK i \in P : <<i, j>> \in pairs
      BY <1>1
    <3> QED
      BY <1>2, <3>1 DEF PairsOff
  <2> QED
    BY <1>2, <2>1 DEF ImageOf
<1>4. Carries(p, P, Sizes(statement), Sizes(regs))
  <2>1. \A i \in P : /\ Sizes(statement)[i] \in Int
                     /\ Sizes(regs)[p[i]] = Sizes(statement)[i]
    <3> SUFFICES ASSUME NEW i \in P
                 PROVE  /\ Sizes(statement)[i] \in Int
                        /\ Sizes(regs)[p[i]] = Sizes(statement)[i]
      OBVIOUS
    <3>1. i \in DOMAIN statement /\ p[i] \in DOMAIN regs
      BY <1>1, <1>2
    <3>2. statement[i].amount = regs[p[i]].amount
      BY <1>2 DEF PairsOff
    <3> QED
      BY <3>1, <3>2, SizesType
  <2>2. \A i, k \in P : p[i] = p[k] => i = k
    BY <1>2 DEF PairsOff
  <2> QED
    BY <2>1, <2>2 DEF Carries
<1>5. Gr(R) = Gs(P)
  <2>1. IsFiniteSet(P)
    BY <1>1, SizesType
  <2>2. SumFunctionOnSet(Sizes(regs), ImageOf(p, P)) = SumFunctionOnSet(Sizes(statement), P)
    BY <1>4, <2>1, SumImage
  <2> QED
    BY <1>3, <2>2
<1>6. Sum(Keep(statement, DOMAIN statement \ P)) = Sum(statement) - Gs(P)
  <2>1. DOMAIN statement \ P \in SUBSET (DOMAIN statement)
    OBVIOUS
  <2> QED
    BY <1>1, <2>1, KeepNet, SumDifference
<1>7. Sum(Keep(regs, DOMAIN regs \ R)) = Sum(regs) - Gr(R)
  <2>1. DOMAIN regs \ R \in SUBSET (DOMAIN regs)
    OBVIOUS
  <2> QED
    BY <1>1, <2>1, KeepNet, SumDifference
<1>8. Sum(statement) \in Int /\ Sum(regs) \in Int /\ Gs(P) \in Int /\ Gr(R) \in Int
  BY <1>1, NetIs, SizesType
<1> HIDE DEF Gs, Gr
<1>9. /\ Sum(Keep(regs, DOMAIN regs \ R)) - Sum(Keep(statement, DOMAIN statement \ P))
           = Sum(regs) - Sum(statement)
      /\ Sum(Keep(regs, DOMAIN regs \ R)) \in Int
      /\ Sum(Keep(statement, DOMAIN statement \ P)) \in Int
  BY <1>5, <1>6, <1>7, <1>8
<1> QED
  BY <1>9 DEF P, R

-----------------------------------------------------------------------------
(* Reconciliation: the rows of one amount, in the order of their dates. *)

\* before is a strict order of S in which every two members are comparable.
Orders(before, S) ==
    /\ \A i \in S : <<i, i>> \notin before
    /\ \A i, j, k \in S : <<i, j>> \in before /\ <<j, k>> \in before => <<i, k>> \in before
    /\ \A i, j \in S : i = j \/ <<i, j>> \in before \/ <<j, i>> \in before

\* The members of S before i, and how many.
Earlier(S, before, i) == {j \in S : <<j, i>> \in before}
Rank(S, before, i) == Cardinality(Earlier(S, before, i))

\* The members of a finite strictly ordered set have as many before them as 0, 1, ...
LEMMA Ranks ==
  ASSUME NEW S, IsFiniteSet(S), NEW before, Orders(before, S)
  PROVE  /\ \A i \in S : Rank(S, before, i) \in 0..(Cardinality(S) - 1)
         /\ \A i, j \in S : <<i, j>> \in before => Rank(S, before, i) < Rank(S, before, j)
         /\ \A r \in 0..(Cardinality(S) - 1) : \E i \in S : Rank(S, before, i) = r
<1> DEFINE P(i) == Earlier(S, before, i)
           n == Cardinality(S)
           rank == [i \in S |-> Rank(S, before, i)]
<1>1. n \in Nat /\ \A T \in SUBSET S : IsFiniteSet(T) /\ Cardinality(T) \in Nat
  BY FiniteParts
<1>2. \A i \in S : P(i) \in SUBSET S /\ i \notin P(i)
  BY DEF Earlier, Orders
<1>3. ASSUME NEW T \in SUBSET S, NEW U \in SUBSET T, NEW x \in T, x \notin U
      PROVE  Cardinality(U) < Cardinality(T)
  <2>1. U \cup {x} \in SUBSET T /\ U \in SUBSET S
    OBVIOUS
  <2>2. Cardinality(U \cup {x}) = Cardinality(U) + 1
    BY <1>1, <1>3, <2>1, FS_AddElement
  <2>3. Cardinality(U \cup {x}) <= Cardinality(T)
    BY <1>1, <2>1, FS_Subset
  <2> QED
    BY <1>1, <2>1, <2>2, <2>3
<1>4. ASSUME NEW i \in S
      PROVE  Rank(S, before, i) \in 0..(n - 1)
  <2>1. Cardinality(P(i)) < n
    <3> HIDE DEF P
    <3> QED
      BY <1>2, <1>3
  <2> QED
    BY <1>1, <1>2, <2>1 DEF Rank
<1>5. ASSUME NEW i \in S, NEW j \in S, <<i, j>> \in before
      PROVE  Rank(S, before, i) < Rank(S, before, j)
  <2>1. P(i) \subseteq P(j) /\ i \in P(j)
    BY <1>5 DEF Earlier, Orders
  <2>2. Cardinality(P(i)) < Cardinality(P(j))
    <3> HIDE DEF P
    <3> QED
      BY <1>2, <1>3, <2>1
  <2> QED
    BY <2>2 DEF Rank
<1>6. rank \in Injection(S, 0..(n - 1))
  <2>1. rank \in [S -> 0..(n - 1)]
    BY <1>4
  <2>2. \A i, j \in S : rank[i] = rank[j] => i = j
    <3> SUFFICES ASSUME NEW i \in S, NEW j \in S, i # j
                 PROVE  rank[i] # rank[j]
      OBVIOUS
    <3>1. Rank(S, before, i) < Rank(S, before, j) \/ Rank(S, before, j) < Rank(S, before, i)
      BY <1>5 DEF Orders
    <3> QED
      BY <1>4, <3>1
  <2> HIDE DEF rank
  <2> QED
    BY <2>1, <2>2 DEF Injection, IsInjective
<1>7. IsFiniteSet(0..(n - 1)) /\ Cardinality(0..(n - 1)) = n
  <2> HIDE DEF n
  <2>1. n - 1 \in Int /\ 0 \in Int /\ IF 0 > n - 1 THEN n = 0 ELSE (n - 1) - 0 + 1 = n
    BY <1>1
  <2>2. /\ IsFiniteSet(0..(n - 1))
        /\ Cardinality(0..(n - 1)) = IF 0 > n - 1 THEN 0 ELSE (n - 1) - 0 + 1
    BY <2>1, FS_Interval
  <2> QED
    BY <2>1, <2>2
<1>8. rank \in Surjection(S, 0..(n - 1))
  <2> DEFINE T == 0..(n - 1)
  <2>1. rank \in Injection(S, T) /\ IsFiniteSet(T) /\ Cardinality(T) = Cardinality(S)
    BY <1>6, <1>7
  <2> HIDE DEF rank, T, n
  <2>2. rank \in Surjection(S, T)
    BY <2>1, FS_Injection
  <2> QED
    BY <2>2 DEF T
<1>9. \A r \in 0..(n - 1) : \E i \in S : rank[i] = r
  <2> HIDE DEF rank
  <2> QED
    BY <1>8 DEF Surjection
<1> QED
  BY <1>4, <1>5, <1>9

\* s goes through S in the order.
GoesThrough(s, S, before) ==
    /\ s \in [1..Cardinality(S) -> S]
    /\ \A i \in S : \E k \in 1..Cardinality(S) : s[k] = i
    /\ \A j, k \in 1..Cardinality(S) : j < k => <<s[j], s[k]>> \in before

\* Ordered sorts.
LEMMA OrderedGoesThrough ==
  ASSUME NEW S, IsFiniteSet(S), NEW before, Orders(before, S)
  PROVE  GoesThrough(Ordered(S, before), S, before)
<1> DEFINE n == Cardinality(S)
           s == Ordered(S, before)
           R(i) == Rank(S, before, i)
<1>1. n \in Nat
  BY FiniteParts
<1>2. /\ \A i \in S : R(i) \in 0..(n - 1)
      /\ \A i, j \in S : <<i, j>> \in before => R(i) < R(j)
      /\ \A r \in 0..(n - 1) : \E i \in S : R(i) = r
  BY Ranks
<1>3. s = [k \in 1..n |-> CHOOSE i \in S : R(i) = k - 1]
  BY Zenon DEF Ordered, Rank, Earlier
<1> HIDE DEF R, n, s
<1>4. \A k \in 1..n : s[k] \in S /\ R(s[k]) = k - 1
  <2> SUFFICES ASSUME NEW k \in 1..n
               PROVE  s[k] \in S /\ R(s[k]) = k - 1
    OBVIOUS
  <2>1. k - 1 \in 0..(n - 1)
    BY <1>1
  <2>2. \E i \in S : R(i) = k - 1
    BY <1>2, <2>1
  <2> QED
    BY <1>3, <2>2
<1>5. \A i \in S : \E k \in 1..n : s[k] = i
  <2> SUFFICES ASSUME NEW i \in S
               PROVE  \E k \in 1..n : s[k] = i
    OBVIOUS
  <2>1. R(i) + 1 \in 1..n /\ (R(i) + 1) - 1 = R(i)
    BY <1>1, <1>2
  <2>2. s[R(i) + 1] \in S /\ R(s[R(i) + 1]) = R(i)
    BY <1>4, <2>1
  <2> DEFINE x == s[R(i) + 1]
  <2>3. x \in S /\ R(x) = R(i) /\ R(i) \in Int
    BY <1>1, <1>2, <2>2
  <2> HIDE DEF x
  <2>4. x = i
    <3>1. <<x, i>> \notin before /\ <<i, x>> \notin before
      BY <1>2, <2>3
    <3> QED
      BY <2>3, <3>1 DEF Orders
  <2> QED
    BY <2>1, <2>4 DEF x
<1>6. \A j, k \in 1..n : j < k => <<s[j], s[k]>> \in before
  <2> SUFFICES ASSUME NEW j \in 1..n, NEW k \in 1..n, j < k
               PROVE  <<s[j], s[k]>> \in before
    OBVIOUS
  <2>1. s[j] \in S /\ s[k] \in S /\ R(s[j]) = j - 1 /\ R(s[k]) = k - 1
    BY <1>4
  <2>2. R(s[j]) < R(s[k])
    BY <1>1, <2>1
  <2>3. s[j] # s[k] /\ <<s[k], s[j]>> \notin before
    BY <1>2, <2>1, <2>2
  <2> QED
    BY <2>1, <2>3 DEF Orders
<1>7. s \in [1..n -> S]
  BY <1>3, <1>4
<1> QED
  BY <1>5, <1>6, <1>7 DEF GoesThrough, n, s

\* Rows with dates; the rows of one amount.
Dated(rows) == \A k \in DOMAIN rows : rows[k].date \in Int
Priced(rows, amount) == {i \in DOMAIN rows : rows[i].amount = amount}

\* The rows of an amount, each once, none before an earlier one.
LEMMA ByDateOrders ==
  ASSUME NEW E, NEW rows \in Seq(E), Dated(rows), NEW amount
  PROVE  LET S == Priced(rows, amount)
             s == ByDate(rows, amount)
         IN  /\ IsFiniteSet(S) /\ Cardinality(S) \in Nat
             /\ s \in [1..Cardinality(S) -> S] /\ s \in Seq(S) /\ Len(s) = Cardinality(S)
             /\ \A i \in S : \E k \in 1..Cardinality(S) : s[k] = i
             /\ \A j, k \in 1..Cardinality(S) :
                  j < k => s[j] # s[k] /\ rows[s[j]].date <= rows[s[k]].date
<1> DEFINE S == Priced(rows, amount)
           before == {p \in S \X S : \/ rows[p[1]].date < rows[p[2]].date
                                     \/ rows[p[1]].date = rows[p[2]].date /\ p[1] < p[2]}
           s == ByDate(rows, amount)
           n == Cardinality(S)
<1>1. S \in SUBSET (DOMAIN rows) /\ DOMAIN rows = 1..Len(rows)
  BY DEF Priced
<1>2. IsFiniteSet(S) /\ n \in Nat
  BY <1>1, AmountsFinite, FiniteParts
<1>3. s = Ordered(S, before)
  BY Zenon DEF ByDate, Priced
<1> HIDE DEF S, s
<1>4. \A i, j \in S : <<i, j>> \in before <=> \/ rows[i].date < rows[j].date
                                              \/ rows[i].date = rows[j].date /\ i < j
  OBVIOUS
<1> HIDE DEF before
<1>5. \A i \in S : rows[i].date \in Int /\ i \in Nat
  BY <1>1 DEF Dated
<1>6. Orders(before, S)
  BY <1>4, <1>5 DEF Orders
<1>7. GoesThrough(s, S, before)
  BY <1>2, <1>3, <1>6, OrderedGoesThrough
<1> HIDE DEF n
<1>8. s \in [1..n -> S] /\ s \in Seq(S) /\ Len(s) = n
  <2>1. s \in [1..n -> S]
    BY <1>7 DEF GoesThrough, n
  <2> QED
    BY <1>2, <2>1
<1>9. /\ \A i \in S : \E k \in 1..n : s[k] = i
      /\ \A j, k \in 1..n : j < k => <<s[j], s[k]>> \in before
  BY <1>7 DEF GoesThrough, n
<1>10. \A j, k \in 1..n : j < k => s[j] # s[k] /\ rows[s[j]].date <= rows[s[k]].date
  <2> SUFFICES ASSUME NEW j \in 1..n, NEW k \in 1..n, j < k
               PROVE  s[j] # s[k] /\ rows[s[j]].date <= rows[s[k]].date
    OBVIOUS
  <2>1. s[j] \in S /\ s[k] \in S /\ <<s[j], s[k]>> \in before
    BY <1>8, <1>9
  <2> HIDE DEF s
  <2> QED
    BY <1>4, <1>5, <2>1
<1> QED
  BY <1>2, <1>8, <1>9, <1>10 DEF S, s, n

-----------------------------------------------------------------------------
(* Reconciliation: matchings and their scores. *)

\* The distance of every two rows, and the score of some pairs.
Gaps(st, rg) == [p \in (DOMAIN st) \X (DOMAIN rg) |-> Distance(st[p[1]], rg[p[2]])]
ScoreOf(st, rg, M) == [count |-> Cardinality(M),
                       cost  |-> SumFunctionOnSet(Gaps(st, rg), M),
                       pairs |-> M]

\* The ways to pair rows of I with rows of J.
Matchings(st, rg, tol, I, J) ==
    {M \in SUBSET (I \X J) : /\ \A p \in M : Viable(st, rg, tol, p[1], p[2])
                             /\ Matching(M)}

\* I and J are positions of rows with a date.
RowsOf(st, rg, I, J) ==
    /\ I \subseteq DOMAIN st /\ J \subseteq DOMAIN rg
    /\ IsFiniteSet(I) /\ IsFiniteSet(J)
    /\ Dated(st) /\ Dated(rg)

\* The distance of two rows is the number of days between them.
LEMMA DistanceType ==
  ASSUME NEW s, NEW q, s.date \in Int, q.date \in Int
  PROVE  /\ Distance(s, q) \in Nat
         /\ Distance(s, q) = IF s.date < q.date THEN q.date - s.date ELSE s.date - q.date
BY DEF Distance, Size

\* The parts of a pair, and its distance.
LEMMA GapsType ==
  ASSUME NEW st, NEW rg, NEW I, NEW J, RowsOf(st, rg, I, J), NEW i \in I, NEW j \in J
  PROVE  /\ <<i, j>>[1] = i /\ <<i, j>>[2] = j
         /\ Gaps(st, rg)[<<i, j>>] = Distance(st[i], rg[j])
         /\ Distance(st[i], rg[j]) \in Nat
         /\ st[i].date \in Int /\ rg[j].date \in Int
<1>1. st[i].date \in Int /\ rg[j].date \in Int /\ i \in DOMAIN st /\ j \in DOMAIN rg
  BY DEF RowsOf, Dated
<1>2. Gaps(st, rg)[<<i, j>>] = Distance(st[i], rg[j])
  BY <1>1 DEF Gaps
<1>3. Distance(st[i], rg[j]) \in Nat
  BY <1>1, DistanceType
<1> QED
  BY <1>1, <1>2, <1>3

\* There are finitely many pairs, and their cost is a number of days.
LEMMA PairsFinite ==
  ASSUME NEW st, NEW rg, NEW I, NEW J, RowsOf(st, rg, I, J), NEW M \in SUBSET (I \X J)
  PROVE  /\ IsFiniteSet(M) /\ Cardinality(M) \in Nat
         /\ \A p \in M : Gaps(st, rg)[p] \in Nat
         /\ SumFunctionOnSet(Gaps(st, rg), M) \in Nat
<1>1. IsFiniteSet(I \X J)
  BY FS_Product DEF RowsOf
<1>2. IsFiniteSet(M) /\ Cardinality(M) \in Nat
  BY <1>1, FS_Subset, FS_CardinalityType
<1>3. \A p \in M : Gaps(st, rg)[p] \in Nat
  <2> SUFFICES ASSUME NEW p \in M
               PROVE  Gaps(st, rg)[p] \in Nat
    OBVIOUS
  <2>1. PICK i \in I, j \in J : p = <<i, j>>
    OBVIOUS
  <2> QED
    BY <2>1, GapsType
<1> QED
  BY <1>2, <1>3, SumNat

\* One more pair.
LEMMA ScoreMatched ==
  ASSUME NEW st, NEW rg, NEW I, NEW J, RowsOf(st, rg, I, J), NEW M \in SUBSET (I \X J),
         NEW i \in I, NEW j \in J, <<i, j>> \notin M
  PROVE  ScoreOf(st, rg, M \cup {<<i, j>>}) = Matched(ScoreOf(st, rg, M), st, rg, i, j)
<1> DEFINE p == <<i, j>>
           g == Gaps(st, rg)
           G(T) == SumFunctionOnSet(g, T)
<1>1. IsFiniteSet(M) /\ Cardinality(M) \in Nat /\ G(M) \in Nat
  BY PairsFinite
<1>2. g[p] = Distance(st[i], rg[j]) /\ g[p] \in Nat
  BY GapsType
<1>3. \A x \in M \cup {p} : g[x] \in Int
  BY <1>2, PairsFinite
<1>4. Cardinality(M \cup {p}) = Cardinality(M) + 1
  BY <1>1, FS_AddElement
<1>5. G(M \cup {p}) = G(M) + Distance(st[i], rg[j])
  <2> HIDE DEF g
  <2>1. G(M \cup {p}) = g[p] + G(M)
    BY <1>1, <1>3, SumInsert
  <2> HIDE DEF p, G
  <2> QED
    BY <1>1, <1>2, <2>1
<1> QED
  BY <1>4, <1>5 DEF ScoreOf, Matched

\* A viable pair of rows that are not in I and J makes a matching larger.
LEMMA AddPair ==
  ASSUME NEW st, NEW rg, NEW tol, NEW I, NEW J, NEW M \in Matchings(st, rg, tol, I, J),
         NEW i, NEW j, i \notin I, j \notin J, Viable(st, rg, tol, i, j)
  PROVE  /\ M \cup {<<i, j>>} \in Matchings(st, rg, tol, I \cup {i}, J \cup {j})
         /\ <<i, j>> \notin M
<1>1. M \in SUBSET (I \X J) /\ (\A p \in M : Viable(st, rg, tol, p[1], p[2])) /\ Matching(M)
  BY DEF Matchings
<1> DEFINE p == <<i, j>>
           N == M \cup {p}
<1>2. p[1] = i /\ p[2] = j /\ p \in (I \cup {i}) \X (J \cup {j})
  OBVIOUS
<1>3. \A q \in M : q[1] \in I /\ q[2] \in J /\ q \in (I \cup {i}) \X (J \cup {j})
  BY <1>1
<1> HIDE DEF p
<1>4. Matching(N)
  BY <1>1, <1>2, <1>3 DEF Matching
<1>5. p \notin M
  BY <1>2, <1>3
<1>6. N \in SUBSET ((I \cup {i}) \X (J \cup {j})) /\ \A q \in N : Viable(st, rg, tol, q[1], q[2])
  BY <1>1, <1>2, <1>3
<1> QED
  BY <1>4, <1>5, <1>6 DEF Matchings, p

\* A matching without one of its pairs does not need the rows of that pair.
LEMMA RemovePair ==
  ASSUME NEW st, NEW rg, NEW tol, NEW I, NEW J, NEW i, NEW j,
         NEW M \in Matchings(st, rg, tol, I \cup {i}, J \cup {j}), <<i, j>> \in M
  PROVE  M \ {<<i, j>>} \in Matchings(st, rg, tol, I, J)
<1> DEFINE p == <<i, j>>
           N == M \ {p}
<1>1. /\ M \in SUBSET ((I \cup {i}) \X (J \cup {j}))
      /\ (\A q \in M : Viable(st, rg, tol, q[1], q[2])) /\ Matching(M)
  BY DEF Matchings
<1>2. p[1] = i /\ p[2] = j
  OBVIOUS
<1>3. ASSUME NEW q \in N
      PROVE  q \in I \X J
  <2>1. PICK a \in I \cup {i}, b \in J \cup {j} : q = <<a, b>>
    BY <1>1
  <2>2. q[1] = a /\ q[2] = b
    BY <2>1
  <2>3. a = i <=> b = j
    BY <1>1, <1>2, <2>2 DEF Matching
  <2>4. ~(a = i /\ b = j)
    BY <2>1
  <2> QED
    BY <2>1, <2>3, <2>4
<1> HIDE DEF p
<1>4. Matching(N) /\ \A q \in N : Viable(st, rg, tol, q[1], q[2])
  BY <1>1 DEF Matching
<1>5. N \in SUBSET (I \X J)
  BY <1>3
<1> HIDE DEF N
<1> QED
  BY <1>4, <1>5 DEF Matchings, N, p

\* A matching that only uses rows of K and L is one of these.
LEMMA FewerRows ==
  ASSUME NEW st, NEW rg, NEW tol, NEW I, NEW J, NEW K, NEW L,
         NEW M \in Matchings(st, rg, tol, I, J), \A p \in M : p[1] \in K /\ p[2] \in L
  PROVE  M \in Matchings(st, rg, tol, K, L)
<1>1. /\ M \in SUBSET (I \X J)
      /\ (\A q \in M : Viable(st, rg, tol, q[1], q[2])) /\ Matching(M)
  BY DEF Matchings
<1>2. \A p \in M : p \in K \X L
  BY <1>1
<1> QED
  BY <1>1, <1>2 DEF Matchings

\* Two pairs that cross in time are no closer than the two that do not.
LEMMA Uncross ==
  ASSUME NEW s, NEW t, NEW q, NEW r,
         s.date \in Int, t.date \in Int, q.date \in Int, r.date \in Int,
         s.date <= t.date, q.date <= r.date
  PROVE  /\ Distance(s, q) + Distance(t, r) <= Distance(s, r) + Distance(t, q)
         /\ \A n \in Int : Distance(s, r) <= n /\ Distance(t, q) <= n
                             => Distance(s, q) <= n /\ Distance(t, r) <= n
<1> DEFINE a == s.date
           b == t.date
           c == q.date
           d == r.date
           D(x, y) == IF x < y THEN y - x ELSE x - y
<1>1. /\ Distance(s, q) = D(a, c) /\ Distance(t, r) = D(b, d)
      /\ Distance(s, r) = D(a, d) /\ Distance(t, q) = D(b, c)
  BY DistanceType
<1>2. a \in Int /\ b \in Int /\ c \in Int /\ d \in Int /\ a <= b /\ c <= d
  OBVIOUS
<1> HIDE DEF a, b, c, d
<1>3. /\ D(a, c) + D(b, d) <= D(a, d) + D(b, c)
      /\ \A n \in Int : D(a, d) <= n /\ D(b, c) <= n => D(a, c) <= n /\ D(b, d) <= n
  BY <1>2
<1> HIDE DEF D
<1> QED
  BY <1>1, <1>3

\* The distances and dates of all the rows of I and J.
LEMMA DatesType ==
  ASSUME NEW st, NEW rg, NEW I, NEW J, RowsOf(st, rg, I, J)
  PROVE  \A x \in I, y \in J : /\ Distance(st[x], rg[y]) \in Nat
                               /\ st[x].date \in Int /\ rg[y].date \in Int
BY GapsType

\* The rows i and j are the last of theirs, and all are of one amount.
LastRows(st, rg, I, J, i, j) ==
    /\ RowsOf(st, rg, I \cup {i}, J \cup {j}) /\ i \notin I /\ j \notin J
    /\ \A x \in I : st[x].date <= st[i].date
    /\ \A y \in J : rg[y].date <= rg[j].date
    /\ \A x \in I \cup {i}, y \in J \cup {j} : st[x].amount = rg[y].amount

\* If both are paired, each with another, then pairing them with each other is no worse.
LEMMA Exchange ==
  ASSUME NEW st, NEW rg, NEW tol \in Int, NEW I, NEW J, NEW i, NEW j,
         LastRows(st, rg, I, J, i, j),
         NEW M \in Matchings(st, rg, tol, I \cup {i}, J \cup {j}),
         NEW a \in I, NEW b \in J, <<i, b>> \in M, <<a, j>> \in M
  PROVE  \E N \in Matchings(st, rg, tol, I, J) :
           /\ Viable(st, rg, tol, i, j)
           /\ ~Better(ScoreOf(st, rg, M), Matched(ScoreOf(st, rg, N), st, rg, i, j))
<1> DEFINE H == I \cup {i}
           L == J \cup {j}
           K == (M \ {<<i, b>>}) \ {<<a, j>>}
           N == K \cup {<<a, b>>}
           d(x, y) == Distance(st[x], rg[y])
<1>0. RowsOf(st, rg, H, L) /\ i \notin I /\ j \notin J /\ i # a /\ j # b
  BY DEF LastRows
<1>1. /\ M \in SUBSET (H \X L)
      /\ (\A q \in M : Viable(st, rg, tol, q[1], q[2])) /\ Matching(M)
  BY DEF Matchings
<1>2. /\ <<i, b>>[1] = i /\ <<i, b>>[2] = b /\ <<a, j>>[1] = a /\ <<a, j>>[2] = j
      /\ i \in H /\ a \in H /\ j \in L /\ b \in L
  OBVIOUS
<1>3. /\ d(i, b) \in Nat /\ d(a, j) \in Nat /\ d(a, b) \in Nat /\ d(i, j) \in Nat
      /\ st[i].date \in Int /\ st[a].date \in Int /\ rg[j].date \in Int /\ rg[b].date \in Int
  <2> HIDE DEF H, L
  <2>1. \A x \in H, y \in L : /\ Distance(st[x], rg[y]) \in Nat
                             /\ st[x].date \in Int /\ rg[y].date \in Int
    BY <1>0, DatesType
  <2> QED
    BY <1>2, <2>1
<1>4. d(i, b) <= tol /\ d(a, j) <= tol
  BY <1>1, <1>2 DEF Viable
<1>5. d(a, b) + d(i, j) <= d(a, j) + d(i, b) /\ d(a, b) <= tol /\ d(i, j) <= tol
  <2>1. st[a].date <= st[i].date /\ rg[b].date <= rg[j].date
    BY DEF LastRows
  <2> QED
    BY <1>3, <1>4, <2>1, Uncross
<1>6. Viable(st, rg, tol, a, b) /\ Viable(st, rg, tol, i, j)
  BY <1>5 DEF Viable, LastRows
<1>7. \A p \in K : p[1] \in I \ {a} /\ p[2] \in J \ {b}
  <2> SUFFICES ASSUME NEW p \in K
               PROVE  p[1] \in I \ {a} /\ p[2] \in J \ {b}
    OBVIOUS
  <2>1. PICK x \in H, y \in L : p = <<x, y>>
    BY <1>1
  <2>2. p[1] = x /\ p[2] = y
    BY <2>1
  <2>3. (x = i <=> y = b) /\ (x = a <=> y = j)
    BY <1>1, <1>2, <2>2 DEF Matching
  <2>4. ~(x = i /\ y = b) /\ ~(x = a /\ y = j)
    BY <2>1
  <2> QED
    BY <2>2, <2>3, <2>4
<1>8. K \in Matchings(st, rg, tol, H, L)
  <2>1. K \in SUBSET (H \X L) /\ (\A q \in K : Viable(st, rg, tol, q[1], q[2])) /\ Matching(K)
    BY <1>1 DEF Matching
  <2> HIDE DEF K, H, L
  <2> QED
    BY <2>1 DEF Matchings
<1>9. K \in Matchings(st, rg, tol, I \ {a}, J \ {b})
  <2> HIDE DEF K, H, L
  <2> QED
    BY <1>7, <1>8, FewerRows
<1>10. N \in Matchings(st, rg, tol, I, J) /\ <<a, b>> \notin K
  <2>1. (I \ {a}) \cup {a} = I /\ (J \ {b}) \cup {b} = J /\ a \notin I \ {a} /\ b \notin J \ {b}
    OBVIOUS
  <2>2. /\ N \in Matchings(st, rg, tol, (I \ {a}) \cup {a}, (J \ {b}) \cup {b})
        /\ <<a, b>> \notin K
    <3> HIDE DEF K
    <3> QED
      BY <1>6, <1>9, <2>1, AddPair
  <2> QED
    BY <2>1, <2>2
<1>11. /\ K \in SUBSET (H \X L) /\ K \cup {<<a, j>>} \in SUBSET (H \X L)
       /\ <<a, j>> \notin K /\ <<i, b>> \notin K \cup {<<a, j>>}
       /\ M = (K \cup {<<a, j>>}) \cup {<<i, b>>}
  <2>1. <<a, j>> # <<i, b>>
    BY <1>0
  <2> QED
    BY <1>1, <1>2, <2>1
<1> DEFINE k == ScoreOf(st, rg, K)
<1>12. k.count \in Nat /\ k.cost \in Nat
  <2> HIDE DEF K, H, L
  <2>1. Cardinality(K) \in Nat /\ SumFunctionOnSet(Gaps(st, rg), K) \in Nat
    BY <1>0, <1>11, PairsFinite
  <2> QED
    BY <2>1 DEF ScoreOf
<1>13. ScoreOf(st, rg, M) = Matched(Matched(k, st, rg, a, j), st, rg, i, b)
  <2> HIDE DEF K, H, L
  <2>1. ScoreOf(st, rg, K \cup {<<a, j>>}) = Matched(k, st, rg, a, j)
    BY <1>0, <1>2, <1>11, ScoreMatched
  <2> DEFINE K2 == K \cup {<<a, j>>}
  <2> HIDE DEF K2
  <2>2. ScoreOf(st, rg, K2 \cup {<<i, b>>}) = Matched(ScoreOf(st, rg, K2), st, rg, i, b)
    BY <1>0, <1>2, <1>11, ScoreMatched DEF K2
  <2> QED
    BY <1>11, <2>1, <2>2 DEF K2
<1>14. ScoreOf(st, rg, N) = Matched(k, st, rg, a, b)
  <2> HIDE DEF K, H, L
  <2> QED
    BY <1>0, <1>2, <1>10, <1>11, ScoreMatched
<1> HIDE DEF k, N, K, H, L
<1>15. /\ ScoreOf(st, rg, M).count = k.count + 1 + 1
       /\ ScoreOf(st, rg, M).cost = k.cost + d(a, j) + d(i, b)
  BY <1>13 DEF Matched
<1>16. /\ Matched(ScoreOf(st, rg, N), st, rg, i, j).count = k.count + 1 + 1
       /\ Matched(ScoreOf(st, rg, N), st, rg, i, j).cost = k.cost + d(a, b) + d(i, j)
  BY <1>14 DEF Matched
<1>17. ~Better(ScoreOf(st, rg, M), Matched(ScoreOf(st, rg, N), st, rg, i, j))
  <2> DEFINE u == ScoreOf(st, rg, M)
             w == Matched(ScoreOf(st, rg, N), st, rg, i, j)
  <2>1. u.count = w.count /\ u.count \in Nat /\ u.cost \in Int /\ w.cost \in Int /\ w.cost <= u.cost
    <3> HIDE DEF d
    <3> QED
      BY <1>3, <1>5, <1>12, <1>15, <1>16
  <2> HIDE DEF u, w
  <2>2. ~Better(u, w)
    BY <2>1 DEF Better
  <2> QED
    BY <2>2 DEF u, w
<1> QED
  BY <1>6, <1>10, <1>17

\* A score as the table has them.
Scored(v) == v.count \in Nat /\ v.cost \in Nat

\* Better is a strict weak order, and one more match does not change it.
LEMMA BetterOrder ==
  ASSUME NEW u, NEW v, NEW w, Scored(u), Scored(v), Scored(w)
  PROVE  /\ ~Better(u, u)
         /\ Better(u, v) => ~Better(v, u)
         /\ ~Better(u, v) /\ ~Better(v, w) => ~Better(u, w)
BY DEF Scored, Better

\* One more pair on both sides changes nothing about which is better.
LEMMA MatchedOrder ==
  ASSUME NEW u, NEW v, Scored(u), Scored(v), ~Better(u, v),
         NEW st, NEW rg, NEW i, NEW j, Distance(st[i], rg[j]) \in Nat
  PROVE  /\ ~Better(Matched(u, st, rg, i, j), Matched(v, st, rg, i, j))
         /\ Scored(Matched(u, st, rg, i, j)) /\ Scored(Matched(v, st, rg, i, j))
BY DEF Scored, Better, Matched

\* v is the score of pairs of I with J than which no others are better.
Best(v, st, rg, tol, I, J) ==
    /\ v.pairs \in Matchings(st, rg, tol, I, J)
    /\ v = ScoreOf(st, rg, v.pairs)
    /\ \A M \in Matchings(st, rg, tol, I, J) : ~Better(ScoreOf(st, rg, M), v)

\* What scoreRow puts in a cell of the table.
ScoreCell(diag, up, left, st, rg, tol, i, j) ==
    LET skip == IF Better(left, up) THEN left ELSE up
        match == Matched(diag, st, rg, i, j)
    IN  IF Viable(st, rg, tol, i, j) /\ ~Better(skip, match) THEN match ELSE skip

\* Counts and costs of matchings are numbers.
LEMMA MatchingsScored ==
  ASSUME NEW st, NEW rg, NEW tol, NEW I, NEW J, RowsOf(st, rg, I, J)
  PROVE  /\ \A M \in Matchings(st, rg, tol, I, J) : Scored(ScoreOf(st, rg, M))
         /\ \A v : Best(v, st, rg, tol, I, J) => Scored(v)
<1>1. ASSUME NEW M \in Matchings(st, rg, tol, I, J)
      PROVE  Scored(ScoreOf(st, rg, M))
  <2>1. M \in SUBSET (I \X J)
    BY DEF Matchings
  <2>2. Cardinality(M) \in Nat /\ SumFunctionOnSet(Gaps(st, rg), M) \in Nat
    BY <2>1, PairsFinite
  <2> QED
    BY <2>2 DEF ScoreOf, Scored
<1>2. ASSUME NEW v, Best(v, st, rg, tol, I, J)
      PROVE  Scored(v)
  <2>1. v.pairs \in Matchings(st, rg, tol, I, J) /\ v = ScoreOf(st, rg, v.pairs)
    BY <1>2 DEF Best
  <2>2. Scored(ScoreOf(st, rg, v.pairs))
    BY <1>1, <2>1
  <2> QED
    BY <2>1, <2>2, Zenon
<1> QED
  BY <1>1, <1>2

\* With no rows to pair there is nothing to match.
LEMMA NothingToMatch ==
  ASSUME NEW st, NEW rg, NEW tol, NEW I, NEW J, RowsOf(st, rg, I, J), I = {} \/ J = {}
  PROVE  Best(NoMatch, st, rg, tol, I, J)
<1>1. I \X J = {}
  OBVIOUS
<1>2. {} \in Matchings(st, rg, tol, I, J)
  BY DEF Matchings, Matching
<1>3. \A M \in Matchings(st, rg, tol, I, J) : M = {}
  BY <1>1 DEF Matchings
<1>4. Cardinality({}) = 0 /\ SumFunctionOnSet(Gaps(st, rg), {}) = 0
  BY FS_EmptySet, SumEmpty
<1>5. ScoreOf(st, rg, {}) = NoMatch /\ NoMatch.pairs = {}
  BY <1>4 DEF ScoreOf, NoMatch
<1>6. ~Better(NoMatch, NoMatch)
  BY DEF Better, NoMatch
<1>7. \A M \in Matchings(st, rg, tol, I, J) : ~Better(ScoreOf(st, rg, M), NoMatch)
  BY <1>3, <1>5, <1>6
<1> QED
  BY <1>2, <1>5, <1>7 DEF Best

\* A cell is best when the three cells it is computed from are.
LEMMA CellBest ==
  ASSUME NEW st, NEW rg, NEW tol \in Int, NEW I, NEW J, NEW i, NEW j,
         LastRows(st, rg, I, J, i, j),
         NEW diag, Best(diag, st, rg, tol, I, J),
         NEW up, Best(up, st, rg, tol, I, J \cup {j}),
         NEW left, Best(left, st, rg, tol, I \cup {i}, J)
  PROVE  Best(ScoreCell(diag, up, left, st, rg, tol, i, j), st, rg, tol, I \cup {i}, J \cup {j})
<1> DEFINE H == I \cup {i}
           L == J \cup {j}
           p == <<i, j>>
           skip == IF Better(left, up) THEN left ELSE up
           match == Matched(diag, st, rg, i, j)
           v == ScoreCell(diag, up, left, st, rg, tol, i, j)
           S(M) == ScoreOf(st, rg, M)
           Ms(A, B) == Matchings(st, rg, tol, A, B)
           ok == Viable(st, rg, tol, i, j)
<1>0. /\ RowsOf(st, rg, H, L) /\ RowsOf(st, rg, I, J) /\ RowsOf(st, rg, H, J)
      /\ RowsOf(st, rg, I, L) /\ i \notin I /\ j \notin J
  <2>1. RowsOf(st, rg, H, L) /\ i \notin I /\ j \notin J
    BY DEF LastRows
  <2>2. I \subseteq H /\ J \subseteq L
    OBVIOUS
  <2>3. IsFiniteSet(I) /\ IsFiniteSet(J)
    BY <2>1, <2>2, FS_Subset DEF RowsOf
  <2> HIDE DEF H, L
  <2> QED
    BY <2>1, <2>2, <2>3 DEF RowsOf
<1>1. i \in H /\ j \in L /\ I \subseteq H /\ J \subseteq L
  OBVIOUS
<1>2. Distance(st[i], rg[j]) \in Nat
  <2> HIDE DEF H, L
  <2> QED
    BY <1>0, <1>1, DatesType
<1>3. Scored(diag) /\ Scored(up) /\ Scored(left)
  <2> HIDE DEF H, L
  <2>1. Best(up, st, rg, tol, I, L) /\ Best(left, st, rg, tol, H, J)
    BY DEF H, L
  <2> QED
    BY <1>0, <2>1, MatchingsScored
<1>4. Scored(match)
  BY <1>2, <1>3 DEF Scored, Matched
<1>5. skip \in {left, up} /\ Scored(skip) /\ ~Better(left, skip) /\ ~Better(up, skip)
  BY <1>3, BetterOrder
<1>6. v = IF ok /\ ~Better(skip, match) THEN match ELSE skip
  BY DEF ScoreCell
<1> HIDE DEF skip, match, v, ok
<1>7. /\ Scored(v) /\ v \in {left, up, match} /\ (v = match => ok \/ v \in {left, up})
      /\ ~Better(left, v) /\ ~Better(up, v) /\ (ok => ~Better(match, v))
  BY <1>3, <1>4, <1>5, <1>6, BetterOrder
<1>8. ok => match.pairs \in Ms(H, L) /\ match = S(match.pairs)
  <2> SUFFICES ASSUME ok
               PROVE  match.pairs \in Ms(H, L) /\ match = S(match.pairs)
    OBVIOUS
  <2>1. diag.pairs \in Ms(I, J) /\ diag = S(diag.pairs)
    BY DEF Best
  <2>2. match.pairs = diag.pairs \cup {p}
    BY DEF match, Matched
  <2>3. diag.pairs \cup {p} \in Ms(H, L) /\ p \notin diag.pairs
    BY <1>0, <2>1, AddPair DEF ok
  <2>4. diag.pairs \in SUBSET (H \X L)
    BY <1>1, <2>1 DEF Matchings
  <2> HIDE DEF H, L
  <2>5. S(diag.pairs \cup {p}) = Matched(S(diag.pairs), st, rg, i, j)
    BY <1>0, <1>1, <2>3, <2>4, ScoreMatched
  <2> HIDE DEF S, p
  <2>6. match = S(diag.pairs \cup {p})
    BY <2>1, <2>5, Zenon DEF match
  <2> QED
    BY <2>2, <2>3, <2>6
<1>9. \A w \in {left, up} : w.pairs \in Ms(H, L) /\ w = S(w.pairs)
  <2> SUFFICES ASSUME NEW w, NEW A \in SUBSET H, NEW B \in SUBSET L, Best(w, st, rg, tol, A, B)
               PROVE  w.pairs \in Ms(H, L) /\ w = S(w.pairs)
    <3>1. H \in SUBSET H /\ I \in SUBSET H /\ J \in SUBSET L /\ L \in SUBSET L
      OBVIOUS
    <3> QED
      BY <3>1
  <2>1. w.pairs \in Ms(A, B) /\ w = S(w.pairs)
    BY DEF Best
  <2>2. \A q \in w.pairs : q[1] \in H /\ q[2] \in L
    <3>1. w.pairs \in SUBSET (A \X B)
      BY <2>1 DEF Matchings
    <3> QED
      BY <3>1
  <2> HIDE DEF H, L
  <2> QED
    BY <2>1, <2>2, FewerRows
<1>10. v.pairs \in Ms(H, L) /\ v = S(v.pairs)
  <2> HIDE DEF Ms, S, H, L
  <2> QED
    BY <1>7, <1>8, <1>9
<1>11. ASSUME NEW M \in Ms(H, L)
       PROVE  ~Better(S(M), v)
  <2>0. /\ M \in SUBSET (H \X L) /\ \A q \in M : Viable(st, rg, tol, q[1], q[2])
        /\ \A q \in M : q[1] \in H /\ q[2] \in L /\ q = <<q[1], q[2]>>
    BY DEF Matchings
  <2>1. Scored(S(M))
    <3> HIDE DEF H, L
    <3> QED
      BY <1>0, MatchingsScored
  <2>2. CASE \A q \in M : q[1] # i
    <3>1. \A q \in M : q[1] \in I /\ q[2] \in L
      BY <2>0, <2>2
    <3>2. M \in Ms(I, L)
      <4> HIDE DEF H, L
      <4> QED
        BY <3>1, FewerRows
    <3>3. ~Better(S(M), up)
      BY <3>2 DEF Best
    <3> QED
      BY <1>3, <1>7, <2>1, <3>3, BetterOrder
  <2>3. CASE \A q \in M : q[2] # j
    <3>1. \A q \in M : q[1] \in H /\ q[2] \in J
      BY <2>0, <2>3
    <3>2. M \in Ms(H, J)
      <4> HIDE DEF H, L
      <4> QED
        BY <3>1, FewerRows
    <3>3. ~Better(S(M), left)
      BY <3>2 DEF Best
    <3> QED
      BY <1>3, <1>7, <2>1, <3>3, BetterOrder
  <2>4. ASSUME ok, NEW N \in Ms(I, J), ~Better(S(M), Matched(S(N), st, rg, i, j))
        PROVE  ~Better(S(M), v)
    <3>1. Scored(S(N)) /\ ~Better(S(N), diag)
      BY <1>0, MatchingsScored DEF Best
    <3>2. /\ ~Better(Matched(S(N), st, rg, i, j), match)
          /\ Scored(Matched(S(N), st, rg, i, j))
      BY <1>2, <1>3, <3>1, MatchedOrder DEF match
    <3>3. ~Better(match, v)
      BY <1>7, <2>4
    <3> HIDE DEF S
    <3>4. ~Better(S(M), match)
      BY <1>4, <2>1, <2>4, <3>2, BetterOrder
    <3> QED
      BY <1>4, <1>7, <2>1, <3>3, <3>4, BetterOrder
  <2>5. CASE p \in M
    <3> DEFINE N == M \ {p}
    <3>1. N \in Ms(I, J)
      BY <2>5, RemovePair
    <3>2. p[1] = i /\ p[2] = j
      OBVIOUS
    <3>3. ok
      BY <2>0, <2>5, <3>2 DEF ok
    <3>4. N \in SUBSET (H \X L) /\ p \notin N /\ N \cup {p} = M
      BY <2>0, <2>5
    <3> HIDE DEF N, H, L
    <3>5. S(N \cup {p}) = Matched(S(N), st, rg, i, j)
      BY <1>0, <1>1, <3>4, ScoreMatched
    <3>6. S(M) = Matched(S(N), st, rg, i, j)
      BY <3>4, <3>5, Zenon
    <3>7. ~Better(S(M), Matched(S(N), st, rg, i, j))
      BY <2>1, <3>6, BetterOrder
    <3> QED
      BY <2>4, <3>1, <3>3, <3>7
  <2>6. CASE p \notin M /\ (\E q \in M : q[1] = i) /\ (\E q \in M : q[2] = j)
    <3>1. PICK q \in M, r \in M : q[1] = i /\ r[2] = j
      BY <2>6
    <3> DEFINE b == q[2]
               a == r[1]
    <3>2. q = <<i, b>> /\ r = <<a, j>> /\ b \in L /\ a \in H
      BY <2>0, <3>1
    <3> HIDE DEF a, b
    <3>3. a \in I /\ b \in J /\ <<i, b>> \in M /\ <<a, j>> \in M
      BY <2>6, <3>2
    <3>4. \E N \in Ms(I, J) : ok /\ ~Better(S(M), Matched(S(N), st, rg, i, j))
      BY <3>3, Exchange DEF ok
    <3> QED
      BY <2>4, <3>4
  <2> QED
    BY <2>2, <2>3, <2>5, <2>6
<1> QED
  BY <1>10, <1>11 DEF Best, v

-----------------------------------------------------------------------------
(* Reconciliation: the table of scores. *)

\* The scores a cell of the table can hold.
Scores == [count : Nat, cost : Nat, pairs : SUBSET (Nat \X Nat)]

\* The rows at the positions list, each once, by date, and all of one amount.
InOrder(list, rows, amount) ==
    /\ list \in Seq(DOMAIN rows) /\ DOMAIN rows \subseteq Nat /\ Dated(rows)
    /\ \A k \in 1..Len(list) : rows[list[k]].amount = amount
    /\ \A j, k \in 1..Len(list) :
         j < k => list[j] # list[k] /\ rows[list[j]].date <= rows[list[k]].date

\* A cell of the table is a score.
LEMMA CellType ==
  ASSUME NEW st, NEW rg, NEW tol, NEW i \in Nat, NEW j \in Nat, Distance(st[i], rg[j]) \in Nat,
         NEW diag \in Scores, NEW up \in Scores, NEW left \in Scores
  PROVE  ScoreCell(diag, up, left, st, rg, tol, i, j) \in Scores
<1>1. Matched(diag, st, rg, i, j) \in Scores
  <2>1. /\ diag.count + 1 \in Nat /\ diag.cost + Distance(st[i], rg[j]) \in Nat
        /\ diag.pairs \cup {<<i, j>>} \in SUBSET (Nat \X Nat)
    BY DEF Scores
  <2> QED
    BY <2>1 DEF Matched, Scores
<1> QED
  BY <1>1 DEF ScoreCell

\* A place of an ordered list.
LEMMA Listed ==
  ASSUME NEW list, NEW rows, NEW amount, InOrder(list, rows, amount), NEW k \in 1..Len(list)
  PROVE  /\ list[k] \in DOMAIN rows /\ list[k] \in Nat
         /\ rows[list[k]].date \in Int /\ rows[list[k]].amount = amount
         /\ Len(list) \in Nat
<1>1. list[k] \in DOMAIN rows /\ Len(list) \in Nat
  BY Element DEF InOrder
<1> QED
  BY <1>1 DEF InOrder, Dated

\* row holds what scoreRow computes from the row above it.
IsRow(row, above, i, regs, st, rg, tol) ==
    /\ row \in [0..Len(regs) -> Scores]
    /\ row[0] = NoMatch
    /\ \A m \in 1..Len(regs) :
         row[m] = ScoreCell(above[m - 1], above[m], row[m - 1], st, rg, tol, i, regs[m])

\* The recursive function of ScoreRow, one register row after another.
LEMMA ScoreRowUnfold ==
  ASSUME NEW st, NEW rg, NEW tol, NEW amount, NEW i \in Nat, st[i].date \in Int,
         NEW regs, InOrder(regs, rg, amount),
         NEW above \in [0..Len(regs) -> Scores]
  PROVE  IsRow(ScoreRow(above, i, regs, st, rg, tol), above, i, regs, st, rg, tol)
<1> DEFINE n == Len(regs)
           F(v, m) == ScoreCell(above[m - 1], above[m], v, st, rg, tol, i, regs[m])
           step == [p \in Scores \X (1..n) |-> F(p[1], p[2])]
           Rec(a) == a = [m \in 0..n |-> IF m = 0 THEN NoMatch ELSE F(a[m - 1], m)]
<1>1. n \in Nat
  BY DEF InOrder
<1>2. NoMatch \in Scores
  BY DEF NoMatch, Scores
<1>3. \A v \in Scores, m \in 1..n : F(v, m) \in Scores
  <2> SUFFICES ASSUME NEW v \in Scores, NEW m \in 1..n
               PROVE  F(v, m) \in Scores
    OBVIOUS
  <2>1. regs[m] \in Nat /\ rg[regs[m]].date \in Int
    BY Listed
  <2>2. Distance(st[i], rg[regs[m]]) \in Nat
    BY <2>1, DistanceType
  <2>3. above[m - 1] \in Scores /\ above[m] \in Scores
    BY <1>1
  <2> QED
    BY <2>1, <2>2, <2>3, CellType
<1> HIDE DEF F
<1>4. StepOn(step, n, Scores)
  BY <1>3 DEF StepOn
<1> HIDE DEF n, step
<1>5. PICK a : Iterated(a, n, Scores, NoMatch, step)
  BY <1>1, <1>2, <1>4, Iterates
<1>6. \A m \in 1..n : a[m] = F(a[m - 1], m)
  <2> SUFFICES ASSUME NEW m \in 1..n
               PROVE  a[m] = F(a[m - 1], m)
    OBVIOUS
  <2>1. a[m - 1] \in Scores
    BY <1>1, <1>5 DEF Iterated
  <2>2. step[<<a[m - 1], m>>] = F(a[m - 1], m)
    BY <2>1 DEF step
  <2> QED
    BY <1>5, <2>2 DEF Iterated
<1>7. Rec(a)
  BY <1>1, <1>5, <1>6 DEF Iterated
<1>8. Rec(CHOOSE b : Rec(b))
  BY <1>7
<1> DEFINE row == CHOOSE b : Rec(b)
<1>9. ScoreRow(above, i, regs, st, rg, tol) = row
  BY Zenon DEF ScoreRow, F, ScoreCell, n
<1>10. row = [m \in 0..n |-> IF m = 0 THEN NoMatch ELSE F(row[m - 1], m)]
  BY <1>8
<1> HIDE DEF row
<1>11. row[0] = NoMatch /\ \A m \in 1..n : row[m] = F(row[m - 1], m)
  BY <1>1, <1>10
<1>12. row \in [0..n -> Scores]
  <2> DEFINE C == {m \in Nat : m <= n => row[m] \in Scores}
  <2>1. 0 \in C
    BY <1>2, <1>11
  <2>2. ASSUME NEW m \in Nat, m \in C
        PROVE  m + 1 \in C
    <3> SUFFICES ASSUME m + 1 <= n
                 PROVE  row[m + 1] \in Scores
      OBVIOUS
    <3>1. m + 1 \in 1..n /\ (m + 1) - 1 = m /\ m <= n
      BY <1>1
    <3>2. row[m] \in Scores
      BY <2>2, <3>1
    <3> DEFINE c == m + 1
    <3>3. c \in 1..n /\ c - 1 = m
      BY <3>1
    <3> HIDE DEF c
    <3>4. row[c] \in Scores
      BY <1>3, <1>11, <3>2, <3>3
    <3> QED
      BY <3>4 DEF c
  <2> HIDE DEF C
  <2>3. \A m \in Nat : m \in C
    BY <2>1, <2>2, NatInduct
  <2>4. \A m \in 0..n : row[m] \in Scores
    BY <1>1, <2>3 DEF C
  <2> QED
    BY <1>10, <2>4
<1> QED
  BY <1>9, <1>11, <1>12, Zenon DEF n, F, IsRow

\* table holds the rows that scoreRow computes one from another.
IsTable(table, rows, regs, st, rg, tol) ==
    /\ \A m \in 0..Len(regs) : table[0][m] = NoMatch
    /\ \A k \in 1..Len(rows) :
         IsRow(table[k], table[k - 1], rows[k], regs, st, rg, tol)

\* The recursive function of BestScore, one statement row after another.
LEMMA BestScoreUnfold ==
  ASSUME NEW st, NEW rg, NEW tol, NEW amount,
         NEW rows, InOrder(rows, st, amount), NEW regs, InOrder(regs, rg, amount)
  PROVE  \E table : /\ IsTable(table, rows, regs, st, rg, tol)
                    /\ BestScore(rows, regs, st, rg, tol) = table[Len(rows)][Len(regs)]
<1> DEFINE n == Len(rows)
           A == [0..Len(regs) -> Scores]
           base == [m \in 0..Len(regs) |-> NoMatch]
           F(v, k) == ScoreRow(v, rows[k], regs, st, rg, tol)
           step == [p \in A \X (1..n) |-> F(p[1], p[2])]
           Rec(a) == a = [k \in 0..n |-> IF k = 0 THEN base ELSE F(a[k - 1], k)]
<1>1. n \in Nat
  BY DEF InOrder
<1>2. base \in A /\ \A m \in 0..Len(regs) : base[m] = NoMatch
  <2>1. NoMatch \in Scores
    BY DEF NoMatch, Scores
  <2> QED
    BY <2>1
<1>3. ASSUME NEW v \in A, NEW k \in 1..n
      PROVE  F(v, k) \in A /\ IsRow(F(v, k), v, rows[k], regs, st, rg, tol)
  <2> DEFINE i == rows[k]
  <2>1. i \in Nat /\ st[i].date \in Int
    BY Listed
  <2> HIDE DEF i
  <2>2. IsRow(ScoreRow(v, i, regs, st, rg, tol), v, i, regs, st, rg, tol)
    BY <2>1, ScoreRowUnfold
  <2>3. ScoreRow(v, i, regs, st, rg, tol) \in [0..Len(regs) -> Scores]
    BY <2>2 DEF IsRow
  <2> QED
    BY <2>2, <2>3, Zenon DEF i
<1> HIDE DEF F, base
<1>4. StepOn(step, n, A)
  BY <1>3 DEF StepOn
<1> HIDE DEF n, step, A
<1>5. PICK a : Iterated(a, n, A, base, step)
  BY <1>1, <1>2, <1>4, Iterates
<1>6. \A k \in 1..n : a[k] = F(a[k - 1], k)
  <2> SUFFICES ASSUME NEW k \in 1..n
               PROVE  a[k] = F(a[k - 1], k)
    OBVIOUS
  <2>1. a[k - 1] \in A
    BY <1>1, <1>5 DEF Iterated
  <2>2. step[<<a[k - 1], k>>] = F(a[k - 1], k)
    BY <2>1 DEF step
  <2> QED
    BY <1>5, <2>2 DEF Iterated
<1>7. Rec(a)
  BY <1>1, <1>5, <1>6 DEF Iterated
<1>8. Rec(CHOOSE b : Rec(b))
  BY <1>7
<1> DEFINE table == CHOOSE b : Rec(b)
<1>9. BestScore(rows, regs, st, rg, tol) = table[n][Len(regs)]
  BY Zenon DEF BestScore, F, base, n
<1>10. table = [k \in 0..n |-> IF k = 0 THEN base ELSE F(table[k - 1], k)]
  BY <1>8
<1> HIDE DEF table
<1>11. table[0] = base /\ \A k \in 1..n : table[k] = F(table[k - 1], k)
  BY <1>1, <1>10
<1>12. \A k \in 0..n : table[k] \in A
  <2> DEFINE C == {k \in Nat : k <= n => table[k] \in A}
  <2>1. 0 \in C
    BY <1>2, <1>11
  <2>2. ASSUME NEW k \in Nat, k \in C
        PROVE  k + 1 \in C
    <3> SUFFICES ASSUME k + 1 <= n
                 PROVE  table[k + 1] \in A
      OBVIOUS
    <3> DEFINE c == k + 1
    <3>1. c \in 1..n /\ c - 1 = k /\ k <= n
      BY <1>1
    <3>2. table[k] \in A
      BY <2>2, <3>1
    <3> HIDE DEF c
    <3>3. table[c] \in A
      BY <1>3, <1>11, <3>1, <3>2
    <3> QED
      BY <3>3 DEF c
  <2> HIDE DEF C
  <2>3. \A k \in Nat : k \in C
    BY <2>1, <2>2, NatInduct
  <2> QED
    BY <1>1, <2>3 DEF C
<1>13. ASSUME NEW k \in 1..n
       PROVE  IsRow(table[k], table[k - 1], rows[k], regs, st, rg, tol)
  <2> DEFINE v == table[k - 1]
  <2>1. v \in A
    BY <1>1, <1>12
  <2>2. table[k] = F(v, k)
    BY <1>11
  <2> HIDE DEF v
  <2> QED
    BY <1>3, <2>1, <2>2, Zenon DEF v
<1>14. \A m \in 0..Len(regs) : table[0][m] = NoMatch
  BY <1>2, <1>11
<1> QED
  BY <1>9, <1>13, <1>14, Zenon DEF n, IsTable

\* The first k rows of a list.
Firsts(list, k) == {list[x] : x \in 1..k}

\* The first k rows are the first k - 1 and one that is no earlier.
LEMMA FirstsGrow ==
  ASSUME NEW list, NEW rows, NEW amount, InOrder(list, rows, amount), NEW k \in 1..Len(list)
  PROVE  /\ Firsts(list, k) = Firsts(list, k - 1) \cup {list[k]}
         /\ list[k] \notin Firsts(list, k - 1)
         /\ \A x \in Firsts(list, k - 1) : rows[x].date <= rows[list[k]].date
         /\ \A x \in Firsts(list, k) : rows[x].amount = amount
<1>1. k \in Nat /\ Len(list) \in Nat /\ k <= Len(list)
  BY DEF InOrder
<1>2. \A x \in 1..k : x = k \/ x \in 1..(k - 1)
  BY <1>1
<1>3. \A x \in 1..(k - 1) : x \in 1..k /\ x \in 1..Len(list) /\ x < k
  BY <1>1
<1>4. k \in 1..k /\ \A x \in 1..k : x \in 1..Len(list)
  BY <1>1
<1> QED
  BY <1>2, <1>3, <1>4 DEF Firsts, InOrder

\* They are finitely many rows.
LEMMA FirstsIn ==
  ASSUME NEW list, NEW rows, NEW amount, InOrder(list, rows, amount), NEW k \in 0..Len(list)
  PROVE  Firsts(list, k) \subseteq DOMAIN rows /\ IsFiniteSet(Firsts(list, k))
<1>1. k \in Int /\ 1 \in Int /\ \A x \in 1..k : x \in 1..Len(list)
  BY DEF InOrder
<1>2. IsFiniteSet(1..k)
  BY <1>1, FS_Interval
<1>3. IsFiniteSet({list[x] : x \in 1..k})
  <2> DEFINE f == [x \in 1..k |-> list[x]]
  <2>1. f \in Surjection(1..k, {list[x] : x \in 1..k})
    BY DEF Surjection
  <2> QED
    BY <1>2, <2>1, FS_Surjection
<1>4. \A x \in 1..k : list[x] \in DOMAIN rows
  BY <1>1, Listed
<1> QED
  BY <1>3, <1>4 DEF Firsts

\* Every cell of the table is the best of the rows before it.
LEMMA BestScoreBest ==
  ASSUME NEW st, NEW rg, NEW tol \in Int, NEW amount,
         NEW rows, InOrder(rows, st, amount), NEW regs, InOrder(regs, rg, amount)
  PROVE  Best(BestScore(rows, regs, st, rg, tol), st, rg, tol,
              Firsts(rows, Len(rows)), Firsts(regs, Len(regs)))
<1>1. PICK table : /\ IsTable(table, rows, regs, st, rg, tol)
                   /\ BestScore(rows, regs, st, rg, tol) = table[Len(rows)][Len(regs)]
  BY BestScoreUnfold
<1> DEFINE I(k) == Firsts(rows, k)
           J(m) == Firsts(regs, m)
           Good(k, m) == Best(table[k][m], st, rg, tol, I(k), J(m))
           RowGood(k) == \A m \in 0..Len(regs) : Good(k, m)
           C == {k \in Nat : k <= Len(rows) => RowGood(k)}
<1>2. Len(rows) \in Nat /\ Len(regs) \in Nat /\ Dated(st) /\ Dated(rg)
  BY DEF InOrder
<1>3. \A k \in 0..Len(rows), m \in 0..Len(regs) : RowsOf(st, rg, I(k), J(m))
  BY <1>2, FirstsIn DEF RowsOf
<1>4. I(0) = {} /\ J(0) = {}
  BY DEF Firsts
<1> HIDE DEF I, J
<1>5. 0 \in C
  <2>1. ASSUME NEW m \in 0..Len(regs)
        PROVE  Good(0, m)
    <3>1. RowsOf(st, rg, I(0), J(m)) /\ table[0][m] = NoMatch
      BY <1>1, <1>2, <1>3 DEF IsTable
    <3>2. Best(NoMatch, st, rg, tol, I(0), J(m))
      BY <1>4, <3>1, NothingToMatch
    <3> QED
      BY <3>1, <3>2, Zenon
  <2> HIDE DEF Good
  <2> QED
    BY <2>1
<1>6. ASSUME NEW k \in Nat, k \in C
      PROVE  k + 1 \in C
  <2> DEFINE c == k + 1
  <2> SUFFICES ASSUME c <= Len(rows)
               PROVE  RowGood(c)
    <3> HIDE DEF RowGood
    <3> QED
      OBVIOUS
  <2>1. c \in 1..Len(rows) /\ c \in 0..Len(rows) /\ c - 1 = k /\ k <= Len(rows) /\ k \in 0..Len(rows)
    BY <1>2
  <2>2. RowGood(k)
    <3> HIDE DEF RowGood
    <3> QED
      BY <1>6, <2>1
  <2> HIDE DEF c
  <2> DEFINE D == {m \in Nat : m <= Len(regs) => Good(c, m)}
             i == rows[c]
  <2>3. /\ I(c) = I(k) \cup {i} /\ i \notin I(k)
        /\ \A x \in I(k) : st[x].date <= st[i].date
        /\ \A x \in I(c) : st[x].amount = amount
    BY <2>1, FirstsGrow DEF I
  <2> HIDE DEF i
  <2>4. 0 \in D
    <3>1. RowsOf(st, rg, I(c), J(0)) /\ table[c][0] = NoMatch
      BY <1>1, <1>2, <1>3, <2>1 DEF IsTable, IsRow
    <3>2. Best(NoMatch, st, rg, tol, I(c), J(0))
      BY <1>4, <3>1, NothingToMatch
    <3>3. Good(c, 0)
      BY <3>1, <3>2, Zenon
    <3> HIDE DEF Good
    <3> QED
      BY <3>3
  <2>5. ASSUME NEW m \in Nat, m \in D
        PROVE  m + 1 \in D
    <3> DEFINE d == m + 1
    <3> SUFFICES ASSUME d <= Len(regs)
                 PROVE  Good(c, d)
      <4> HIDE DEF Good
      <4> QED
        OBVIOUS
    <3>1. d \in 1..Len(regs) /\ d \in 0..Len(regs) /\ d - 1 = m /\ m <= Len(regs) /\ m \in 0..Len(regs)
      BY <1>2
    <3>2. Good(c, m)
      <4> HIDE DEF Good
      <4> QED
        BY <2>5, <3>1
    <3>3. Good(k, m) /\ Good(k, d)
      <4> HIDE DEF Good
      <4> QED
        BY <2>2, <3>1
    <3> HIDE DEF d
    <3> DEFINE j == regs[d]
    <3>4. /\ J(d) = J(m) \cup {j} /\ j \notin J(m)
          /\ \A y \in J(m) : rg[y].date <= rg[j].date
          /\ \A y \in J(d) : rg[y].amount = amount
      BY <3>1, FirstsGrow DEF J
    <3>5. table[c][d] = ScoreCell(table[k][m], table[k][d], table[c][m], st, rg, tol, i, j)
      BY <1>1, <2>1, <3>1 DEF i, IsTable, IsRow
    <3> HIDE DEF j
    <3>6. RowsOf(st, rg, I(c), J(d))
      BY <1>3, <2>1, <3>1
    <3>7. LastRows(st, rg, I(k), J(m), i, j)
      BY <2>3, <3>4, <3>6 DEF LastRows
    <3>8. /\ Best(table[k][m], st, rg, tol, I(k), J(m))
          /\ Best(table[k][d], st, rg, tol, I(k), J(m) \cup {j})
          /\ Best(table[c][m], st, rg, tol, I(k) \cup {i}, J(m))
      BY <2>3, <3>2, <3>3, <3>4
    <3>9. Best(ScoreCell(table[k][m], table[k][d], table[c][m], st, rg, tol, i, j),
               st, rg, tol, I(k) \cup {i}, J(m) \cup {j})
      BY <3>7, <3>8, CellBest
    <3> QED
      BY <2>3, <3>4, <3>5, <3>9, Zenon
  <2> HIDE DEF D
  <2>6. \A m \in Nat : m \in D
    BY <2>4, <2>5, NatInduct
  <2>7. \A m \in 0..Len(regs) : Good(c, m)
    <3> HIDE DEF Good
    <3> QED
      BY <1>2, <2>6 DEF D
  <2> HIDE DEF Good
  <2> QED
    BY <2>7
<1> HIDE DEF C
<1>7. \A k \in Nat : k \in C
  BY <1>5, <1>6, NatInduct
<1>8. RowGood(Len(rows))
  <2> HIDE DEF RowGood
  <2> QED
    BY <1>2, <1>7 DEF C
<1>9. Len(regs) \in 0..Len(regs)
  BY <1>2
<1>10. Good(Len(rows), Len(regs))
  <2> HIDE DEF Good
  <2> QED
    BY <1>8, <1>9
<1> QED
  BY <1>1, <1>10, Zenon DEF I, J

\* What BestScore pairs of one amount.
BestPairs(st, rg, tol, amount) ==
    BestScore(ByDate(st, amount), ByDate(rg, amount), st, rg, tol).pairs

\* P(a) pairs rows of the amount a as well as they can be paired.
LEMMA BestPairsBest ==
  ASSUME NEW E, NEW st \in Seq(E), Dated(st), NEW F, NEW rg \in Seq(F), Dated(rg),
         NEW tol \in Int, NEW a
  PROVE  LET I == Priced(st, a)
             J == Priced(rg, a)
             P == BestPairs(st, rg, tol, a)
         IN  /\ RowsOf(st, rg, I, J)
             /\ P \in Matchings(st, rg, tol, I, J)
             /\ \A M \in Matchings(st, rg, tol, I, J) :
                  ~Better(ScoreOf(st, rg, M), ScoreOf(st, rg, P))
<1> DEFINE I == Priced(st, a)
           J == Priced(rg, a)
           rows == ByDate(st, a)
           regs == ByDate(rg, a)
           v == BestScore(rows, regs, st, rg, tol)
<1>1. ASSUME NEW D, NEW t \in Seq(D), Dated(t)
      PROVE  /\ InOrder(ByDate(t, a), t, a)
             /\ Firsts(ByDate(t, a), Len(ByDate(t, a))) = Priced(t, a)
             /\ Priced(t, a) \subseteq DOMAIN t /\ IsFiniteSet(Priced(t, a))
  <2> DEFINE S == Priced(t, a)
             s == ByDate(t, a)
             n == Cardinality(S)
  <2>1. /\ IsFiniteSet(S) /\ n \in Nat
        /\ s \in [1..n -> S] /\ s \in Seq(S) /\ Len(s) = n
        /\ \A i \in S : \E k \in 1..n : s[k] = i
        /\ \A j, k \in 1..n : j < k => s[j] # s[k] /\ t[s[j]].date <= t[s[k]].date
    BY <1>1, ByDateOrders
  <2>2. S \subseteq DOMAIN t /\ \A x \in S : t[x].amount = a
    BY DEF Priced
  <2>3. DOMAIN t \subseteq Nat
    OBVIOUS
  <2> HIDE DEF S, s, n
  <2>4. s \in Seq(DOMAIN t)
    BY <2>1, <2>2
  <2>5. \A k \in 1..n : s[k] \in S /\ t[s[k]].amount = a
    BY <2>1, <2>2
  <2>6. InOrder(s, t, a)
    BY <1>1, <2>1, <2>3, <2>4, <2>5 DEF InOrder
  <2>7. Firsts(s, n) = S
    BY <2>1, <2>5 DEF Firsts
  <2>8. Firsts(s, Len(s)) = S
    BY <2>1, <2>7, Zenon
  <2> QED
    BY <2>1, <2>2, <2>6, <2>8 DEF S, s
<1>2. InOrder(rows, st, a) /\ InOrder(regs, rg, a)
  BY <1>1
<1>3. Firsts(rows, Len(rows)) = I /\ Firsts(regs, Len(regs)) = J
  BY <1>1
<1>4. RowsOf(st, rg, I, J)
  BY <1>1 DEF RowsOf
<1>5. v.pairs = BestPairs(st, rg, tol, a)
  BY Zenon DEF BestPairs
<1> HIDE DEF I, J, rows, regs
<1>6. Best(v, st, rg, tol, Firsts(rows, Len(rows)), Firsts(regs, Len(regs)))
  BY <1>2, BestScoreBest
<1>7. Best(v, st, rg, tol, I, J)
  BY <1>3, <1>6, Zenon
<1> HIDE DEF v
<1>8. /\ v.pairs \in Matchings(st, rg, tol, I, J)
      /\ v = ScoreOf(st, rg, v.pairs)
      /\ \A M \in Matchings(st, rg, tol, I, J) : ~Better(ScoreOf(st, rg, M), v)
  BY <1>7 DEF Best
<1> QED
  BY <1>4, <1>5, <1>8, Zenon DEF I, J

\* Two sets of pairs without a common one score together what they score apart.
LEMMA Together ==
  ASSUME NEW st, NEW rg, NEW I, NEW J, RowsOf(st, rg, I, J),
         NEW X \in SUBSET (I \X J), NEW Y \in SUBSET (I \X J), X \cap Y = {}
  PROVE  /\ ScoreOf(st, rg, X \cup Y).count = ScoreOf(st, rg, X).count + ScoreOf(st, rg, Y).count
         /\ ScoreOf(st, rg, X \cup Y).cost = ScoreOf(st, rg, X).cost + ScoreOf(st, rg, Y).cost
         /\ Scored(ScoreOf(st, rg, X)) /\ Scored(ScoreOf(st, rg, Y))
<1> DEFINE g == Gaps(st, rg)
<1>1. /\ IsFiniteSet(X) /\ Cardinality(X) \in Nat /\ SumFunctionOnSet(g, X) \in Nat
      /\ IsFiniteSet(Y) /\ Cardinality(Y) \in Nat /\ SumFunctionOnSet(g, Y) \in Nat
      /\ \A p \in X \cup Y : g[p] \in Int
  BY PairsFinite
<1>2. Cardinality(X \cup Y) = Cardinality(X) + Cardinality(Y)
  <2>1. Cardinality(X \cap Y) = 0
    BY FS_EmptySet
  <2>2. Cardinality(X \cup Y) = Cardinality(X) + Cardinality(Y) - Cardinality(X \cap Y)
    BY <1>1, FS_Union
  <2> QED
    BY <1>1, <2>1, <2>2
<1> HIDE DEF g
<1>3. SumFunctionOnSet(g, X \cup Y) = SumFunctionOnSet(g, X) + SumFunctionOnSet(g, Y)
  BY <1>1, SumUnion
<1> QED
  BY <1>1, <1>2, <1>3 DEF ScoreOf, Scored, g

\* Scores add up: if neither of two parts is better, the whole is not better.
LEMMA OrderAdds ==
  ASSUME NEW u, NEW v, NEW x, NEW y, Scored(u), Scored(v), Scored(x), Scored(y),
         ~Better(u, v), ~Better(x, y),
         NEW w, w.count = u.count + x.count, w.cost = u.cost + x.cost,
         NEW z, z.count = v.count + y.count, z.cost = v.cost + y.cost
  PROVE  ~Better(w, z)
BY DEF Scored, Better

\* What is paired amount by amount is a matching, and no matching is better.
LEMMA MatchPairsBest ==
  ASSUME NEW E, NEW st \in Seq(E), Dated(st), NEW F, NEW rg \in Seq(F), Dated(rg),
         NEW tol \in Int
  PROVE  LET P == MatchPairs(st, rg, tol)
             All == Matchings(st, rg, tol, DOMAIN st, DOMAIN rg)
         IN  /\ RowsOf(st, rg, DOMAIN st, DOMAIN rg)
             /\ P \in All
             /\ \A S \in All : ~Better(ScoreOf(st, rg, S), ScoreOf(st, rg, P))
<1> DEFINE I == DOMAIN st
           J == DOMAIN rg
           A == {st[i].amount : i \in I}
           All == Matchings(st, rg, tol, I, J)
           B(a) == BestPairs(st, rg, tol, a)
           Sc(S) == ScoreOf(st, rg, S)
           U(T) == UNION {B(a) : a \in T}
           P == MatchPairs(st, rg, tol)
<1>1. IsFiniteSet(I) /\ IsFiniteSet(J) /\ RowsOf(st, rg, I, J)
  BY AmountsFinite DEF RowsOf
<1>2. P = U(A)
  BY Zenon DEF MatchPairs, BestPairs
<1>3. IsFiniteSet(A)
  <2> DEFINE f == [i \in I |-> st[i].amount]
  <2>1. f \in Surjection(I, A)
    BY DEF Surjection
  <2> QED
    BY <1>1, <2>1, FS_Surjection
<1>4. ASSUME NEW a
      PROVE  /\ B(a) \in Matchings(st, rg, tol, Priced(st, a), Priced(rg, a))
             /\ \A M \in Matchings(st, rg, tol, Priced(st, a), Priced(rg, a)) :
                  ~Better(Sc(M), Sc(B(a)))
             /\ B(a) \in SUBSET (I \X J) /\ Matching(B(a))
             /\ \A p \in B(a) : /\ Viable(st, rg, tol, p[1], p[2])
                                /\ st[p[1]].amount = a /\ rg[p[2]].amount = a
  <2>1. /\ B(a) \in Matchings(st, rg, tol, Priced(st, a), Priced(rg, a))
        /\ \A M \in Matchings(st, rg, tol, Priced(st, a), Priced(rg, a)) :
             ~Better(Sc(M), Sc(B(a)))
    BY BestPairsBest
  <2> HIDE DEF B
  <2>2. /\ B(a) \in SUBSET (Priced(st, a) \X Priced(rg, a)) /\ Matching(B(a))
        /\ \A p \in B(a) : Viable(st, rg, tol, p[1], p[2])
    BY <2>1 DEF Matchings
  <2>3. \A p \in B(a) : p[1] \in Priced(st, a) /\ p[2] \in Priced(rg, a) /\ p \in I \X J
    BY <2>2 DEF Priced
  <2> QED
    BY <2>1, <2>2, <2>3 DEF Priced
<1> HIDE DEF B, A, I, J, P
<1>5. U(A) \in All
  <2>1. U(A) \in SUBSET (I \X J) /\ \A p \in U(A) : Viable(st, rg, tol, p[1], p[2])
    BY <1>4
  <2>2. ASSUME NEW p \in U(A), NEW q \in U(A)
        PROVE  p[1] = q[1] <=> p[2] = q[2]
    <3>1. PICK a \in A, b \in A : p \in B(a) /\ q \in B(b)
      OBVIOUS
    <3>2. /\ st[p[1]].amount = a /\ rg[p[2]].amount = a
          /\ st[q[1]].amount = b /\ rg[q[2]].amount = b
      BY <1>4, <3>1
    <3>3. CASE a = b
      BY <1>4, <3>1, <3>3 DEF Matching
    <3>4. CASE a # b
      BY <3>2, <3>4
    <3> QED
      BY <3>3, <3>4
  <2>3. Matching(U(A))
    BY <2>2 DEF Matching
  <2> HIDE DEF U
  <2> QED
    BY <2>1, <2>3 DEF Matchings
<1>6. ASSUME NEW S \in All
      PROVE  ~Better(Sc(S), Sc(U(A)))
  <2> DEFINE Of(T) == {p \in S : st[p[1]].amount \in T}
             C == {T \in SUBSET A : ~Better(Sc(Of(T)), Sc(U(T)))}
  <2>1. /\ S \in SUBSET (I \X J) /\ Matching(S)
        /\ \A p \in S : Viable(st, rg, tol, p[1], p[2])
    BY DEF Matchings
  <2>2. \A T : Of(T) \in SUBSET (I \X J)
    BY <2>1
  <2>3. \A T : U(T) \in SUBSET (I \X J)
    BY <1>4
  <2>4. {} \in C
    <3>1. Of({}) = {} /\ U({}) = {}
      OBVIOUS
    <3>2. Scored(Sc({}))
      BY <1>1, Together
    <3>3. ~Better(Sc({}), Sc({}))
      BY <3>2, BetterOrder
    <3> HIDE DEF Sc, Of, U
    <3> QED
      BY <3>1, <3>3
  <2>5. ASSUME NEW T \in SUBSET A, NEW a \in A, T \in C, a \notin T
        PROVE  T \cup {a} \in C
    <3> DEFINE X == Of({a})
               M == B(a)
    <3>1. Of(T \cup {a}) = Of(T) \cup X /\ Of(T) \cap X = {}
      BY <2>5
    <3>2. U(T \cup {a}) = U(T) \cup M
      OBVIOUS
    <3>3. U(T) \cap M = {}
      <4> SUFFICES ASSUME NEW p \in U(T), p \in M
                   PROVE  FALSE
        OBVIOUS
      <4>1. PICK b \in T : p \in B(b)
        OBVIOUS
      <4> QED
        BY <1>4, <2>5, <4>1
    <3>4. X \in Matchings(st, rg, tol, Priced(st, a), Priced(rg, a))
      <4>1. \A p \in X : p \in I \X J /\ st[p[1]].amount = a /\ Viable(st, rg, tol, p[1], p[2])
        BY <2>1
      <4>2. \A p \in X : p[1] \in Priced(st, a) /\ p[2] \in Priced(rg, a)
        BY <4>1 DEF Priced, Viable, I, J
      <4>3. Matching(X) /\ X \in SUBSET (I \X J)
        BY <2>1 DEF Matching
      <4> HIDE DEF X
      <4>4. X \in All
        BY <4>1, <4>3 DEF Matchings
      <4> QED
        BY <4>2, <4>4, FewerRows
    <3>5. ~Better(Sc(X), Sc(M))
      <4> HIDE DEF X
      <4> QED
        BY <1>4, <3>4
    <3>6. ~Better(Sc(Of(T)), Sc(U(T)))
      BY <2>5
    <3>7. /\ X \in SUBSET (I \X J) /\ Of(T) \in SUBSET (I \X J)
          /\ U(T) \in SUBSET (I \X J) /\ M \in SUBSET (I \X J)
      BY <1>4, <2>2, <2>3
    <3> DEFINE O == Of(T)
               V == U(T)
    <3> HIDE DEF X, M, O, V
    <3>8. /\ Sc(O \cup X).count = Sc(O).count + Sc(X).count
          /\ Sc(O \cup X).cost = Sc(O).cost + Sc(X).cost
          /\ Scored(Sc(O)) /\ Scored(Sc(X))
      BY <1>1, <3>1, <3>7, Together DEF O
    <3>9. /\ Sc(V \cup M).count = Sc(V).count + Sc(M).count
          /\ Sc(V \cup M).cost = Sc(V).cost + Sc(M).cost
          /\ Scored(Sc(V)) /\ Scored(Sc(M))
      BY <1>1, <3>3, <3>7, Together DEF V
    <3> HIDE DEF Sc
    <3>10. ~Better(Sc(O), Sc(V))
      BY <3>6 DEF O, V
    <3>11. ~Better(Sc(O \cup X), Sc(V \cup M))
      BY <3>5, <3>8, <3>9, <3>10, OrderAdds
    <3>12. ~Better(Sc(Of(T \cup {a})), Sc(U(T \cup {a})))
      BY <3>1, <3>2, <3>11, Zenon DEF O, V
    <3> QED
      BY <3>12
  <2> HIDE DEF C
  <2>6. A \in C
    BY <1>3, <2>4, <2>5, FiniteInduct
  <2>7. Of(A) = S
    <3>1. \A p \in S : p[1] \in I
      BY <2>1
    <3> QED
      BY <3>1 DEF A
  <2>8. ~Better(Sc(Of(A)), Sc(U(A)))
    BY <2>6 DEF C
  <2> QED
    BY <2>7, <2>8, Zenon
<1> QED
  BY <1>1, <1>2, <1>5, <1>6, Zenon DEF I, J, P

\* matchTransactions pairs the most rows, at the smallest distance.
LEMMA MatchPairsOptimal ==
  ASSUME NEW E, NEW st \in Seq(E), Dated(st), NEW F, NEW rg \in Seq(F), Dated(rg)
  PROVE  Optimal(st, rg) /\ PairsOff(MatchPairs(st, rg, Tolerance), st, rg)
<1> DEFINE I == DOMAIN st
           J == DOMAIN rg
           P == MatchPairs(st, rg, Tolerance)
           All == Matchings(st, rg, Tolerance, I, J)
           V == ViablePairs(st, rg)
           Score(S) == [count |-> Cardinality(S), cost |-> Cost(S, st, rg)]
<1>0. Tolerance \in Int
  BY BookkeepingAssumption
<1>1. /\ RowsOf(st, rg, I, J) /\ P \in All
      /\ \A S \in All : ~Better(ScoreOf(st, rg, S), ScoreOf(st, rg, P))
  BY <1>0, MatchPairsBest
<1>2. \A S : S \in All <=> S \in SUBSET V /\ Matching(S)
  BY DEF Matchings, ViablePairs
<1> HIDE DEF P, V
<1>3. ASSUME NEW S \in All
      PROVE  /\ Score(S).count = ScoreOf(st, rg, S).count
             /\ Score(S).cost = ScoreOf(st, rg, S).cost
  <2> DEFINE c == [p \in S |-> Distance(st[p[1]], rg[p[2]])]
             g == Gaps(st, rg)
  <2>1. S \in SUBSET (I \X J)
    BY DEF Matchings
  <2>2. IsFiniteSet(S) /\ \A p \in S : g[p] \in Int
    BY <1>1, <2>1, PairsFinite
  <2>3. \A p \in S : g[p] = c[p]
    BY <2>1 DEF Gaps
  <2> HIDE DEF c, g
  <2>4. SumFunctionOnSet(g, S) = SumFunctionOnSet(c, S)
    BY <2>2, <2>3, SumEqual
  <2>5. DOMAIN c = S
    BY DEF c
  <2>6. Cost(S, st, rg) = SumFunctionOnSet(c, S)
    BY <2>5 DEF Cost, SumFunction, c
  <2> QED
    BY <2>4, <2>6 DEF ScoreOf, g
<1>4. \A S \in All : ~Better(Score(S), Score(P))
  <2> SUFFICES ASSUME NEW S \in All
               PROVE  ~Better(Score(S), Score(P))
    OBVIOUS
  <2>1. ~Better(ScoreOf(st, rg, S), ScoreOf(st, rg, P))
    BY <1>1
  <2>2. /\ Score(S).count = ScoreOf(st, rg, S).count /\ Score(P).count = ScoreOf(st, rg, P).count
        /\ Score(S).cost = ScoreOf(st, rg, S).cost /\ Score(P).cost = ScoreOf(st, rg, P).cost
    BY <1>1, <1>3
  <2> HIDE DEF Score
  <2> QED
    BY <2>1, <2>2 DEF Better
<1> HIDE DEF All
<1>5. Optimal(st, rg)
  <2>1. P \subseteq V /\ Matching(P)
    BY <1>1, <1>2
  <2>2. \A S \in SUBSET V : Matching(S) => ~Better(Score(S), Score(P))
    BY <1>2, <1>4
  <2> QED
    BY <2>1, <2>2, Zenon DEF Optimal, P, V
<1>6. PairsOff(P, st, rg)
  <2>1. P \in SUBSET V /\ Matching(P)
    BY <1>1, <1>2
  <2>2. \A q \in P : q \in I \X J /\ st[q[1]].amount = rg[q[2]].amount
    BY <2>1 DEF V, ViablePairs, Viable
  <2>3. \A q \in P : \E i \in DOMAIN st, j \in DOMAIN rg : q = <<i, j>>
    BY <2>2
  <2>4. ASSUME NEW i, NEW j, <<i, j>> \in P
        PROVE  /\ st[i].amount = rg[j].amount
               /\ \A k, l : <<k, l>> \in P => (i = k <=> j = l)
    <3>1. <<i, j>>[1] = i /\ <<i, j>>[2] = j
      OBVIOUS
    <3>2. \A k, l : <<k, l>>[1] = k /\ <<k, l>>[2] = l
      OBVIOUS
    <3>3. st[i].amount = rg[j].amount
      BY <2>2, <2>4, <3>1
    <3>4. ASSUME NEW k, NEW l, <<k, l>> \in P
          PROVE  i = k <=> j = l
      BY <2>1, <2>4, <3>1, <3>2, <3>4 DEF Matching
    <3> QED
      BY <3>3, <3>4
  <2> QED
    BY <2>3, <2>4 DEF PairsOff
<1> QED
  BY <1>5, <1>6 DEF P

-----------------------------------------------------------------------------
(* Reconciliation: statement, ledger and tie-out. *)

\* The rows of list are those of rows at the positions of S, in some order, with the sizes
\* of their amounts; p says where each was.
Flow(p, list, rows, S) ==
    /\ \E E : list \in Seq(E)
    /\ p \in [DOMAIN list -> S]
    /\ \A j, k \in DOMAIN list : p[j] = p[k] => j = k
    /\ \A s \in S : \E k \in DOMAIN list : p[k] = s
    /\ \A k \in DOMAIN list : /\ list[k].date = rows[p[k]].date
                              /\ list[k].amount = Size(rows[p[k]].amount)

\* Rows with dates and amounts.
Rows(rows) == (\E E : rows \in Seq(E)) /\ Dated(rows) /\ InInt(rows)

\* Positions of the rows of the days from..to.
Days(rows, from, to) == {k \in DOMAIN rows : from <= rows[k].date /\ rows[k].date <= to}

\* The rows of some days.
LEMMA DaysParts ==
  ASSUME NEW rows, Rows(rows), NEW from, NEW to
  PROVE  /\ Within(rows, from, to) = Keep(rows, Days(rows, from, to))
         /\ Days(rows, from, to) \in SUBSET (DOMAIN rows)
         /\ IsFiniteSet(DOMAIN rows)
         /\ \A k \in DOMAIN rows : rows[k].date \in Int /\ rows[k].amount \in Int
         /\ \A S \in SUBSET (DOMAIN rows) :
              /\ IsFiniteSet(S)
              /\ SumFunctionOnSet(Sizes(rows), S) \in Int
              /\ SumFunctionOnSet(Amounts(rows), S) \in Int
<1>1. PICK E : rows \in Seq(E)
  BY DEF Rows
<1>2. Within(rows, from, to) = Keep(rows, Days(rows, from, to))
  BY Zenon DEF Within, Days
<1>3. Days(rows, from, to) \in SUBSET (DOMAIN rows)
  BY DEF Days
<1>4. InInt(rows) /\ Dated(rows)
  BY DEF Rows
<1> QED
  BY <1>1, <1>2, <1>3, <1>4, SizesType DEF Dated, InInt

\* Rows that are kept are rows.
LEMMA KeepRows ==
  ASSUME NEW E, NEW rows \in Seq(E), NEW S \in SUBSET (DOMAIN rows),
         \A s \in S : rows[s].date \in Int /\ rows[s].amount \in Int
  PROVE  Rows(Keep(rows, S))
<1> DEFINE kept == Keep(rows, S)
<1>1. PICK p : Places(p, kept, rows, S)
  BY KeepPlaces
<1>2. kept \in Seq(E)
  BY KeepPlaces
<1> HIDE DEF kept
<1>3. \A k \in DOMAIN kept : p[k] \in S /\ kept[k] = rows[p[k]]
  BY <1>1 DEF Places
<1>4. \A k \in DOMAIN kept : kept[k].date \in Int /\ kept[k].amount \in Int
  BY <1>3
<1> QED
  BY <1>2, <1>4 DEF Rows, Dated, InInt, kept

\* What flows has dates and amounts.
LEMMA FlowRows ==
  ASSUME NEW rows, Rows(rows), NEW S \in SUBSET (DOMAIN rows), NEW list, NEW p,
         Flow(p, list, rows, S)
  PROVE  Rows(list)
<1>1. \A k \in DOMAIN list : p[k] \in DOMAIN rows
  BY DEF Flow
<1>2. \A k \in DOMAIN list : list[k].date \in Int /\ list[k].amount \in Int
  <2> SUFFICES ASSUME NEW k \in DOMAIN list
               PROVE  list[k].date \in Int /\ list[k].amount \in Int
    OBVIOUS
  <2>1. rows[p[k]].date \in Int /\ rows[p[k]].amount \in Int
    BY <1>1 DEF Rows, Dated, InInt
  <2>2. list[k].date = rows[p[k]].date /\ list[k].amount = Size(rows[p[k]].amount)
    BY DEF Flow
  <2> QED
    BY <2>1, <2>2, SizeType
<1> QED
  BY <1>2 DEF Flow, Rows, Dated, InInt

\* What flows in some days is the sum of the rows of these days.
LEMMA FlowSum ==
  ASSUME NEW rows, Rows(rows), NEW S \in SUBSET (DOMAIN rows), NEW list, NEW p,
         Flow(p, list, rows, S)
  PROVE  /\ Sum(list) = SumFunctionOnSet(Sizes(rows), S)
         /\ \A from, to : /\ Rows(Within(list, from, to))
                          /\ Sum(Within(list, from, to))
                               = SumFunctionOnSet(Sizes(rows), S \cap Days(rows, from, to))
<1>0. PICK D : rows \in Seq(D)
  BY DEF Rows
<1>1. PICK E : list \in Seq(E)
  BY DEF Flow
<1>2. Rows(list) /\ InInt(list) /\ Dated(list) /\ InInt(rows)
  BY FlowRows DEF Rows
<1>3. ASSUME NEW T \in SUBSET (DOMAIN list)
      PROVE  SumFunctionOnSet(Sizes(rows), ImageOf(p, T)) = SumFunctionOnSet(Sizes(list), T)
  <2>1. IsFiniteSet(T)
    BY <1>1, <1>2, SizesType
  <2>2. \A k \in T : Sizes(list)[k] \in Int /\ Sizes(rows)[p[k]] = Sizes(list)[k]
    <3> SUFFICES ASSUME NEW k \in T
                 PROVE  Sizes(list)[k] \in Int /\ Sizes(rows)[p[k]] = Sizes(list)[k]
      OBVIOUS
    <3>1. /\ k \in DOMAIN list /\ p[k] \in DOMAIN rows
          /\ list[k].amount = Size(rows[p[k]].amount)
      BY DEF Flow
    <3>2. Sizes(list)[k] = Size(list[k].amount) /\ Sizes(list)[k] \in Nat
      BY <1>1, <1>2, <3>1, SizesType
    <3>3. Sizes(rows)[p[k]] = Size(rows[p[k]].amount)
      BY <3>1 DEF Sizes
    <3>4. rows[p[k]].amount \in Int
      BY <1>2, <3>1 DEF InInt
    <3>5. Size(Size(rows[p[k]].amount)) = Size(rows[p[k]].amount)
      BY <3>4, SizeType
    <3> QED
      BY <3>1, <3>2, <3>3, <3>5
  <2>3. \A j, k \in T : p[j] = p[k] => j = k
    BY DEF Flow
  <2>4. Carries(p, T, Sizes(list), Sizes(rows))
    BY <2>2, <2>3 DEF Carries
  <2> QED
    BY <2>1, <2>4, SumImage
<1>4. Sum(list) = SumFunctionOnSet(Sizes(rows), S)
  <2>1. ImageOf(p, DOMAIN list) = S
    BY DEF Flow, ImageOf
  <2>2. Sum(list) = SumFunctionOnSet(Sizes(list), DOMAIN list)
    BY <1>1, <1>2, NetIs
  <2>3. DOMAIN list \in SUBSET (DOMAIN list)
    OBVIOUS
  <2> QED
    BY <1>3, <2>1, <2>2, <2>3
<1>5. ASSUME NEW from, NEW to
      PROVE  /\ Rows(Within(list, from, to))
             /\ Sum(Within(list, from, to))
                  = SumFunctionOnSet(Sizes(rows), S \cap Days(rows, from, to))
  <2> DEFINE T == Days(list, from, to)
  <2>1. T \in SUBSET (DOMAIN list) /\ Within(list, from, to) = Keep(list, T)
    BY <1>2, DaysParts
  <2>2. ImageOf(p, T) = S \cap Days(rows, from, to)
    <3>1. \A k \in DOMAIN list : k \in T <=> p[k] \in Days(rows, from, to)
      BY DEF Flow, Days
    <3> HIDE DEF T
    <3> QED
      BY <2>1, <3>1 DEF Flow, ImageOf
  <2>3. \A k \in T : list[k].date \in Int /\ list[k].amount \in Int
    BY <1>2, <2>1 DEF Dated, InInt
  <2> HIDE DEF T
  <2>4. Sum(Keep(list, T)) = SumFunctionOnSet(Sizes(list), T)
    BY <1>1, <1>2, <2>1, KeepNet
  <2>5. Rows(Keep(list, T))
    BY <1>1, <2>1, <2>3, KeepRows
  <2> QED
    BY <1>3, <2>1, <2>2, <2>4, <2>5
<1> QED
  BY <1>4, <1>5

\* Outflows keeps the date and takes the size of the amount.
LEMMA Sized ==
  ASSUME NEW r, {"date", "amount"} \subseteq DOMAIN r
  PROVE  /\ [r EXCEPT !.amount = Size(@)].date = r.date
         /\ [r EXCEPT !.amount = Size(@)].amount = Size(r.amount)
OBVIOUS

\* Rows that are records with these fields.
Fielded(rows) == \A k \in DOMAIN rows : {"date", "amount"} \subseteq DOMAIN rows[k]

\* What the worksheet takes for money in and money out of the books.
LEMMA LedgerFlows ==
  ASSUME NEW rows, Rows(rows), Fielded(rows)
  PROVE  /\ \E p : Flow(p, Outflows(rows), rows, {k \in DOMAIN rows : rows[k].amount < 0})
         /\ \E p : Flow(p, Inflows(rows), rows, {k \in DOMAIN rows : rows[k].amount > 0})
<1> DEFINE N == {k \in DOMAIN rows : rows[k].amount < 0}
           P == {k \in DOMAIN rows : rows[k].amount > 0}
           out == Keep(rows, N)
<1>0. PICK E : rows \in Seq(E)
  BY DEF Rows
<1>1. /\ N \in SUBSET (DOMAIN rows) /\ P \in SUBSET (DOMAIN rows)
      /\ \A k \in DOMAIN rows : rows[k].amount \in Int
      /\ \A k \in P : rows[k].amount = Size(rows[k].amount)
  <2>1. \A k \in DOMAIN rows : rows[k].amount \in Int
    BY DEF Rows, InInt
  <2> QED
    BY <2>1, SizeType
<1>2. ASSUME NEW S \in SUBSET (DOMAIN rows)
      PROVE  \E p : /\ Places(p, Keep(rows, S), rows, S)
                    /\ \A j, k \in DOMAIN Keep(rows, S) : p[j] = p[k] => j = k
  <2> DEFINE kept == Keep(rows, S)
  <2>1. PICK p : Places(p, kept, rows, S)
    BY <1>0, KeepPlaces
  <2>2. kept \in Seq(E)
    BY <1>0, KeepPlaces
  <2> HIDE DEF kept
  <2>3. \A k \in DOMAIN kept : k \in Nat /\ p[k] \in DOMAIN rows /\ p[k] \in Nat
    BY <1>0, <2>1, <2>2 DEF Places
  <2>4. ASSUME NEW j \in DOMAIN kept, NEW k \in DOMAIN kept, p[j] = p[k], j # k
        PROVE  FALSE
    <3>1. j < k \/ k < j
      BY <2>3, <2>4
    <3>2. p[j] < p[k] \/ p[k] < p[j]
      BY <2>1, <3>1 DEF Places
    <3> QED
      BY <2>3, <2>4, <3>2
  <2> QED
    BY <2>1, <2>4 DEF kept
<1>3. \E p : Flow(p, Inflows(rows), rows, P)
  <2>1. PICK p : /\ Places(p, Keep(rows, P), rows, P)
                 /\ \A j, k \in DOMAIN Keep(rows, P) : p[j] = p[k] => j = k
    BY <1>1, <1>2
  <2>2. Keep(rows, P) \in Seq(E)
    BY <1>0, <1>1, KeepPlaces
  <2>3. Inflows(rows) = Keep(rows, P)
    BY Zenon DEF Inflows
  <2> HIDE DEF P
  <2>4. Flow(p, Keep(rows, P), rows, P)
    BY <1>1, <2>1, <2>2 DEF Places, Flow
  <2> QED
    BY <2>3, <2>4
<1>4. \E p : Flow(p, Outflows(rows), rows, N)
  <2>1. PICK p : /\ Places(p, out, rows, N)
                 /\ \A j, k \in DOMAIN out : p[j] = p[k] => j = k
    BY <1>1, <1>2
  <2>2. out \in Seq(E)
    BY <1>0, <1>1, KeepPlaces
  <2> DEFINE list == [k \in DOMAIN out |-> [out[k] EXCEPT !.amount = Size(@)]]
  <2>3. Outflows(rows) = list
    BY Zenon DEF Outflows
  <2> HIDE DEF N, out
  <2>4. list \in Seq({[out[k] EXCEPT !.amount = Size(@)] : k \in DOMAIN out})
    BY <2>2
  <2>5. Flow(p, list, rows, N)
    <3>1. \A k \in DOMAIN out : p[k] \in N /\ out[k] = rows[p[k]]
      BY <2>1 DEF Places
    <3>2. \A k \in DOMAIN out : p[k] \in DOMAIN rows
      BY <1>1, <3>1 DEF N
    <3>3. \A k \in DOMAIN out : {"date", "amount"} \subseteq DOMAIN out[k]
      BY <3>1, <3>2 DEF Fielded
    <3>4. \A k \in DOMAIN out : /\ list[k].date = rows[p[k]].date
                               /\ list[k].amount = Size(rows[p[k]].amount)
      BY <3>1, <3>3, Sized
    <3>5. DOMAIN list = DOMAIN out
      OBVIOUS
    <3> HIDE DEF list
    <3>6. \E D : list \in Seq(D)
      BY <2>4
    <3> QED
      BY <2>1, <3>4, <3>5, <3>6 DEF Places, Flow
  <2> QED
    BY <2>3, <2>5
<1> QED
  BY <1>3, <1>4

\* A number reads as it was printed, whatever marks the bank puts on what is negative.
LEMMA CellReads ==
  ASSUME file \in File, NEW n \in Int
  PROVE  /\ Cell(n).form = "number" /\ IsNumber(Cell(n)) /\ ParseAmount(Cell(n)) = n
         /\ Filled(Cell(n)) <=> n # 0
<1>1. file.marks # {}
  BY BookkeepingAssumption
<1>2. ParseAmount(Cell(n)) = n
  BY <1>1 DEF Cell, ParseAmount, Size
<1> QED
  BY <1>2 DEF Cell, IsNumber, Filled

\* An empty cell is not a number.
LEMMA BlankReads == Blank.form = "blank" /\ ~IsNumber(Blank) /\ ~Filled(Blank)
BY DEF Blank, IsNumber, Filled

\* Every row of the statement is read, with the date and the amount the bank has, in each
\* of the export formats.
LEMMA PrintedReads ==
  ASSUME file \in File, NEW row \in BankRow
  PROVE  /\ Printed(row).date = row.date
         /\ ~Unreadable(Printed(row), file.convention)
         /\ Signed(Printed(row), file.convention) = row.amount
<1> DEFINE c == file.convention
           a == row.amount
           r == Printed(row)
<1>1. c \in {"debit_credit", "negative_out", "positive_out"}
  BY BookkeepingAssumption DEF Convention
<1>2. a \in Int /\ -a \in Int /\ row.date \in Nat /\ row.date # 0
  BY DEF BankRow
<1>3. /\ Cell(a).form = "number" /\ IsNumber(Cell(a)) /\ ParseAmount(Cell(a)) = a
      /\ Filled(Cell(a)) <=> a # 0
  BY <1>2, CellReads
<1>4. IsNumber(Cell(-a)) /\ ParseAmount(Cell(-a)) = -a
  BY <1>2, CellReads
<1>5. CASE c = "debit_credit"
  <2> DEFINE d == IF a < 0 THEN Cell(a) ELSE Blank
             e == IF a < 0 THEN Blank ELSE Cell(a)
  <2>1. r = [date |-> row.date, debit |-> d, credit |-> e]
    BY <1>5, Zenon DEF Printed
  <2> HIDE DEF r, d, e
  <2>2. r.date = row.date /\ r.debit = d /\ r.credit = e
    BY <2>1
  <2> HIDE DEF c, a
  <2>3. CASE a < 0
    <3>1. d = Cell(a) /\ e = Blank /\ Filled(d) /\ a # 0
      BY <1>2, <1>3, <2>3 DEF d, e
    <3>2. ~Unreadable(r, c)
      BY <1>2, <1>3, <1>5, <2>2, <3>1, BlankReads DEF Unreadable
    <3>3. Signed(r, c) = -Size(a)
      BY <1>3, <1>5, <2>2, <3>1 DEF Signed
    <3>4. -Size(a) = a
      BY <1>2, <2>3 DEF Size
    <3> QED
      BY <2>2, <3>2, <3>3, <3>4 DEF r, c, a
  <2>4. CASE ~(a < 0)
    <3>1. d = Blank /\ e = Cell(a)
      BY <1>2, <2>4 DEF d, e
    <3>2. ~Unreadable(r, c)
      BY <1>2, <1>3, <1>5, <2>2, <3>1, BlankReads DEF Unreadable
    <3>3. Signed(r, c) = IF a # 0 THEN Size(a) ELSE 0
      BY <1>3, <1>5, <2>2, <3>1, BlankReads DEF Signed
    <3>4. a = IF a # 0 THEN Size(a) ELSE 0
      BY <1>2, <2>4 DEF Size
    <3> QED
      BY <2>2, <3>2, <3>3, <3>4 DEF r, c, a
  <2> QED
    BY <2>3, <2>4
<1>6. CASE c = "negative_out"
  <2>1. r = [date |-> row.date, cell |-> Cell(a)]
    BY <1>6 DEF Printed
  <2> HIDE DEF r
  <2>2. r.date = row.date /\ r.cell = Cell(a)
    BY <2>1
  <2> HIDE DEF c, a
  <2>3. ~Unreadable(r, c) /\ Signed(r, c) = a
    BY <1>2, <1>3, <1>6, <2>2 DEF Unreadable, Signed
  <2> QED
    BY <2>2, <2>3 DEF r, c, a
<1>7. CASE c = "positive_out"
  <2>1. r = [date |-> row.date, cell |-> Cell(-a)]
    BY <1>7 DEF Printed
  <2> HIDE DEF r
  <2>2. r.date = row.date /\ r.cell = Cell(-a)
    BY <2>1
  <2> HIDE DEF c, a
  <2>3. ~Unreadable(r, c) /\ Signed(r, c) = -(-a)
    BY <1>2, <1>4, <1>7, <2>2 DEF Unreadable, Signed
  <2>4. -(-a) = a
    BY <1>2
  <2> QED
    BY <2>2, <2>3, <2>4 DEF r, c, a
<1> QED
  BY <1>1, <1>5, <1>6, <1>7

\* The import takes the bank's rows of one sign for money out, those of the other for
\* money in.
LEMMA ImportFlows ==
  ASSUME file \in File, bank \in Seq(BankRow)
  PROVE  LET plan == PlanImport(Statement, file.convention)
         IN  /\ \E p : Flow(p, plan.outflows, bank, {k \in DOMAIN bank : bank[k].amount < 0})
             /\ \E p : Flow(p, plan.inflows, bank, {k \in DOMAIN bank : bank[k].amount > 0})
<1> DEFINE c == file.convention
           rows == Statement
           readable == {k \in DOMAIN rows : ~Unreadable(rows[k], c)}
           Of(sign) == {k \in readable : sign * Signed(rows[k], c) > 0}
           Flowing(sign) == Keep(rows, Of(sign))
           Entries(sign) == [k \in DOMAIN Flowing(sign) |->
                                [date   |-> Flowing(sign)[k].date,
                                 amount |-> Size(Signed(Flowing(sign)[k], c))]]
<1>1. /\ PlanImport(Statement, c).outflows = Entries(-1)
      /\ PlanImport(Statement, c).inflows = Entries(1)
  BY Zenon DEF PlanImport
<1>2. /\ DOMAIN rows = DOMAIN bank
      /\ \A k \in DOMAIN bank : rows[k] = Printed(bank[k]) /\ bank[k] \in BankRow
  BY DEF Statement
<1>3. rows \in Seq({Printed(bank[k]) : k \in DOMAIN bank})
  <2>1. DOMAIN bank = 1..Len(bank) /\ Len(bank) \in Nat
    OBVIOUS
  <2> QED
    BY <1>2, <2>1 DEF Statement
<1> HIDE DEF rows, c
<1>4. \A k \in DOMAIN bank : /\ rows[k].date = bank[k].date
                             /\ ~Unreadable(rows[k], c)
                             /\ Signed(rows[k], c) = bank[k].amount
                             /\ bank[k].amount \in Int
  <2> SUFFICES ASSUME NEW k \in DOMAIN bank
               PROVE  /\ rows[k].date = bank[k].date
                      /\ ~Unreadable(rows[k], c)
                      /\ Signed(rows[k], c) = bank[k].amount
                      /\ bank[k].amount \in Int
    OBVIOUS
  <2>1. bank[k] \in BankRow /\ rows[k] = Printed(bank[k])
    BY <1>2
  <2>2. bank[k].amount \in Int
    BY <2>1 DEF BankRow
  <2> QED
    BY <2>1, <2>2, PrintedReads DEF c
<1>5. readable = DOMAIN bank
  BY <1>2, <1>4
<1>6. /\ Of(-1) = {k \in DOMAIN bank : bank[k].amount < 0}
      /\ Of(1) = {k \in DOMAIN bank : bank[k].amount > 0}
  <2>1. \A k \in DOMAIN bank : /\ (-1) * Signed(rows[k], c) > 0 <=> bank[k].amount < 0
                               /\ 1 * Signed(rows[k], c) > 0 <=> bank[k].amount > 0
    BY <1>4
  <2> HIDE DEF readable
  <2>2. \A sign : \A k : k \in Of(sign) <=> k \in readable /\ sign * Signed(rows[k], c) > 0
    OBVIOUS
  <2> HIDE DEF Of
  <2>3. Of(-1) = {k \in DOMAIN bank : bank[k].amount < 0}
    <3>1. \A k : k \in Of(-1) <=> k \in readable /\ (-1) * Signed(rows[k], c) > 0
      BY <2>2, Zenon
    <3>2. \A k : k \in Of(-1) <=> k \in DOMAIN bank /\ bank[k].amount < 0
      BY <1>5, <2>1, <3>1
    <3> QED
      BY <3>2
  <2>4. Of(1) = {k \in DOMAIN bank : bank[k].amount > 0}
    <3>1. \A k : k \in Of(1) <=> k \in DOMAIN bank /\ bank[k].amount > 0
      BY <1>5, <2>1, <2>2
    <3> QED
      BY <3>1
  <2> QED
    BY <2>3, <2>4
<1> HIDE DEF readable
<1>7. ASSUME NEW sign, Of(sign) \in SUBSET (DOMAIN bank)
      PROVE  \E p : Flow(p, Entries(sign), bank, Of(sign))
  <2> DEFINE S == Of(sign)
             kept == Flowing(sign)
             list == Entries(sign)
  <2>0. S \in SUBSET (DOMAIN rows)
    BY <1>2, <1>7
  <2>1. PICK p : Places(p, kept, rows, S)
    <3> HIDE DEF S
    <3>1. \E p : Places(p, Keep(rows, S), rows, S)
      BY <1>3, <2>0, KeepPlaces
    <3> QED
      BY <3>1 DEF S
  <2>2. kept \in Seq({Printed(bank[k]) : k \in DOMAIN bank})
    <3> HIDE DEF S
    <3>1. Keep(rows, S) \in Seq({Printed(bank[k]) : k \in DOMAIN bank})
      BY <1>3, <2>0, KeepPlaces
    <3> QED
      BY <3>1 DEF S
  <2>3. list = [k \in DOMAIN kept |-> [date |-> kept[k].date, amount |-> Size(Signed(kept[k], c))]]
    OBVIOUS
  <2> HIDE DEF S, kept, list
  <2>4. \A k \in DOMAIN kept : /\ k \in Nat /\ p[k] \in S /\ p[k] \in DOMAIN bank /\ p[k] \in Nat
                               /\ kept[k] = rows[p[k]]
    <3>1. \A k \in DOMAIN kept : k \in Nat
      BY <2>2
    <3>2. \A k \in DOMAIN bank : k \in Nat
      OBVIOUS
    <3> QED
      BY <1>2, <2>0, <2>1, <3>1, <3>2 DEF Places
  <2>5. \A j, k \in DOMAIN kept : p[j] = p[k] => j = k
    <3> SUFFICES ASSUME NEW j \in DOMAIN kept, NEW k \in DOMAIN kept, p[j] = p[k], j # k
                 PROVE  FALSE
      OBVIOUS
    <3>1. j < k \/ k < j
      BY <2>4
    <3>2. p[j] < p[k] \/ p[k] < p[j]
      BY <2>1, <3>1 DEF Places
    <3> QED
      BY <2>4, <3>2
  <2>6. \A k \in DOMAIN kept : /\ list[k].date = bank[p[k]].date
                               /\ list[k].amount = Size(bank[p[k]].amount)
    BY <1>4, <2>3, <2>4
  <2>7. \E D : list \in Seq(D)
    <3>1. DOMAIN kept = 1..Len(kept) /\ Len(kept) \in Nat
      BY <2>2
    <3>2. list \in Seq({list[k] : k \in DOMAIN kept})
      BY <2>3, <3>1
    <3> QED
      BY <3>2
  <2>8. DOMAIN list = DOMAIN kept
    BY <2>3
  <2>9. Flow(p, list, bank, S)
    BY <2>1, <2>5, <2>6, <2>7, <2>8 DEF Places, Flow
  <2> QED
    BY <2>9 DEF S, list
<1> HIDE DEF Entries, Of
<1>8. /\ \E p : Flow(p, Entries(-1), bank, {k \in DOMAIN bank : bank[k].amount < 0})
      /\ \E p : Flow(p, Entries(1), bank, {k \in DOMAIN bank : bank[k].amount > 0})
  <2>1. Of(-1) \in SUBSET (DOMAIN bank) /\ Of(1) \in SUBSET (DOMAIN bank)
    BY <1>6
  <2>2. (\E p : Flow(p, Entries(-1), bank, Of(-1))) /\ (\E p : Flow(p, Entries(1), bank, Of(1)))
    BY <1>7, <2>1
  <2> QED
    BY <1>6, <2>2, Zenon
<1> QED
  BY <1>1, <1>8, Zenon DEF c

\* A General Ledger of n rows after the one with the opening balance b.
Ledger(gl, n, b) ==
    /\ \E E : gl \in Seq(E)
    /\ n \in Nat /\ Len(gl) = n + 1
    /\ gl[1].date = 0 /\ gl[1].amount = None /\ gl[1].balance = b /\ b \in Int
    /\ \A k \in 2..(n + 1) : /\ gl[k].date \in Int \ {0} /\ gl[k].amount \in Int
                             /\ gl[k].balance \in Int
                             /\ {"date", "amount"} \subseteq DOMAIN gl[k]

\* The register read from it has these rows, and ends at the balance of the last.
LEMMA RegisterOfGl ==
  ASSUME NEW gl, NEW n, NEW b, Ledger(gl, n, b)
  PROVE  LET r == BankRegisterFromGl(gl)
         IN  /\ Rows(r.transactions) /\ Fielded(r.transactions)
             /\ Net(r.transactions) = SumFunctionOnSet(Amounts(gl), 2..(n + 1))
             /\ r.ending = IF n = 0 THEN b + Net(r.transactions) ELSE gl[n + 1].balance
<1> DEFINE O == {k \in DOMAIN gl : gl[k].date = 0 /\ gl[k].amount = None /\ gl[k].balance # None}
           X == {k \in DOMAIN gl : gl[k].date # 0 /\ gl[k].amount # None}
           T == 2..(n + 1)
           opening == Keep(gl, O)
           tr == Keep(gl, X)
           beginning == IF opening = <<>> THEN None ELSE opening[1].balance
           r == BankRegisterFromGl(gl)
<1>0. PICK E : gl \in Seq(E)
  BY DEF Ledger
<1>1. /\ n \in Nat /\ DOMAIN gl = 1..(n + 1) /\ 1 \in DOMAIN gl
      /\ \A k \in DOMAIN gl : k = 1 \/ k \in T
      /\ None \notin Int /\ b \in Int
  BY <1>0, BookkeepingAssumption DEF Ledger
<1>2. /\ gl[1].date = 0 /\ gl[1].amount = None /\ gl[1].balance = b
      /\ \A k \in T : /\ gl[k].date \in Int \ {0} /\ gl[k].amount \in Int /\ gl[k].balance \in Int
                      /\ {"date", "amount"} \subseteq DOMAIN gl[k]
  BY DEF Ledger
<1>3. O = {1} /\ X = T /\ T \in SUBSET (DOMAIN gl)
  <2>1. \A k \in T : k \in DOMAIN gl /\ k # 1
    BY <1>1
  <2> HIDE DEF T
  <2> QED
    BY <1>1, <1>2, <2>1
<1>4. /\ r.transactions = tr
      /\ r.ending = IF tr # <<>> /\ Last(tr).balance # None THEN Last(tr).balance
                    ELSE IF beginning = None THEN None ELSE beginning + Net(tr)
  BY DEF BankRegisterFromGl
<1> HIDE DEF O, X, r
<1>5. beginning = b
  <2>1. PICK p : Places(p, opening, gl, {1})
    BY <1>0, <1>1, <1>3, KeepPlaces
  <2>2. opening \in Seq(E)
    BY <1>0, <1>1, <1>3, KeepPlaces
  <2> HIDE DEF opening
  <2>3. PICK j \in DOMAIN opening : p[j] = 1
    BY <2>1 DEF Places
  <2>4. DOMAIN opening = 1..Len(opening) /\ Len(opening) \in Nat /\ j \in 1..Len(opening)
    BY <2>2
  <2>5. 1 \in DOMAIN opening
    BY <2>4
  <2>6. opening # <<>> /\ opening[1] = gl[p[1]] /\ p[1] = 1
    BY <2>1, <2>5 DEF Places
  <2> QED
    BY <1>2, <2>6
<1>6. PICK q : Places(q, tr, gl, T)
  BY <1>0, <1>3, KeepPlaces
<1>7. tr \in Seq(E)
  BY <1>0, <1>3, KeepPlaces
<1> DEFINE m == Len(tr)
<1>8. m \in Nat /\ DOMAIN tr = 1..m
  BY <1>7
<1>9. Rows(tr) /\ Fielded(tr)
  <2>1. Rows(Keep(gl, T))
    <3>1. \A k \in T : gl[k].date \in Int /\ gl[k].amount \in Int
      BY <1>2
    <3> HIDE DEF T
    <3> QED
      BY <1>0, <1>3, <3>1, KeepRows
  <2>2. Fielded(tr)
    <3> HIDE DEF tr, T
    <3> QED
      BY <1>2, <1>6 DEF Places, Fielded
  <2> QED
    BY <1>3, <2>1, <2>2
<1>10. Net(tr) = SumFunctionOnSet(Amounts(gl), T)
  <2>1. KeptAs(gl, T, Amounts(gl), Amounts(Keep(gl, T)))
    <3>1. \A s \in T : Amounts(gl)[s] \in Int /\ Amounts(gl)[s] = gl[s].amount
      BY <1>2, <1>3 DEF Amounts
    <3>2. \A j \in DOMAIN Keep(gl, T) : Amounts(Keep(gl, T))[j] = Keep(gl, T)[j].amount
      BY DEF Amounts
    <3> HIDE DEF T
    <3> QED
      BY <3>1, <3>2 DEF KeptAs
  <2> HIDE DEF T
  <2>2. SumFunctionOnSet(Amounts(Keep(gl, T)), DOMAIN Keep(gl, T)) = SumFunctionOnSet(Amounts(gl), T)
    BY <1>0, <1>3, <2>1, KeepSum
  <2>3. SumFunctionOnSet(Amounts(tr), DOMAIN tr) = SumFunctionOnSet(Amounts(gl), T)
    BY <1>3, <2>2, Zenon
  <2> HIDE DEF tr
  <2>4. Net(tr) = SumFunctionOnSet(Amounts(tr), DOMAIN tr)
    BY DEF Net, SumFunction, Amounts
  <2> QED
    BY <2>3, <2>4
<1> HIDE DEF tr, beginning, m
<1>11. CASE n = 0
  <2>1. T = {}
    BY <1>11
  <2>2. tr = <<>>
    <3>1. \A k \in DOMAIN tr : FALSE
      BY <1>6, <2>1 DEF Places
    <3>2. m = 0
      BY <1>8, <3>1
    <3> QED
      BY <1>7, <3>2 DEF m
  <2>3. r.ending = b + Net(tr)
    BY <1>1, <1>4, <1>5, <2>2
  <2> QED
    BY <1>4, <1>9, <1>10, <1>11, <2>3, Zenon DEF r
<1>12. CASE n # 0
  <2>1. n + 1 \in T /\ \A k \in T : k \in Int /\ k <= n + 1
    BY <1>1, <1>12
  <2> HIDE DEF T
  <2>2. PICK j \in 1..m : q[j] = n + 1
    BY <1>6, <1>8, <2>1 DEF Places
  <2>3. m \in 1..m /\ (j = m \/ j < m)
    BY <1>8
  <2>4. q[m] \in T
    BY <1>6, <1>8, <2>3 DEF Places
  <2>5. q[m] = n + 1
    <3>1. j < m => q[j] < q[m]
      BY <1>6, <1>8, <2>3 DEF Places
    <3> QED
      BY <1>1, <2>1, <2>2, <2>3, <2>4, <3>1
  <2>6. Last(tr) = gl[n + 1] /\ tr # <<>>
    <3>1. tr[m] = gl[q[m]]
      BY <1>6, <1>8, <2>3 DEF Places
    <3>2. Last(tr) = tr[m]
      BY DEF Last, m
    <3> QED
      BY <1>8, <2>3, <2>5, <3>1, <3>2
  <2>7. gl[n + 1].balance \in Int
    BY <1>2, <2>1
  <2>8. r.ending = gl[n + 1].balance
    BY <1>1, <1>4, <2>6, <2>7
  <2> QED
    BY <1>4, <1>9, <1>10, <1>12, <2>8, Zenon DEF r, T
<1> QED
  BY <1>11, <1>12

\* The books and the bank have rows with dates and amounts.
LEMMA TypedRows ==
  ASSUME register \in Seq(Entry), bank \in Seq(BankRow)
  PROVE  Rows(register) /\ Fielded(register) /\ Rows(bank)
<1>1. \A k \in DOMAIN bank : bank[k] \in BankRow
  OBVIOUS
<1>2. \A k \in DOMAIN bank : bank[k].date \in Int /\ bank[k].amount \in Int
  BY <1>1 DEF BankRow
<1>3. \A k \in DOMAIN register : register[k] \in Entry
  OBVIOUS
<1>4. \A k \in DOMAIN register : /\ register[k].date \in Int /\ register[k].amount \in Int
                                 /\ {"date", "amount"} \subseteq DOMAIN register[k]
  BY <1>3 DEF Entry
<1> QED
  BY <1>2, <1>4 DEF Rows, Fielded, Dated, InInt

\* The register of some days, read back from the General Ledger of these days.
LEMMA LedgerReads ==
  ASSUME register \in Seq(Entry), NEW from, NEW to
  PROVE  LET before == Opening.books + Net(Within(register, 1, from - 1))
             net == Net(Within(register, from, to))
             ledger == BankRegisterFromGl(GeneralLedger(from, to))
         IN  /\ before \in Int /\ net \in Int
             /\ Rows(ledger.transactions) /\ Fielded(ledger.transactions)
             /\ Net(ledger.transactions) = net
             /\ ledger.ending = before + net
<1> DEFINE before == Opening.books + Net(Within(register, 1, from - 1))
           rows == Within(register, from, to)
           n == Len(rows)
           first == [date |-> 0, amount |-> None, balance |-> before, party |-> None]
           tail == [k \in DOMAIN rows |->
                      [date |-> rows[k].date, amount |-> rows[k].amount, party |-> rows[k].party,
                       balance |-> before + Net(SubSeq(rows, 1, k))]]
           gl == GeneralLedger(from, to)
           E == [date : Nat, amount : Int \cup {None}, balance : Int, party : Party \cup {None}]
<1>1. gl = <<first>> \o tail
  BY Zenon DEF GeneralLedger
<1>2. ASSUME NEW f, NEW t
      PROVE  Within(register, f, t) \in Seq(Entry)
  <2> DEFINE S == {k \in DOMAIN register : f <= register[k].date /\ register[k].date <= t}
  <2>1. S \in SUBSET (DOMAIN register)
    OBVIOUS
  <2>2. Within(register, f, t) = Keep(register, S)
    BY Zenon DEF Within
  <2> HIDE DEF S
  <2> QED
    BY <2>1, <2>2, KeepPlaces
<1>3. ASSUME NEW s \in Seq(Entry)
      PROVE  InInt(s) /\ Net(s) \in Int
  <2>1. InInt(s)
    BY EntryParts DEF InInt
  <2> QED
    BY <2>1, NetIs
<1>4. before \in Int
  <2>1. Opening.books \in Int
    BY BookkeepingAssumption
  <2>2. Net(Within(register, 1, from - 1)) \in Int
    BY <1>2, <1>3
  <2> QED
    BY <2>1, <2>2
<1>5. rows \in Seq(Entry) /\ n \in Nat /\ DOMAIN rows = 1..n /\ Net(rows) \in Int /\ InInt(rows)
  <2>1. rows \in Seq(Entry)
    BY <1>2
  <2> HIDE DEF rows
  <2> QED
    BY <1>3, <2>1
<1> HIDE DEF before, rows, n, gl
<1>6. \A k \in 1..n : /\ rows[k].date \in Nat \ {0} /\ rows[k].amount \in Int
                      /\ rows[k].party \in Party
                      /\ Net(SubSeq(rows, 1, k)) \in Int
  <2> SUFFICES ASSUME NEW k \in 1..n
               PROVE  /\ rows[k].date \in Nat \ {0} /\ rows[k].amount \in Int
                      /\ rows[k].party \in Party
                      /\ Net(SubSeq(rows, 1, k)) \in Int
    OBVIOUS
  <2>1. SubSeq(rows, 1, k) \in Seq(Entry)
    <3>1. 1 \in 1..(Len(rows) + 1) /\ k \in 1..Len(rows)
      BY <1>5 DEF n
    <3> QED
      BY <1>5, <3>1
  <2>2. k \in DOMAIN rows
    BY <1>5
  <2> QED
    BY <1>3, <1>5, <2>1, <2>2, EntryParts
<1>7. first \in E /\ first.date = 0 /\ first.amount = None /\ first.balance = before
  BY <1>4
<1>8. \A k \in 1..n : /\ tail[k] \in E
                      /\ tail[k].date = rows[k].date /\ tail[k].amount = rows[k].amount
                      /\ tail[k].balance = before + Net(SubSeq(rows, 1, k))
                      /\ {"date", "amount"} \subseteq DOMAIN tail[k]
  BY <1>4, <1>5, <1>6
<1>9. tail \in Seq(E) /\ Len(tail) = n
  <2>1. DOMAIN tail = 1..n
    BY <1>5
  <2>2. tail = [k \in 1..n |-> tail[k]]
    BY <1>5
  <2> HIDE DEF tail, E
  <2>3. tail \in [1..n -> E]
    BY <1>8, <2>2
  <2> QED
    BY <1>5, <2>3
<1> HIDE DEF first, tail
<1>10. /\ gl \in Seq(E) /\ Len(gl) = n + 1 /\ DOMAIN gl = 1..(n + 1)
       /\ gl[1] = first /\ \A k \in 2..(n + 1) : gl[k] = tail[k - 1] /\ k - 1 \in 1..n
  <2> HIDE DEF E
  <2>1. <<first>> \in Seq(E) /\ Len(<<first>>) = 1 /\ <<first>>[1] = first
    BY <1>7
  <2>2. \A k \in 2..(n + 1) : k - 1 \in 1..n
    BY <1>5
  <2> QED
    BY <1>1, <1>5, <1>9, <2>1, <2>2
<1> HIDE DEF E
<1>11. Ledger(gl, n, before)
  <2>1. \A k \in 2..(n + 1) : /\ gl[k].date \in Int \ {0} /\ gl[k].amount \in Int
                              /\ gl[k].balance \in Int
                              /\ {"date", "amount"} \subseteq DOMAIN gl[k]
    BY <1>4, <1>6, <1>8, <1>10
  <2> QED
    BY <1>4, <1>5, <1>7, <1>10, <2>1 DEF Ledger
<1> DEFINE ledger == BankRegisterFromGl(gl)
<1>12. /\ Rows(ledger.transactions) /\ Fielded(ledger.transactions)
       /\ Net(ledger.transactions) = SumFunctionOnSet(Amounts(gl), 2..(n + 1))
       /\ ledger.ending = IF n = 0 THEN before + Net(ledger.transactions) ELSE gl[n + 1].balance
  BY <1>11, RegisterOfGl
<1> HIDE DEF ledger
<1>13. SumFunctionOnSet(Amounts(gl), 2..(n + 1)) = Net(rows)
  <2> DEFINE p == [k \in 1..n |-> k + 1]
             D == 1..n
             f == Amounts(rows)
             g == Amounts(gl)
  <2>1. ImageOf(p, 1..n) = 2..(n + 1)
    <3>1. \A k \in 2..(n + 1) : k - 1 \in 1..n /\ p[k - 1] = k
      BY <1>5
    <3>2. \A k \in 1..n : p[k] \in 2..(n + 1)
      BY <1>5
    <3> HIDE DEF p
    <3> QED
      BY <3>1, <3>2 DEF ImageOf
  <2>2. \A k \in 1..n : f[k] \in Int /\ g[p[k]] = f[k]
    <3> SUFFICES ASSUME NEW k \in 1..n
                 PROVE  f[k] \in Int /\ g[p[k]] = f[k]
      OBVIOUS
    <3>1. p[k] \in 2..(n + 1) /\ p[k] - 1 = k /\ p[k] \in 1..(n + 1)
      BY <1>5
    <3> HIDE DEF p
    <3>2. gl[p[k]] = tail[k] /\ p[k] \in DOMAIN gl
      BY <1>10, <3>1
    <3>3. f[k] = rows[k].amount /\ g[p[k]] = gl[p[k]].amount
      BY <1>5, <3>2 DEF Amounts
    <3> QED
      BY <1>6, <1>8, <3>2, <3>3
  <2>3. \A j, k \in 1..n : p[j] = p[k] => j = k
    BY <1>5
  <2>4. IsFiniteSet(D)
    BY <1>5, FS_Interval
  <2>5. Carries(p, D, f, g)
    BY <2>2, <2>3 DEF Carries
  <2>6. SumFunctionOnSet(g, ImageOf(p, D)) = SumFunctionOnSet(f, D)
    <3> HIDE DEF p, D, f, g
    <3> QED
      BY <2>4, <2>5, SumImage
  <2>7. SumFunctionOnSet(f, D) = Net(rows)
    BY <1>5, NetIs
  <2> HIDE DEF p
  <2> QED
    BY <2>1, <2>6, <2>7, Zenon
<1>14. ledger.ending = before + Net(rows)
  <2>1. CASE n = 0
    BY <1>12, <1>13, <2>1
  <2>2. CASE n # 0
    <3>1. n + 1 \in 2..(n + 1) /\ (n + 1) - 1 = n /\ n \in 1..n
      BY <1>5, <2>2
    <3>2. gl[n + 1] = tail[n]
      BY <1>10, <3>1
    <3>3. SubSeq(rows, 1, n) = rows
      BY <1>5 DEF n
    <3>4. tail[n].balance = before + Net(rows)
      BY <1>8, <3>1, <3>3, Zenon
    <3> QED
      BY <1>12, <2>2, <3>2, <3>4
  <2> QED
    BY <2>1, <2>2
<1> QED
  BY <1>4, <1>5, <1>12, <1>13, <1>14, Zenon DEF before, rows, gl, ledger

\* What is left unmatched on the two sides differs by what the sides differ by.
LEMMA LeftUnmatched ==
  ASSUME NEW st, Rows(st), NEW rg, Rows(rg)
  PROVE  LET left == MatchTransactions(st, rg, Tolerance)
         IN  /\ Sum(left.register_only) - Sum(left.statement_only) = Sum(rg) - Sum(st)
             /\ Sum(left.register_only) \in Int /\ Sum(left.statement_only) \in Int
<1> DEFINE P == MatchPairs(st, rg, Tolerance)
           left == MatchTransactions(st, rg, Tolerance)
           stOnly == Keep(st, DOMAIN st \ {q[1] : q \in P})
           rgOnly == Keep(rg, DOMAIN rg \ {q[2] : q \in P})
<1>1. PICK E, F : st \in Seq(E) /\ rg \in Seq(F)
  BY DEF Rows
<1>2. InInt(st) /\ InInt(rg) /\ Dated(st) /\ Dated(rg)
  BY DEF Rows
<1>3. PairsOff(P, st, rg)
  BY <1>1, <1>2, MatchPairsOptimal
<1>4. left.statement_only = stOnly /\ left.register_only = rgOnly
  BY DEF MatchTransactions
<1> HIDE DEF P, left
<1>5. /\ Sum(rgOnly) - Sum(stOnly) = Sum(rg) - Sum(st)
      /\ Sum(rgOnly) \in Int /\ Sum(stOnly) \in Int
  BY <1>1, <1>2, <1>3, LeftOver
<1> HIDE DEF stOnly, rgOnly
<1> QED
  BY <1>4, <1>5, Zenon DEF left

\* The net of some days, and of the days before and after.
LEMMA NetOfDays ==
  ASSUME NEW rows, Rows(rows), NEW from \in Int, NEW to \in Int, 1 <= from, from <= to
  PROVE  LET net(f, t) == Net(Within(rows, f, t))
         IN  /\ net(from, to) = SumFunctionOnSet(Amounts(rows), Days(rows, from, to))
             /\ net(1, to) = net(1, from - 1) + net(from, to)
             /\ net(1, from - 1) \in Int /\ net(from, to) \in Int
<1> DEFINE net(f, t) == Net(Within(rows, f, t))
           A(S) == SumFunctionOnSet(Amounts(rows), S)
           B == Days(rows, 1, from - 1)
           M == Days(rows, from, to)
<1>0. PICK E : rows \in Seq(E)
  BY DEF Rows
<1>1. ASSUME NEW f, NEW t
      PROVE  net(f, t) = A(Days(rows, f, t)) /\ net(f, t) \in Int
  <2>1. /\ Within(rows, f, t) = Keep(rows, Days(rows, f, t))
        /\ Days(rows, f, t) \in SUBSET (DOMAIN rows)
        /\ A(Days(rows, f, t)) \in Int
    BY DaysParts
  <2>2. InInt(rows)
    BY DEF Rows
  <2>3. Net(Keep(rows, Days(rows, f, t))) = A(Days(rows, f, t))
    BY <1>0, <2>1, <2>2, KeepNet
  <2> QED
    BY <2>1, <2>3
<1>2. \A k \in DOMAIN rows : rows[k].date \in Int /\ rows[k].amount \in Int
  BY DEF Rows, Dated, InInt
<1>3. Days(rows, 1, to) = B \cup M /\ B \cap M = {}
  BY <1>2 DEF Days
<1>4. B \in SUBSET (DOMAIN rows) /\ M \in SUBSET (DOMAIN rows)
  BY DEF Days
<1> HIDE DEF B, M
<1>5. IsFiniteSet(B) /\ IsFiniteSet(M)
  BY <1>4, DaysParts
<1>6. \A k \in B \cup M : Amounts(rows)[k] \in Int
  BY <1>2, <1>4 DEF Amounts
<1>7. A(B \cup M) = A(B) + A(M)
  BY <1>3, <1>5, <1>6, SumUnion
<1> HIDE DEF net, A
<1>8. net(1, to) = A(B \cup M) /\ net(1, from - 1) = A(B) /\ net(from, to) = A(M)
  BY <1>1, <1>3 DEF B, M
<1>9. net(1, to) = net(1, from - 1) + net(from, to)
  BY <1>7, <1>8
<1>10. net(from, to) = A(Days(rows, from, to)) /\ net(1, from - 1) \in Int /\ net(from, to) \in Int
  BY <1>1
<1> QED
  BY <1>9, <1>10 DEF net, A

\* The worksheet's difference is the one of the balances before the days it covers.
LEMMA TieOut ==
  ASSUME TypeOK, NEW from \in 1..day, NEW to \in 1..day, from <= to
  PROVE  ReconcileBankCsv(from, to, Opening.bank + Net(Within(bank, 1, to)))
           = (Opening.bank + Net(Within(bank, 1, from - 1)))
               - (Opening.books + Net(Within(register, 1, from - 1)))
<1> DEFINE plan == PlanImport(Statement, file.convention)
           ledger == BankRegisterFromGl(GeneralLedger(from, to))
           tr == ledger.transactions
           so == Within(plan.outflows, from, to)
           si == Within(plan.inflows, from, to)
           ro == Outflows(tr)
           ri == Inflows(tr)
           outflows == MatchTransactions(so, ro, Tolerance)
           inflows == MatchTransactions(si, ri, Tolerance)
           b == Opening.bank + Net(Within(bank, 1, from - 1))
           g == Opening.books + Net(Within(register, 1, from - 1))
           e == Opening.bank + Net(Within(bank, 1, to))
           netBank == Net(Within(bank, from, to))
           netBooks == Net(Within(register, from, to))
<1>1. /\ ReconcileBankCsv(from, to, e) = BankTieOut(e, ledger.ending, outflows, inflows)
  BY Zenon DEF ReconcileBankCsv
<1>2. /\ from \in Int /\ to \in Int /\ 1 <= from
      /\ file \in File /\ register \in Seq(Entry) /\ bank \in Seq(BankRow)
      /\ Opening.bank \in Int /\ None \notin Int
  BY BookkeepingAssumption DEF TypeOK
<1>3. Rows(bank)
  BY <1>2, TypedRows
<1>4. /\ e = b + netBank /\ b \in Int /\ netBank \in Int
      /\ netBank = SumFunctionOnSet(Amounts(bank), Days(bank, from, to))
  <2>1. /\ Net(Within(bank, from, to)) = SumFunctionOnSet(Amounts(bank), Days(bank, from, to))
        /\ Net(Within(bank, 1, to))
             = Net(Within(bank, 1, from - 1)) + Net(Within(bank, from, to))
        /\ Net(Within(bank, 1, from - 1)) \in Int /\ Net(Within(bank, from, to)) \in Int
    BY <1>2, <1>3, NetOfDays
  <2> QED
    BY <1>2, <2>1
<1>5. /\ g \in Int /\ netBooks \in Int /\ Rows(tr) /\ Fielded(tr)
      /\ Net(tr) = netBooks /\ ledger.ending = g + netBooks
  BY <1>2, LedgerReads
<1> DEFINE Nb == {k \in DOMAIN bank : bank[k].amount < 0}
           Pb == {k \in DOMAIN bank : bank[k].amount > 0}
<1>6. /\ Rows(so) /\ Sum(so) = SumFunctionOnSet(Sizes(bank), Nb \cap Days(bank, from, to))
      /\ Rows(si) /\ Sum(si) = SumFunctionOnSet(Sizes(bank), Pb \cap Days(bank, from, to))
  <2>1. PICK p, q : Flow(p, plan.outflows, bank, Nb) /\ Flow(q, plan.inflows, bank, Pb)
    BY <1>2, ImportFlows
  <2>2. Nb \in SUBSET (DOMAIN bank) /\ Pb \in SUBSET (DOMAIN bank)
    OBVIOUS
  <2> HIDE DEF Nb, Pb, plan
  <2> QED
    BY <1>3, <2>1, <2>2, FlowSum
<1>7. Sum(si) - Sum(so) = netBank
  <2> DEFINE T == Days(bank, from, to)
  <2>1. T \in SUBSET (DOMAIN bank)
    BY DEF Days
  <2>2. Pb \cap T = {k \in T : bank[k].amount > 0} /\ Nb \cap T = {k \in T : bank[k].amount < 0}
    BY <2>1
  <2> HIDE DEF T
  <2>3. InInt(bank)
    BY <1>3 DEF Rows
  <2>4. SumFunctionOnSet(Amounts(bank), T)
          = SumFunctionOnSet(Sizes(bank), {k \in T : bank[k].amount > 0})
              - SumFunctionOnSet(Sizes(bank), {k \in T : bank[k].amount < 0})
    BY <1>2, <2>1, <2>3, SignSplit
  <2> HIDE DEF Pb, Nb, so, si
  <2>5. /\ Sum(so) = SumFunctionOnSet(Sizes(bank), Nb \cap T)
        /\ Sum(si) = SumFunctionOnSet(Sizes(bank), Pb \cap T)
        /\ netBank = SumFunctionOnSet(Amounts(bank), T)
    BY <1>4, <1>6 DEF T
  <2> QED
    BY <2>2, <2>4, <2>5
<1> HIDE DEF tr
<1>8. /\ Rows(ro) /\ Rows(ri) /\ Sum(ri) - Sum(ro) = netBooks
  <2> DEFINE N == {k \in DOMAIN tr : tr[k].amount < 0}
             P == {k \in DOMAIN tr : tr[k].amount > 0}
  <2>1. PICK p, q : Flow(p, ro, tr, N) /\ Flow(q, ri, tr, P)
    BY <1>5, LedgerFlows
  <2>2. N \in SUBSET (DOMAIN tr) /\ P \in SUBSET (DOMAIN tr)
    OBVIOUS
  <2>3. /\ Rows(ro) /\ Rows(ri)
        /\ Sum(ro) = SumFunctionOnSet(Sizes(tr), N) /\ Sum(ri) = SumFunctionOnSet(Sizes(tr), P)
    <3> HIDE DEF N, P, ro, ri
    <3> QED
      BY <1>5, <2>1, <2>2, FlowSum, FlowRows
  <2>4. PICK E : tr \in Seq(E)
    BY <1>5 DEF Rows
  <2>5. InInt(tr) /\ DOMAIN tr \in SUBSET (DOMAIN tr)
    BY <1>5 DEF Rows
  <2>6. SumFunctionOnSet(Amounts(tr), DOMAIN tr)
          = SumFunctionOnSet(Sizes(tr), P) - SumFunctionOnSet(Sizes(tr), N)
    BY <2>4, <2>5, SignSplit
  <2>7. Net(tr) = SumFunctionOnSet(Amounts(tr), DOMAIN tr)
    BY <2>4, <2>5, NetIs
  <2> QED
    BY <1>5, <2>3, <2>6, <2>7
<1> HIDE DEF so, si, ro, ri
<1>9. /\ Sum(outflows.register_only) - Sum(outflows.statement_only) = Sum(ro) - Sum(so)
      /\ Sum(outflows.register_only) \in Int /\ Sum(outflows.statement_only) \in Int
      /\ Sum(inflows.register_only) - Sum(inflows.statement_only) = Sum(ri) - Sum(si)
      /\ Sum(inflows.register_only) \in Int /\ Sum(inflows.statement_only) \in Int
  BY <1>6, <1>8, LeftUnmatched
<1>10. Sum(so) \in Int /\ Sum(si) \in Int /\ Sum(ro) \in Int /\ Sum(ri) \in Int
  <2> SUFFICES ASSUME NEW rows, Rows(rows)
               PROVE  Sum(rows) \in Int
    BY <1>6, <1>8
  <2> QED
    BY NetIs DEF Rows
<1> DEFINE E == ledger.ending
<1> HIDE DEF outflows, inflows, b, g, e, netBank, netBooks, ledger
<1>11. E = g + netBooks /\ E \in Int /\ e \in Int
  BY <1>4, <1>5
<1>12. E # None /\ e # None
  BY <1>2, <1>11
<1> HIDE DEF E
<1>13. BankTieOut(e, E, outflows, inflows)
         = (e + Sum(inflows.register_only) - Sum(outflows.register_only))
             - (E + Sum(inflows.statement_only) - Sum(outflows.statement_only))
  BY <1>12 DEF BankTieOut
<1>14. (e + Sum(inflows.register_only) - Sum(outflows.register_only))
             - (E + Sum(inflows.statement_only) - Sum(outflows.statement_only)) = b - g
  BY <1>4, <1>5, <1>7, <1>8, <1>9, <1>10, <1>11
<1> QED
  BY <1>1, <1>13, <1>14, Zenon DEF E, e, b, g

\* matchTransactions is optimal for whatever statement and books have these types.
LEMMA MatchedOptimally ==
  ASSUME TypeOK
  PROVE  MatchOptimal
<1> DEFINE plan == PlanImport(Statement, file.convention)
<1>1. file \in File /\ register \in Seq(Entry) /\ bank \in Seq(BankRow)
  BY DEF TypeOK
<1>2. Rows(bank) /\ Rows(register) /\ Fielded(register)
  BY <1>1, TypedRows
<1>3. ASSUME NEW st, Rows(st), NEW rg, Rows(rg)
      PROVE  Optimal(st, rg)
  BY <1>3, MatchPairsOptimal DEF Rows
<1>4. Rows(plan.outflows) /\ Rows(plan.inflows)
  <2> DEFINE N == {k \in DOMAIN bank : bank[k].amount < 0}
             P == {k \in DOMAIN bank : bank[k].amount > 0}
  <2>1. PICK p, q : Flow(p, plan.outflows, bank, N) /\ Flow(q, plan.inflows, bank, P)
    BY <1>1, ImportFlows
  <2>2. N \in SUBSET (DOMAIN bank) /\ P \in SUBSET (DOMAIN bank)
    OBVIOUS
  <2> HIDE DEF N, P, plan
  <2> QED
    BY <1>2, <2>1, <2>2, FlowRows
<1>5. Rows(Outflows(register)) /\ Rows(Inflows(register))
  <2> DEFINE N == {k \in DOMAIN register : register[k].amount < 0}
             P == {k \in DOMAIN register : register[k].amount > 0}
  <2>1. PICK p, q : Flow(p, Outflows(register), register, N) /\ Flow(q, Inflows(register), register, P)
    BY <1>2, LedgerFlows
  <2>2. N \in SUBSET (DOMAIN register) /\ P \in SUBSET (DOMAIN register)
    OBVIOUS
  <2> HIDE DEF N, P
  <2> QED
    BY <1>2, <2>1, <2>2, FlowRows
<1> HIDE DEF plan
<1>6. Optimal(plan.outflows, Outflows(register)) /\ Optimal(plan.inflows, Inflows(register))
  BY <1>3, <1>4, <1>5
<1> QED
  BY <1>6, Zenon DEF MatchOptimal, plan

\* Every variable keeps its type.
THEOREM TypeHolds == Spec => []TypeOK
<1>1. MoneyInv => TypeOK
  BY DEF MoneyInv
<1> QED
  BY <1>1, MoneyInvHolds, PTL

\* No other way to pair the rows of the statement with those of the books pairs more of
\* them, or as many at a smaller distance: the table of scoreRow finds a best matching of
\* each amount, and these together are a best one of all (matchTransactions).
THEOREM MatchIsOptimal == Spec => []MatchOptimal
<1>1. TypeOK => MatchOptimal
  BY MatchedOptimally
<1> QED
  BY <1>1, TypeHolds, PTL

\* For every range of days, every export format and whatever is missing on either side,
\* the worksheet's difference is what the balances differed by before these days
\* (planImport, bankRegisterFromGl, matchTransactions, bankTieOut).
THEOREM TieOutIsExact == Spec => []TieOutExact
<1>1. TypeOK => TieOutExact
  BY TieOut DEF TieOutExact
<1> QED
  BY <1>1, TypeHolds, PTL
=============================================================================
