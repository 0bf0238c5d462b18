--------------------------- MODULE BountyProofs ---------------------------
(***************************************************************************)
(* PartiesAgree is an invariant of parties, whatever the fight and the     *)
(* looting of Bounty do around them. What a structure holds is described   *)
(* on its own (Whole), apart from the index, which only Bounty moves. A    *)
(* corpse is only ever locked for somebody who earned it. The types of the *)
(* game (GameInv) give that Bounty refines Parties; that sharing makes and *)
(* loses nothing (Shared), and that splitting is even (Fair), follows from *)
(* sums and from the loop of party_loot_split(), followed step by step.    *)
(***************************************************************************)
EXTENDS Bounty, SequenceTheorems, FiniteSetTheorems, TLAPS

---------------------------------------------------------------------------
(* Induction, as the smallest counterexample                               *)

LEMMA SmallestSet ==
    ASSUME NEW S, IsFiniteSet(S), NEW T, T \subseteq SUBSET S, T # {}
    PROVE  \E U \in T : \A V \in T : V \subseteq U => V = U
<1>1. IsWellFoundedOn(StrictSubsetOrdering(S), SUBSET S)
  BY FS_StrictSubsetOrderingWellFounded, FS_FiniteSubsetsOfFinite
<1>2. PICK U \in T : \A V \in T : <<V, U>> \notin StrictSubsetOrdering(S)
  BY <1>1, WFMin
<1> QED BY <1>2 DEF StrictSubsetOrdering

LEMMA SmallestNumber ==
    ASSUME NEW T, T \subseteq Nat, T # {}
    PROVE  \E n \in T : \A m \in T : n <= m
<1>1. PICK k \in T : TRUE OBVIOUS
<1> DEFINE Initial == {0 .. m : m \in {i \in T : i <= k}}
<1>2. IsFiniteSet(0 .. k) BY <1>1, FS_Interval
<1>3. Initial \subseteq SUBSET (0 .. k) /\ Initial # {} BY <1>1
<1>4. PICK U \in Initial : \A V \in Initial : V \subseteq U => V = U
  <2> DEFINE upto == 0 .. k
  <2>1. IsFiniteSet(upto) /\ Initial \subseteq SUBSET upto /\ Initial # {} BY <1>2, <1>3
  <2> HIDE DEF Initial, upto
  <2> QED BY <2>1, SmallestSet
<1>5. PICK n \in T : n <= k /\ U = 0 .. n BY <1>4
<1>6. ASSUME NEW m \in T, m < n PROVE FALSE
  <2>1. 0 .. m \in Initial BY <1>5, <1>6, <1>1
  <2>2. 0 .. m \subseteq U BY <1>5, <1>6
  <2>3. 0 .. m = 0 .. n BY <1>4, <1>5, <2>1, <2>2
  <2>4. n \in 0 .. n BY <1>5
  <2> QED BY <1>6, <1>5, <2>3, <2>4
<1> QED BY <1>5, <1>6

---------------------------------------------------------------------------
(* Sums: SumFunctionOnSet(f, S), and SumFunction(f), as they are defined   *)
(* by a fold that takes the elements in some order of its own              *)

Chosen(S) == CHOOSE x \in S : TRUE

(* g has the sum of f over every set of elements of S.                     *)
SumsUp(g, f, S) ==
    g = [s \in SUBSET S |-> IF s = {} THEN 0 ELSE f[Chosen(s)] + g[s \ {Chosen(s)}]]

LEMMA SumsUpUnique ==
    ASSUME NEW S, NEW T, IsFiniteSet(S), S \subseteq T, NEW f,
           NEW g, SumsUp(g, f, S), NEW h, SumsUp(h, f, T)
    PROVE  g[S] = h[S]
<1> DEFINE Apart == {U \in SUBSET S : g[U] # h[U]}
<1> SUFFICES ASSUME Apart # {} PROVE FALSE OBVIOUS
<1>1. PICK U \in Apart : \A V \in Apart : V \subseteq U => V = U
  <2>1. Apart \subseteq SUBSET S OBVIOUS
  <2> HIDE DEF Apart
  <2> QED BY <2>1, SmallestSet
<1>2. U # {} BY <1>1 DEF SumsUp
<1>3. Chosen(U) \in U BY <1>2 DEF Chosen
<1>4. U \ {Chosen(U)} \subseteq U /\ U \ {Chosen(U)} # U BY <1>3
<1>5. g[U \ {Chosen(U)}] = h[U \ {Chosen(U)}] BY <1>1, <1>4
<1>6. g[U] = f[Chosen(U)] + g[U \ {Chosen(U)}] BY <1>1, <1>2 DEF SumsUp
<1>7. h[U] = f[Chosen(U)] + h[U \ {Chosen(U)}] BY <1>1, <1>2 DEF SumsUp
<1> QED BY <1>1, <1>5, <1>6, <1>7

LEMMA SumsUpExists ==
    ASSUME NEW S, IsFiniteSet(S), NEW f
    PROVE  \E g : SumsUp(g, f, S)
<1> DEFINE Without == {U \in SUBSET S : ~ \E g : SumsUp(g, f, U)}
<1> SUFFICES ASSUME Without # {} PROVE FALSE OBVIOUS
<1>1. PICK U \in Without : \A V \in Without : V \subseteq U => V = U
  <2>1. Without \subseteq SUBSET S OBVIOUS
  <2> HIDE DEF Without
  <2> QED BY <2>1, SmallestSet
<1> DEFINE G(V) == CHOOSE g : SumsUp(g, f, V)
           total == [V \in SUBSET U |-> IF V = {} THEN 0
                         ELSE f[Chosen(V)] + G(V \ {Chosen(V)})[V \ {Chosen(V)}]]
<1>2. ASSUME NEW V \in SUBSET U, V # U PROVE SumsUp(G(V), f, V) /\ IsFiniteSet(V)
  <2>1. V \in SUBSET S /\ V \notin Without BY <1>1, <1>2
  <2>2. \E g : SumsUp(g, f, V) BY <2>1
  <2>3. SumsUp(G(V), f, V) BY <2>2
  <2> QED BY <2>1, <2>3, FS_Subset
<1>3. ASSUME NEW V \in SUBSET U, V # U PROVE G(V)[V] = total[V]
  <2>1. SumsUp(G(V), f, V) /\ IsFiniteSet(V) BY <1>2, <1>3
  <2>2. CASE V = {}
    <3> DEFINE g == G(V)
    <3>1. SumsUp(g, f, V) BY <2>1
    <3> HIDE DEF g
    <3>2. g[V] = 0 BY <3>1, <2>2 DEF SumsUp
    <3>3. total[V] = 0 BY <2>2
    <3> QED BY <3>2, <3>3 DEF g
  <2>3. CASE V # {}
    <3> DEFINE W == V \ {Chosen(V)}
               g == G(V)
               h == G(W)
    <3>1. Chosen(V) \in V BY <2>3 DEF Chosen
    <3>2. W \in SUBSET U /\ W # U /\ W \subseteq V BY <3>1
    <3>3. SumsUp(h, f, W) /\ IsFiniteSet(W) BY <3>2, <1>2
    <3>4. SumsUp(g, f, V) BY <2>1
    <3>5. total[V] = f[Chosen(V)] + h[W] BY <2>3
    <3> HIDE DEF g, h
    <3>6. h[W] = g[W] BY <3>2, <3>3, <3>4, SumsUpUnique
    <3>7. g[V] = f[Chosen(V)] + g[W] BY <3>4, <2>3 DEF SumsUp
    <3>8. total[V] = g[V] BY <3>5, <3>6, <3>7
    <3> QED BY <3>8 DEF g
  <2> QED BY <2>2, <2>3
<1>4. ASSUME NEW V \in SUBSET U, V # {} PROVE total[V] = f[Chosen(V)] + total[V \ {Chosen(V)}]
  <2>1. Chosen(V) \in V BY <1>4 DEF Chosen
  <2>2. V \ {Chosen(V)} \in SUBSET U /\ V \ {Chosen(V)} # U BY <2>1
  <2> QED BY <2>2, <1>3, <1>4
<1>5. total[{}] = 0 OBVIOUS
<1>6. total = [V \in SUBSET U |-> total[V]] OBVIOUS
<1>7. SumsUp(total, f, U)
  <2> HIDE DEF total
  <2>1. \A V \in SUBSET U : total[V] = IF V = {} THEN 0 ELSE f[Chosen(V)] + total[V \ {Chosen(V)}]
    BY <1>4, <1>5
  <2> QED BY <1>6, <2>1 DEF SumsUp
<1> QED BY <1>1, <1>7

LEMMA SumIsFold ==
    ASSUME NEW S, IsFiniteSet(S), NEW f
    PROVE  \E g : SumsUp(g, f, S) /\ SumFunctionOnSet(f, S) = g[S]
<1> DEFINE sum == CHOOSE g : g = [s \in SUBSET S |-> IF s = {} THEN 0
                                      ELSE f[Chosen(s)] + g[s \ {Chosen(s)}]]
<1>1. SumFunctionOnSet(f, S) = sum[S]
  BY DEF SumFunctionOnSet, FoldFunctionOnSet, MapThenFoldSet, Chosen
<1>2. \E g : g = [s \in SUBSET S |-> IF s = {} THEN 0 ELSE f[Chosen(s)] + g[s \ {Chosen(s)}]]
  <2>1. PICK g : SumsUp(g, f, S) BY SumsUpExists
  <2> QED BY <2>1 DEF SumsUp
<1>3. SumsUp(sum, f, S) BY <1>2 DEF SumsUp
<1> HIDE DEF sum
<1> QED BY <1>1, <1>3

LEMMA SumEmpty ==
    ASSUME NEW f
    PROVE  SumFunctionOnSet(f, {}) = 0
  BY SumIsFold, FS_EmptySet DEF SumsUp

LEMMA SumStep ==
    ASSUME NEW S, IsFiniteSet(S), S # {}, NEW f
    PROVE  /\ Chosen(S) \in S
           /\ SumFunctionOnSet(f, S) = f[Chosen(S)] + SumFunctionOnSet(f, S \ {Chosen(S)})
<1> DEFINE U == S \ {Chosen(S)}
<1>1. Chosen(S) \in S BY DEF Chosen
<1>2. U \subseteq S /\ IsFiniteSet(U) BY FS_Subset
<1>3. PICK g : SumsUp(g, f, S) /\ SumFunctionOnSet(f, S) = g[S] BY SumIsFold
<1>4. PICK h : SumsUp(h, f, U) /\ SumFunctionOnSet(f, U) = h[U] BY <1>2, SumIsFold
<1>5. h[U] = g[U]
  <2> HIDE DEF U
  <2> QED BY <1>2, <1>3, <1>4, SumsUpUnique
<1>6. g[S] = f[Chosen(S)] + g[U] BY <1>3 DEF SumsUp
<1> QED BY <1>1, <1>3, <1>4, <1>5, <1>6

(* The sum over a set is one of its elements and the sum of the rest.      *)
LEMMA SumSplit ==
    ASSUME NEW S, IsFiniteSet(S), NEW f, \A x \in S : f[x] \in Int
    PROVE  /\ SumFunctionOnSet(f, S) \in Int
           /\ \A x \in S : SumFunctionOnSet(f, S) = f[x] + SumFunctionOnSet(f, S \ {x})
<1> DEFINE Sum(U) == SumFunctionOnSet(f, U)
           Right(U) == Sum(U) \in Int /\ \A x \in U : Sum(U) = f[x] + Sum(U \ {x})
           Wrong == {U \in SUBSET S : ~Right(U)}
<1> SUFFICES ASSUME Wrong # {} PROVE FALSE OBVIOUS
<1>1. PICK U \in Wrong : \A V \in Wrong : V \subseteq U => V = U
  <2>1. Wrong \subseteq SUBSET S OBVIOUS
  <2> HIDE DEF Wrong
  <2> QED BY <2>1, SmallestSet
<1>2. U # {}
  <2>1. Right({}) BY SumEmpty
  <2> QED BY <1>1, <2>1
<1> DEFINE c == Chosen(U)
<1>3. IsFiniteSet(U) BY <1>1, FS_Subset
<1>4. c \in U /\ Sum(U) = f[c] + Sum(U \ {c}) BY <1>2, <1>3, SumStep
<1>5. ASSUME NEW x \in U PROVE Right(U \ {x})
  <2>1. U \ {x} \in SUBSET S /\ U \ {x} \subseteq U /\ U \ {x} # U BY <1>1
  <2>2. U \ {x} \notin Wrong BY <1>1, <2>1
  <2> QED BY <2>1, <2>2
<1> HIDE DEF Sum
<1>6. Sum(U) \in Int BY <1>4, <1>5
<1>7. ASSUME NEW x \in U PROVE Sum(U) = f[x] + Sum(U \ {x})
  <2>1. CASE x = c BY <1>4, <2>1
  <2>2. CASE x # c
    <3>1. (U \ {c}) \ {x} = (U \ {x}) \ {c} OBVIOUS
    <3>2. Sum(U \ {c}) = f[x] + Sum((U \ {c}) \ {x}) BY <1>4, <1>5, <2>2
    <3>3. Sum(U \ {x}) = f[c] + Sum((U \ {x}) \ {c}) BY <1>4, <1>5, <2>2
    <3>4. IsFiniteSet((U \ {x}) \ {c}) /\ Sum((U \ {x}) \ {c}) \in Int
      <4>1. (U \ {x}) \ {c} \in SUBSET S /\ (U \ {x}) \ {c} \subseteq U /\ (U \ {x}) \ {c} # U
        BY <1>1
      <4>2. (U \ {x}) \ {c} \notin Wrong BY <1>1, <4>1
      <4> QED BY <4>1, <4>2, FS_Subset
    <3>5. f[x] \in Int /\ f[c] \in Int BY <1>1, <1>4
    <3>6. Sum((U \ {c}) \ {x}) = Sum((U \ {x}) \ {c}) BY <3>1
    <3> QED BY <1>4, <3>2, <3>3, <3>4, <3>5, <3>6
  <2> QED BY <2>1, <2>2
<1> QED BY <1>1, <1>6, <1>7

LEMMA SumSame ==
    ASSUME NEW S, IsFiniteSet(S), NEW f, NEW g, \A x \in S : f[x] = g[x]
    PROVE  SumFunctionOnSet(f, S) = SumFunctionOnSet(g, S)
<1> DEFINE Apart == {U \in SUBSET S : SumFunctionOnSet(f, U) # SumFunctionOnSet(g, U)}
<1> SUFFICES ASSUME Apart # {} PROVE FALSE OBVIOUS
<1>1. PICK U \in Apart : \A V \in Apart : V \subseteq U => V = U
  <2>1. Apart \subseteq SUBSET S OBVIOUS
  <2> HIDE DEF Apart
  <2> QED BY <2>1, SmallestSet
<1>2. U # {}
  <2>1. SumFunctionOnSet(f, {}) = SumFunctionOnSet(g, {}) BY SumEmpty
  <2> QED BY <1>1, <2>1
<1>3. IsFiniteSet(U) BY <1>1, FS_Subset
<1> DEFINE V == U \ {Chosen(U)}
<1>4. /\ Chosen(U) \in U
      /\ SumFunctionOnSet(f, U) = f[Chosen(U)] + SumFunctionOnSet(f, V)
      /\ SumFunctionOnSet(g, U) = g[Chosen(U)] + SumFunctionOnSet(g, V)
  BY <1>2, <1>3, SumStep
<1>5. SumFunctionOnSet(f, V) = SumFunctionOnSet(g, V)
  <2>1. V \in SUBSET S /\ V \subseteq U /\ V # U BY <1>1, <1>4
  <2>2. V \notin Apart BY <1>1, <2>1
  <2> QED BY <2>1, <2>2
<1>6. f[Chosen(U)] = g[Chosen(U)] BY <1>1, <1>4
<1> QED BY <1>1, <1>4, <1>5, <1>6

(* Changing what one element counts                                        *)
LEMMA SumChange ==
    ASSUME NEW S, IsFiniteSet(S), NEW f, \A y \in S : f[y] \in Int,
           NEW g, \A y \in S : g[y] \in Int,
           NEW x \in S, \A y \in S \ {x} : g[y] = f[y]
    PROVE  SumFunctionOnSet(g, S) = SumFunctionOnSet(f, S) + g[x] - f[x]
<1>1. IsFiniteSet(S \ {x}) BY FS_RemoveElement
<1>2. SumFunctionOnSet(g, S \ {x}) = SumFunctionOnSet(f, S \ {x}) BY <1>1, SumSame
<1>3. SumFunctionOnSet(f, S \ {x}) \in Int BY <1>1, SumSplit
<1>4. SumFunctionOnSet(f, S) = f[x] + SumFunctionOnSet(f, S \ {x}) BY SumSplit
<1>5. SumFunctionOnSet(g, S) = g[x] + SumFunctionOnSet(g, S \ {x}) BY SumSplit
<1>6. f[x] \in Int /\ g[x] \in Int OBVIOUS
<1> QED BY <1>2, <1>3, <1>4, <1>5, <1>6

LEMMA SumAdd ==
    ASSUME NEW S, IsFiniteSet(S), NEW x, x \notin S,
           NEW f, \A y \in S \cup {x} : f[y] \in Int
    PROVE  SumFunctionOnSet(f, S \cup {x}) = f[x] + SumFunctionOnSet(f, S)
<1>1. IsFiniteSet(S \cup {x}) BY FS_AddElement
<1>2. (S \cup {x}) \ {x} = S OBVIOUS
<1>3. SumFunctionOnSet(f, S \cup {x}) = f[x] + SumFunctionOnSet(f, (S \cup {x}) \ {x})
  BY <1>1, SumSplit
<1> QED BY <1>2, <1>3

(* A sum of numbers that are each at most k times the others               *)
LEMMA SumScaled ==
    ASSUME NEW T, IsFiniteSet(T), NEW S \in SUBSET T, NEW k \in Nat,
           NEW f, \A x \in S : f[x] \in Nat,
           NEW g, \A x \in S : g[x] \in Nat /\ g[x] <= f[x] * k,
           \A x \in T \ S : g[x] = 0
    PROVE  /\ SumFunctionOnSet(g, T) \in Nat /\ SumFunctionOnSet(f, S) \in Nat
           /\ SumFunctionOnSet(g, T) <= SumFunctionOnSet(f, S) * k
<1> DEFINE F(U) == SumFunctionOnSet(f, S \cap U)
           G(U) == SumFunctionOnSet(g, U)
           Good(U) == F(U) \in Nat /\ G(U) \in Nat /\ G(U) <= F(U) * k
           Bad == {U \in SUBSET T : ~Good(U)}
<1>1. Bad = {}
  <2> SUFFICES ASSUME Bad # {} PROVE FALSE OBVIOUS
  <2>1. PICK U \in Bad : \A V \in Bad : V \subseteq U => V = U
    <3>1. Bad \subseteq SUBSET T OBVIOUS
    <3> HIDE DEF Bad
    <3> QED BY <3>1, SmallestSet
  <2>2. U # {}
    <3>1. S \cap {} = {} OBVIOUS
    <3>2. F({}) = 0 /\ G({}) = 0 BY <3>1, SumEmpty
    <3>3. Good({}) BY <3>2
    <3> QED BY <2>1, <3>3
  <2>3. PICK x \in U : TRUE BY <2>2
  <2> DEFINE V == U \ {x}
  <2>4. Good(V)
    <3>1. V \in SUBSET T /\ V \subseteq U /\ V # U BY <2>1, <2>3
    <3>2. V \notin Bad BY <2>1, <3>1
    <3> QED BY <3>1, <3>2
  <2>5. IsFiniteSet(U) /\ IsFiniteSet(S \cap U) BY <2>1, FS_Subset
  <2>6. G(U) = g[x] + G(V)
    <3>1. \A y \in U : g[y] \in Int BY <2>1
    <3> QED BY <2>3, <2>5, <3>1, SumSplit
  <2>7. CASE x \in S
    <3>1. (S \cap U) \ {x} = S \cap V /\ x \in S \cap U BY <2>3, <2>7
    <3>2. SumFunctionOnSet(f, S \cap U) = f[x] + SumFunctionOnSet(f, (S \cap U) \ {x})
      BY <3>1, <2>5, SumSplit
    <3>3. F(U) = f[x] + F(V) BY <3>1, <3>2
    <3>4. f[x] \in Nat /\ g[x] \in Nat /\ g[x] <= f[x] * k BY <2>7
    <3> HIDE DEF F, G
    <3>5. (f[x] + F(V)) * k = f[x] * k + F(V) * k BY <2>4, <3>4
    <3>6. f[x] * k \in Nat /\ F(V) * k \in Nat BY <2>4, <3>4
    <3>7. G(U) <= f[x] * k + F(V) * k BY <2>4, <2>6, <3>4, <3>6
    <3> QED BY <2>1, <2>4, <2>6, <3>3, <3>4, <3>5, <3>7
  <2>8. CASE x \notin S
    <3>1. S \cap U = S \cap V /\ g[x] = 0 BY <2>1, <2>3, <2>8
    <3>2. F(U) = F(V) BY <3>1
    <3> HIDE DEF F, G
    <3> QED BY <2>1, <2>4, <2>6, <3>1, <3>2
  <2> QED BY <2>7, <2>8
<1>2. S \cap T = S OBVIOUS
<1>3. Good(T) BY <1>1
<1> QED BY <1>2, <1>3

(* The same number for each of them                                        *)
LEMMA SumEqual ==
    ASSUME NEW T, IsFiniteSet(T), NEW S \in SUBSET T, NEW k \in Nat,
           NEW g, \A x \in S : g[x] = k, \A x \in T \ S : g[x] = 0
    PROVE  SumFunctionOnSet(g, T) = Cardinality(S) * k
<1> DEFINE C(U) == Cardinality(S \cap U)
           G(U) == SumFunctionOnSet(g, U)
           Good(U) == C(U) \in Nat /\ G(U) = C(U) * k
           Bad == {U \in SUBSET T : ~Good(U)}
<1>1. Bad = {}
  <2> SUFFICES ASSUME Bad # {} PROVE FALSE OBVIOUS
  <2>1. PICK U \in Bad : \A V \in Bad : V \subseteq U => V = U
    <3>1. Bad \subseteq SUBSET T OBVIOUS
    <3> HIDE DEF Bad
    <3> QED BY <3>1, SmallestSet
  <2>2. U # {}
    <3>1. S \cap {} = {} OBVIOUS
    <3>2. C({}) = 0 /\ G({}) = 0 BY <3>1, SumEmpty, FS_EmptySet
    <3>3. Good({}) BY <3>2
    <3> QED BY <2>1, <3>3
  <2>3. PICK x \in U : TRUE BY <2>2
  <2> DEFINE V == U \ {x}
  <2>4. Good(V)
    <3>1. V \in SUBSET T /\ V \subseteq U /\ V # U BY <2>1, <2>3
    <3>2. V \notin Bad BY <2>1, <3>1
    <3> QED BY <3>1, <3>2
  <2>5. IsFiniteSet(U) /\ IsFiniteSet(S \cap U) BY <2>1, FS_Subset
  <2>6. G(U) = g[x] + G(V)
    <3>1. \A y \in U : g[y] \in Int BY <2>1
    <3> QED BY <2>3, <2>5, <3>1, SumSplit
  <2>7. CASE x \in S
    <3>1. (S \cap U) \ {x} = S \cap V /\ x \in S \cap U BY <2>3, <2>7
    <3>2. Cardinality((S \cap U) \ {x}) = Cardinality(S \cap U) - 1 /\ C(U) \in Nat
      BY <3>1, <2>5, FS_RemoveElement, FS_CardinalityType
    <3>3. C(V) = C(U) - 1 BY <3>1, <3>2
    <3>4. g[x] = k BY <2>7
    <3> HIDE DEF C, G
    <3>5. C(U) * k = C(V) * k + k BY <2>4, <3>2, <3>3
    <3> QED BY <2>1, <2>4, <2>6, <3>2, <3>4, <3>5
  <2>8. CASE x \notin S
    <3>1. S \cap U = S \cap V /\ g[x] = 0 BY <2>1, <2>3, <2>8
    <3>2. C(U) = C(V) BY <3>1
    <3>3. C(V) * k \in Nat BY <2>4
    <3> HIDE DEF C, G
    <3> QED BY <2>1, <2>4, <2>6, <3>1, <3>2, <3>3
  <2> QED BY <2>7, <2>8
<1>2. S \cap T = S OBVIOUS
<1>3. Good(T) BY <1>1
<1> QED BY <1>2, <1>3

(* Everything in D goes to one of T: what they get is all there is.        *)
LEMMA SumShared ==
    ASSUME NEW D, IsFiniteSet(D), NEW T, IsFiniteSet(T), NEW to, \A i \in D : to[i] \in T
    PROVE  SumFunctionOnSet([q \in T |-> Cardinality({i \in D : to[i] = q})], T) = Cardinality(D)
<1> DEFINE Got(U) == [q \in T |-> Cardinality({i \in U : to[i] = q})]
           Good(U) == SumFunctionOnSet(Got(U), T) = Cardinality(U)
           Bad == {U \in SUBSET D : ~Good(U)}
<1>1. Bad = {}
  <2> SUFFICES ASSUME Bad # {} PROVE FALSE OBVIOUS
  <2>1. PICK U \in Bad : \A V \in Bad : V \subseteq U => V = U
    <3>1. Bad \subseteq SUBSET D OBVIOUS
    <3> HIDE DEF Bad
    <3> QED BY <3>1, SmallestSet
  <2>2. U # {}
    <3>1. \A q \in T : {i \in {} : to[i] = q} = {} OBVIOUS
    <3>2. \A q \in T : Got({})[q] = 0 BY <3>1, FS_EmptySet
    <3>3. SumFunctionOnSet(Got({}), T) = Cardinality({}) * 0
      <4> DEFINE g == Got({})
      <4>1. /\ {} \in SUBSET T /\ 0 \in Nat
            /\ \A x \in {} : g[x] = 0
            /\ \A x \in T \ {} : g[x] = 0
        BY <3>2
      <4> HIDE DEF g
      <4> QED BY <4>1, SumEqual DEF g
    <3>4. Good({}) BY <3>3, FS_EmptySet
    <3> QED BY <2>1, <3>4
  <2>3. PICK x \in U : TRUE BY <2>2
  <2> DEFINE V == U \ {x}
             t == to[x]
  <2>4. Good(V)
    <3>1. V \in SUBSET D /\ V \subseteq U /\ V # U BY <2>1, <2>3
    <3>2. V \notin Bad BY <2>1, <3>1
    <3> QED BY <3>1, <3>2
  <2>5. IsFiniteSet(U) /\ IsFiniteSet(V) /\ t \in T BY <2>1, <2>3, FS_Subset
  <2>6. ASSUME NEW W \in SUBSET U, NEW q \in T PROVE Got(W)[q] \in Nat
    <3>1. IsFiniteSet({i \in W : to[i] = q}) BY <2>5, FS_Subset
    <3> QED BY <3>1, FS_CardinalityType
  <2>7. \A q \in T \ {t} : Got(U)[q] = Got(V)[q]
    <3>1. ASSUME NEW q \in T \ {t} PROVE {i \in U : to[i] = q} = {i \in V : to[i] = q}
      OBVIOUS
    <3> QED BY <3>1
  <2>8. Got(U)[t] = Got(V)[t] + 1
    <3> DEFINE A == {i \in U : to[i] = t}
               B == {i \in V : to[i] = t}
    <3>1. x \in A /\ B = A \ {x} BY <2>3
    <3>2. IsFiniteSet(A) BY <2>5, FS_Subset
    <3>3. Cardinality(B) = Cardinality(A) - 1 /\ Cardinality(A) \in Nat
      <4> HIDE DEF A, B
      <4> QED BY <3>1, <3>2, FS_RemoveElement, FS_CardinalityType
    <3>4. Got(U)[t] = Cardinality(A) /\ Got(V)[t] = Cardinality(B) BY <2>5
    <3> HIDE DEF A, B
    <3> QED BY <3>3, <3>4
  <2>9. SumFunctionOnSet(Got(U), T) = SumFunctionOnSet(Got(V), T) + Got(U)[t] - Got(V)[t]
    <3> DEFINE g == Got(U)
               f == Got(V)
    <3>1. /\ \A q \in T : f[q] \in Int /\ g[q] \in Int
          /\ \A q \in T \ {t} : g[q] = f[q]
      <4>1. U \in SUBSET U /\ V \in SUBSET U OBVIOUS
      <4> HIDE DEF Got, V
      <4> QED BY <2>6, <2>7, <4>1
    <3> HIDE DEF g, f, t
    <3>2. SumFunctionOnSet(g, T) = SumFunctionOnSet(f, T) + g[t] - f[t]
      BY <2>5, <3>1, SumChange
    <3> QED BY <3>2 DEF g, f
  <2>10. Cardinality(V) = Cardinality(U) - 1 /\ Cardinality(U) \in Nat
    BY <2>3, <2>5, FS_RemoveElement, FS_CardinalityType
  <2>11. Got(V)[t] \in Nat BY <2>5, <2>6
  <2> HIDE DEF Got, V, t
  <2> QED BY <2>1, <2>4, <2>8, <2>9, <2>10, <2>11
<1>2. Good(D) BY <1>1
<1> QED BY <1>2

-----------------------------------------------------------------------------
(* Loops and lists of numbers.                                             *)

(* A loop over 1 .. n                                                      *)
Looped(f, n, S, s0, step) ==
    /\ f \in [0 .. n -> S]
    /\ f[0] = s0 /\ \A i \in 1 .. n : f[i] = step[<<f[i - 1], i>>]

LEMMA LoopExists ==
    ASSUME NEW n \in Nat, NEW S, NEW s0 \in S, NEW step \in [S \X (1 .. n) -> S]
    PROVE  \E f : Looped(f, n, S, s0, step)
<1> DEFINE Begun(m) == {f \in [0 .. m -> S] :
                          f[0] = s0 /\ \A i \in 1 .. m : f[i] = step[<<f[i - 1], i>>]}
           Stuck == {m \in 0 .. n : Begun(m) = {}}
<1>1. Stuck = {}
  <2> SUFFICES ASSUME Stuck # {} PROVE FALSE OBVIOUS
  <2>1. PICK m \in Stuck : \A l \in Stuck : m <= l
    <3>1. Stuck \subseteq Nat OBVIOUS
    <3> HIDE DEF Stuck
    <3> QED BY <3>1, SmallestNumber
  <2>2. CASE m = 0
    <3>1. [i \in 0 .. 0 |-> s0] \in Begun(0) OBVIOUS
    <3> QED BY <2>1, <2>2, <3>1
  <2>3. CASE m # 0
    <3>1. m \in Nat /\ m - 1 \in 0 .. n /\ ~(m <= m - 1) /\ m \in 1 .. n /\ m <= n BY <2>1, <2>3
    <3>2. m - 1 \notin Stuck
      <4> HIDE DEF Stuck
      <4> QED BY <2>1, <3>1
    <3>3. PICK g : g \in Begun(m - 1) BY <3>1, <3>2
    <3>4. g \in [0 .. m - 1 -> S] /\ g[0] = s0 BY <3>3
    <3>5. \A i \in 1 .. m - 1 : g[i] = step[<<g[i - 1], i>>] BY <3>3
    <3> DEFINE h == [i \in 0 .. m |-> IF i = m THEN step[<<g[m - 1], m>>] ELSE g[i]]
    <3>6. g[m - 1] \in S BY <3>1, <3>4
    <3>7. <<g[m - 1], m>> \in S \X (1 .. n) BY <3>1, <3>6
    <3>8. step[<<g[m - 1], m>>] \in S BY <3>7
    <3>9. h \in [0 .. m -> S] /\ h[0] = s0 BY <3>1, <3>4, <3>8, <2>3
    <3>10. ASSUME NEW i \in 1 .. m PROVE h[i] = step[<<h[i - 1], i>>]
      <4>1. CASE i = m
        <5>1. i \in 0 .. m /\ i - 1 \in 0 .. m /\ i - 1 # m BY <4>1, <3>1
        <5>2. h[i] = step[<<g[m - 1], m>>] /\ h[i - 1] = g[m - 1] BY <5>1, <4>1
        <5> QED BY <5>2, <4>1
      <4>2. CASE i # m
        <5>1. i \in 1 .. m - 1 /\ i \in 0 .. m /\ i - 1 \in 0 .. m /\ i - 1 # m BY <4>2, <3>1
        <5> QED BY <5>1, <4>2, <3>5
      <4> QED BY <4>1, <4>2
    <3> HIDE DEF h
    <3>11. h \in Begun(m) BY <3>9, <3>10
    <3> QED BY <3>11, <2>1
  <2> QED BY <2>2, <2>3
<1>2. n \notin Stuck /\ n \in 0 .. n BY <1>1
<1> QED BY <1>2 DEF Looped

LEMMA AscendingIs ==
    ASSUME NEW n \in Nat, NEW S \in SUBSET (1 .. n)
    PROVE  /\ IsFiniteSet(S) /\ Cardinality(S) \in 0 .. n
           /\ Ascending(S) \in [1 .. Cardinality(S) -> S]
           /\ \A i \in 1 .. Cardinality(S) : Ascending(S)[i] + (Cardinality(S) - i) <= n
           /\ \A i, j \in 1 .. Cardinality(S) : i < j => Ascending(S)[i] < Ascending(S)[j]
           /\ \A k \in S : \E i \in 1 .. Cardinality(S) : Ascending(S)[i] = k
<1> DEFINE Up(U) == {f \in [1 .. Cardinality(U) -> U] :
                       \A i, j \in DOMAIN f : i < j => f[i] < f[j]}
           Bad == {U \in SUBSET S : Up(U) = {}}
<1>0. IsFiniteSet(1 .. n) /\ Cardinality(1 .. n) = n
  BY FS_Interval
<1>1. /\ IsFiniteSet(S) /\ Cardinality(S) \in Nat /\ Cardinality(S) <= n
  <2> DEFINE N == 1 .. n
  <2>1. IsFiniteSet(N) /\ Cardinality(N) = n /\ S \subseteq N BY <1>0
  <2> HIDE DEF N
  <2> QED BY <2>1, FS_Subset, FS_CardinalityType
<1>2. Bad = {}
  <2> SUFFICES ASSUME Bad # {} PROVE FALSE OBVIOUS
  <2>1. PICK U \in Bad : \A V \in Bad : V \subseteq U => V = U
    <3>1. Bad \subseteq SUBSET S OBVIOUS
    <3>2. IsFiniteSet(S) BY <1>1
    <3> DEFINE D == S
    <3>3. IsFiniteSet(D) BY <3>2
    <3>4. Bad \subseteq SUBSET D BY <3>1
    <3> HIDE DEF Bad, D
    <3> QED BY <3>3, <3>4, SmallestSet
  <2>2. IsFiniteSet(U) /\ U \subseteq 1 .. n BY <1>1, <2>1, FS_Subset
  <2>3. U # {}
    <3>1. Cardinality({}) = 0 BY FS_EmptySet
    <3>2. [i \in 1 .. 0 |-> i] \in Up({}) BY <3>1
    <3> QED BY <2>1, <3>2
  <2>4. PICK m \in U : \A u \in U : u <= m
    <3> DEFINE Under == {n - u : u \in U}
    <3>1. Under \subseteq Nat /\ Under # {}
      <4>1. ASSUME NEW u \in U PROVE n - u \in Nat
        <5>1. u \in 1 .. n BY <2>2
        <5> QED BY <5>1
      <4> QED BY <4>1, <2>3
    <3>2. PICK l \in Under : \A k \in Under : l <= k
      <4> HIDE DEF Under
      <4> QED BY <3>1, SmallestNumber
    <3>3. PICK m \in U : l = n - m BY <3>2
    <3>4. ASSUME NEW u \in U PROVE u <= m
      <4>1. n - m <= n - u BY <3>2, <3>3
      <4>2. u \in Int /\ m \in Int BY <2>2
      <4> QED BY <4>1, <4>2
    <3> QED BY <3>4
  <2> DEFINE V == U \ {m}
             c == Cardinality(V)
  <2>5. c \in Nat /\ Cardinality(U) = c + 1
    <3>1. c = Cardinality(U) - 1 /\ Cardinality(U) \in Nat /\ IsFiniteSet(V)
      BY <2>2, <2>4, FS_RemoveElement, FS_CardinalityType
    <3>2. c \in Nat BY <3>1, FS_CardinalityType
    <3> QED BY <3>1, <3>2
  <2>6. PICK g : g \in Up(V)
    <3>1. V \in SUBSET S /\ V \subseteq U /\ V # U BY <2>1, <2>4
    <3>2. V \notin Bad BY <2>1, <3>1
    <3> QED BY <3>1, <3>2
  <2>7. g \in [1 .. c -> V] /\ \A i, j \in 1 .. c : i < j => g[i] < g[j] BY <2>6
  <2> DEFINE f == [i \in 1 .. c + 1 |-> IF i = c + 1 THEN m ELSE g[i]]
  <2> HIDE DEF c
  <2>8. f \in [1 .. c + 1 -> U]
    <3>1. ASSUME NEW i \in 1 .. c + 1, i # c + 1 PROVE g[i] \in U
      <4>1. i \in 1 .. c BY <3>1, <2>5
      <4> QED BY <4>1, <2>7
    <3> QED BY <3>1, <2>4
  <2>9. ASSUME NEW i \in 1 .. c + 1, NEW j \in 1 .. c + 1, i < j PROVE f[i] < f[j]
    <3>1. i \in 1 .. c BY <2>5, <2>9
    <3>2. g[i] \in U /\ g[i] # m /\ g[i] \in Int /\ m \in Int
      <4>1. g[i] \in V BY <3>1, <2>7
      <4>2. g[i] \in U /\ g[i] # m BY <4>1
      <4>3. g[i] \in 1 .. n /\ m \in 1 .. n BY <2>2, <2>4, <4>2
      <4> QED BY <4>2, <4>3
    <3>3. CASE j = c + 1
      <4>1. f[i] = g[i] /\ f[j] = m BY <3>1, <3>3, <2>5
      <4>2. g[i] <= m BY <3>2, <2>4
      <4> HIDE DEF f
      <4> QED BY <3>2, <4>1, <4>2
    <3>4. CASE j # c + 1
      <4>1. j \in 1 .. c BY <3>4, <2>5
      <4>2. f[i] = g[i] /\ f[j] = g[j] BY <3>1, <4>1, <3>4, <2>5
      <4> QED BY <4>1, <4>2, <3>1, <2>7, <2>9
    <3> QED BY <3>3, <3>4
  <2>10. DOMAIN f = 1 .. c + 1 OBVIOUS
  <2> HIDE DEF f
  <2>11. f \in Up(U) BY <2>5, <2>8, <2>9, <2>10
  <2> QED BY <2>1, <2>11
<1> DEFINE a == Ascending(S)
           d == Cardinality(S)
<1>3. a \in Up(S)
  <2>1. \E f : f \in Up(S) BY <1>2
  <2>2. a = CHOOSE f : f \in Up(S) BY DEF Ascending
  <2> HIDE DEF a, Up
  <2> QED BY <2>1, <2>2
<1>4. a \in [1 .. d -> S] /\ \A i, j \in 1 .. d : i < j => a[i] < a[j] BY <1>3
<1> DEFINE Over == {k \in Nat : k < d /\ ~(a[d - k] + k <= n)}
<1>5. Over = {}
  <2> SUFFICES ASSUME Over # {} PROVE FALSE OBVIOUS
  <2> HIDE DEF a, d
  <2>1. PICK k \in Over : \A l \in Over : k <= l
    <3>1. Over \subseteq Nat OBVIOUS
    <3> HIDE DEF Over
    <3> QED BY <3>1, SmallestNumber
  <2>2. d \in Nat /\ \A i \in 1 .. d : a[i] \in 1 .. n BY <1>1, <1>4 DEF d
  <2>3. k \in Nat /\ k < d /\ ~(a[d - k] + k <= n) BY <2>1
  <2>4. CASE k = 0
    <3>1. d - k \in 1 .. d BY <2>2, <2>3
    <3>2. a[d - k] \in 1 .. n BY <2>2, <3>1
    <3> QED BY <2>3, <2>4, <3>2
  <2>5. CASE k # 0
    <3>1. k - 1 \in Nat /\ k - 1 < d /\ ~(k <= k - 1) BY <2>2, <2>3, <2>5
    <3>2. k - 1 \notin Over
      <4> HIDE DEF Over
      <4> QED BY <2>1, <3>1
    <3>3. a[d - (k - 1)] + (k - 1) <= n BY <3>1, <3>2
    <3>4. d - k \in 1 .. d /\ d - (k - 1) \in 1 .. d /\ d - k < d - (k - 1)
      BY <2>2, <2>3, <2>5
    <3>5. a[d - k] < a[d - (k - 1)] BY <3>4, <1>4
    <3>6. a[d - k] \in Int /\ a[d - (k - 1)] \in Int BY <2>2, <3>4
    <3> HIDE DEF Over
    <3> QED BY <2>3, <3>3, <3>5, <3>6
  <2> QED BY <2>4, <2>5
<1>6. ASSUME NEW i \in 1 .. d PROVE a[i] + (d - i) <= n
  <2>1. d \in Nat BY <1>1
  <2> HIDE DEF a, d
  <2>2. d - i \in Nat /\ d - i < d /\ d - (d - i) = i BY <2>1
  <2>3. d - i \notin Over BY <1>5
  <2> QED BY <2>2, <2>3
<1>7. ASSUME NEW k \in S PROVE \E i \in 1 .. d : a[i] = k
  <2> DEFINE D == 1 .. d
  <2>1. IsFiniteSet(D) /\ Cardinality(D) = d
    <3>1. d \in Nat BY <1>1
    <3> HIDE DEF d
    <3> QED BY <3>1, FS_Interval
  <2>2. ASSUME NEW i \in 1 .. d, NEW j \in 1 .. d, a[i] = a[j] PROVE i = j
    <3> HIDE DEF a, d
    <3>1. a[i] \in 1 .. n BY <1>4
    <3>2. ~(i < j) /\ ~(j < i) BY <1>4, <2>2, <3>1
    <3> QED BY <3>2
  <2>3. a \in [D -> S] BY <1>4
  <2>4. \A i, j \in D : a[i] = a[j] => i = j BY <2>2
  <2>5. Cardinality(S) = d OBVIOUS
  <2> HIDE DEF D, a, d
  <2>6. a \in Injection(D, S) BY <2>3, <2>4 DEF Injection, IsInjective
  <2>7. a \in Surjection(D, S) BY <1>1, <2>1, <2>5, <2>6, FS_Injection
  <2> QED BY <2>7 DEF Surjection, D
<1> QED BY <1>1, <1>4, <1>6, <1>7

-----------------------------------------------------------------------------
(* What a structure holds                                                  *)

Occurs(q, list) == \E i \in DOMAIN list : list[i] = q
Distinct(list) == \A i, j \in DOMAIN list : list[i] = list[j] => i = j

Whole(r) ==
    /\ DOMAIN r = {"name", "leader", "members", "loot", "idx"}
    /\ r.name \in Names \cup {NULL} /\ r.leader \in Players \cup {NULL}
    /\ r.members \in Seq(Players) /\ Distinct(r.members)
    /\ r.name = NULL => r = Blank
    /\ r.name # NULL => Occurs(r.leader, r.members)

Shapes ==
    /\ online \subseteq Players
    /\ party \in [Players -> Structs \cup {NULL}]
    /\ struct = [s \in Structs |-> struct[s]]
    /\ \A s \in Structs : Whole(struct[s])

Linked == \A p \in Players, s \in Structs : party[p] = s <=> Occurs(p, struct[s].members)
Present == \A p \in Players : party[p] # NULL => p \in online
Named == \A s, t \in Structs : struct[s].name # NULL /\ struct[s].name = struct[t].name => s = t

Inv == Shapes /\ Linked /\ Present /\ Named

(* Every step of the game changes parties in one of these ways, or not.    *)
PartyStep ==
    \/ \E p \in Players : PartyCommand(p) \/ LogIn(p) \/ LogOut(p)
    \/ \E s \in Parties : \E i : Advance(s, i)

-----------------------------------------------------------------------------
(* Lists of members.                                                       *)

(* Taking one place out of a list leaves the others in their order.        *)
LEMMA RemoveAtIs ==
    ASSUME NEW S, NEW q \in Seq(S), NEW i \in 1 .. Len(q)
    PROVE  /\ RemoveAt(q, i) \in Seq(S)
           /\ Len(RemoveAt(q, i)) = Len(q) - 1
           /\ \A j \in 1 .. Len(q) - 1 :
                RemoveAt(q, i)[j] = IF j < i THEN q[j] ELSE q[j + 1]
<1> DEFINE a == SubSeq(q, 1, i - 1)
           b == SubSeq(q, i + 1, Len(q))
<1>0. Len(q) \in Nat /\ i \in Nat
  BY LenProperties
<1>1. a \in Seq(S) /\ Len(a) = i - 1 /\ \A j \in 1 .. i - 1 : a[j] = q[j]
  BY <1>0, SubSeqProperties
<1>2. b \in Seq(S) /\ Len(b) = Len(q) - i /\ \A j \in 1 .. Len(q) - i : b[j] = q[i + j]
  BY <1>0, SubSeqProperties
<1>3. /\ a \o b \in Seq(S) /\ Len(a \o b) = Len(a) + Len(b)
      /\ \A j \in 1 .. Len(a) + Len(b) : (a \o b)[j] = IF j <= Len(a) THEN a[j] ELSE b[j - Len(a)]
  BY <1>1, <1>2, ConcatProperties
<1>4. ASSUME NEW j \in 1 .. Len(q) - 1
      PROVE  (a \o b)[j] = IF j < i THEN q[j] ELSE q[j + 1]
  <2> HIDE DEF a, b
  <2>1. CASE j < i
    BY <2>1, <1>0, <1>1, <1>2, <1>3
  <2>2. CASE ~(j < i)
    <3>1. (a \o b)[j] = b[j - Len(a)] /\ j - Len(a) \in 1 .. Len(q) - i
      BY <2>2, <1>0, <1>1, <1>2, <1>3
    <3>2. b[j - Len(a)] = q[i + (j - Len(a))] /\ i + (j - Len(a)) = j + 1
      BY <3>1, <1>0, <1>1, <1>2
    <3> QED BY <3>1, <3>2, <2>2
  <2> QED BY <2>1, <2>2
<1>5. RemoveAt(q, i) = a \o b
  BY DEF RemoveAt
<1> HIDE DEF a, b
<1>6. Len(a \o b) = Len(q) - 1
  BY <1>0, <1>1, <1>2, <1>3
<1> QED BY <1>3, <1>4, <1>5, <1>6

(* The list without a member has everybody else, once.                     *)
LEMMA WithoutIs ==
    ASSUME NEW list \in Seq(Players), Distinct(list), NEW p \in Players, Occurs(p, list),
           NEW rest, rest = RemoveAt(list, Position(list, p))
    PROVE  /\ rest \in Seq(Players) /\ Distinct(rest)
           /\ \A q \in Players : Occurs(q, rest) <=> Occurs(q, list) /\ q # p
<1> DEFINE k == Position(list, p)
<1>1. k \in 1 .. Len(list) /\ list[k] = p
  BY LenProperties DEF Occurs, Position
<1> HIDE DEF k
<1>0. Len(list) \in Nat /\ DOMAIN list = 1 .. Len(list) /\ k \in Nat
  BY <1>1, LenProperties
<1>2. /\ rest \in Seq(Players) /\ Len(rest) = Len(list) - 1
      /\ \A j \in 1 .. Len(list) - 1 : rest[j] = IF j < k THEN list[j] ELSE list[j + 1]
  BY <1>1, RemoveAtIs, Zenon DEF k
<1>3. DOMAIN rest = 1 .. Len(list) - 1
  BY <1>2, LenProperties
<1>4. Distinct(rest)
  <2> SUFFICES ASSUME NEW i \in DOMAIN rest, NEW j \in DOMAIN rest, rest[i] = rest[j]
               PROVE  i = j
    BY DEF Distinct
  <2> DEFINE up(x) == IF x < k THEN x ELSE x + 1
  <2>1. /\ rest[i] = list[up(i)] /\ up(i) \in DOMAIN list
        /\ rest[j] = list[up(j)] /\ up(j) \in DOMAIN list
    BY <1>0, <1>1, <1>2, <1>3
  <2>2. up(i) = up(j)
    <3> HIDE DEF up
    <3> QED BY <2>1 DEF Distinct
  <2> QED BY <2>2, <1>0, <1>3
<1>5. ASSUME NEW q \in Players, Occurs(q, rest)
      PROVE  Occurs(q, list) /\ q # p
  <2>1. PICK j \in DOMAIN rest : rest[j] = q
    BY <1>5 DEF Occurs
  <2>2. PICK i \in DOMAIN list : i # k /\ list[i] = q
    <3>1. CASE j < k
      BY <3>1, <2>1, <1>0, <1>1, <1>2, <1>3
    <3>2. CASE ~(j < k)
      <4>1. j + 1 \in DOMAIN list /\ j + 1 # k /\ list[j + 1] = q
        BY <3>2, <2>1, <1>0, <1>1, <1>2, <1>3
      <4> QED BY <4>1
    <3> QED BY <3>1, <3>2
  <2> QED BY <2>2, <1>0, <1>1 DEF Occurs, Distinct
<1>6. ASSUME NEW q \in Players, Occurs(q, list), q # p
      PROVE  Occurs(q, rest)
  <2>1. PICK i \in DOMAIN list : list[i] = q
    BY <1>6 DEF Occurs
  <2>2. i # k
    BY <2>1, <1>1, <1>6
  <2>3. CASE i < k
    <3>1. i \in DOMAIN rest /\ rest[i] = q
      BY <2>3, <2>1, <1>0, <1>1, <1>2, <1>3
    <3> QED BY <3>1 DEF Occurs
  <2>4. CASE i > k
    <3>1. i - 1 \in DOMAIN rest /\ rest[i - 1] = list[(i - 1) + 1] /\ (i - 1) + 1 = i
      BY <2>4, <2>1, <1>0, <1>1, <1>2, <1>3
    <3> QED BY <3>1, <2>1 DEF Occurs
  <2> QED BY <2>2, <2>3, <2>4, <1>0
<1> QED BY <1>2, <1>4, <1>5, <1>6

(* A new member at the head of the list.                                   *)
LEMMA ConsIs ==
    ASSUME NEW list \in Seq(Players), Distinct(list), NEW p \in Players, ~Occurs(p, list)
    PROVE  /\ Cons(p, list) \in Seq(Players) /\ Distinct(Cons(p, list))
           /\ \A q \in Players : Occurs(q, Cons(p, list)) <=> Occurs(q, list) \/ q = p
<1> DEFINE c == <<p>> \o list
<1>0. Len(list) \in Nat /\ DOMAIN list = 1 .. Len(list) /\ <<p>> \in Seq(Players) /\ Len(<<p>>) = 1
  BY LenProperties
<1>1. /\ c \in Seq(Players) /\ Len(c) = Len(list) + 1
      /\ \A j \in 1 .. Len(list) + 1 : c[j] = IF j <= 1 THEN p ELSE list[j - 1]
  BY <1>0, ConcatProperties
<1>2. DOMAIN c = 1 .. Len(list) + 1
  BY <1>1, LenProperties
<1> HIDE DEF c
<1>3. Distinct(c)
  <2> SUFFICES ASSUME NEW i \in DOMAIN c, NEW j \in DOMAIN c, c[i] = c[j]
               PROVE  i = j
    BY DEF Distinct
  <2>1. CASE i = 1 /\ j = 1
    BY <2>1
  <2>2. CASE i = 1 /\ j # 1
    <3>1. list[j - 1] = p /\ j - 1 \in DOMAIN list
      BY <2>2, <1>0, <1>1, <1>2
    <3> QED BY <3>1 DEF Occurs
  <2>3. CASE i # 1 /\ j = 1
    <3>1. list[i - 1] = p /\ i - 1 \in DOMAIN list
      BY <2>3, <1>0, <1>1, <1>2
    <3> QED BY <3>1 DEF Occurs
  <2>4. CASE i # 1 /\ j # 1
    <3>1. list[i - 1] = list[j - 1] /\ i - 1 \in DOMAIN list /\ j - 1 \in DOMAIN list
      BY <2>4, <1>0, <1>1, <1>2
    <3>2. i - 1 = j - 1
      BY <3>1 DEF Distinct
    <3> QED BY <3>2, <1>0, <1>2
  <2> QED BY <2>1, <2>2, <2>3, <2>4
<1>4. ASSUME NEW q \in Players
      PROVE  Occurs(q, c) <=> Occurs(q, list) \/ q = p
  <2>1. ASSUME NEW j \in DOMAIN c, c[j] = q
        PROVE  Occurs(q, list) \/ q = p
    <3>1. CASE j = 1
      BY <3>1, <2>1, <1>0, <1>1, <1>2
    <3>2. CASE j # 1
      <4>1. j - 1 \in DOMAIN list /\ list[j - 1] = q
        BY <3>2, <2>1, <1>0, <1>1, <1>2
      <4> QED BY <4>1 DEF Occurs
    <3> QED BY <3>1, <3>2
  <2>2. ASSUME NEW i \in DOMAIN list, list[i] = q
        PROVE  Occurs(q, c)
    <3>1. i + 1 \in DOMAIN c /\ c[i + 1] = list[(i + 1) - 1] /\ (i + 1) - 1 = i
      BY <2>2, <1>0, <1>1, <1>2
    <3> QED BY <3>1, <2>2 DEF Occurs
  <2>3. 1 \in DOMAIN c /\ c[1] = p
    BY <1>0, <1>1, <1>2
  <2> QED BY <2>1, <2>2, <2>3 DEF Occurs
<1> QED BY <1>1, <1>3, <1>4 DEF c, Cons

-----------------------------------------------------------------------------
(* Structures.                                                             *)

(* A structure that a member leaves is whole, without him, or back in the pool. *)
LEMMA LeftIs ==
    ASSUME NEW r, Whole(r), NEW p \in Players, Occurs(p, r.members)
    PROVE  /\ Whole(Left(r, p)) /\ Left(r, p).name \in {NULL, r.name}
           /\ \A q \in Players : Occurs(q, Left(r, p).members) <=> Occurs(q, r.members) /\ q # p
<1> DEFINE rest == RemoveAt(r.members, Position(r.members, p))
<1>1. /\ rest \in Seq(Players) /\ Distinct(rest)
      /\ \A q \in Players : Occurs(q, rest) <=> Occurs(q, r.members) /\ q # p
  BY WithoutIs DEF Whole
<1>2. r.name # NULL /\ r.name \in Names /\ r.leader \in Players
  <2>1. r.name # NULL
    BY DEF Whole, Blank, Occurs
  <2>2. PICK i \in DOMAIN r.members : r.members[i] = r.leader
    BY <2>1 DEF Whole, Occurs
  <2>3. r.members[i] \in Players
    BY <2>2, LenProperties, ElementOfSeq DEF Whole
  <2> QED BY <2>1, <2>2, <2>3 DEF Whole
<1>3. CASE rest = <<>>
  <2>1. Left(r, p) = Blank
    BY <1>3 DEF Left
  <2>2. \A q : ~Occurs(q, <<>>)
    BY DEF Occurs
  <2>3. Whole(Blank)
    BY <2>2 DEF Whole, Blank, Distinct
  <2> QED BY <1>1, <1>3, <2>1, <2>2, <2>3 DEF Blank
<1>4. CASE rest # <<>>
  <2> DEFINE new == [r EXCEPT !.members = rest,
                              !.leader = IF r.leader = p THEN Head(rest) ELSE r.leader]
  <2>0. Left(r, p) = new
    BY <1>4 DEF Left
  <2>1. Head(rest) \in Players /\ Occurs(Head(rest), rest)
    <3>1. Head(rest) \in Players /\ 1 \in DOMAIN rest /\ rest[1] = Head(rest)
      <4> HIDE DEF rest
      <4>1. Len(rest) \in Nat /\ Len(rest) # 0 /\ DOMAIN rest = 1 .. Len(rest)
        BY <1>1, <1>4, EmptySeq, LenProperties
      <4> QED BY <4>1, <1>1, <1>4, HeadTailProperties, ElementOfSeq
    <3> QED BY <3>1 DEF Occurs
  <2>2. /\ DOMAIN new = DOMAIN r /\ new.name = r.name /\ new.members = rest
        /\ new.leader = IF r.leader = p THEN Head(rest) ELSE r.leader
    <3> HIDE DEF rest
    <3> QED BY DEF Whole
  <2>3. Occurs(new.leader, new.members) /\ new.leader \in Players
    <3> HIDE DEF rest, new
    <3>1. CASE r.leader = p
      BY <3>1, <2>1, <2>2
    <3>2. CASE r.leader # p
      BY <3>2, <2>2, <1>1, <1>2 DEF Whole
    <3> QED BY <3>1, <3>2
  <2> HIDE DEF new, rest
  <2>4. Whole(new)
    BY <2>2, <2>3, <1>1, <1>2 DEF Whole
  <2> QED BY <2>0, <2>2, <2>4, <1>1
<1> QED BY <1>3, <1>4

(* Leaving, by whatever way, keeps both ends of the relation together.     *)
LEMMA RemoveMemberKeeps ==
    ASSUME Inv, NEW p \in Players, party[p] # NULL, RemoveMember(p), online' \subseteq online,
           online \subseteq online' \cup {p}
    PROVE  Inv'
<1> DEFINE s0 == party[p]
           new == Left(struct[s0], p)
<1>1. s0 \in Structs /\ Occurs(p, struct[s0].members) /\ Whole(struct[s0])
  BY DEF Inv, Shapes, Linked
<1>2. /\ Whole(new) /\ new.name \in {NULL, struct[s0].name}
      /\ \A q \in Players : Occurs(q, new.members) <=> Occurs(q, struct[s0].members) /\ q # p
  BY <1>1, LeftIs
<1> HIDE DEF new
<1>3. /\ struct' = [struct EXCEPT ![s0] = new]
      /\ party' = [party EXCEPT ![p] = NULL]
  BY DEF RemoveMember, new
<1>4. /\ struct'[s0] = new
      /\ \A s \in Structs : s # s0 => struct'[s] = struct[s]
      /\ struct' = [s \in Structs |-> struct'[s]]
  <2>1. DOMAIN struct = Structs
    BY DEF Inv, Shapes
  <2> QED BY <1>1, <1>3, <2>1
<1>5. /\ party' \in [Players -> Structs \cup {NULL}] /\ party'[p] = NULL
      /\ \A q \in Players : q # p => party'[q] = party[q]
  BY <1>3 DEF Inv, Shapes
<1> HIDE DEF s0
<1>6. Shapes'
  <2>1. \A s \in Structs : Whole(struct'[s])
    BY <1>2, <1>4 DEF Inv, Shapes
  <2> QED BY <1>4, <1>5, <2>1 DEF Inv, Shapes, Whole, Blank, Occurs, Distinct
<1>7. Linked'
  <2> SUFFICES ASSUME NEW q \in Players, NEW s \in Structs
               PROVE  party'[q] = s <=> Occurs(q, struct'[s].members)
    BY DEF Linked, Occurs
  <2>0. party[q] = s <=> Occurs(q, struct[s].members)
    BY DEF Inv, Linked
  <2>1. CASE s = s0 /\ q = p
    BY <2>1, <1>1, <1>2, <1>4, <1>5, NullAssumption
  <2>2. CASE s = s0 /\ q # p
    BY <2>2, <2>0, <1>2, <1>4, <1>5
  <2>3. CASE s # s0 /\ q = p
    BY <2>3, <2>0, <1>4, <1>5, NullAssumption DEF s0
  <2>4. CASE s # s0 /\ q # p
    BY <2>4, <2>0, <1>4, <1>5
  <2> QED BY <2>1, <2>2, <2>3, <2>4
<1>8. Present'
  BY <1>5 DEF Inv, Present
<1>9. Named'
  BY <1>2, <1>4 DEF Inv, Named
<1> QED BY <1>6, <1>7, <1>8, <1>9 DEF Inv

-----------------------------------------------------------------------------
(* The steps.                                                              *)

LEMMA FormKeeps == ASSUME Inv, NEW p \in Players, NEW n \in Names, Form(p, n) PROVE Inv'
<1> PICK s0 \in Structs \ Parties :
      /\ struct' = [struct EXCEPT ![s0] = [Blank EXCEPT !.name = n, !.leader = p,
                                                         !.members = <<p>>]]
      /\ party' = [party EXCEPT ![p] = s0]
  BY DEF Form
<1> DEFINE new == [Blank EXCEPT !.name = n, !.leader = p, !.members = <<p>>]
<1>0. p \in online /\ party[p] = NULL /\ online' = online /\ n # NULL
  BY NullAssumption DEF Form
<1>1. new.name = n /\ new.leader = p /\ new.members = <<p>>
      /\ DOMAIN new = {"name", "leader", "members", "loot", "idx"}
  BY DEF Blank
<1> HIDE DEF new
<1>2. \A q : Occurs(q, new.members) <=> q = p
  BY <1>1 DEF Occurs
<1>3. Whole(new)
  BY <1>0, <1>1, <1>2 DEF Whole, Distinct
<1>4. struct[s0].name = NULL /\ \A q \in Players : ~Occurs(q, struct[s0].members)
  BY DEF Parties, Inv, Shapes, Whole, Blank, Occurs
<1>5. /\ struct'[s0] = new
      /\ \A s \in Structs : s # s0 => struct'[s] = struct[s]
      /\ struct' = [s \in Structs |-> struct'[s]]
  BY DEF Inv, Shapes, new
<1>6. /\ party' \in [Players -> Structs \cup {NULL}] /\ party'[p] = s0
      /\ \A q \in Players : q # p => party'[q] = party[q]
  BY DEF Inv, Shapes
<1>7. Shapes'
  <2>1. \A s \in Structs : Whole(struct'[s])
    BY <1>3, <1>5 DEF Inv, Shapes
  <2> QED BY <1>0, <1>5, <1>6, <2>1 DEF Inv, Shapes, Whole, Blank, Occurs, Distinct
<1>8. Linked'
  <2> SUFFICES ASSUME NEW q \in Players, NEW s \in Structs
               PROVE  party'[q] = s <=> Occurs(q, struct'[s].members)
    BY DEF Linked, Occurs
  <2>0. party[q] = s <=> Occurs(q, struct[s].members)
    BY DEF Inv, Linked
  <2>1. CASE s = s0
    BY <2>1, <2>0, <1>2, <1>4, <1>5, <1>6
  <2>2. CASE s # s0
    BY <2>2, <2>0, <1>0, <1>5, <1>6, NullAssumption
  <2> QED BY <2>1, <2>2
<1>9. Present'
  BY <1>0, <1>6 DEF Inv, Present
<1>10. Named'
  <2> SUFFICES ASSUME NEW s \in Structs, NEW t \in Structs, struct'[s].name # NULL,
                      struct'[s].name = struct'[t].name
               PROVE  s = t
    BY DEF Named
  <2>1. \A u \in Structs : struct[u].name # n
    BY <1>0 DEF Form, Parties
  <2> QED BY <2>1, <1>1, <1>5 DEF Inv, Named
<1> QED BY <1>7, <1>8, <1>9, <1>10 DEF Inv

LEMMA JoinKeeps == ASSUME Inv, NEW p \in Players, NEW s0 \in Structs, Join(p, s0) PROVE Inv'
<1> DEFINE r == struct[s0]
           new == [r EXCEPT !.members = Cons(p, r.members)]
<1>0. /\ p \in online /\ party[p] = NULL /\ online' = online /\ r.name # NULL
      /\ struct' = [struct EXCEPT ![s0].members = Cons(p, @)]
      /\ party' = [party EXCEPT ![p] = s0]
  BY DEF Join, Parties
<1>1. Whole(r) /\ ~Occurs(p, r.members)
  BY <1>0, NullAssumption DEF Inv, Shapes, Linked
<1>5. /\ struct'[s0] = new
      /\ \A s \in Structs : s # s0 => struct'[s] = struct[s]
      /\ struct' = [s \in Structs |-> struct'[s]]
  BY <1>0 DEF Inv, Shapes
<1>2. /\ Cons(p, r.members) \in Seq(Players) /\ Distinct(Cons(p, r.members))
      /\ \A q \in Players : Occurs(q, Cons(p, r.members)) <=> Occurs(q, r.members) \/ q = p
  BY <1>1, ConsIs DEF Whole
<1>3. /\ new.members = Cons(p, r.members) /\ new.name = r.name /\ new.leader = r.leader
      /\ DOMAIN new = DOMAIN r
  BY <1>1 DEF Whole
<1>4. r.leader \in Players
  <2>1. PICK i \in DOMAIN r.members : r.members[i] = r.leader
    BY <1>0, <1>1 DEF Whole, Occurs
  <2> QED BY <2>1, <1>1, LenProperties, ElementOfSeq DEF Whole
<1> HIDE DEF new, r
<1>6. Whole(new)
  BY <1>0, <1>1, <1>2, <1>3, <1>4 DEF Whole
<1>7. /\ party' \in [Players -> Structs \cup {NULL}] /\ party'[p] = s0
      /\ \A q \in Players : q # p => party'[q] = party[q]
  BY <1>0 DEF Inv, Shapes
<1>8. Shapes'
  <2>1. \A s \in Structs : Whole(struct'[s])
    BY <1>5, <1>6 DEF Inv, Shapes
  <2> QED BY <1>0, <1>5, <1>7, <2>1 DEF Inv, Shapes, Whole, Blank, Occurs, Distinct
<1>9. Linked'
  <2> SUFFICES ASSUME NEW q \in Players, NEW s \in Structs
               PROVE  party'[q] = s <=> Occurs(q, struct'[s].members)
    BY DEF Linked, Occurs
  <2>0. party[q] = s <=> Occurs(q, struct[s].members)
    BY DEF Inv, Linked
  <2>1. CASE s = s0
    BY <2>1, <2>0, <1>2, <1>3, <1>5, <1>7 DEF r
  <2>2. CASE s # s0
    BY <2>2, <2>0, <1>0, <1>5, <1>7, NullAssumption
  <2> QED BY <2>1, <2>2
<1>10. Present'
  BY <1>0, <1>7 DEF Inv, Present
<1>11. Named'
  BY <1>3, <1>5 DEF Inv, Named, r
<1> QED BY <1>8, <1>9, <1>10, <1>11 DEF Inv

(* A change of one structure that leaves its name and its list.            *)
LEMMA SameListKeeps ==
    ASSUME Inv, UNCHANGED <<online, party>>, NEW s0 \in Structs, NEW new,
           struct' = [struct EXCEPT ![s0] = new], Whole(new),
           new.name = struct[s0].name, new.members = struct[s0].members
    PROVE  Inv'
<1>1. /\ struct'[s0] = new
      /\ \A s \in Structs : s # s0 => struct'[s] = struct[s]
      /\ struct' = [s \in Structs |-> struct'[s]]
  BY DEF Inv, Shapes
<1>2. \A s \in Structs : struct'[s].name = struct[s].name /\ struct'[s].members = struct[s].members
  BY <1>1
<1>3. Shapes'
  <2>1. \A s \in Structs : Whole(struct'[s])
    BY <1>1 DEF Inv, Shapes
  <2> QED BY <1>1, <2>1 DEF Inv, Shapes, Whole, Blank, Occurs, Distinct
<1>4. Linked'
  BY <1>2 DEF Inv, Linked, Occurs
<1>5. Present' /\ Named'
  BY <1>2 DEF Inv, Present, Named
<1> QED BY <1>3, <1>4, <1>5 DEF Inv

(* A party that somebody leads or is in is out of the pool.                *)
LEMMA InUse ==
    ASSUME Inv, NEW p \in Players, party[p] # NULL
    PROVE  /\ party[p] \in Parties /\ Whole(struct[party[p]])
           /\ Occurs(p, struct[party[p]].members)
<1>1. party[p] \in Structs /\ Occurs(p, struct[party[p]].members) /\ Whole(struct[party[p]])
  BY DEF Inv, Shapes, Linked
<1> QED BY <1>1 DEF Parties, Whole, Blank, Occurs

LEMMA HandOverKeeps ==
    ASSUME Inv, NEW p \in Players, NEW q \in Players, HandOver(p, q) PROVE Inv'
<1> DEFINE r == struct[party[q]]
           new == [r EXCEPT !.leader = q]
<1>1. party[q] \in Parties /\ Whole(r) /\ Occurs(q, r.members)
  BY InUse DEF HandOver, Leads
<1>2. party[q] \in Structs /\ r.name # NULL
  BY <1>1 DEF Parties
<1>3. struct' = [struct EXCEPT ![party[q]] = new] /\ UNCHANGED <<online, party>>
  BY DEF HandOver
<1>4. new.name = r.name /\ new.members = r.members /\ new.leader = q /\ DOMAIN new = DOMAIN r
  BY <1>1 DEF Whole
<1> HIDE DEF new
<1>5. Whole(new)
  BY <1>1, <1>2, <1>4 DEF Whole
<1> QED BY <1>2, <1>3, <1>4, <1>5, SameListKeeps

LEMMA SetLootKeeps ==
    ASSUME Inv, NEW p \in Players, NEW mode, SetLoot(p, mode) PROVE Inv'
<1> DEFINE r == struct[party[p]]
           new == [r EXCEPT !.loot = mode]
<1>1. party[p] \in Parties /\ Whole(r)
  BY InUse DEF SetLoot, Leads
<1>2. party[p] \in Structs /\ r.name # NULL
  BY <1>1 DEF Parties
<1>3. struct' = [struct EXCEPT ![party[p]] = new] /\ UNCHANGED <<online, party>>
  BY DEF SetLoot
<1>4. new.name = r.name /\ new.members = r.members /\ new.leader = r.leader /\ DOMAIN new = DOMAIN r
  BY <1>1 DEF Whole
<1> HIDE DEF new
<1>5. Whole(new)
  BY <1>1, <1>2, <1>4 DEF Whole
<1> QED BY <1>2, <1>3, <1>4, <1>5, SameListKeeps

LEMMA AdvanceKeeps ==
    ASSUME Inv, NEW s0 \in Parties, NEW i, Advance(s0, i) PROVE Inv'
<1> DEFINE r == struct[s0]
           new == [r EXCEPT !.idx = i]
<1>1. s0 \in Structs /\ r.name # NULL /\ Whole(r)
  BY DEF Parties, Inv, Shapes
<1>2. struct' = [struct EXCEPT ![s0] = new] /\ UNCHANGED <<online, party>>
  BY DEF Advance
<1>3. new.name = r.name /\ new.members = r.members /\ new.leader = r.leader /\ DOMAIN new = DOMAIN r
  BY <1>1 DEF Whole
<1> HIDE DEF new
<1>4. Whole(new)
  BY <1>1, <1>3 DEF Whole
<1> QED BY <1>1, <1>2, <1>3, <1>4, SameListKeeps

LEMMA PartyStepKeeps == Inv /\ [PartyStep]_partyVars => Inv'
<1> SUFFICES ASSUME Inv, [PartyStep]_partyVars PROVE Inv'
  OBVIOUS
<1>1. CASE UNCHANGED partyVars
  BY <1>1 DEF partyVars, Inv, Shapes, Linked, Present, Named, Whole, Blank, Occurs, Distinct
<1>2. ASSUME NEW p \in Players, PartyCommand(p) PROVE Inv'
  <2>1. CASE \E n \in Names : Form(p, n)
    BY <2>1, FormKeeps
  <2>2. CASE \E s \in Structs : Join(p, s)
    BY <2>2, JoinKeeps
  <2>3. CASE Leave(p)
    BY <2>3, RemoveMemberKeeps DEF Leave
  <2>4. ASSUME NEW q \in Players, Kick(p, q) PROVE Inv'
    <3>1. party[q] # NULL
      <4>1. party[p] \in Structs
        BY <2>4, InUse DEF Kick, Leads, Parties
      <4>2. Occurs(q, struct[party[p]].members)
        BY <2>4 DEF Kick, Members, ToSet, Occurs
      <4> QED BY <4>1, <4>2, NullAssumption DEF Inv, Linked
    <3> QED BY <3>1, <2>4, RemoveMemberKeeps DEF Kick
  <2>5. ASSUME NEW q \in Players, HandOver(p, q) PROVE Inv'
    BY <2>5, HandOverKeeps
  <2>6. ASSUME NEW mode \in Modes, SetLoot(p, mode) PROVE Inv'
    BY <2>6, SetLootKeeps
  <2> QED BY <1>2, <2>1, <2>2, <2>3, <2>4, <2>5, <2>6 DEF PartyCommand
<1>3. ASSUME NEW p \in Players, LogIn(p) PROVE Inv'
  BY <1>3 DEF LogIn, Inv, Shapes, Linked, Present, Named, Whole, Blank, Occurs, Distinct
<1>4. ASSUME NEW p \in Players, LogOut(p) PROVE Inv'
  <2>1. CASE party[p] = NULL
    BY <1>4, <2>1 DEF LogOut, Inv, Shapes, Linked, Present, Named, Whole, Blank, Occurs, Distinct
  <2>2. CASE party[p] # NULL
    BY <1>4, <2>2, RemoveMemberKeeps DEF LogOut
  <2> QED BY <2>1, <2>2
<1>5. ASSUME NEW s \in Parties, NEW i, Advance(s, i) PROVE Inv'
  BY <1>5, AdvanceKeeps
<1> QED BY <1>1, <1>2, <1>3, <1>4, <1>5 DEF PartyStep

LEMMA InitInv == Init => Inv
<1> SUFFICES ASSUME Init PROVE Inv
  OBVIOUS
<1>1. Whole(Blank)
  BY DEF Whole, Blank, Distinct
<1>2. \A q : ~Occurs(q, Blank.members)
  BY DEF Occurs, Blank
<1>3. Blank.name = NULL
  BY DEF Blank
<1>4. \A s \in Structs : struct[s] = Blank
  BY DEF Init
<1> QED BY <1>1, <1>2, <1>3, <1>4, NullAssumption DEF Init, Inv, Shapes, Linked, Present, Named

LEMMA InvAgrees == Inv => PartiesAgree
  BY DEF Inv, Shapes, Linked, Present, Named, Whole, Occurs, Distinct, PartiesAgree, Parties

-----------------------------------------------------------------------------
(* The game.                                                               *)

(* Opening a corpse of a party changes nothing of parties but the index.   *)
LEMMA OpenIs ==
    ASSUME Inv, NEW p \in Players, Open(p) PROVE [PartyStep]_partyVars
<1>1. CASE corpse.kind # "party"
  BY <1>1 DEF Open
<1>2. CASE corpse.kind = "party"
  <2>1. party[p] # NULL
    BY <1>2 DEF Open, MayOpen, party_can_open_corpse
  <2>2. party[p] \in Parties
    BY <2>1, InUse
  <2>3. \A r, inv, back : Handled(p, r, inv, back) => PartyStep
    BY <2>2 DEF Handled, PartyStep
  <2>4. \/ \E r, inv, back : Handled(p, r, inv, back)
        \/ UNCHANGED partyVars
    BY <1>2 DEF Open
  <2> QED BY <2>3, <2>4
<1> QED BY <1>1, <1>2

LEMMA GameStep == Inv /\ [GameNext]_gameVars => [PartyStep]_partyVars
<1> SUFFICES ASSUME Inv, [GameNext]_gameVars PROVE [PartyStep]_partyVars
  OBVIOUS
<1>1. CASE UNCHANGED gameVars
  BY <1>1 DEF gameVars
<1>2. ASSUME NEW p \in Players,
             PartyCommand(p) \/ Enter(p) \/ Exit(p)
      PROVE  PartyStep
  BY <1>2 DEF Enter, Exit, PartyStep
<1>3. ASSUME NEW p \in Players,
             \/ \E m \in Maps : Walk(p, m)
             \/ Stick(p) \/ Hit(p) \/ Kill(p) \/ Take(p) \/ Close(p)
      PROVE  UNCHANGED partyVars
  BY <1>3 DEF Walk, Stick, Hit, Kill, Take, Close
<1>4. ASSUME NEW p \in Players, Open(p) PROVE [PartyStep]_partyVars
  BY <1>4, OpenIs
<1>5. ASSUME OtherObject \/ Aggro \/ KilledByBeast \/ Rot \/ Respawn
      PROVE  UNCHANGED partyVars
  BY <1>5 DEF OtherObject, Aggro, KilledByBeast, Rot, Respawn
<1> QED BY <1>1, <1>2, <1>3, <1>4, <1>5 DEF GameNext

(* Both ends of the membership agree in every state of the game: whoever
   fights, loots, walks, logs out or in between the commands on parties. *)
THEOREM MembershipAgrees == GameSpec => []PartiesAgree
<1>1. GameInit => Inv
  BY InitInv DEF GameInit
<1>2. Inv /\ [GameNext]_gameVars => Inv'
  BY GameStep, PartyStepKeeps
<1>3. Inv => PartiesAgree
  BY InvAgrees
<1> QED BY <1>1, <1>2, <1>3, PTL DEF GameSpec

(* The same of parties on their own, with any index after a sharing.       *)
THEOREM MembershipAgreesAlone == Spec => []PartiesAgree
<1>1. Inv /\ [Next]_partyVars => Inv'
  BY PartyStepKeeps DEF Next, PartyStep
<1> QED BY <1>1, InitInv, InvAgrees, PTL DEF Spec

-----------------------------------------------------------------------------
(* The bounty.                                                             *)

Enemies == [type : {"none", "player", "other", "dead"}, who : Players \cup {NULL}, same : BOOLEAN]
PreyType == prey \in [alive : BOOLEAN, arrows : SUBSET Players, enemy : Enemies]

(* A good pointer to a player is to one who fought since he came.          *)
Fought == prey.enemy.type = "player" /\ prey.enemy.same => prey.enemy.who \in fought \cap Players

LEMMA EnemiesAre ==
    /\ NoEnemy \in Enemies /\ NoEnemy.type = "none"
    /\ Beast \in Enemies /\ Beast.type = "other"
    /\ \A p \in Players : Enemy(p) \in Enemies /\ Enemy(p).type = "player" /\ Enemy(p).who = p
  BY DEF NoEnemy, Beast, Enemy, Enemies

LEMMA FoughtInit == GameInit => PreyType /\ Fought
  BY EnemiesAre DEF GameInit, Alive, PreyType, Fought

LEMMA FoughtKeeps == Inv /\ PreyType /\ Fought /\ [GameNext]_gameVars => (PreyType /\ Fought)'
<1> SUFFICES ASSUME online \subseteq Players, PreyType, Fought, [GameNext]_gameVars PROVE (PreyType /\ Fought)'
  BY DEF Inv, Shapes
<1>1. ASSUME UNCHANGED <<prey, fought>> PROVE (PreyType /\ Fought)'
  BY <1>1 DEF PreyType, Fought
<1>2. ASSUME NEW p \in Players, Enter(p) PROVE (PreyType /\ Fought)'
  <2>1. CASE UNCHANGED prey
    BY <1>2, <2>1, <1>1 DEF Enter
  <2>2. CASE prey' = [prey EXCEPT !.enemy = [type |-> "player", who |-> p, same |-> FALSE]]
    BY <2>2 DEF PreyType, Fought, Enemies
  <2> QED BY <1>2, <2>1, <2>2 DEF Enter
<1>3. ASSUME NEW p \in Players, Exit(p) PROVE (PreyType /\ Fought)'
  <2>1. prey' = [prey EXCEPT !.arrows = @ \ {p},
                             !.enemy = IF @.type = "player" /\ @.who = p
                                       THEN [NoEnemy EXCEPT !.type = "dead"] ELSE @]
        /\ fought' = fought \ {p}
    BY <1>3 DEF Exit
  <2>2. CASE prey.enemy.type = "player" /\ prey.enemy.who = p
    BY <2>1, <2>2 DEF PreyType, Fought, Enemies, NoEnemy
  <2>3. CASE ~(prey.enemy.type = "player" /\ prey.enemy.who = p)
    BY <2>1, <2>3 DEF PreyType, Fought
  <2> QED BY <2>2, <2>3
<1>4. ASSUME NEW p \in Players, Stick(p) PROVE (PreyType /\ Fought)'
  BY <1>4 DEF Stick, PreyType, Fought
<1>5. ASSUME NEW p \in Players, Hit(p) PROVE (PreyType /\ Fought)'
  <2>1. PICK e \in Provoked(prey.enemy, Enemy(p)) : prey' = [prey EXCEPT !.enemy = e]
    BY <1>5 DEF Hit
  <2>2. e = prey.enemy \/ e = Enemy(p)
    BY DEF Provoked
  <2>3. fought' = fought \cup {p}
    BY <1>5 DEF Hit
  <2> QED BY <2>1, <2>2, <2>3, EnemiesAre DEF PreyType, Fought
<1>6. ASSUME prey' = Slain PROVE (PreyType /\ Fought)'
  <2>1. PreyType'
    BY <1>6, EnemiesAre DEF Slain, PreyType
  <2>2. prey'.enemy = NoEnemy
    BY <1>6 DEF Slain
  <2> QED BY <2>1, <2>2, EnemiesAre DEF Fought
<1>7. CASE OtherObject
  <2>1. PICK e : /\ e \in {[Beast EXCEPT !.same = FALSE], [NoEnemy EXCEPT !.type = "dead"]}
                 /\ prey' = [prey EXCEPT !.enemy = e]
    BY <1>7 DEF OtherObject
  <2>2. e \in Enemies /\ e.type # "player"
    BY <2>1 DEF Enemies, Beast, NoEnemy
  <2> QED BY <2>1, <2>2 DEF PreyType, Fought
<1>8. CASE Aggro
  <2>1. CASE \E e \in {NoEnemy, Beast} : prey' = [prey EXCEPT !.enemy = e]
    BY <2>1, EnemiesAre DEF PreyType, Fought
  <2>2. ASSUME NEW p \in online, prey' = [prey EXCEPT !.enemy = Enemy(p)],
               fought' = fought \cup {p}
        PROVE  (PreyType /\ Fought)'
    BY <2>2, EnemiesAre DEF PreyType, Fought
  <2> QED BY <1>8, <2>1, <2>2 DEF Aggro
<1>9. CASE Respawn
  BY <1>9, EnemiesAre DEF Respawn, Alive, PreyType, Fought
<1>10. CASE UNCHANGED gameVars
  BY <1>10, <1>1 DEF gameVars, bountyVars
<1>11. ASSUME NEW p \in Players,
              \/ PartyCommand(p) /\ UNCHANGED <<place, prey, corpse, fought>>
              \/ \E m \in Maps : Walk(p, m)
              \/ Open(p) \/ Take(p) \/ Close(p)
       PROVE  (PreyType /\ Fought)'
  BY <1>11, <1>1 DEF Walk, Open, Take, Close
<1>12. CASE Rot
  BY <1>12, <1>1 DEF Rot
<1> QED BY <1>2, <1>3, <1>4, <1>5, <1>6, <1>7, <1>8, <1>9, <1>10, <1>11, <1>12
        DEF GameNext, Kill, KilledByBeast

(* Whom a corpse may be locked for, when those in ok deserve it.           *)
For(c, ok) ==
    /\ c.kind = "player" => c.lock \in ok
    /\ c.kind = "party" => \E p \in ok : party[p] # NULL /\ struct[party[p]].name = c.lock

LEMMA CorpseIs ==
    ASSUME NEW ok, NEW e, Heir(e) \in ok \cup {NULL}, NEW things, NEW coins
    PROVE  For(Corpse(e, things, coins), ok)
<1> DEFINE c == Corpse(e, things, coins)
<1> DEFINE w == Heir(e)
<1>1. /\ c.kind = IF w = NULL THEN "corpse" ELSE IF ForParty(w) THEN "party" ELSE "player"
      /\ c.lock = IF w # NULL /\ ForParty(w) THEN struct[party[w]].name ELSE w
  BY DEF Corpse
<1> HIDE DEF w, c
<1>2. w \in ok \cup {NULL}
  BY DEF w
<1>3. c.kind = "player" => c.lock \in ok
  BY <1>1, <1>2
<1>4. c.kind = "party" => w \in ok /\ ForParty(w) /\ c.lock = struct[party[w]].name
  BY <1>1, <1>2
<1> QED BY <1>3, <1>4 DEF ForParty, For, c

Earned == corpse = NULL /\ corpse' # NULL => For(corpse', fought \cup {given'.by})

LEMMA StepEarned == Inv /\ PreyType /\ Fought /\ [GameNext]_gameVars => [Earned]_gameVars
<1> SUFFICES ASSUME PreyType, Fought, [GameNext]_gameVars, corpse = NULL, corpse' # NULL
             PROVE  For(corpse', fought \cup {given'.by})
  BY DEF Earned
<1>1. ASSUME NEW p \in Players, Kill(p)
      PROVE  For(corpse', fought \cup {given'.by})
  <2>1. PICK e \in Provoked(prey.enemy, Enemy(p)) :
          LET f == IF e.type = "player" THEN e ELSE Enemy(p)
          IN  \/ corpse' = NULL
              \/ corpse' = Corpse(f, Things, Coins) /\ given'.by = p
    BY <1>1 DEF Kill, Nothing
  <2> DEFINE f == IF e.type = "player" THEN e ELSE Enemy(p)
  <2>2. corpse' = Corpse(f, Things, Coins) /\ given'.by = p
    BY <2>1
  <2>3. Heir(f) \in (fought \cup {p}) \cup {NULL}
    <3>1. e = prey.enemy \/ e = Enemy(p)
      BY DEF Provoked
    <3>2. CASE f = Enemy(p)
      BY <3>2, EnemiesAre DEF Heir
    <3>3. CASE f = prey.enemy /\ prey.enemy.type = "player"
      BY <3>3 DEF Heir, Fought
    <3> QED BY <3>1, <3>2, <3>3
  <2> HIDE DEF f
  <2>4. For(Corpse(f, Things, Coins), fought \cup {p})
    BY <2>3, CorpseIs
  <2> QED BY <2>2, <2>4
<1>2. CASE KilledByBeast
  <2>1. corpse' = Corpse(Beast, 0, 0) /\ Heir(Beast) = NULL
    BY <1>2, EnemiesAre DEF KilledByBeast, Heir
  <2>2. For(Corpse(Beast, 0, 0), fought \cup {given'.by})
    BY <2>1, CorpseIs
  <2> QED BY <2>1, <2>2
<1>3. ASSUME NEW p \in Players,
             \/ PartyCommand(p) /\ UNCHANGED <<place, prey, corpse, fought>>
             \/ Enter(p) \/ Exit(p)
             \/ \E m \in Maps : Walk(p, m)
             \/ Stick(p) \/ Hit(p) \/ Open(p) \/ Take(p) \/ Close(p)
      PROVE  FALSE
  BY <1>3 DEF Enter, Exit, Walk, Stick, Hit, Open, Take, Close
<1>4. ASSUME OtherObject \/ Aggro \/ Rot \/ Respawn \/ UNCHANGED gameVars PROVE FALSE
  BY <1>4 DEF OtherObject, Aggro, Rot, Respawn, gameVars, bountyVars
<1> QED BY <1>1, <1>2, <1>3, <1>4 DEF GameNext

(* A corpse is locked for a player who fought the monster in this session or killed
   it, or for the party of one, whatever memory its pointer to its enemy refers to. *)
THEOREM BountyIsEarned == GameSpec => BountyEarned
<1>1. GameInit => Inv /\ PreyType /\ Fought
  BY InitInv, FoughtInit DEF GameInit
<1>2. Inv /\ PreyType /\ Fought /\ [GameNext]_gameVars => (Inv /\ PreyType /\ Fought)'
  BY GameStep, PartyStepKeeps, FoughtKeeps
<1>3. [Earned]_gameVars =>
        [corpse = NULL /\ corpse' # NULL =>
           /\ corpse'.kind = "player" => corpse'.lock \in fought \cup {given'.by}
           /\ corpse'.kind = "party" =>
                \E p \in fought \cup {given'.by} :
                   party[p] # NULL /\ struct[party[p]].name = corpse'.lock]_gameVars
  BY DEF Earned, For
<1> QED BY <1>1, <1>2, <1>3, StepEarned, PTL DEF GameSpec, BountyEarned

-----------------------------------------------------------------------------
(* Types of what is in a party structure.                                  *)

Record == [name : Names \cup {NULL}, leader : Players \cup {NULL},
           members : Seq(Players), loot : Modes, idx : Nat]

LEMMA BlankTyped == Blank \in Record /\ Blank.members = <<>>
  BY ModesAssumption DEF Blank, Record

LEMMA LeftTyped ==
    ASSUME NEW r \in Record, Whole(r), NEW p \in Players, Occurs(p, r.members)
    PROVE  Left(r, p) \in Record
<1> DEFINE rest == RemoveAt(r.members, Position(r.members, p))
<1>1. rest \in Seq(Players)
  BY WithoutIs DEF Whole
<1>2. Left(r, p) = IF rest = <<>> THEN Blank
                   ELSE [r EXCEPT !.members = rest,
                                  !.leader = IF r.leader = p THEN Head(rest) ELSE r.leader]
  BY DEF Left
<1> HIDE DEF rest
<1>3. rest # <<>> => Head(rest) \in Players
  BY <1>1
<1> QED BY <1>1, <1>2, <1>3, BlankTyped DEF Record

LEMMA PartyTypeInit == Init => PartyType
<1> SUFFICES ASSUME Init PROVE PartyType OBVIOUS
<1>1. struct \in [Structs -> Record] BY BlankTyped DEF Init
<1> QED BY <1>1 DEF Init, PartyType, Record

LEMMA RemoveTyped ==
    ASSUME Inv, PartyType, NEW p \in Players, party[p] # NULL, RemoveMember(p),
           online' \subseteq online
    PROVE  PartyType'
<1>1. /\ party[p] \in Structs /\ Whole(struct[party[p]])
      /\ Occurs(p, struct[party[p]].members)
  BY InUse DEF Parties
<1>2. struct[party[p]] \in Record
  BY <1>1 DEF PartyType, Record
<1>3. Left(struct[party[p]], p) \in Record
  BY <1>1, <1>2, LeftTyped
<1>4. struct' \in [Structs -> Record]
  BY <1>1, <1>3 DEF PartyType, Record, RemoveMember
<1> QED BY <1>4 DEF PartyType, Record, RemoveMember

LEMMA PartyTypeKeeps == Inv /\ PartyType /\ [Next]_partyVars => PartyType'
<1> SUFFICES ASSUME Inv, PartyType, [Next]_partyVars PROVE PartyType'
  OBVIOUS
<1>0. /\ online \subseteq Players /\ party \in [Players -> Structs \cup {NULL}]
      /\ struct \in [Structs -> Record]
  BY DEF PartyType, Record
<1>1. ASSUME online' \subseteq Players, party' \in [Players -> Structs \cup {NULL}],
             struct' \in [Structs -> Record]
      PROVE  PartyType'
  BY <1>1 DEF PartyType, Record
<1>2. ASSUME NEW p \in Players, NEW n \in Names, Form(p, n) PROVE PartyType'
  <2>1. PICK s \in Structs \ Parties :
          /\ struct' = [struct EXCEPT ![s] = [Blank EXCEPT !.name = n, !.leader = p,
                                                           !.members = <<p>>]]
          /\ party' = [party EXCEPT ![p] = s]
    BY <1>2 DEF Form
  <2>2. <<p>> \in Seq(Players) OBVIOUS
  <2>3. [Blank EXCEPT !.name = n, !.leader = p, !.members = <<p>>] \in Record
    BY <2>2, BlankTyped DEF Record
  <2> QED BY <1>0, <1>1, <1>2, <2>1, <2>3 DEF Form
<1>3. ASSUME NEW p \in Players, NEW s \in Structs, Join(p, s) PROVE PartyType'
  <2>1. struct[s] \in Record BY <1>0
  <2>2. Cons(p, struct[s].members) \in Seq(Players) BY <2>1 DEF Record, Cons
  <2>3. [struct[s] EXCEPT !.members = Cons(p, struct[s].members)] \in Record
    BY <2>1, <2>2 DEF Record
  <2>4. struct' = [struct EXCEPT ![s] = [struct[s] EXCEPT !.members = Cons(p, struct[s].members)]]
    BY <1>3, <1>0 DEF Join
  <2> QED BY <1>0, <1>1, <1>3, <2>3, <2>4 DEF Join
<1>4. ASSUME NEW p \in Players, Leave(p) PROVE PartyType'
  BY <1>4, RemoveTyped DEF Leave
<1>5. ASSUME NEW p \in Players, NEW q \in Players, Kick(p, q) PROVE PartyType'
  <2>1. /\ party[p] # NULL /\ RemoveMember(q) /\ online' = online
        /\ \E i \in DOMAIN struct[party[p]].members : struct[party[p]].members[i] = q
    BY <1>5 DEF Kick, Leads, Members, ToSet
  <2>2. party[p] \in Structs /\ Occurs(q, struct[party[p]].members)
    BY <1>0, <2>1 DEF Occurs
  <2>3. party[q] # NULL
    BY <2>2, NullAssumption DEF Inv, Linked
  <2> QED BY <2>1, <2>3, RemoveTyped
<1>6. ASSUME NEW p \in Players, NEW q \in Players, HandOver(p, q) PROVE PartyType'
  <2>1. /\ party[q] \in Structs /\ online' = online /\ party' = party
        /\ struct' = [struct EXCEPT ![party[q]].leader = q]
    BY <1>0, <1>6 DEF HandOver, Leads
  <2>2. struct[party[q]] \in Record BY <1>0, <2>1
  <2>3. [struct[party[q]] EXCEPT !.leader = q] \in Record BY <2>2 DEF Record
  <2> QED BY <1>0, <1>1, <2>1, <2>3
<1>7. ASSUME NEW p \in Players, NEW mode \in Modes, SetLoot(p, mode) PROVE PartyType'
  <2>1. /\ party[p] \in Structs /\ online' = online /\ party' = party
        /\ struct' = [struct EXCEPT ![party[p]].loot = mode]
    BY <1>0, <1>7 DEF SetLoot, Leads
  <2>2. struct[party[p]] \in Record BY <1>0, <2>1
  <2>3. [struct[party[p]] EXCEPT !.loot = mode] \in Record BY <2>2 DEF Record
  <2> QED BY <1>0, <1>1, <2>1, <2>3
<1>8. ASSUME NEW p \in Players, LogIn(p) PROVE PartyType'
  BY <1>0, <1>1, <1>8 DEF LogIn
<1>9. ASSUME NEW p \in Players, LogOut(p) PROVE PartyType'
  <2>1. online' \subseteq online BY <1>9 DEF LogOut
  <2>2. CASE party[p] = NULL BY <1>0, <1>1, <1>9, <2>1, <2>2 DEF LogOut
  <2>3. CASE party[p] # NULL BY <1>9, <2>1, <2>3, RemoveTyped DEF LogOut
  <2> QED BY <2>2, <2>3
<1>10. ASSUME NEW s \in Parties, NEW i \in Nat, Advance(s, i) PROVE PartyType'
  <2>1. s \in Structs /\ struct[s] \in Record BY <1>0 DEF Parties
  <2>2. [struct[s] EXCEPT !.idx = i] \in Record BY <2>1 DEF Record
  <2> QED BY <1>0, <1>1, <1>10, <2>1, <2>2 DEF Advance
<1>11. CASE UNCHANGED partyVars
  BY <1>0, <1>1, <1>11 DEF partyVars
<1> QED
  BY <1>2, <1>3, <1>4, <1>5, <1>6, <1>7, <1>8, <1>9, <1>10, <1>11 DEF Next, PartyCommand

-----------------------------------------------------------------------------
(* Those who are near, and what is kept of a list.                         *)

(* A function on 1 .. n is a sequence of that length.                      *)
LEMMA IsSequence ==
    ASSUME NEW S, NEW n \in Nat, NEW f \in [1 .. n -> S]
    PROVE  f \in Seq(S) /\ Len(f) = n
<1>1. f \in Seq(S) BY IsASeq
<1>2. Len(f) \in Nat /\ DOMAIN f = 1 .. Len(f) BY <1>1, LenProperties
<1>3. 1 .. n = 1 .. Len(f) BY <1>2
<1> QED BY <1>1, <1>2, <1>3

LEMMA SelectedIs ==
    ASSUME NEW S, NEW inv \in Seq(S), NEW left
    PROVE  /\ IsFiniteSet({i \in DOMAIN inv : left[i]})
           /\ Len(Selected(inv, left)) = Cardinality({i \in DOMAIN inv : left[i]})
           /\ Len(Selected(inv, left)) \in 0 .. Len(inv)
           /\ Selected(inv, left) \in Seq(S)
<1> DEFINE T == {i \in DOMAIN inv : left[i]}
           kept == Ascending(T)
           n == Len(inv)
           c == Cardinality(T)
<1>1. n \in Nat /\ DOMAIN inv = 1 .. n /\ inv \in [1 .. n -> S]
  BY LenProperties
<1>2. T \in SUBSET (1 .. n) BY <1>1
<1>3. Selected(inv, left) = [j \in DOMAIN kept |-> inv[kept[j]]]
  BY DEF Selected
<1> HIDE DEF T, n
<1>4. IsFiniteSet(T) /\ c \in 0 .. n /\ kept \in [1 .. c -> T]
  BY <1>1, <1>2, AscendingIs
<1> HIDE DEF kept, c
<1>5. [j \in 1 .. c |-> inv[kept[j]]] \in [1 .. c -> S] /\ DOMAIN kept = 1 .. c /\ c \in Nat
  <2>1. \A i \in T : inv[i] \in S BY <1>1, <1>2
  <2>2. \A j \in 1 .. c : kept[j] \in T BY <1>4
  <2>3. c \in Nat BY <1>1, <1>4
  <2> QED BY <1>4, <2>1, <2>2, <2>3
<1>6. Selected(inv, left) \in [1 .. c -> S] BY <1>3, <1>5
<1>7. Selected(inv, left) \in Seq(S) /\ Len(Selected(inv, left)) = c
  BY <1>5, <1>6, IsSequence
<1> QED BY <1>4, <1>7 DEF T, n, c

LEMMA NearAtIs ==
    ASSUME Inv, PartyType, NEW p \in Players, party[p] # NULL,
           NEW list, list = struct[party[p]].members
    PROVE  /\ party[p] \in Parties /\ struct[party[p]] \in Record
           /\ list \in Seq(Players) /\ Len(list) \in Nat
           /\ NearAt(p) \in Seq(1 .. Len(list)) /\ Len(NearAt(p)) \in 1 .. Len(list)
           /\ \A i \in 1 .. Len(NearAt(p)) :
                /\ NearAt(p)[i] \in 1 .. Len(list) /\ Near(p, list[NearAt(p)[i]])
                /\ NearAt(p)[i] + (Len(NearAt(p)) - i) <= Len(list)
           /\ Mates(p) \in SUBSET Players /\ IsFiniteSet(Mates(p))
           /\ Cardinality(Mates(p)) = Len(NearAt(p))
           /\ \A i \in 1 .. Len(list) : Near(p, list[i]) => list[i] \in Mates(p)
<1> DEFINE n == Len(list)
           T == {i \in 1 .. n : Near(p, list[i])}
           at == NearAt(p)
           c == Cardinality(T)
<1>1. /\ party[p] \in Parties /\ Whole(struct[party[p]]) /\ Occurs(p, list)
      /\ struct[party[p]] \in Record
  BY InUse DEF PartyType, Record, Parties
<1>2. list \in Seq(Players) /\ n \in Nat /\ DOMAIN list = 1 .. n /\ list \in [1 .. n -> Players]
  BY <1>1, LenProperties DEF Whole
<1>3. T \in SUBSET (1 .. n) /\ at = Ascending(T)
  BY <1>2 DEF NearAt
<1> HIDE DEF n
<1>4. /\ IsFiniteSet(T) /\ c \in 0 .. n /\ at \in [1 .. c -> T]
      /\ \A i \in 1 .. c : at[i] + (c - i) <= n
  <2> HIDE DEF T, at
  <2> QED BY <1>2, <1>3, AscendingIs
<1>5. c # 0
  <2>1. PICK i \in 1 .. n : list[i] = p BY <1>1, <1>2 DEF Occurs
  <2>2. i \in T BY <2>1 DEF Near
  <2> HIDE DEF T
  <2> QED BY <1>4, <2>2, FS_EmptySet
<1>6. at \in Seq(1 .. n) /\ Len(at) = c
  <2>1. T \subseteq 1 .. n BY <1>3
  <2>2. at \in [1 .. c -> 1 .. n]
    <3> HIDE DEF T, at, c
    <3> QED BY <1>4, <2>1
  <2>3. c \in Nat BY <1>2, <1>4
  <2> HIDE DEF at, c
  <2> QED BY <2>2, <2>3, IsSequence
<1>7. ASSUME NEW i \in 1 .. c PROVE at[i] \in 1 .. n /\ Near(p, list[at[i]])
  <2>1. at[i] \in T BY <1>4
  <2> QED BY <2>1
<1>8. Mates(p) = {q \in Players : Near(p, q) /\ \E i \in 1 .. n : list[i] = q}
  BY <1>2 DEF Mates, Members, ToSet
<1>9. IsFiniteSet(Mates(p)) /\ Cardinality(Mates(p)) = c
  <2> DEFINE f == [i \in T |-> list[i]]
             M == Mates(p)
  <2>1. f \in [T -> M] BY <1>2, <1>8
  <2>2. \A i, j \in T : f[i] = f[j] => i = j BY <1>1, <1>2 DEF Whole, Distinct
  <2>3. \A q \in M : \E i \in T : f[i] = q BY <1>8
  <2>4. f \in Bijection(T, M)
    <3> HIDE DEF f, T, M
    <3> QED BY <2>1, <2>2, <2>3 DEF Bijection, Injection, Surjection, IsInjective
  <2>5. ExistsBijection(T, M)
    <3> HIDE DEF f
    <3> QED BY <2>4 DEF ExistsBijection
  <2> HIDE DEF T, M
  <2>6. IsFiniteSet(M) /\ Cardinality(M) = Cardinality(T) BY <1>4, <2>5, FS_Bijection
  <2> QED BY <2>6 DEF M
<1>10. ASSUME NEW i \in 1 .. n, Near(p, list[i]) PROVE list[i] \in Mates(p)
  BY <1>2, <1>8, <1>10
<1>11. c \in 1 .. n BY <1>4, <1>5
<1> HIDE DEF at, c, T
<1> QED BY <1>1, <1>2, <1>4, <1>6, <1>7, <1>8, <1>9, <1>10, <1>11 DEF n, at

-----------------------------------------------------------------------------
(* What splitting does with the things.                                    *)

(* The index is within those who are near, and the position far enough from *)
(* the end of the list for the rest of them.                               *)
Walking(p, D) ==
    {r \in [idx : Nat, pos : Nat, got : [Players -> Nat], left : [D -> BOOLEAN]] :
        /\ r.idx < Len(NearAt(p)) /\ r.pos > 0
        /\ r.pos + (Len(NearAt(p)) - 1 - r.idx) <= Len(struct[party[p]].members)
        /\ \A q \in Players : r.got[q] > 0 => q \in Mates(p)}

LEMMA SplitStartIs ==
    ASSUME Inv, PartyType, NEW p \in Players, party[p] # NULL, NEW D,
           NEW begin, begin = [idx |-> SplitStart(p).idx, pos |-> SplitStart(p).pos, got |-> Nobody,
                               left |-> [i \in D |-> TRUE]]
    PROVE  begin \in Walking(p, D)
<1> DEFINE list == struct[party[p]].members
           at == NearAt(p)
           c == Len(at)
           n == Len(list)
           k == struct[party[p]].idx
           s == SplitStart(p)
<1>1. /\ c \in 1 .. n /\ n \in Nat /\ k \in Nat
      /\ \A i \in 1 .. c : at[i] \in 1 .. n /\ at[i] + (c - i) <= n
  BY NearAtIs DEF Record
<1>2. s = IF k >= c THEN [idx |-> 0, pos |-> 1] ELSE [idx |-> k, pos |-> at[k + 1]]
  BY DEF SplitStart
<1> HIDE DEF at, c, n, k, s
<1>3. s.idx \in Nat /\ s.pos \in Nat /\ s.idx < c /\ s.pos > 0 /\ s.pos + (c - 1 - s.idx) <= n
  <2>1. CASE k >= c BY <1>1, <1>2, <2>1
  <2>2. CASE ~(k >= c)
    <3>1. k + 1 \in 1 .. c BY <1>1, <2>2
    <3>2. at[k + 1] \in 1 .. n /\ at[k + 1] + (c - (k + 1)) <= n BY <1>1, <3>1
    <3>3. s.idx = k /\ s.pos = at[k + 1] BY <1>2, <2>2
    <3> QED BY <1>1, <2>2, <3>2, <3>3
  <2> QED BY <2>1, <2>2
<1>4. Nobody \in [Players -> Nat] /\ \A q \in Players : ~(Nobody[q] > 0) BY DEF Nobody
<1>5. /\ begin \in [idx : Nat, pos : Nat, got : [Players -> Nat], left : [D -> BOOLEAN]]
      /\ begin.idx = s.idx /\ begin.pos = s.pos /\ begin.got = Nobody
  BY <1>3, <1>4 DEF s
<1> QED BY <1>3, <1>4, <1>5 DEF Walking, at, c, n, s

(* One thing goes to somebody, or nothing does.                            *)
HandedOut(r, i, s) ==
    \/ s.got = r.got /\ s.left = r.left
    \/ \E q \in Players : /\ s.got = [r.got EXCEPT ![q] = @ + 1]
                         /\ s.left = [r.left EXCEPT ![i] = FALSE]

LEMMA SplitOneIs ==
    ASSUME Inv, PartyType, NEW p \in Players, party[p] # NULL,
           NEW D, NEW able, NEW i \in D, NEW r \in Walking(p, D)
    PROVE  /\ SplitOne(p, able, r, i) \in Walking(p, D)
           /\ HandedOut(r, i, SplitOne(p, able, r, i))
<1> DEFINE list == struct[party[p]].members
           at == NearAt(p)
           c == Len(at)
           n == Len(list)
           q == list[r.pos]
           next == SplitNext(p, r)
           s == SplitOne(p, able, r, i)
           Type == [idx : Nat, pos : Nat, got : [Players -> Nat], left : [D -> BOOLEAN]]
<1>1. /\ c \in 1 .. n /\ n \in Nat /\ list \in Seq(Players)
      /\ \A j \in 1 .. n : Near(p, list[j]) => list[j] \in Mates(p)
  BY NearAtIs
<1>2. /\ r \in Type /\ r.idx < c /\ r.pos > 0 /\ r.pos + (c - 1 - r.idx) <= n
      /\ \A x \in Players : r.got[x] > 0 => x \in Mates(p)
  BY DEF Walking
<1>3. next = IF r.idx + 1 >= c THEN [r EXCEPT !.idx = 0, !.pos = 1]
             ELSE [r EXCEPT !.idx = r.idx + 1, !.pos = r.pos + 1]
  BY DEF SplitNext
<1>4. s = IF Near(p, q) /\ i \in able THEN [next EXCEPT !.left[i] = FALSE, !.got[q] = @ + 1]
          ELSE next
  BY DEF SplitOne
<1> HIDE DEF at, c, n, next, s
<1>5. /\ next \in Type /\ next.got = r.got /\ next.left = r.left
      /\ next.idx < c /\ next.pos > 0 /\ next.pos + (c - 1 - next.idx) <= n
  <2>1. r.idx \in Nat /\ r.pos \in Nat BY <1>2
  <2>2. CASE r.idx + 1 >= c
    <3>1. next = [r EXCEPT !.idx = 0, !.pos = 1] BY <1>3, <2>2
    <3>2. /\ next \in Type /\ next.got = r.got /\ next.left = r.left
          /\ next.idx = 0 /\ next.pos = 1
      BY <1>2, <3>1
    <3> QED BY <1>1, <3>2
  <2>3. CASE ~(r.idx + 1 >= c)
    <3>1. next = [r EXCEPT !.idx = r.idx + 1, !.pos = r.pos + 1] BY <1>3, <2>3
    <3>2. /\ next \in Type /\ next.got = r.got /\ next.left = r.left
          /\ next.idx = r.idx + 1 /\ next.pos = r.pos + 1
      <4> DEFINE k == r.idx + 1
                 l == r.pos + 1
      <4>1. k \in Nat /\ l \in Nat BY <2>1
      <4>2. next = [r EXCEPT !.idx = k, !.pos = l] BY <3>1
      <4> HIDE DEF k, l, list
      <4>3. /\ next \in Type /\ next.got = r.got /\ next.left = r.left
            /\ next.idx = k /\ next.pos = l
        BY <1>2, <4>1, <4>2
      <4> QED BY <4>3 DEF k, l
    <3>3. next.idx < c /\ next.pos > 0 /\ next.pos + (c - 1 - next.idx) <= n
      <4> HIDE DEF Type
      <4> QED BY <1>1, <1>2, <2>1, <2>3, <3>2
    <3> QED BY <3>2, <3>3
  <2> QED BY <2>2, <2>3
<1>6. r.idx \in Nat /\ r.pos \in Nat /\ r.pos \in 1 .. n BY <1>1, <1>2
<1>7. q \in Players
  <2>1. list \in [1 .. n -> Players] BY <1>1, LenProperties DEF n
  <2> QED BY <1>6, <2>1
<1>8. CASE Near(p, q) /\ i \in able
  <2>1. q \in Mates(p) BY <1>1, <1>6, <1>8
  <2> HIDE DEF q
  <2>2. s = [next EXCEPT !.left[i] = FALSE, !.got[q] = @ + 1] BY <1>4, <1>8
  <2>3. /\ s.idx = next.idx /\ s.pos = next.pos /\ s \in Type
        /\ s.got = [r.got EXCEPT ![q] = @ + 1] /\ s.left = [r.left EXCEPT ![i] = FALSE]
    <3>1. [next.got EXCEPT ![q] = @ + 1] \in [Players -> Nat] BY <1>5, <1>7
    <3>2. [next.left EXCEPT ![i] = FALSE] \in [D -> BOOLEAN] BY <1>5
    <3>3. s = [next EXCEPT !.left = [next.left EXCEPT ![i] = FALSE],
                           !.got = [next.got EXCEPT ![q] = @ + 1]] BY <1>5, <2>2
    <3> HIDE DEF list
    <3> QED BY <1>5, <3>1, <3>2, <3>3
  <2>4. \A x \in Players : s.got[x] > 0 => x \in Mates(p)
    <3>1. \A x \in Players : x # q => s.got[x] = r.got[x] BY <1>2, <2>3
    <3> QED BY <1>2, <2>1, <3>1
  <2>5. s \in Walking(p, D) BY <1>5, <2>3, <2>4 DEF Walking, c, n, at
  <2> QED BY <1>7, <2>3, <2>5 DEF s, HandedOut
<1>9. CASE ~(Near(p, q) /\ i \in able)
  <2>1. s = next BY <1>4, <1>9
  <2>2. s \in Walking(p, D) BY <1>2, <1>5, <2>1 DEF Walking, c, n, at
  <2> QED BY <1>5, <2>1, <2>2 DEF s, HandedOut
<1> QED BY <1>8, <1>9

(* The steps of the loop over the things.                                  *)
SplitStep(p, inv, able, upto) ==
    /\ SplitAll(p, inv, able) = upto[Len(inv)]
    /\ upto[0] = [idx |-> SplitStart(p).idx, pos |-> SplitStart(p).pos, got |-> Nobody,
                  left |-> [i \in DOMAIN inv |-> TRUE]]
    /\ upto[0] \in Walking(p, DOMAIN inv)
    /\ \A i \in 1 .. Len(inv) : upto[i] = SplitOne(p, able, upto[i - 1], i)

LEMMA SplitAllSteps ==
    ASSUME Inv, PartyType, NEW p \in Players, party[p] # NULL,
           NEW S, NEW inv \in Seq(S), NEW able
    PROVE  \E upto : SplitStep(p, inv, able, upto)
<1> DEFINE D == DOMAIN inv
           n == Len(inv)
           W == Walking(p, D)
           begin == [idx |-> SplitStart(p).idx, pos |-> SplitStart(p).pos, got |-> Nobody,
                     left |-> [i \in D |-> TRUE]]
           Loop(f) == f = [i \in 0 .. n |-> IF i = 0 THEN begin ELSE SplitOne(p, able, f[i - 1], i)]
           upto == CHOOSE f : Loop(f)
<1>1. SplitAll(p, inv, able) = upto[n]
  BY DEF SplitAll
<1>2. n \in Nat /\ D = 1 .. n BY LenProperties
<1>3. begin \in W BY SplitStartIs
<1>4. \A r \in W : \A i \in D : /\ SplitOne(p, able, r, i) \in W
                              /\ HandedOut(r, i, SplitOne(p, able, r, i))
  <2> SUFFICES ASSUME NEW r \in W, NEW i \in D
               PROVE  /\ SplitOne(p, able, r, i) \in W
                      /\ HandedOut(r, i, SplitOne(p, able, r, i))
    OBVIOUS
  <2> HIDE DEF D
  <2>1. SplitOne(p, able, r, i) \in W BY SplitOneIs
  <2>2. HandedOut(r, i, SplitOne(p, able, r, i)) BY SplitOneIs
  <2> QED BY <2>1, <2>2
<1> HIDE DEF W, begin, D, n
<1>5. \E f : Loop(f)
  <2> DEFINE step == [x \in W \X (1 .. n) |-> SplitOne(p, able, x[1], x[2])]
  <2>1. step \in [W \X (1 .. n) -> W] BY <1>2, <1>4
  <2>2. \A r \in W : \A i \in 1 .. n : step[<<r, i>>] = SplitOne(p, able, r, i) OBVIOUS
  <2> HIDE DEF step
  <2>0. PICK f : Looped(f, n, W, begin, step)
    BY <1>2, <1>3, <2>1, LoopExists
  <2>3. /\ f \in [0 .. n -> W] /\ f[0] = begin
        /\ \A i \in 1 .. n : f[i] = step[<<f[i - 1], i>>]
    BY <2>0 DEF Looped
  <2>4. ASSUME NEW i \in 0 .. n
        PROVE  f[i] = IF i = 0 THEN begin ELSE SplitOne(p, able, f[i - 1], i)
    <3>1. CASE i = 0 BY <2>3, <3>1
    <3>2. CASE i # 0
      <4>1. i \in 1 .. n /\ i - 1 \in 0 .. n BY <1>2, <3>2
      <4>2. f[i - 1] \in W BY <2>3, <4>1
      <4> QED BY <2>2, <2>3, <3>2, <4>1, <4>2
    <3> QED BY <3>1, <3>2
  <2>5. f = [i \in 0 .. n |-> f[i]] BY <2>3
  <2> QED BY <2>4, <2>5
<1>6. Loop(upto) BY <1>5
<1> HIDE DEF upto
<1>7. /\ upto[0] = begin
      /\ \A i \in 1 .. n : upto[i] = SplitOne(p, able, upto[i - 1], i)
  <2>1. 0 \in 0 .. n /\ \A i \in 1 .. n : i \in 0 .. n /\ i # 0 BY <1>2
  <2> QED BY <1>6, <2>1
<1> HIDE DEF Loop
<1>8. begin = [idx |-> SplitStart(p).idx, pos |-> SplitStart(p).pos, got |-> Nobody,
               left |-> [i \in DOMAIN inv |-> TRUE]]
  BY DEF begin, D
<1>9. upto[0] \in Walking(p, DOMAIN inv) BY <1>3, <1>7 DEF W, D
<1> HIDE DEF begin
<1>10. SplitStep(p, inv, able, upto) BY <1>1, <1>7, <1>8, <1>9 DEF SplitStep, n
<1> QED BY <1>10

(* What members get is what is no longer left.                             *)
LEMMA SplitAllIs ==
    ASSUME Inv, PartyType, NEW p \in Players, party[p] # NULL,
           NEW S, NEW inv \in Seq(S), NEW able
    PROVE  LET end == SplitAll(p, inv, able)
           IN  /\ end \in Walking(p, DOMAIN inv)
               /\ Total(end.got) + Cardinality({i \in DOMAIN inv : end.left[i]}) = Len(inv)
<1> DEFINE D == DOMAIN inv
           n == Len(inv)
           W == Walking(p, D)
           begin == [idx |-> SplitStart(p).idx, pos |-> SplitStart(p).pos, got |-> Nobody,
                     left |-> [i \in D |-> TRUE]]
<1>1. PICK upto : SplitStep(p, inv, able, upto) BY SplitAllSteps
<1>2. n \in Nat /\ D = 1 .. n BY LenProperties
<1>3. upto[0] \in W /\ upto[0] = begin BY <1>1 DEF SplitStep
<1>4. \A r \in W : \A i \in D : /\ SplitOne(p, able, r, i) \in W
                              /\ HandedOut(r, i, SplitOne(p, able, r, i))
  <2> SUFFICES ASSUME NEW r \in W, NEW i \in D
               PROVE  /\ SplitOne(p, able, r, i) \in W
                      /\ HandedOut(r, i, SplitOne(p, able, r, i))
    OBVIOUS
  <2> HIDE DEF D
  <2>1. SplitOne(p, able, r, i) \in W BY SplitOneIs
  <2>2. HandedOut(r, i, SplitOne(p, able, r, i)) BY SplitOneIs
  <2> QED BY <2>1, <2>2
<1>5. SplitAll(p, inv, able) = upto[n] BY <1>1 DEF SplitStep
<1>7. /\ upto[0] = begin
      /\ \A i \in 1 .. n : upto[i] = SplitOne(p, able, upto[i - 1], i)
  BY <1>1, <1>3 DEF SplitStep
<1> HIDE DEF W, begin, D, n
<1> DEFINE Left1(r) == {j \in D : r.left[j]}
           Good(i) == /\ upto[i] \in W
                      /\ Total(upto[i].got) + Cardinality(Left1(upto[i])) = n
                      /\ \A j \in D : j > i => upto[i].left[j]
           Bad == {i \in 0 .. n : ~Good(i)}
<1>8. IsFiniteSet(D) /\ Cardinality(D) = n BY <1>2, FS_Interval
<1>9. Good(0)
  <2>1. \A j \in D : begin.left[j] BY DEF begin
  <2>2. Left1(begin) = D BY <2>1
  <2>3. Total(Nobody) = 0
    <3>1. \A x \in Players : Nobody[x] = 0 BY DEF Nobody
    <3>2. SumFunctionOnSet(Nobody, Players) = Cardinality({}) * 0
      BY <3>1, PlayersAssumption, SumEqual
    <3> QED BY <3>2, FS_EmptySet DEF Total
  <2>4. begin.got = Nobody BY DEF begin
  <2>5. Total(upto[0].got) + Cardinality(Left1(upto[0])) = n
    <3> HIDE DEF Left1
    <3> QED BY <1>2, <1>7, <1>8, <2>2, <2>3, <2>4
  <2>6. upto[0] \in W BY <1>3, <1>7
  <2>7. \A j \in D : upto[0].left[j] BY <1>7, <2>1
  <2> QED BY <2>5, <2>6, <2>7
<1>10. ASSUME NEW i \in 1 .. n, Good(i - 1) PROVE Good(i)
  <2> DEFINE r == upto[i - 1]
             s == upto[i]
  <2>1. i \in D /\ i \in Nat /\ s = SplitOne(p, able, r, i) BY <1>2, <1>7
  <2>2. r \in W /\ Total(r.got) + Cardinality(Left1(r)) = n /\ \A j \in D : j > i - 1 => r.left[j]
    BY <1>10
  <2> HIDE DEF r, s
  <2>3. /\ s \in W
        /\ HandedOut(r, i, s)
    BY <2>1, <2>2, <1>4
  <2>4. CASE s.got = r.got /\ s.left = r.left
    BY <1>2, <2>1, <2>2, <2>3, <2>4 DEF s
  <2>5. ASSUME NEW q \in Players, s.got = [r.got EXCEPT ![q] = @ + 1],
               s.left = [r.left EXCEPT ![i] = FALSE]
        PROVE  Good(i)
    <3>1. r.got \in [Players -> Nat] /\ r.left \in [D -> BOOLEAN] BY <2>2 DEF W, Walking
    <3>2. Total(s.got) = Total(r.got) + 1
      <4> DEFINE f == r.got
                 g == s.got
      <4>1. /\ \A y \in Players : f[y] \in Int /\ g[y] \in Int
            /\ \A y \in Players \ {q} : g[y] = f[y]
            /\ g[q] = f[q] + 1
        BY <2>5, <3>1
      <4> HIDE DEF f, g
      <4>2. SumFunctionOnSet(g, Players) = SumFunctionOnSet(f, Players) + g[q] - f[q]
        BY <4>1, PlayersAssumption, SumChange
      <4>3. SumFunctionOnSet(f, Players) \in Int BY <4>1, PlayersAssumption, SumSplit
      <4>4. f[q] \in Int BY <4>1
      <4> QED BY <4>1, <4>2, <4>3, <4>4 DEF Total, f, g
    <3>3. Total(r.got) \in Int
      <4> DEFINE f == r.got
      <4>1. \A y \in Players : f[y] \in Int BY <3>1
      <4> HIDE DEF f
      <4>2. SumFunctionOnSet(f, Players) \in Int BY <4>1, PlayersAssumption, SumSplit
      <4> QED BY <4>2 DEF Total, f
    <3>4. r.left[i] BY <1>2, <2>1, <2>2
    <3>5. i \in Left1(r) /\ Left1(s) = Left1(r) \ {i} BY <2>1, <2>5, <3>1, <3>4
    <3>6. IsFiniteSet(Left1(r)) BY <1>8, FS_Subset
    <3>7. Cardinality(Left1(s)) = Cardinality(Left1(r)) - 1 /\ Cardinality(Left1(r)) \in Nat
      <4> HIDE DEF Left1
      <4> QED BY <3>5, <3>6, FS_RemoveElement, FS_CardinalityType
    <3>8. ASSUME NEW j \in D, j > i PROVE s.left[j]
      <4>1. j > i - 1 /\ j # i BY <1>2, <2>1, <3>8
      <4>2. r.left[j] BY <2>2, <4>1
      <4> QED BY <2>5, <3>1, <4>1, <4>2
    <3> HIDE DEF Left1
    <3>9. Total(s.got) + Cardinality(Left1(s)) = n BY <2>2, <3>2, <3>3, <3>7
    <3> QED BY <2>3, <3>8, <3>9 DEF s
  <2> QED BY <2>3, <2>4, <2>5 DEF HandedOut
<1> HIDE DEF Good
<1>11. Bad = {}
  <2> SUFFICES ASSUME Bad # {} PROVE FALSE OBVIOUS
  <2>1. PICK i \in Bad : \A j \in Bad : i <= j
    <3>1. Bad \subseteq Nat BY <1>2
    <3> HIDE DEF Bad
    <3> QED BY <3>1, SmallestNumber
  <2>2. i \in 1 .. n /\ i - 1 \in 0 .. n /\ ~(i <= i - 1) BY <1>2, <1>9, <2>1
  <2>3. i - 1 \notin Bad
    <3> HIDE DEF Bad
    <3> QED BY <2>1, <2>2
  <2>4. Good(i) BY <1>10, <2>2, <2>3
  <2> QED BY <2>1, <2>4
<1>12. Good(n) BY <1>2, <1>11
<1> QED BY <1>5, <1>12 DEF Good, W, D, n

-----------------------------------------------------------------------------
(* What is handed out.                                                     *)

LEMMA Quotient ==
    ASSUME NEW m \in Nat, NEW n \in Nat, n > 0
    PROVE  /\ m \div n \in Nat /\ m % n \in Nat /\ n * (m \div n) \in Nat
           /\ n * (m \div n) + (m % n) = m
<1>1. m \div n \in Nat OBVIOUS
<1>2. m % n \in Nat OBVIOUS
<1>3. m % n = m - n * (m \div n) OBVIOUS
<1>4. n * (m \div n) \in Nat BY <1>1
<1> DEFINE x == n * (m \div n)
           r == m % n
<1>5. x \in Nat /\ r \in Nat /\ r = m - x BY <1>2, <1>3, <1>4
<1>6. x + r = m
  <2> HIDE DEF x, r
  <2> QED BY <1>5
<1>7. n * (m \div n) + (m % n) = m BY ONLY <1>6
<1> HIDE DEF x, r
<1> QED BY <1>1, <1>2, <1>4, <1>7

LEMMA TotalNobody == Nobody \in [Players -> Nat] /\ Total(Nobody) = 0
<1>1. \A x \in Players : Nobody[x] = 0 BY DEF Nobody
<1>2. SumFunctionOnSet(Nobody, Players) = Cardinality({}) * 0
  BY <1>1, PlayersAssumption, SumEqual
<1>3. Nobody \in [Players -> Nat] BY DEF Nobody
<1> QED BY <1>2, <1>3, FS_EmptySet DEF Total

LEMMA TotalOne ==
    ASSUME NEW f \in [Players -> Nat], NEW q \in Players, NEW k \in Int,
           NEW g \in [Players -> Nat], g[q] = f[q] + k,
           \A x \in Players \ {q} : g[x] = f[x]
    PROVE  Total(g) = Total(f) + k /\ Total(f) \in Nat
<1>1. /\ \A y \in Players : f[y] \in Int /\ g[y] \in Int
      /\ \A y \in Players \ {q} : g[y] = f[y]
      /\ g[q] = f[q] + k /\ f[q] \in Int
  OBVIOUS
<1>2. SumFunctionOnSet(g, Players) = SumFunctionOnSet(f, Players) + g[q] - f[q]
  BY ONLY <1>1, q \in Players, PlayersAssumption, SumChange
<1>3. SumFunctionOnSet(f, Players) \in Nat
  <2>1. \A y \in Players : f[y] \in Nat /\ f[y] <= f[y] * 1 OBVIOUS
  <2>2. Players \in SUBSET Players /\ 1 \in Nat /\ Players \ Players = {} OBVIOUS
  <2> QED BY <2>1, <2>2, PlayersAssumption, SumScaled
<1> QED BY <1>1, <1>2, <1>3 DEF Total

LEMMA CoinsDivided ==
    ASSUME NEW M \in SUBSET Players, NEW n \in Nat, n > 0, Cardinality(M) = n,
           NEW first \in M, NEW m \in Nat,
           NEW g, g = [q \in Players |-> g[q]],
           \A q \in Players : g[q] = IF q \notin M THEN 0
                                     ELSE (m \div n) + IF q = first THEN m % n ELSE 0
    PROVE  g \in [Players -> Nat] /\ Total(g) = m
<1> DEFINE d == m \div n
           r == m % n
           f == [q \in Players |-> IF q \in M THEN d ELSE 0]
<1>1. d \in Nat /\ r \in Nat /\ n * d + r = m BY Quotient
<1>2. /\ g = [q \in Players |-> g[q]]
      /\ \A q \in Players : g[q] = IF q \notin M THEN 0 ELSE d + IF q = first THEN r ELSE 0
  OBVIOUS
<1> HIDE DEF d, r
<1>3. f \in [Players -> Nat] /\ f[first] = d BY <1>1
<1>4. /\ g \in [Players -> Nat] /\ g[first] = f[first] + r
      /\ \A q \in Players \ {first} : g[q] = f[q]
  <2>1. \A q \in Players : g[q] \in Nat BY <1>1, <1>2
  <2>2. g \in [Players -> Nat] BY <1>2, <2>1
  <2>3. g[first] = d + r BY <1>2
  <2>4. \A q \in Players \ {first} : g[q] = f[q] BY <1>1, <1>2
  <2> QED BY <1>3, <2>2, <2>3, <2>4
<1>5. SumFunctionOnSet(f, Players) = Cardinality(M) * d
  <2>1. \A q \in M : f[q] = d OBVIOUS
  <2>2. \A q \in Players \ M : f[q] = 0 OBVIOUS
  <2> HIDE DEF f
  <2> QED BY <1>1, <2>1, <2>2, PlayersAssumption, SumEqual
<1> HIDE DEF f
<1>6. first \in Players /\ r \in Int BY <1>1
<1>7. Total(g) = Total(f) + r
  BY ONLY <1>3, <1>4, <1>6, TotalOne
<1> QED BY <1>1, <1>4, <1>5, <1>7 DEF Total

GivenType == [by : Players \cup {NULL}, exp : [Players -> Nat], things : [Players -> Nat],
              coins : [Players -> Nat], back : [Players -> Nat]]

(* Everything of a corpse is handed out or still there, and those who get  *)
(* something are members of the party who are near.                        *)
Shared(p, inv, result) ==
    /\ result.idx \in Nat /\ result.coins \in 0 .. corpse.coins
    /\ result.given \in GivenType /\ result.given.exp = Nobody
    /\ Total(result.given.things) + Cardinality({i \in DOMAIN inv : result.inv[i]}) = Len(inv)
    /\ corpse.coins = result.coins + Total(result.given.coins)
    /\ \A q \in Players :
         result.given.things[q] + result.given.coins[q] > 0 => q \in Mates(p)

LEMMA SplitShares ==
    ASSUME Inv, PartyType, NEW p \in Players, party[p] # NULL, corpse.coins \in Nat,
           NEW S, NEW inv \in Seq(S), NEW able
    PROVE  Shared(p, inv, Split(p, inv, able))
<1> DEFINE list == struct[party[p]].members
           at == NearAt(p)
           n == Len(at)
           first == list[at[1]]
           M == Mates(p)
           end == SplitAll(p, inv, able)
           m == corpse.coins
           g == [q \in Players |-> IF q \notin M THEN 0
                                   ELSE (m \div n) + IF q = first THEN m % n ELSE 0]
           given1 == [Nothing EXCEPT !.things = end.got, !.coins = g]
           result == Split(p, inv, able)
<1>1. result = [inv |-> end.left, coins |-> 0, idx |-> end.idx, given |-> given1]
  BY DEF Split
<1>2. /\ end \in Walking(p, DOMAIN inv)
      /\ Total(end.got) + Cardinality({i \in DOMAIN inv : end.left[i]}) = Len(inv)
  BY SplitAllIs
<1>3. /\ n \in Nat /\ n > 0 /\ Cardinality(M) = n /\ M \in SUBSET Players /\ first \in M
  <2>1. /\ n \in 1 .. Len(list) /\ Len(list) \in Nat /\ Cardinality(M) = n /\ M \in SUBSET Players
        /\ \A i \in 1 .. n : at[i] \in 1 .. Len(list) /\ Near(p, list[at[i]])
        /\ \A i \in 1 .. Len(list) : Near(p, list[i]) => list[i] \in M
    BY NearAtIs
  <2> HIDE DEF n, M, at, list
  <2>2. 1 \in 1 .. n /\ n \in Nat /\ n > 0 BY <2>1
  <2> QED BY <2>1, <2>2
<1>4. g \in [Players -> Nat] /\ Total(g) = m
  <2>1. m \in Nat OBVIOUS
  <2>2. /\ g = [q \in Players |-> g[q]]
        /\ \A q \in Players : g[q] = IF q \notin M THEN 0
                                     ELSE (m \div n) + IF q = first THEN m % n ELSE 0
    OBVIOUS
  <2> HIDE DEF n, M, first, m, g
  <2> QED BY <1>3, <2>1, <2>2, CoinsDivided
<1>5. \A q \in Players : q \notin M => g[q] = 0 OBVIOUS
<1> HIDE DEF end, g, M, result
<1>6. /\ end.idx \in Nat /\ end.got \in [Players -> Nat]
      /\ \A q \in Players : end.got[q] > 0 => q \in M
  BY <1>2 DEF Walking, M
<1>7. /\ given1 \in GivenType /\ given1.exp = Nobody /\ given1.things = end.got /\ given1.coins = g
  BY <1>4, <1>6, TotalNobody DEF GivenType, Nothing
<1> HIDE DEF given1
<1>8. \A q \in Players : end.got[q] + g[q] > 0 => q \in M
  BY <1>4, <1>5, <1>6
<1>9. /\ result.inv = end.left /\ result.coins = 0 /\ result.idx = end.idx /\ result.given = given1
  BY <1>1
<1>10. 0 \in 0 .. corpse.coins /\ corpse.coins = 0 + Total(g) BY <1>4
<1> QED BY <1>2, <1>6, <1>7, <1>8, <1>9, <1>10 DEF Shared, M, result

LEMMA RandomShares ==
    ASSUME Inv, PartyType, NEW p \in Players, party[p] # NULL, corpse.coins \in Nat,
           NEW S, NEW inv \in Seq(S), NEW able \in SUBSET (DOMAIN inv \cup {0}),
           NEW to \in [able -> Mates(p)]
    PROVE  Shared(p, inv, Random(p, inv, to))
<1> DEFINE D == DOMAIN inv
           n == Len(inv)
           M == Mates(p)
           A == D \cap able
           got == [q \in Players |-> Cardinality({i \in A : to[i] = q})]
           m == corpse.coins
           g == IF 0 \in able THEN [Nobody EXCEPT ![to[0]] = m] ELSE Nobody
           rest == IF 0 \in able THEN 0 ELSE m
           given1 == [Nothing EXCEPT !.things = got, !.coins = g]
           result == Random(p, inv, to)
<1>1. DOMAIN to = able /\ able \subseteq D \cup {0} /\ \A i \in able : to[i] \in M
  OBVIOUS
<1>2. result = [inv |-> [i \in D |-> i \notin able], coins |-> rest,
                idx |-> struct[party[p]].idx, given |-> given1]
  BY <1>1 DEF Random
<1>3. struct[party[p]].idx \in Nat /\ M \in SUBSET Players
  BY NearAtIs DEF Record
<1>4. n \in Nat /\ D = 1 .. n
  BY LenProperties
<1> HIDE DEF D, n, M, m, result
<1>4a. IsFiniteSet(D) /\ Cardinality(D) = n
  BY <1>4, FS_Interval
<1>5. IsFiniteSet(A) /\ A \subseteq D /\ A \subseteq able BY <1>4a, FS_Subset
<1>6. got \in [Players -> Nat]
  <2>1. ASSUME NEW q \in Players PROVE Cardinality({i \in A : to[i] = q}) \in Nat
    <3>1. IsFiniteSet({i \in A : to[i] = q}) BY <1>5, FS_Subset
    <3> QED BY <3>1, FS_CardinalityType
  <2> QED BY <2>1
<1>7. Total(got) = Cardinality(A)
  <2>1. \A i \in A : to[i] \in Players BY <1>1, <1>3, <1>5
  <2> HIDE DEF A
  <2> QED BY <2>1, <1>5, PlayersAssumption, SumShared DEF Total
<1>8. Cardinality(A) + Cardinality(D \ A) = n /\ D \ A = {i \in D : i \notin able}
  <2>1. D \cap A = A OBVIOUS
  <2> HIDE DEF A
  <2>2. Cardinality(D \ A) = Cardinality(D) - Cardinality(D \cap A) BY <1>4a, FS_Difference
  <2>3. Cardinality(A) \in Nat BY <1>5, FS_CardinalityType
  <2>4. Cardinality(D \ A) = n - Cardinality(A) BY <1>4a, <2>1, <2>2
  <2>5. Cardinality(A) + Cardinality(D \ A) = n BY <1>4, <2>3, <2>4
  <2> QED BY <2>5 DEF A
<1>9. \A q \in Players : got[q] > 0 => q \in M
  <2> SUFFICES ASSUME NEW q \in Players, got[q] > 0 PROVE q \in M OBVIOUS
  <2>1. got[q] = Cardinality({i \in A : to[i] = q}) OBVIOUS
  <2> DEFINE his == {i \in A : to[i] = q}
  <2>2. his # {}
    <3>1. Cardinality(his) # 0 BY <2>1, <1>6
    <3> HIDE DEF his
    <3> QED BY <3>1, FS_EmptySet
  <2> QED BY <1>1, <1>5, <2>2
<1>10. m \in Nat BY DEF m
<1>11. /\ g \in [Players -> Nat] /\ rest \in 0 .. m /\ m = rest + Total(g)
       /\ \A q \in Players : g[q] > 0 => q \in M
  <2>1. CASE 0 \in able
    <3>1. to[0] \in M /\ to[0] \in Players BY <1>1, <1>3, <2>1
    <3>2. g = [Nobody EXCEPT ![to[0]] = m] /\ rest = 0 BY <2>1
    <3> DEFINE t == to[0]
    <3>3. /\ Nobody \in [Players -> Nat] /\ t \in Players /\ Total(Nobody) = 0
          /\ \A q \in Players : Nobody[q] = 0
      BY <3>1, TotalNobody DEF Nobody
    <3> HIDE DEF g, rest, t
    <3>4. g = [Nobody EXCEPT ![t] = m] BY <3>2 DEF t
    <3>5. g \in [Players -> Nat] /\ g[t] = Nobody[t] + m /\ \A x \in Players \ {t} : g[x] = Nobody[x]
      BY <1>10, <3>3, <3>4
    <3>6. m \in Int BY <1>10
    <3>7. Total(g) = Total(Nobody) + m BY ONLY <3>3, <3>5, <3>6, TotalOne
    <3>8. \A q \in Players : g[q] > 0 => q \in M BY <3>1, <3>3, <3>5 DEF t
    <3> QED BY <1>10, <3>2, <3>3, <3>5, <3>7, <3>8
  <2>2. CASE 0 \notin able
    <3>1. g = Nobody /\ rest = m BY <2>2
    <3> HIDE DEF g, rest
    <3>2. \A q \in Players : Nobody[q] = 0 BY DEF Nobody
    <3> QED BY <1>10, <3>1, <3>2, TotalNobody
  <2> QED BY <2>1, <2>2
<1> HIDE DEF got, g, rest
<1>12. /\ given1 \in GivenType /\ given1.exp = Nobody /\ given1.things = got /\ given1.coins = g
  BY <1>6, <1>11, TotalNobody DEF GivenType, Nothing
<1> HIDE DEF given1
<1>13. /\ result.idx \in Nat /\ result.coins = rest /\ result.given = given1
       /\ \A i \in D : result.inv[i] = (i \notin able)
  BY <1>2, <1>3
<1>14. {i \in D : result.inv[i]} = D \ A BY <1>8, <1>13
<1>15. \A q \in Players : got[q] + g[q] > 0 => q \in M
  BY <1>6, <1>9, <1>11
<1> HIDE DEF A
<1>16. Total(got) + Cardinality({i \in D : result.inv[i]}) = n BY <1>7, <1>8, <1>14
<1> QED BY <1>11, <1>12, <1>13, <1>15, <1>16 DEF Shared, M, result, D, n, m

-----------------------------------------------------------------------------
(* Experience.                                                             *)

LEMMA AddExpIs ==
    ASSUME NEW T, NEW level \in [T -> Levels], NEW q \in T, NEW n \in Nat
    PROVE  add_exp(level, q, n) \in Nat /\ add_exp(level, q, n) <= n
<1>1. Limit[level[q]] \in Nat BY BountyAssumption
<1> QED BY <1>1 DEF add_exp

LEMMA MatesArePlayers ==
    ASSUME PartyType, NEW p \in Players
    PROVE  Mates(p) \in SUBSET Players
<1>1. CASE party[p] = NULL BY <1>1 DEF Mates
<1>2. CASE party[p] # NULL
  <2>1. struct[party[p]].members \in Seq(Players) BY <1>2 DEF PartyType
  <2>2. Members(party[p]) \subseteq Players
    <3> DEFINE list == struct[party[p]].members
    <3>1. list \in [1 .. Len(list) -> Players] BY <2>1, LenProperties
    <3> HIDE DEF list
    <3>2. \A i \in DOMAIN list : list[i] \in Players BY <3>1
    <3> QED BY <3>2 DEF Members, ToSet, list
  <2> QED BY <2>2 DEF Mates
<1> QED BY <1>1, <1>2

(* No more experience than the kill is worth                               *)
LEMMA SharesIs ==
    ASSUME PartyType, NEW p \in Players, NEW level \in [Mates(p) \cup {p} -> Levels],
           level[p] # 0
    PROVE  /\ Shares(p, level) \in [Players -> Nat]
           /\ Total(Shares(p, level)) <= Gain
<1> DEFINE T == Mates(p) \cup {p}
           sharers == {q \in T : level[q] # 0}
           w == [q \in sharers |-> level[q] + 4]
           shares == SumFunctionOnSet(w, sharers)
           k == Gain \div shares
           others == [q \in Players |->
                        IF q \in sharers \ {p} THEN add_exp(level, q, (level[q] + 4) * k) ELSE 0]
           alone == [Nobody EXCEPT ![p] = add_exp(level, p, Gain)]
           rest == Gain - Total(others)
           all == [others EXCEPT ![p] = add_exp(level, p, rest)]
<1>1. Shares(p, level) = alone \/ Shares(p, level) = all
  <2>1. DOMAIN level = T OBVIOUS
  <2> QED BY <2>1 DEF Shares
<1>2. T \subseteq Players /\ p \in T BY MatesArePlayers
<1>3. Gain \in Nat /\ Levels \subseteq Nat BY BountyAssumption
<1>4. level \in [T -> Levels] OBVIOUS
<1> HIDE DEF T
<1>5. sharers \subseteq T /\ p \in sharers /\ IsFiniteSet(sharers) /\ sharers \in SUBSET Players
  <2>1. sharers \subseteq T /\ p \in sharers BY <1>2
  <2> HIDE DEF sharers
  <2> QED BY <2>1, <1>2, PlayersAssumption, FS_Subset
<1>6. \A q \in sharers : w[q] \in Nat /\ w[q] >= 4 /\ w[q] = level[q] + 4
  <2>1. ASSUME NEW q \in sharers PROVE level[q] \in Nat
    <3>1. level[q] \in Levels BY <1>4, <1>5
    <3> QED BY <1>3, <3>1
  <2>2. \A q \in sharers : w[q] = level[q] + 4 OBVIOUS
  <2> HIDE DEF w, sharers
  <2> QED BY <2>1, <2>2
<1> HIDE DEF w
<1>7. shares \in Nat /\ shares > 0
  <2> HIDE DEF sharers
  <2>1. \A q \in sharers : w[q] \in Int BY <1>6
  <2>2. SumFunctionOnSet(w, sharers) = w[p] + SumFunctionOnSet(w, sharers \ {p})
    BY <2>1, <1>5, SumSplit
  <2> DEFINE S == sharers \ {p}
             none == [q \in S |-> 0]
  <2>3. SumFunctionOnSet(w, S) \in Nat
    <3>1. IsFiniteSet(S) BY <1>5, FS_Subset
    <3>2. \A q \in S : w[q] \in Nat /\ w[q] <= w[q] * 1 BY <1>6
    <3> HIDE DEF S
    <3>3. S \in SUBSET S /\ 1 \in Nat /\ S \ S = {} OBVIOUS
    <3> QED BY <3>1, <3>2, <3>3, SumScaled
  <2> QED BY <2>2, <2>3, <1>5, <1>6
<1> HIDE DEF shares
<1>8. k \in Nat /\ shares * k \in Nat /\ shares * k <= Gain
  <2>1. /\ k \in Nat /\ Gain % shares \in Nat /\ shares * k \in Nat
        /\ shares * k + (Gain % shares) = Gain
    BY <1>3, <1>7, Quotient
  <2> DEFINE x == shares * k
             r == Gain % shares
  <2>2. x \in Nat /\ r \in Nat /\ x + r = Gain BY <2>1
  <2>3. x <= Gain
    <3> HIDE DEF x, r
    <3> QED BY <2>2
  <2> QED BY <2>1, <2>3
<1> HIDE DEF k
<1>9. ASSUME NEW q \in sharers
      PROVE  /\ add_exp(level, q, (level[q] + 4) * k) \in Nat
             /\ add_exp(level, q, (level[q] + 4) * k) <= w[q] * k
  <2>1. w[q] * k \in Nat /\ q \in T /\ (level[q] + 4) * k = w[q] * k BY <1>5, <1>6, <1>8
  <2> QED BY <2>1, <1>4, AddExpIs
<1>10. /\ others \in [Players -> Nat] /\ others[p] = 0
       /\ \A q \in sharers : others[q] \in Nat /\ others[q] <= w[q] * k
       /\ \A q \in Players \ sharers : others[q] = 0
  <2>1. \A q \in Players : others[q] \in Nat BY <1>9
  <2>2. others[p] = 0 /\ \A q \in Players \ sharers : others[q] = 0 OBVIOUS
  <2>3. ASSUME NEW q \in sharers PROVE others[q] <= w[q] * k
    <3>1. q \in Players /\ w[q] * k \in Nat BY <1>5, <1>6, <1>8
    <3>2. CASE q = p BY <2>2, <3>1, <3>2
    <3>3. CASE q # p BY <1>9, <3>1, <3>3
    <3> QED BY <3>2, <3>3
  <2> HIDE DEF sharers
  <2>4. others \in [Players -> Nat] BY <2>1
  <2> HIDE DEF others
  <2> QED BY <1>5, <2>1, <2>2, <2>3, <2>4
<1> HIDE DEF others, sharers
<1>11. Total(others) \in Nat /\ Total(others) <= Gain
  <2>1. \A q \in sharers : w[q] \in Nat BY <1>6
  <2>2. /\ SumFunctionOnSet(others, Players) \in Nat
        /\ SumFunctionOnSet(others, Players) <= SumFunctionOnSet(w, sharers) * k
    BY <2>1, <1>5, <1>8, <1>10, PlayersAssumption, SumScaled
  <2> QED BY <2>2, <1>3, <1>7, <1>8 DEF Total, shares
<1>12. ASSUME NEW f \in [Players -> Nat], f[p] = 0, NEW x \in Nat, NEW g,
              g = [f EXCEPT ![p] = x]
       PROVE  g \in [Players -> Nat] /\ Total(g) = Total(f) + x
  <2>1. /\ g \in [Players -> Nat] /\ x \in Int /\ g[p] = f[p] + x
        /\ \A q \in Players \ {p} : g[q] = f[q]
    BY <1>12
  <2> QED BY ONLY <2>1, f \in [Players -> Nat], p \in Players, TotalOne
<1>13. alone \in [Players -> Nat] /\ Total(alone) <= Gain
  <2> DEFINE x == add_exp(level, p, Gain)
  <2>1. x \in Nat /\ x <= Gain BY <1>2, <1>3, <1>4, AddExpIs
  <2>2. Nobody \in [Players -> Nat] /\ Nobody[p] = 0 /\ Total(Nobody) = 0
    BY TotalNobody DEF Nobody
  <2> HIDE DEF x
  <2>3. alone = [Nobody EXCEPT ![p] = x] BY DEF x
  <2> HIDE DEF alone
  <2>4. alone \in [Players -> Nat] /\ Total(alone) = Total(Nobody) + x
    BY <1>12, <2>1, <2>2, <2>3
  <2> QED BY <2>1, <2>2, <2>4
<1>14. all \in [Players -> Nat] /\ Total(all) <= Gain
  <2> DEFINE x == add_exp(level, p, rest)
  <2>1. rest \in Nat BY <1>3, <1>11
  <2>2. x \in Nat /\ x <= rest
    <3> HIDE DEF rest
    <3> QED BY <2>1, <1>2, <1>4, AddExpIs
  <2> HIDE DEF x
  <2>3. all = [others EXCEPT ![p] = x] BY DEF x
  <2> HIDE DEF all
  <2>4. all \in [Players -> Nat] /\ Total(all) = Total(others) + x
    BY <1>10, <1>12, <2>2, <2>3
  <2> QED BY <1>3, <1>11, <2>2, <2>4
<1> HIDE DEF alone, all
<1> QED BY <1>1, <1>13, <1>14

-----------------------------------------------------------------------------
(* Opening a corpse.                                                       *)

Corpses == [kind : {"corpse", "player", "party"}, lock : Players \cup Names \cup {NULL},
            inv : Seq(Players \cup {NULL}), coins : 0 .. Coins, viewers : SUBSET Players]

(* What opening does, whichever way the party shares; S is what is in it.  *)
Opened(p, S) ==
    /\ corpse' \in Corpses
    /\ corpse'.kind = corpse.kind /\ corpse'.lock = corpse.lock
    /\ corpse'.viewers = corpse.viewers \cup {p}
    /\ corpse'.inv \in Seq(S)
    /\ Len(corpse.inv) = Len(corpse'.inv) + Total(given'.things) + Total(given'.back)
    /\ corpse.coins = corpse'.coins + Total(given'.coins)
    /\ given' \in GivenType /\ given'.exp = Nobody
    /\ \A q \in Players : given'.things[q] + given'.coins[q] + given'.back[q] > 0 =>
                             corpse.kind = "party" /\ q \in Mates(p)
    /\ UNCHANGED partyVars \/ \E s \in Parties, i \in Nat : Advance(s, i)

LEMMA NothingIs ==
    /\ Nothing \in GivenType /\ Nothing.exp = Nobody
    /\ Nothing.things = Nobody /\ Nothing.coins = Nobody /\ Nothing.by = NULL
    /\ Nothing.back = Nobody
  BY TotalNobody DEF Nothing, GivenType

LEMMA TotalNat == ASSUME NEW f \in [Players -> Nat] PROVE Total(f) \in Nat
<1>1. \A y \in Players : f[y] \in Nat /\ f[y] <= f[y] * 1 OBVIOUS
<1>2. Players \in SUBSET Players /\ 1 \in Nat /\ Players \ Players = {} OBVIOUS
<1>3. SumFunctionOnSet(f, Players) \in Nat BY <1>1, <1>2, PlayersAssumption, SumScaled
<1> QED BY <1>3 DEF Total

(* What is left in the corpse and the arrows that went back are all of it.  *)
LEMMA ReturnedIs ==
    ASSUME NEW S, corpse.inv \in Seq(S), NEW back \in SUBSET Players, NEW inv,
           inv = Selected(corpse.inv, [i \in DOMAIN corpse.inv |-> corpse.inv[i] \notin back])
    PROVE  /\ inv \in Seq(S) /\ Len(inv) \in Nat
           /\ Returned(back) \in [Players -> Nat]
           /\ Len(corpse.inv) = Len(inv) + Total(Returned(back))
           /\ \A q \in Players : Returned(back)[q] > 0 => q \in back
<1> DEFINE all == corpse.inv
           n == Len(all)
           left == [i \in DOMAIN all |-> all[i] \notin back]
           D == {i \in 1 .. n : all[i] \in back}
           got == [q \in Players |-> Cardinality({i \in D : all[i] = q})]
<1>1. all \in Seq(S) /\ n \in Nat /\ DOMAIN all = 1 .. n BY LenProperties
<1>2. IsFiniteSet(1 .. n) /\ Cardinality(1 .. n) = n BY <1>1, FS_Interval
<1>3. IsFiniteSet(D) /\ Cardinality(D) \in Nat
  <2>1. D \subseteq 1 .. n OBVIOUS
  <2> HIDE DEF D, n
  <2> QED BY <1>2, <2>1, FS_Subset, FS_CardinalityType
<1>4. Cardinality((1 .. n) \ D) = n - Cardinality(D)
  <2> DEFINE N == 1 .. n
  <2>1. N \cap D = D OBVIOUS
  <2>2. IsFiniteSet(N) /\ Cardinality(N) = n BY <1>2
  <2> HIDE DEF D, n, N
  <2>3. Cardinality(N \ D) = Cardinality(N) - Cardinality(N \cap D) BY <2>2, FS_Difference
  <2>4. Cardinality(N \ D) = n - Cardinality(D) BY <2>1, <2>2, <2>3
  <2> QED BY <2>4 DEF N
<1>5. (1 .. n) \ D = {i \in DOMAIN all : left[i]} BY <1>1
<1>6. inv = Selected(all, left) OBVIOUS
<1>7. inv \in Seq(S) /\ Len(inv) = Cardinality({i \in DOMAIN all : left[i]})
  <2>1. all \in Seq(S) BY <1>1
  <2> HIDE DEF all, left
  <2>2. /\ Selected(all, left) \in Seq(S)
        /\ Len(Selected(all, left)) = Cardinality({i \in DOMAIN all : left[i]})
    BY ONLY <2>1, SelectedIs
  <2> QED BY ONLY <1>6, <2>2
<1>8. Len(inv) = n - Cardinality(D)
  <2> HIDE DEF D, n, left, all
  <2> QED BY <1>4, <1>5, <1>7
<1>9. ASSUME NEW q \in Players
      PROVE  Returned(back)[q] = got[q] /\ got[q] \in Nat /\ (q \notin back => got[q] = 0)
  <2> DEFINE his == {i \in D : all[i] = q}
  <2>1. IsFiniteSet(his) /\ Cardinality(his) \in Nat BY <1>3, FS_Subset, FS_CardinalityType
  <2>2. CASE q \in back
    <3>1. His(q) = his BY <1>1, <2>2 DEF His
    <3> QED BY <2>1, <2>2, <3>1 DEF Returned
  <2>3. CASE q \notin back
    <3>1. his = {} BY <2>3
    <3>2. Cardinality(his) = 0
      <4> HIDE DEF his
      <4> QED BY <3>1, FS_EmptySet
    <3> QED BY <2>3, <3>2 DEF Returned
  <2> QED BY <2>2, <2>3
<1>10. Returned(back) = got BY <1>9 DEF Returned
<1>11. got \in [Players -> Nat] BY <1>9
<1>12. Total(got) = Cardinality(D)
  <2>1. \A i \in D : all[i] \in Players OBVIOUS
  <2> HIDE DEF D, all
  <2> QED BY <1>3, <2>1, PlayersAssumption, SumShared DEF Total
<1>13. \A q \in Players : got[q] > 0 => q \in back BY <1>9
<1> HIDE DEF got, D, n
<1>14. n = Len(inv) + Total(got) /\ Len(inv) \in Nat
  <2>1. Len(inv) \in Nat BY <1>7, LenProperties
  <2> QED BY <1>1, <1>3, <1>8, <1>12, <2>1
<1> QED BY <1>7, <1>10, <1>11, <1>13, <1>14 DEF n

(* Nothing is handed out, but members may have got their arrows back.      *)
LEMMA OnlyOpened ==
    ASSUME corpse \in Corpses, NEW p \in Players, NEW S \in SUBSET (Players \cup {NULL}),
           NEW inv \in Seq(S), NEW b \in [Players -> Nat], Len(corpse.inv) = Len(inv) + Total(b),
           \A q \in Players : b[q] > 0 => corpse.kind = "party" /\ q \in Mates(p),
           corpse' = [corpse EXCEPT !.viewers = @ \cup {p}, !.inv = inv],
           UNCHANGED partyVars, given' = [Nothing EXCEPT !.back = b]
    PROVE  Opened(p, S)
<1>1. inv \in Seq(Players \cup {NULL}) /\ Len(inv) \in Nat
  BY LenProperties
<1>2. /\ corpse' \in Corpses /\ corpse'.kind = corpse.kind /\ corpse'.lock = corpse.lock
      /\ corpse'.viewers = corpse.viewers \cup {p} /\ corpse'.inv = inv
      /\ corpse'.coins = corpse.coins
  BY <1>1 DEF Corpses
<1>2a. corpse.coins \in Nat BY BountyAssumption DEF Corpses
<1>3. /\ given' \in GivenType /\ given'.exp = Nobody /\ given'.back = b
      /\ given'.things = Nobody /\ given'.coins = Nobody
  BY NothingIs DEF GivenType
<1>4. Total(Nobody) = 0 /\ \A q \in Players : Nobody[q] = 0
  BY TotalNobody DEF Nobody
<1>5. \A q \in Players : given'.things[q] + given'.coins[q] + given'.back[q] > 0 =>
                             corpse.kind = "party" /\ q \in Mates(p)
  BY <1>3, <1>4
<1>6. Total(b) \in Nat BY TotalNat
<1>7. /\ Len(corpse.inv) = Len(corpse'.inv) + Total(given'.things) + Total(given'.back)
      /\ corpse.coins = corpse'.coins + Total(given'.coins)
  BY <1>1, <1>2, <1>2a, <1>3, <1>4, <1>6
<1> QED BY <1>2, <1>3, <1>5, <1>7 DEF Opened

LEMMA HandledIs ==
    ASSUME corpse \in Corpses, NEW p \in Players, NEW S \in SUBSET (Players \cup {NULL}),
           corpse.kind = "party", party[p] \in Parties,
           NEW inv \in Seq(S), NEW back, Returned(back) \in [Players -> Nat],
           Len(corpse.inv) = Len(inv) + Total(Returned(back)),
           \A q \in Players : Returned(back)[q] > 0 => q \in Mates(p),
           NEW r, Shared(p, inv, r), Handled(p, r, inv, back)
    PROVE  Opened(p, S)
<1> DEFINE T == {i \in DOMAIN inv : r.inv[i]}
           rest == Selected(inv, r.inv)
<1>1. /\ rest \in Seq(S) /\ Len(rest) = Cardinality(T) /\ Len(rest) \in Nat
      /\ Len(inv) \in Nat
  <2>1. /\ Len(rest) = Cardinality(T) /\ Len(rest) \in 0 .. Len(inv) /\ rest \in Seq(S)
    BY SelectedIs
  <2>2. Len(inv) \in Nat BY LenProperties
  <2> HIDE DEF rest, T
  <2> QED BY <2>1, <2>2
<1>2. /\ r.idx \in Nat /\ r.coins \in 0 .. corpse.coins
      /\ r.given \in GivenType /\ r.given.exp = Nobody
      /\ Total(r.given.things) + Cardinality(T) = Len(inv)
      /\ corpse.coins = r.coins + Total(r.given.coins)
      /\ \A q \in Players : r.given.things[q] + r.given.coins[q] > 0 => q \in Mates(p)
  BY DEF Shared
<1>3. /\ corpse' = [corpse EXCEPT !.viewers = @ \cup {p}, !.coins = r.coins, !.inv = rest]
      /\ given' = [r.given EXCEPT !.back = Returned(back)] /\ Advance(party[p], r.idx)
  BY DEF Handled
<1> HIDE DEF T, rest
<1>4. rest \in Seq(Players \cup {NULL}) BY <1>1
<1>5. r.coins \in 0 .. Coins BY <1>2, BountyAssumption DEF Corpses
<1>6. /\ corpse' \in Corpses /\ corpse'.kind = corpse.kind /\ corpse'.lock = corpse.lock
      /\ corpse'.viewers = corpse.viewers \cup {p} /\ corpse'.inv = rest
      /\ corpse'.coins = r.coins
  BY <1>3, <1>4, <1>5 DEF Corpses
<1>7. /\ given' \in GivenType /\ given'.exp = Nobody /\ given'.back = Returned(back)
      /\ given'.things = r.given.things /\ given'.coins = r.given.coins
  <2> DEFINE b == Returned(back)
             g == r.given
  <2>1. b \in [Players -> Nat] /\ g \in GivenType /\ g.exp = Nobody /\ given' = [g EXCEPT !.back = b]
    BY <1>2, <1>3
  <2> HIDE DEF b, g
  <2>2. /\ given' \in GivenType /\ given'.exp = Nobody /\ given'.back = b
        /\ given'.things = g.things /\ given'.coins = g.coins
    BY <2>1 DEF GivenType
  <2> QED BY <2>2 DEF b, g
<1>8. Len(corpse.inv) = Len(corpse'.inv) + Total(given'.things) + Total(given'.back)
  <2>1. r.given.things \in [Players -> Nat] BY <1>2 DEF GivenType
  <2>2. Total(r.given.things) \in Nat /\ Total(Returned(back)) \in Nat BY <2>1, TotalNat
  <2> QED BY <1>1, <1>2, <1>6, <1>7, <2>2
<1>8a. \A q \in Players : given'.things[q] + given'.coins[q] + given'.back[q] > 0 => q \in Mates(p)
  <2> SUFFICES ASSUME NEW q \in Players, given'.things[q] + given'.coins[q] + given'.back[q] > 0
               PROVE  q \in Mates(p)
    OBVIOUS
  <2>1. r.given.things[q] \in Nat /\ r.given.coins[q] \in Nat BY <1>2 DEF GivenType
  <2>2. Returned(back)[q] \in Nat OBVIOUS
  <2>3. r.given.things[q] + r.given.coins[q] > 0 \/ Returned(back)[q] > 0 BY <1>7, <2>1, <2>2
  <2> QED BY <1>2, <2>3
<1>9. \E s \in Parties, i \in Nat : Advance(s, i) BY <1>2, <1>3
<1> QED BY <1>1, <1>2, <1>6, <1>7, <1>8, <1>8a, <1>9 DEF Opened

LEMMA OpenGives ==
    ASSUME Inv, PartyType, corpse \in Corpses, NEW p \in Players,
           NEW S \in SUBSET (Players \cup {NULL}), corpse.inv \in Seq(S), Open(p)
    PROVE  Opened(p, S)
<1>0. Len(corpse.inv) \in Nat BY LenProperties
<1>1. CASE corpse.kind # "party"
  <2>1. corpse' = [corpse EXCEPT !.viewers = @ \cup {p}] /\ UNCHANGED partyVars /\ Quiet
    BY <1>1 DEF Open
  <2>2. corpse' = [corpse EXCEPT !.viewers = @ \cup {p}, !.inv = corpse.inv]
    BY <2>1 DEF Corpses
  <2>3. given' = [Nothing EXCEPT !.back = Nobody]
    BY <2>1, NothingIs DEF Quiet, GivenType
  <2>4. /\ Nobody \in [Players -> Nat] /\ Len(corpse.inv) = Len(corpse.inv) + Total(Nobody)
        /\ \A q \in Players : ~(Nobody[q] > 0)
    BY <1>0, TotalNobody DEF Nobody
  <2> QED BY <2>1, <2>2, <2>3, <2>4, OnlyOpened
<1>2. CASE corpse.kind = "party"
  <2>1. party[p] # NULL
    BY <1>2 DEF Open, MayOpen, party_can_open_corpse
  <2>2. party[p] \in Parties
    BY <2>1, InUse
  <2>3. corpse.coins \in Nat BY BountyAssumption DEF Corpses
  <2> DEFINE Back(back) == Selected(corpse.inv, [i \in DOMAIN corpse.inv |-> corpse.inv[i] \notin back])
  <2>4. PICK back \in SUBSET Reclaimed(p) :
          LET inv == Back(back)
          IN  \/ \E able \in SUBSET (DOMAIN inv \cup {0}) :
                   \E to \in [able -> Mates(p)] : Handled(p, Random(p, inv, to), inv, back)
              \/ \E able \in SUBSET DOMAIN inv : Handled(p, Split(p, inv, able), inv, back)
              \/ /\ corpse' = [corpse EXCEPT !.viewers = @ \cup {p}, !.inv = inv]
                 /\ given' = [Nothing EXCEPT !.back = Returned(back)]
                 /\ UNCHANGED partyVars
    BY <1>2 DEF Open
  <2> DEFINE inv == Back(back)
  <2>4a. back \subseteq Mates(p) /\ back \in SUBSET Players
    <3>1. Mates(p) \in SUBSET Players BY MatesArePlayers
    <3> QED BY <3>1 DEF Reclaimed
  <2>5. /\ inv \in Seq(S) /\ Returned(back) \in [Players -> Nat]
        /\ Len(corpse.inv) = Len(inv) + Total(Returned(back))
        /\ \A q \in Players : Returned(back)[q] > 0 => q \in Mates(p)
    <3>1. /\ inv \in Seq(S) /\ Returned(back) \in [Players -> Nat]
          /\ Len(corpse.inv) = Len(inv) + Total(Returned(back))
          /\ \A q \in Players : Returned(back)[q] > 0 => q \in back
      BY <2>4a, ReturnedIs
    <3> HIDE DEF inv
    <3> QED BY <2>4a, <3>1
  <2>6. \/ \E able \in SUBSET (DOMAIN inv \cup {0}) :
             \E to \in [able -> Mates(p)] : Handled(p, Random(p, inv, to), inv, back)
        \/ \E able \in SUBSET DOMAIN inv : Handled(p, Split(p, inv, able), inv, back)
        \/ /\ corpse' = [corpse EXCEPT !.viewers = @ \cup {p}, !.inv = inv]
           /\ given' = [Nothing EXCEPT !.back = Returned(back)]
           /\ UNCHANGED partyVars
    BY <2>4
  <2> HIDE DEF inv
  <2>7. ASSUME NEW able \in SUBSET (DOMAIN inv \cup {0}), NEW to \in [able -> Mates(p)],
               Handled(p, Random(p, inv, to), inv, back)
        PROVE  Opened(p, S)
    <3>1. Shared(p, inv, Random(p, inv, to)) BY <2>1, <2>3, <2>5, RandomShares
    <3> QED BY <1>2, <2>2, <2>5, <2>7, <3>1, HandledIs
  <2>8. ASSUME NEW able \in SUBSET DOMAIN inv, Handled(p, Split(p, inv, able), inv, back)
        PROVE  Opened(p, S)
    <3>1. Shared(p, inv, Split(p, inv, able)) BY <2>1, <2>3, <2>5, SplitShares
    <3> QED BY <1>2, <2>2, <2>5, <2>8, <3>1, HandledIs
  <2>9. ASSUME corpse' = [corpse EXCEPT !.viewers = @ \cup {p}, !.inv = inv],
               given' = [Nothing EXCEPT !.back = Returned(back)], UNCHANGED partyVars
        PROVE  Opened(p, S)
    BY <1>2, <2>5, <2>9, OnlyOpened
  <2> QED BY <2>6, <2>7, <2>8, <2>9
<1> QED BY <1>1, <1>2

-----------------------------------------------------------------------------
(* Types of the game.                                                      *)

LockType(c) ==
    c.lock \in (CASE c.kind = "corpse" -> {NULL}
                 [] c.kind = "player" -> Players
                 [] OTHER -> Names)

(* The monster as those in the game see it.                                *)
Hunted ==
    /\ prey \in [alive : BOOLEAN, arrows : SUBSET online,
                 enemy : [type : {"none", "player", "other", "dead"},
                          who : online \cup {NULL}, same : BOOLEAN]]
    /\ (prey.enemy.who # NULL) <=> (prey.enemy.type = "player")

(* A corpse and those who look into it                                     *)
Lying ==
    corpse # NULL =>
      /\ corpse \in Corpses /\ LockType(corpse)
      /\ corpse.inv \in Seq(online \cup {NULL})
      /\ corpse.viewers \subseteq {p \in online : place[p] = Lair}

(* A monster that lives has left nothing yet.                              *)
Single == prey.alive => corpse = NULL

GameInv ==
    /\ Inv /\ PartyType
    /\ place \in [Players -> Maps]
    /\ Hunted /\ Lying /\ Single
    /\ given \in GivenType /\ fought \subseteq online

LEMMA GameInvType == GameInv => GameType
<1> SUFFICES ASSUME GameInv PROVE GameType OBVIOUS
<1>1. corpse # NULL =>
         /\ corpse.kind \in {"corpse", "player", "party"}
         /\ corpse.lock \in (CASE corpse.kind = "corpse" -> {NULL}
                              [] corpse.kind = "player" -> Players
                              [] OTHER -> Names)
         /\ corpse.inv \in Seq(online \cup {NULL})
         /\ corpse.coins \in 0 .. Coins
         /\ corpse.viewers \subseteq {p \in online : place[p] = Lair}
  BY DEF GameInv, Lying, LockType, Corpses
<1> QED BY <1>1 DEF GameInv, GameType, Hunted, GivenType

LEMMA OrderedIs ==
    ASSUME NEW T, IsFiniteSet(T)
    PROVE  SetToSeq(T) \in Seq(T)
<1> DEFINE c == Cardinality(T)
<1>1. c \in Nat BY FS_CardinalityType
<1>2. \E f \in [1 .. c -> T] : IsInjective(f)
  <2>1. ExistsBijection(1 .. c, T) BY FS_CardinalityType
  <2>2. PICK f : f \in Bijection(1 .. c, T) BY <2>1 DEF ExistsBijection
  <2>3. f \in [1 .. c -> T] /\ \A i, j \in 1 .. c : f[i] = f[j] => i = j
    BY <2>2 DEF Bijection, Injection, IsInjective
  <2> QED BY <2>3 DEF IsInjective
<1>3. SetToSeq(T) \in [1 .. c -> T]
  BY <1>2 DEF SetToSeq
<1> HIDE DEF c
<1> QED BY <1>1, <1>3, IsSequence

LEMMA CorpseTyped ==
    ASSUME Inv, PartyType, Hunted, NEW e \in Enemies, e.type = "player" => e.who \in Players,
           NEW things \in Nat, NEW coins \in 0 .. Coins
    PROVE  /\ Corpse(e, things, coins) \in Corpses /\ LockType(Corpse(e, things, coins))
           /\ Corpse(e, things, coins).inv \in Seq(online \cup {NULL})
           /\ Corpse(e, things, coins).viewers = {}
<1> DEFINE w == Heir(e)
           bare == [i \in 1 .. things |-> NULL]
           kept == Kept(e)
           inv == bare \o SetToSeq(kept)
           c == Corpse(e, things, coins)
<1>1. online \subseteq Players
  BY DEF PartyType
<1>2. inv \in Seq(online \cup {NULL})
  <2>1. kept \subseteq online BY DEF Kept, Hunted
  <2> HIDE DEF kept
  <2>2. IsFiniteSet(online) BY <1>1, PlayersAssumption, FS_Subset
  <2>3. IsFiniteSet(kept) BY <2>1, <2>2, FS_Subset
  <2>4. SetToSeq(kept) \in Seq(kept) BY <2>3, OrderedIs
  <2>5. SetToSeq(kept) \in Seq(online \cup {NULL}) BY <2>1, <2>4
  <2>6. bare \in [1 .. things -> online \cup {NULL}] OBVIOUS
  <2>7. bare \in Seq(online \cup {NULL})
    <3> HIDE DEF bare
    <3> QED BY <2>6, IsSequence
  <2> HIDE DEF bare
  <2> QED BY <2>5, <2>7, ConcatProperties
<1>3. c = [kind    |-> IF w = NULL THEN "corpse" ELSE IF ForParty(w) THEN "party" ELSE "player",
           lock    |-> IF w # NULL /\ ForParty(w) THEN struct[party[w]].name ELSE w,
           inv     |-> inv, coins |-> coins, viewers |-> {}]
  BY DEF Corpse
<1>4. w \in Players \cup {NULL} BY DEF Heir
<1> HIDE DEF w, inv, c
<1>5. inv \in Seq(Players \cup {NULL}) BY <1>1, <1>2
<1>6. CASE w = NULL
  <2>1. c = [kind |-> "corpse", lock |-> NULL, inv |-> inv, coins |-> coins, viewers |-> {}]
    BY <1>3, <1>6
  <2> QED BY <1>2, <1>5, <2>1 DEF Corpses, LockType, c
<1>7. CASE w # NULL /\ ForParty(w)
  <2>1. party[w] \in Parties BY <1>4, <1>7, InUse DEF ForParty
  <2> DEFINE n == struct[party[w]].name
  <2>2. n \in Names BY <2>1 DEF Parties, PartyType
  <2>3. c = [kind |-> "party", lock |-> n, inv |-> inv, coins |-> coins, viewers |-> {}]
    BY <1>3, <1>7
  <2> HIDE DEF n
  <2> QED BY <1>2, <1>5, <2>2, <2>3 DEF Corpses, LockType, c
<1>8. CASE w # NULL /\ ~ForParty(w)
  <2>1. c = [kind |-> "player", lock |-> w, inv |-> inv, coins |-> coins, viewers |-> {}]
    BY <1>3, <1>8
  <2>2. w \in Players BY <1>4, <1>8
  <2> QED BY <1>2, <1>5, <2>1, <2>2 DEF Corpses, LockType, c
<1> QED BY <1>6, <1>7, <1>8

LEMMA GameInvInit == GameInit => GameInv
<1> SUFFICES ASSUME GameInit PROVE GameInv OBVIOUS
<1>1. Inv /\ PartyType BY InitInv, PartyTypeInit DEF GameInit
<1>2. Hunted BY DEF GameInit, Alive, NoEnemy, Hunted
<1>3. Lying /\ Single /\ fought \subseteq online BY DEF GameInit, Lying, Single
<1>4. given \in GivenType BY NothingIs DEF GameInit
<1>5. place \in [Players -> Maps] BY LairAssumption DEF GameInit
<1> QED BY <1>1, <1>2, <1>3, <1>4, <1>5 DEF GameInv

(* Every step of the game is one of the parties, or none.                  *)
LEMMA GameNextParties == GameInv /\ [GameNext]_gameVars => [Next]_partyVars
<1> SUFFICES ASSUME GameInv, [GameNext]_gameVars PROVE [Next]_partyVars
  OBVIOUS
<1>1. CASE UNCHANGED gameVars
  BY <1>1 DEF gameVars
<1>2. ASSUME NEW p \in Players,
             PartyCommand(p) \/ Enter(p) \/ Exit(p)
      PROVE  Next
  BY <1>2 DEF Enter, Exit, Next
<1>3. ASSUME NEW p \in Players,
             \/ \E m \in Maps : Walk(p, m)
             \/ Stick(p) \/ Hit(p) \/ Kill(p) \/ Take(p) \/ Close(p)
      PROVE  UNCHANGED partyVars
  BY <1>3 DEF Walk, Stick, Hit, Kill, Take, Close
<1>4. ASSUME NEW p \in Players, Open(p) PROVE [Next]_partyVars
  <2>1. corpse \in Corpses /\ corpse.inv \in Seq(online \cup {NULL}) /\ online \subseteq Players
    BY <1>4 DEF Open, GameInv, Lying, PartyType
  <2>2. Opened(p, online \cup {NULL})
    BY <1>4, <2>1, OpenGives DEF GameInv
  <2> QED BY <2>2 DEF Opened, Next
<1>5. ASSUME OtherObject \/ Aggro \/ KilledByBeast \/ Rot \/ Respawn
      PROVE  UNCHANGED partyVars
  BY <1>5 DEF OtherObject, Aggro, KilledByBeast, Rot, Respawn
<1> QED BY <1>1, <1>2, <1>3, <1>4, <1>5 DEF GameNext

(* Who is in the game, and where, only changes when they come, go or walk. *)
LEMMA OnlineStays ==
    ASSUME GameInv, NEW p \in Players,
           \/ PartyCommand(p) /\ UNCHANGED <<place, prey, corpse, fought>>
           \/ Stick(p) \/ Hit(p) \/ Kill(p) \/ Open(p) \/ Take(p) \/ Close(p)
    PROVE  online' = online /\ place' = place
<1>1. CASE PartyCommand(p) /\ UNCHANGED <<place, prey, corpse, fought>>
  BY <1>1 DEF PartyCommand, Form, Join, Leave, Kick, HandOver, SetLoot
<1>2. CASE Stick(p) \/ Hit(p) \/ Kill(p) \/ Take(p) \/ Close(p)
  BY <1>2 DEF Stick, Hit, Kill, Take, Close, partyVars
<1>3. CASE Open(p)
  <2>1. corpse \in Corpses /\ corpse.inv \in Seq(online \cup {NULL}) /\ online \subseteq Players
    BY <1>3 DEF Open, GameInv, Lying, PartyType
  <2>2. Opened(p, online \cup {NULL})
    BY <1>3, <2>1, OpenGives DEF GameInv
  <2>3. place' = place BY <1>3 DEF Open
  <2> QED BY <2>2, <2>3 DEF Opened, Advance, partyVars
<1> QED BY <1>1, <1>2, <1>3

LEMMA HuntedKeeps == GameInv /\ [GameNext]_gameVars => Hunted'
<1> SUFFICES ASSUME GameInv, [GameNext]_gameVars PROVE Hunted' OBVIOUS
<1>0. Hunted /\ online \subseteq Players /\ NULL \notin Players
  BY NullAssumption DEF GameInv, PartyType
<1>1. ASSUME UNCHANGED <<prey, online>> PROVE Hunted'
  BY <1>0, <1>1 DEF Hunted
<1>2. ASSUME NEW p \in Players, Enter(p) PROVE Hunted'
  <2>1. online' = online \cup {p} BY <1>2 DEF Enter, LogIn
  <2>2. CASE UNCHANGED prey BY <1>0, <2>1, <2>2 DEF Hunted
  <2>3. CASE prey' = [prey EXCEPT !.enemy = [type |-> "player", who |-> p, same |-> FALSE]]
    BY <1>0, <2>1, <2>3 DEF Hunted
  <2> QED BY <1>2, <2>2, <2>3 DEF Enter
<1>3. ASSUME NEW p \in Players, Exit(p) PROVE Hunted'
  <2>1. /\ online' = online \ {p}
        /\ prey' = [prey EXCEPT !.arrows = @ \ {p},
                                !.enemy = IF @.type = "player" /\ @.who = p
                                          THEN [NoEnemy EXCEPT !.type = "dead"] ELSE @]
    BY <1>3 DEF Exit, LogOut
  <2>2. CASE prey.enemy.type = "player" /\ prey.enemy.who = p
    BY <1>0, <2>1, <2>2 DEF Hunted, NoEnemy
  <2>3. CASE ~(prey.enemy.type = "player" /\ prey.enemy.who = p)
    <3>1. prey.enemy.who # p BY <1>0, <2>3 DEF Hunted
    <3>2. prey' = [prey EXCEPT !.arrows = @ \ {p}] BY <2>1, <2>3 DEF Hunted
    <3> QED BY <1>0, <2>1, <3>1, <3>2 DEF Hunted
  <2> QED BY <2>2, <2>3
<1>4. ASSUME NEW p \in Players, Stick(p) PROVE Hunted'
  <2>1. online' = online BY <1>4, OnlineStays
  <2> QED BY <1>0, <1>4, <2>1 DEF Stick, Hunted
<1>5. ASSUME NEW e, prey' = [prey EXCEPT !.enemy = e], online' = online,
             e \in {NoEnemy, Beast} \cup {Enemy(p) : p \in online}
                   \cup {[Beast EXCEPT !.same = FALSE], [NoEnemy EXCEPT !.type = "dead"]}
                   \cup {prey.enemy}
      PROVE  Hunted'
  <2>1. /\ e \in [type : {"none", "player", "other", "dead"}, who : online \cup {NULL},
                  same : BOOLEAN]
        /\ (e.who # NULL) <=> (e.type = "player")
    <3>1. CASE e = prey.enemy BY <1>0, <3>1 DEF Hunted
    <3>2. CASE e = NoEnemy BY <3>2 DEF NoEnemy
    <3>6. CASE e = Beast BY <3>6 DEF Beast
    <3>3. CASE e = [Beast EXCEPT !.same = FALSE] BY <3>3 DEF Beast
    <3>4. CASE e = [NoEnemy EXCEPT !.type = "dead"] BY <3>4 DEF NoEnemy
    <3>5. ASSUME NEW p \in online, e = Enemy(p)
          PROVE  /\ e \in [type : {"none", "player", "other", "dead"}, who : online \cup {NULL},
                           same : BOOLEAN]
                 /\ (e.who # NULL) <=> (e.type = "player")
      BY <1>0, <3>5 DEF Enemy
    <3> QED BY <1>5, <3>1, <3>2, <3>3, <3>4, <3>5, <3>6
  <2> QED BY <1>0, <1>5, <2>1 DEF Hunted
<1>6. ASSUME NEW p \in Players, Hit(p) PROVE Hunted'
  <2>1. PICK e \in Provoked(prey.enemy, Enemy(p)) : prey' = [prey EXCEPT !.enemy = e]
    BY <1>6 DEF Hit
  <2>2. e = prey.enemy \/ e = Enemy(p)
    BY DEF Provoked
  <2>3. online' = online BY <1>6, OnlineStays
  <2>4. p \in online BY <1>6 DEF Hit
  <2> QED BY <1>5, <2>1, <2>2, <2>3, <2>4
<1>7. ASSUME prey' = Slain \/ prey' = Alive, online' = online PROVE Hunted'
  <2>1. /\ NoEnemy \in [type : {"none", "player", "other", "dead"}, who : online' \cup {NULL},
                        same : BOOLEAN]
        /\ NoEnemy.who = NULL /\ NoEnemy.type = "none"
    BY DEF NoEnemy
  <2>2. /\ prey' \in [alive : BOOLEAN, arrows : {{}},
                      enemy : [type : {"none", "player", "other", "dead"},
                               who : online' \cup {NULL}, same : BOOLEAN]]
        /\ prey'.enemy = NoEnemy
    <3>1. CASE prey' = Slain BY <2>1, <3>1 DEF Slain
    <3>2. CASE prey' = Alive BY <2>1, <3>2 DEF Alive
    <3> QED BY <1>7, <3>1, <3>2
  <2> QED BY <2>1, <2>2 DEF Hunted
<1>8. CASE OtherObject
  <2>1. online' = online BY <1>8 DEF OtherObject, partyVars
  <2>2. PICK e : /\ e \in {[Beast EXCEPT !.same = FALSE], [NoEnemy EXCEPT !.type = "dead"]}
                 /\ prey' = [prey EXCEPT !.enemy = e]
    BY <1>8 DEF OtherObject
  <2> QED BY <1>5, <2>1, <2>2
<1>9. CASE Aggro
  <2>1. online' = online BY <1>9 DEF Aggro, partyVars
  <2>2. PICK e : /\ e \in {NoEnemy, Beast} \cup {Enemy(p) : p \in online}
                 /\ prey' = [prey EXCEPT !.enemy = e]
    BY <1>9 DEF Aggro
  <2> QED BY <1>5, <2>1, <2>2
<1>10. CASE Respawn
  <2>1. online' = online BY <1>10 DEF Respawn, partyVars
  <2> QED BY <1>7, <1>10, <2>1 DEF Respawn
<1>11. CASE KilledByBeast
  <2>1. online' = online BY <1>11 DEF KilledByBeast, partyVars
  <2> QED BY <1>7, <1>11, <2>1 DEF KilledByBeast
<1>12. ASSUME NEW p \in Players, Kill(p) PROVE Hunted'
  <2>1. online' = online BY <1>12, OnlineStays
  <2> QED BY <1>7, <1>12, <2>1 DEF Kill
<1>13. ASSUME NEW p \in Players,
              \/ PartyCommand(p) /\ UNCHANGED <<place, prey, corpse, fought>>
              \/ Open(p) \/ Take(p) \/ Close(p)
       PROVE  Hunted'
  <2>1. online' = online BY <1>13, OnlineStays
  <2>2. prey' = prey BY <1>13 DEF Open, Take, Close
  <2> QED BY <1>1, <2>1, <2>2
<1>14. ASSUME (\E p \in Players, m \in Maps : Walk(p, m)) \/ Rot \/ UNCHANGED gameVars
       PROVE  Hunted'
  <2>1. online' = online /\ prey' = prey
    BY <1>14 DEF Walk, Rot, gameVars, bountyVars, partyVars
  <2> QED BY <1>1, <2>1
<1> QED BY <1>2, <1>3, <1>4, <1>6, <1>8, <1>9, <1>10, <1>11, <1>12, <1>13, <1>14 DEF GameNext

LEMMA OwnerlessIs ==
    ASSUME NEW T, NEW inv \in Seq(T \cup {NULL}), NEW p
    PROVE  /\ Ownerless(inv, p) \in Seq((T \ {p}) \cup {NULL})
           /\ Len(Ownerless(inv, p)) = Len(inv)
<1> DEFINE n == Len(inv)
           new == Ownerless(inv, p)
<1>1. n \in Nat /\ DOMAIN inv = 1 .. n /\ inv \in [1 .. n -> T \cup {NULL}]
  BY LenProperties
<1>2. new \in [1 .. n -> (T \ {p}) \cup {NULL}]
  <2> HIDE DEF n
  <2> QED BY <1>1 DEF Ownerless
<1> HIDE DEF n, new
<1>3. new \in Seq((T \ {p}) \cup {NULL}) /\ Len(new) = n BY <1>1, <1>2, IsSequence
<1> QED BY <1>3 DEF n, new

LEMMA LyingKeeps == GameInv /\ [GameNext]_gameVars => Lying'
<1> SUFFICES ASSUME GameInv, [GameNext]_gameVars, corpse' # NULL PROVE Lying' BY DEF Lying
<1>0. /\ corpse # NULL =>
           /\ corpse \in Corpses /\ LockType(corpse) /\ corpse.inv \in Seq(online \cup {NULL})
           /\ corpse.viewers \subseteq {p \in online : place[p] = Lair}
      /\ online \subseteq Players /\ place \in [Players -> Maps]
  BY DEF GameInv, Lying, PartyType
<1>1. ASSUME corpse' \in Corpses, LockType(corpse'), corpse'.inv \in Seq(online' \cup {NULL}),
             corpse'.viewers \subseteq {p \in online' : place'[p] = Lair}
      PROVE  Lying'
  BY <1>1 DEF Lying, LockType, Corpses
<1>2. ASSUME corpse # NULL, corpse' \in Corpses, corpse'.kind = corpse.kind,
             corpse'.lock = corpse.lock
      PROVE  LockType(corpse')
  BY <1>0, <1>2 DEF LockType
<1>3. ASSUME UNCHANGED <<corpse, online, place>> PROVE Lying'
  BY <1>0, <1>1, <1>3
<1>4. ASSUME NEW p \in Players, Enter(p) PROVE Lying'
  <2>1. /\ online' = online \cup {p} /\ p \notin online /\ corpse' = corpse
        /\ \E m \in Maps : place' = [place EXCEPT ![p] = m]
    BY <1>4 DEF Enter, LogIn
  <2>2. \A q \in online : q \in online' /\ place'[q] = place[q] BY <1>0, <2>1
  <2>3. corpse.inv \in Seq(online' \cup {NULL}) BY <1>0, <2>1
  <2> QED BY <1>0, <1>1, <2>1, <2>2, <2>3
<1>5. ASSUME NEW p \in Players, Exit(p) PROVE Lying'
  <2>1. /\ online' = online \ {p} /\ place' = [place EXCEPT ![p] = Lair]
        /\ corpse # NULL
        /\ corpse' = [corpse EXCEPT !.viewers = @ \ {p}, !.inv = Ownerless(corpse.inv, p)]
    BY <1>5 DEF Exit, LogOut
  <2> DEFINE inv == Ownerless(corpse.inv, p)
  <2>2. inv \in Seq(online' \cup {NULL}) BY <1>0, <2>1, OwnerlessIs
  <2>3. inv \in Seq(Players \cup {NULL}) BY <1>0, <2>1, <2>2
  <2> HIDE DEF inv
  <2>4. corpse' = [corpse EXCEPT !.viewers = @ \ {p}, !.inv = inv] BY <2>1 DEF inv
  <2>5. /\ corpse' \in Corpses /\ corpse'.kind = corpse.kind /\ corpse'.lock = corpse.lock
        /\ corpse'.inv = inv /\ corpse'.viewers = corpse.viewers \ {p}
    BY <1>0, <2>1, <2>3, <2>4 DEF Corpses
  <2>6. \A q \in online \ {p} : q \in online' /\ place'[q] = place[q] BY <1>0, <2>1
  <2>7. corpse'.viewers \subseteq {q \in online' : place'[q] = Lair} BY <1>0, <2>1, <2>5, <2>6
  <2> QED BY <1>1, <1>2, <2>1, <2>2, <2>5, <2>7
<1>6. ASSUME NEW p \in Players, NEW m \in Maps, Walk(p, m) PROVE Lying'
  <2>1. /\ online' = online /\ place' = [place EXCEPT ![p] = m]
        /\ corpse # NULL
        /\ corpse' = [corpse EXCEPT !.viewers = @ \ {p}]
    BY <1>6 DEF Walk, partyVars
  <2>2. /\ corpse' \in Corpses /\ corpse'.kind = corpse.kind /\ corpse'.lock = corpse.lock
        /\ corpse'.inv = corpse.inv /\ corpse'.viewers = corpse.viewers \ {p}
    BY <1>0, <2>1 DEF Corpses
  <2>3. corpse'.viewers \subseteq {q \in online' : place'[q] = Lair} BY <1>0, <2>1, <2>2
  <2> QED BY <1>0, <1>1, <1>2, <2>1, <2>2, <2>3
<1>7. ASSUME NEW e \in Enemies, e.type = "player" => e.who \in Players, NEW things \in Nat,
             NEW coins \in 0 .. Coins, corpse' = Corpse(e, things, coins),
             UNCHANGED <<online, place>>
      PROVE  Lying'
  <2> DEFINE c == Corpse(e, things, coins)
  <2>1. /\ c \in Corpses /\ LockType(c) /\ c.inv \in Seq(online \cup {NULL}) /\ c.viewers = {}
    BY <1>7, CorpseTyped DEF GameInv
  <2> HIDE DEF c
  <2>2. corpse' = c BY <1>7 DEF c
  <2> QED BY <1>1, <1>7, <2>1, <2>2
<1>8. ASSUME NEW p \in Players, Kill(p) PROVE Lying'
  <2>1. PICK e \in Provoked(prey.enemy, Enemy(p)) :
          corpse' = NULL \/ corpse' = Corpse(IF e.type = "player" THEN e ELSE Enemy(p), Things, Coins)
    BY <1>8 DEF Kill
  <2> DEFINE f == IF e.type = "player" THEN e ELSE Enemy(p)
  <2>2. e = prey.enemy \/ e = Enemy(p)
    BY DEF Provoked
  <2>3. prey.enemy \in Enemies /\ (prey.enemy.type = "player" => prey.enemy.who \in Players)
    BY <1>0 DEF GameInv, Hunted, Enemies
  <2>4. f \in Enemies /\ (f.type = "player" => f.who \in Players)
    BY <2>2, <2>3, EnemiesAre
  <2> HIDE DEF f
  <2>5. corpse' = Corpse(f, Things, Coins) BY <2>1 DEF f
  <2>6. Things \in Nat /\ Coins \in 0 .. Coins BY BountyAssumption
  <2>7. UNCHANGED <<online, place>> BY <1>8, OnlineStays
  <2> QED BY <1>7, <2>4, <2>5, <2>6, <2>7
<1>9. CASE KilledByBeast
  <2>1. corpse' = Corpse(Beast, 0, 0) /\ UNCHANGED <<online, place>>
    BY <1>9 DEF KilledByBeast, partyVars
  <2>2. 0 \in Nat /\ 0 \in 0 .. Coins BY BountyAssumption
  <2> QED BY <1>7, <2>1, <2>2, EnemiesAre
<1>10. ASSUME NEW p \in Players, Open(p) PROVE Lying'
  <2>1. /\ corpse # NULL /\ p \in online /\ place[p] = Lair
        /\ online \cup {NULL} \in SUBSET (Players \cup {NULL})
    BY <1>0, <1>10 DEF Open
  <2>2. Opened(p, online \cup {NULL}) BY <1>0, <1>10, <2>1, OpenGives DEF GameInv
  <2>3. UNCHANGED <<online, place>> BY <1>10, OnlineStays
  <2>4. corpse'.viewers \subseteq {q \in online' : place'[q] = Lair}
    BY <1>0, <2>1, <2>2, <2>3 DEF Opened
  <2> QED BY <1>1, <1>2, <2>1, <2>2, <2>3, <2>4 DEF Opened
<1>11. ASSUME NEW p \in Players, Take(p) PROVE Lying'
  <2>1. corpse # NULL BY <1>11 DEF Take
  <2>2. UNCHANGED <<online, place>> BY <1>11, OnlineStays
  <2>3. ASSUME NEW i \in DOMAIN corpse.inv, corpse' = [corpse EXCEPT !.inv = RemoveAt(@, i)]
        PROVE  Lying'
    <3> DEFINE inv == RemoveAt(corpse.inv, i)
    <3>1. inv \in Seq(online \cup {NULL}) BY <1>0, <2>1, <2>3, RemoveAtIs
    <3>2. inv \in Seq(Players \cup {NULL}) BY <1>0, <3>1
    <3> HIDE DEF inv
    <3>3. corpse' = [corpse EXCEPT !.inv = inv] BY <2>3 DEF inv
    <3>4. /\ corpse' \in Corpses /\ corpse'.kind = corpse.kind /\ corpse'.lock = corpse.lock
          /\ corpse'.inv = inv /\ corpse'.viewers = corpse.viewers
      BY <1>0, <2>1, <3>2, <3>3 DEF Corpses
    <3> QED BY <1>0, <1>1, <1>2, <2>1, <2>2, <3>1, <3>4
  <2>4. ASSUME corpse' = [corpse EXCEPT !.coins = 0] PROVE Lying'
    <3>1. 0 \in 0 .. Coins BY BountyAssumption
    <3>2. /\ corpse' \in Corpses /\ corpse'.kind = corpse.kind /\ corpse'.lock = corpse.lock
          /\ corpse'.inv = corpse.inv /\ corpse'.viewers = corpse.viewers
      BY <1>0, <2>1, <2>4, <3>1 DEF Corpses
    <3> QED BY <1>0, <1>1, <1>2, <2>1, <2>2, <3>2
  <2> QED BY <1>11, <2>3, <2>4 DEF Take
<1>12. ASSUME NEW p \in Players, Close(p) PROVE Lying'
  <2>1. corpse # NULL /\ corpse' = [corpse EXCEPT !.viewers = @ \ {p}] BY <1>12 DEF Close
  <2>2. UNCHANGED <<online, place>> BY <1>12, OnlineStays
  <2>3. /\ corpse' \in Corpses /\ corpse'.kind = corpse.kind /\ corpse'.lock = corpse.lock
        /\ corpse'.inv = corpse.inv /\ corpse'.viewers = corpse.viewers \ {p}
    BY <1>0, <2>1 DEF Corpses
  <2> QED BY <1>0, <1>1, <1>2, <2>1, <2>2, <2>3
<1>13. CASE Rot
  <2>1. corpse # NULL /\ corpse' = Rotten(corpse) /\ UNCHANGED <<online, place>>
    BY <1>13 DEF Rot, partyVars
  <2>2. CASE corpse' = corpse BY <1>3, <2>1, <2>2
  <2>3. CASE corpse.kind = "corpse" /\ corpse' = [corpse EXCEPT !.lock = NULL]
    <3>1. corpse.lock = NULL BY <1>0, <2>1, <2>3 DEF LockType
    <3>2. /\ corpse' \in Corpses /\ corpse'.kind = corpse.kind /\ corpse'.lock = corpse.lock
          /\ corpse'.inv = corpse.inv /\ corpse'.viewers = corpse.viewers
      BY <1>0, <2>1, <2>3, <3>1 DEF Corpses
    <3> QED BY <1>0, <1>1, <1>2, <2>1, <3>2
  <2> QED BY <2>1, <2>2, <2>3 DEF Rotten
<1>14. ASSUME NEW p \in Players,
              \/ PartyCommand(p) /\ UNCHANGED <<place, prey, corpse, fought>>
              \/ Stick(p) \/ Hit(p)
       PROVE  Lying'
  <2>1. UNCHANGED <<online, place>> BY <1>14, OnlineStays
  <2>2. corpse' = corpse BY <1>14 DEF Stick, Hit
  <2> QED BY <1>3, <2>1, <2>2
<1>15. ASSUME OtherObject \/ Aggro \/ Respawn \/ UNCHANGED gameVars PROVE Lying'
  BY <1>3, <1>15 DEF OtherObject, Aggro, Respawn, gameVars, bountyVars, partyVars
<1> QED BY <1>4, <1>5, <1>6, <1>8, <1>9, <1>10, <1>11, <1>12, <1>13, <1>14, <1>15 DEF GameNext

LEMMA SingleKeeps == GameInv /\ [GameNext]_gameVars => Single'
<1> SUFFICES ASSUME Single, Hunted, [GameNext]_gameVars PROVE Single' BY DEF GameInv
<1>1. ASSUME prey'.alive = prey.alive, corpse = NULL => corpse' = NULL PROVE Single'
  BY <1>1 DEF Single
<1>2. ASSUME NEW e, prey' = [prey EXCEPT !.enemy = e], corpse' = corpse PROVE Single'
  BY <1>1, <1>2 DEF Hunted
<1>3. ASSUME NEW p \in Players, Enter(p) PROVE Single'
  BY <1>1, <1>2, <1>3 DEF Enter
<1>4. ASSUME NEW p \in Players, Exit(p) PROVE Single'
  <2>1. prey'.alive = prey.alive /\ (corpse = NULL => corpse' = NULL)
    BY <1>4 DEF Exit, Hunted
  <2> QED BY <1>1, <2>1
<1>5. ASSUME NEW p \in Players, Stick(p) \/ Hit(p) PROVE Single'
  <2>1. prey'.alive = prey.alive /\ corpse' = corpse BY <1>5 DEF Stick, Hit, Hunted
  <2> QED BY <1>1, <2>1
<1>6. ASSUME prey' = Slain PROVE Single'
  BY <1>6 DEF Slain, Single
<1>7. CASE OtherObject \/ Aggro
  BY <1>2, <1>7 DEF OtherObject, Aggro
<1>8. CASE Respawn
  BY <1>8 DEF Respawn, Single
<1>9. ASSUME NEW p \in Players,
             \/ PartyCommand(p) /\ UNCHANGED <<place, prey, corpse, fought>>
             \/ \E m \in Maps : Walk(p, m)
             \/ Open(p) \/ Take(p) \/ Close(p)
      PROVE  Single'
  <2>1. prey' = prey /\ (corpse = NULL => corpse' = NULL)
    BY <1>9 DEF Walk, Open, Take, Close
  <2> QED BY <1>1, <2>1
<1>10. CASE Rot \/ UNCHANGED gameVars
  BY <1>1, <1>10 DEF Rot, gameVars, bountyVars
<1>11. CASE KilledByBeast \/ \E p \in Players : Kill(p)
  BY <1>6, <1>11 DEF KilledByBeast, Kill
<1> QED BY <1>3, <1>4, <1>5, <1>7, <1>8, <1>9, <1>10, <1>11 DEF GameNext

LEMMA HistoryKeeps ==
    GameInv /\ [GameNext]_gameVars =>
      /\ given' \in GivenType /\ fought' \subseteq online' /\ place' \in [Players -> Maps]
<1> SUFFICES ASSUME GameInv, [GameNext]_gameVars
             PROVE  given' \in GivenType /\ fought' \subseteq online' /\ place' \in [Players -> Maps]
  OBVIOUS
<1>0. /\ given \in GivenType /\ fought \subseteq online /\ online \subseteq Players
      /\ place \in [Players -> Maps] /\ PartyType
  BY DEF GameInv, PartyType
<1>1. Quiet => given' \in GivenType BY NothingIs DEF Quiet
<1>2. ASSUME NEW p \in Players, Enter(p) \/ Exit(p) \/ \E m \in Maps : Walk(p, m)
      PROVE  given' \in GivenType /\ fought' \subseteq online' /\ place' \in [Players -> Maps]
  <2>1. CASE Enter(p) BY <1>0, <1>1, <2>1 DEF Enter, LogIn
  <2>2. CASE Exit(p) BY <1>0, <1>1, <2>2, LairAssumption DEF Exit, LogOut
  <2>3. CASE \E m \in Maps : Walk(p, m) BY <1>0, <1>1, <2>3 DEF Walk, partyVars
  <2> QED BY <1>2, <2>1, <2>2, <2>3
<1>3. ASSUME NEW p \in Players,
             \/ PartyCommand(p) /\ UNCHANGED <<place, prey, corpse, fought>> /\ Quiet
             \/ Take(p) \/ Close(p) \/ Stick(p) \/ Hit(p)
      PROVE  given' \in GivenType /\ fought' \subseteq online' /\ place' \in [Players -> Maps]
  <2>1. UNCHANGED <<online, place>> BY <1>3, OnlineStays
  <2>2. Quiet BY <1>3 DEF Take, Close, Stick, Hit
  <2>3. fought' = fought \/ (fought' = fought \cup {p} /\ p \in online)
    BY <1>3 DEF Take, Close, Stick, Hit
  <2> QED BY <1>0, <1>1, <2>1, <2>2, <2>3
<1>4. ASSUME NEW p \in Players, Kill(p)
      PROVE  given' \in GivenType /\ fought' \subseteq online' /\ place' \in [Players -> Maps]
  <2>1. UNCHANGED <<online, place>> BY <1>4, OnlineStays
  <2>2. fought' = {} BY <1>4 DEF Kill
  <2>3. Quiet \/ \E level \in [Mates(p) \cup {p} -> Levels] :
          level[p] # 0 /\ given' = [Nothing EXCEPT !.by = p, !.exp = Shares(p, level)]
    BY <1>4 DEF Kill
  <2>4. ASSUME NEW level \in [Mates(p) \cup {p} -> Levels], level[p] # 0,
               given' = [Nothing EXCEPT !.by = p, !.exp = Shares(p, level)]
        PROVE  given' \in GivenType
    <3>1. Shares(p, level) \in [Players -> Nat] BY <1>0, <2>4, SharesIs
    <3> QED BY <2>4, <3>1, NothingIs DEF GivenType
  <2> QED BY <1>0, <1>1, <2>1, <2>2, <2>3, <2>4
<1>5. ASSUME NEW p \in Players, Open(p)
      PROVE  given' \in GivenType /\ fought' \subseteq online' /\ place' \in [Players -> Maps]
  <2>1. UNCHANGED <<online, place>> BY <1>5, OnlineStays
  <2>2. fought' = fought BY <1>5 DEF Open
  <2>3. Opened(p, online \cup {NULL})
    BY <1>0, <1>5, OpenGives DEF Open, GameInv, Lying
  <2> QED BY <1>0, <2>1, <2>2, <2>3 DEF Opened
<1>6. CASE UNCHANGED gameVars
  BY <1>0, <1>6 DEF gameVars, bountyVars, partyVars
<1>7. CASE Aggro
  <2>1. UNCHANGED <<online, place>> /\ Quiet BY <1>7 DEF Aggro, partyVars
  <2>2. fought' \subseteq online BY <1>0, <1>7 DEF Aggro
  <2> QED BY <1>0, <1>1, <2>1, <2>2
<1>8. CASE OtherObject \/ KilledByBeast \/ Rot \/ Respawn
  <2>1. /\ UNCHANGED <<online, place>> /\ Quiet
        /\ fought' = fought \/ fought' = {}
    BY <1>8 DEF OtherObject, KilledByBeast, Rot, Respawn, partyVars
  <2> QED BY <1>0, <1>1, <2>1
<1> QED BY <1>2, <1>3, <1>4, <1>5, <1>6, <1>7, <1>8 DEF GameNext

LEMMA GameInvKeeps == GameInv /\ [GameNext]_gameVars => GameInv'
<1> SUFFICES ASSUME GameInv, [GameNext]_gameVars PROVE GameInv' OBVIOUS
<1>1. Inv' BY GameStep, PartyStepKeeps DEF GameInv
<1>2. PartyType' BY GameNextParties, PartyTypeKeeps DEF GameInv
<1>3. Hunted' /\ Lying' /\ Single' BY HuntedKeeps, LyingKeeps, SingleKeeps
<1>4. given' \in GivenType /\ fought' \subseteq online' /\ place' \in [Players -> Maps]
  BY HistoryKeeps
<1> QED BY <1>1, <1>2, <1>3, <1>4 DEF GameInv, GivenType

(* Everything is what it should be: in particular only players in the game hold
   arrows in the monster or in its corpse, are its enemy or look into the corpse,
   and a corpse is locked for a name of the kind that its type says. *)
THEOREM TypesAreRight == GameSpec => []GameType
  BY GameInvInit, GameInvKeeps, GameInvType, PTL DEF GameSpec

(* The game does nothing to parties that Parties does not say; so what holds for
   parties holds in the game. *)
THEOREM GameHasParties == GameSpec => Spec
<1>1. GameInit => Init
  BY DEF GameInit
<1> QED BY <1>1, GameInvInit, GameInvKeeps, GameNextParties, PTL DEF GameSpec, Spec

-----------------------------------------------------------------------------
(* Nothing is made or lost by sharing.                                     *)

Dealt ==
    /\ Total(given'.exp) <= Gain
    /\ corpse # NULL /\ corpse' # NULL =>
         /\ \/ \E p \in Players : Take(p)
            \/ /\ Len(corpse.inv) = Len(corpse'.inv) + Total(given'.things) + Total(given'.back)
               /\ corpse.coins = corpse'.coins + Total(given'.coins)
         /\ \A q \in Players : given'.things[q] + given'.coins[q] + given'.back[q] > 0 =>
              /\ place[q] = Lair /\ party[q] # NULL
              /\ corpse.lock = struct[party[q]].name

LEMMA QuietDealt ==
    ASSUME Quiet, corpse # NULL /\ corpse' # NULL =>
                    \/ \E p \in Players : Take(p)
                    \/ /\ Len(corpse.inv) \in Nat /\ Len(corpse'.inv) = Len(corpse.inv)
                       /\ corpse.coins \in Nat /\ corpse'.coins = corpse.coins
    PROVE  Dealt
<1>1. given' = Nothing BY DEF Quiet
<1>2. /\ Total(Nothing.exp) = 0 /\ Total(Nothing.things) = 0 /\ Total(Nothing.coins) = 0
      /\ Total(Nothing.back) = 0
  BY NothingIs, TotalNobody
<1>3. \A q \in Players : ~(Nothing.things[q] + Nothing.coins[q] + Nothing.back[q] > 0)
  BY NothingIs DEF Nobody
<1>4. 0 <= Gain BY BountyAssumption
<1> QED BY <1>1, <1>2, <1>3, <1>4 DEF Dealt

(* What is shared goes to members of the party that the corpse is locked for. *)
LEMMA OpenDealt ==
    ASSUME GameInv, NEW p \in Players, Open(p)
    PROVE  Dealt
<1>1. /\ corpse # NULL /\ p \in online /\ place[p] = Lair /\ MayOpen(p)
      /\ corpse \in Corpses /\ corpse.inv \in Seq(online \cup {NULL}) /\ online \subseteq Players
  BY DEF Open, GameInv, Lying, PartyType
<1>2. Opened(p, online \cup {NULL})
  BY <1>1, OpenGives DEF GameInv
<1>3. ASSUME corpse.kind = "party", NEW q \in Mates(p), q \in Players
      PROVE  place[q] = Lair /\ party[q] # NULL /\ corpse.lock = struct[party[q]].name
  <2>1. party[p] # NULL /\ corpse.lock = struct[party[p]].name
    BY <1>1, <1>3 DEF MayOpen, party_can_open_corpse
  <2>2. q \in Members(party[p]) /\ Near(p, q) BY <2>1, <1>3 DEF Mates
  <2>3. party[p] \in Structs BY <2>1, InUse DEF GameInv, Parties
  <2>4. Occurs(q, struct[party[p]].members) BY <2>2 DEF Members, ToSet, Occurs
  <2>5. party[q] = party[p] BY <1>3, <2>3, <2>4 DEF GameInv, Inv, Linked
  <2> QED BY <1>1, <2>1, <2>2, <2>5 DEF Near
<1>4. Total(given'.exp) <= Gain BY <1>2, TotalNobody, BountyAssumption DEF Opened
<1> QED BY <1>2, <1>3, <1>4 DEF Opened, Dealt

LEMMA StepDealt == GameInv /\ [GameNext]_gameVars => [Dealt]_gameVars
<1> SUFFICES ASSUME GameInv, GameNext PROVE Dealt OBVIOUS
<1>0. /\ corpse # NULL =>
           /\ corpse \in Corpses /\ corpse.inv \in Seq(online \cup {NULL})
           /\ Len(corpse.inv) \in Nat /\ corpse.coins \in Nat
  <2>1. Lying BY DEF GameInv
  <2>2. corpse # NULL => corpse \in Corpses /\ corpse.inv \in Seq(online \cup {NULL})
    BY <2>1 DEF Lying
  <2>3. corpse # NULL => Len(corpse.inv) \in Nat BY <2>2, LenProperties
  <2>4. corpse # NULL => corpse.coins \in Nat BY <2>2, BountyAssumption DEF Corpses
  <2> QED BY <2>2, <2>3, <2>4
<1>1. ASSUME Quiet, corpse # NULL /\ corpse' # NULL =>
                      Len(corpse'.inv) = Len(corpse.inv) /\ corpse'.coins = corpse.coins
      PROVE  Dealt
  BY <1>0, <1>1, QuietDealt
<1>2. ASSUME Quiet, corpse # NULL /\ corpse' # NULL =>
                      corpse'.inv = corpse.inv /\ corpse'.coins = corpse.coins
      PROVE  Dealt
  BY <1>1, <1>2
<1>3. ASSUME NEW p \in Players,
             \/ PartyCommand(p) /\ UNCHANGED <<place, prey, corpse, fought>> /\ Quiet
             \/ Enter(p) \/ Stick(p) \/ Hit(p)
      PROVE  Dealt
  BY <1>2, <1>3 DEF Enter, Stick, Hit
<1>4. ASSUME NEW p \in Players, Exit(p) PROVE Dealt
  <2>1. Quiet BY <1>4 DEF Exit
  <2>2. ASSUME corpse # NULL, corpse' # NULL
        PROVE  Len(corpse'.inv) = Len(corpse.inv) /\ corpse'.coins = corpse.coins
    <3>1. corpse' = [corpse EXCEPT !.viewers = @ \ {p}, !.inv = Ownerless(corpse.inv, p)]
      BY <1>4, <2>2 DEF Exit
    <3>2. corpse'.inv = Ownerless(corpse.inv, p) /\ corpse'.coins = corpse.coins BY <1>0, <2>2, <3>1 DEF Corpses
    <3>3. Len(Ownerless(corpse.inv, p)) = Len(corpse.inv) BY <1>0, <2>2, OwnerlessIs
    <3> QED BY <1>0, <2>2, <3>2, <3>3
  <2> QED BY <1>1, <2>1, <2>2
<1>5. ASSUME NEW p \in Players, (\E m \in Maps : Walk(p, m)) \/ Close(p) PROVE Dealt
  <2>1. Quiet BY <1>5 DEF Walk, Close
  <2>2. ASSUME corpse # NULL PROVE corpse'.inv = corpse.inv /\ corpse'.coins = corpse.coins
    <3>1. corpse' = [corpse EXCEPT !.viewers = @ \ {p}]
      BY <1>5, <2>2 DEF Walk, Close
    <3> QED BY <1>0, <2>2, <3>1 DEF Corpses
  <2> QED BY <1>2, <2>1, <2>2
<1>6. ASSUME NEW p \in Players, Take(p) PROVE Dealt
  <2>1. Quiet BY <1>6 DEF Take
  <2> QED BY <1>6, <2>1, QuietDealt
<1>7. CASE Rot
  <2>1. Quiet /\ corpse # NULL /\ corpse' = Rotten(corpse) BY <1>7 DEF Rot
  <2>2. ASSUME corpse' # NULL PROVE corpse'.inv = corpse.inv /\ corpse'.coins = corpse.coins
    <3>1. corpse' = corpse \/ corpse' = [corpse EXCEPT !.lock = NULL]
      BY <2>1, <2>2 DEF Rotten
    <3> QED BY <1>0, <2>1, <3>1 DEF Corpses
  <2> QED BY <1>2, <2>1, <2>2
<1>8. CASE OtherObject \/ Aggro \/ Respawn
  BY <1>2, <1>8 DEF OtherObject, Aggro, Respawn
<1>9. CASE KilledByBeast
  <2>1. Quiet /\ corpse = NULL BY <1>9 DEF KilledByBeast, GameInv, Single
  <2> QED BY <1>2, <2>1
<1>10. ASSUME NEW p \in Players, Kill(p) PROVE Dealt
  <2>1. corpse = NULL BY <1>10 DEF Kill, GameInv, Single
  <2>2. CASE Quiet BY <1>2, <2>1, <2>2
  <2>3. ASSUME NEW level \in [Mates(p) \cup {p} -> Levels], level[p] # 0,
               given' = [Nothing EXCEPT !.by = p, !.exp = Shares(p, level)]
        PROVE  Dealt
    <3>1. Total(Shares(p, level)) <= Gain BY <2>3, SharesIs DEF GameInv
    <3>2. given'.exp = Shares(p, level) BY <2>3 DEF Nothing
    <3> QED BY <2>1, <3>1, <3>2 DEF Dealt
  <2> QED BY <1>10, <2>2, <2>3 DEF Kill
<1>11. ASSUME NEW p \in Players, Open(p) PROVE Dealt
  BY <1>11, OpenDealt
<1> QED BY <1>3, <1>4, <1>5, <1>6, <1>7, <1>8, <1>9, <1>10, <1>11 DEF GameNext

(* However a party shares, and whoever of it is near or can carry something: the
   experience handed out is not more than the kill is worth, every thing and every coin
   is still in the corpse or with one member, unless somebody who looks into it
   takes it, and only members of the party that the corpse is locked for, who are
   there, are given any. *)
THEOREM HandedOutOnce == GameSpec => SharedOut
<1>1. [Dealt]_gameVars =>
        [/\ Total(given'.exp) <= Gain
         /\ corpse # NULL /\ corpse' # NULL =>
              /\ \/ \E p \in Players : Take(p)
                 \/ /\ Len(corpse.inv) = Len(corpse'.inv) + Total(given'.things) + Total(given'.back)
                    /\ corpse.coins = corpse'.coins + Total(given'.coins)
              /\ \A q \in Players : given'.things[q] + given'.coins[q] + given'.back[q] > 0 =>
                   /\ place[q] = Lair /\ party[q] # NULL
                   /\ corpse.lock = struct[party[q]].name]_gameVars
  BY DEF Dealt
<1> QED BY <1>1, GameInvInit, GameInvKeeps, StepDealt, PTL DEF GameSpec, SharedOut

-----------------------------------------------------------------------------
(* Splitting is even.                                                      *)

(* The places that are next when the walk began at s and is at i now, in a round
   of places that are numbered from 0. *)
Round(s, i) == {j \in Nat : IF s <= i THEN s <= j /\ j < i ELSE s <= j \/ j < i}

LEMMA NextNear ==
    ASSUME NEW c \in Nat, NEW n \in Nat, NEW at \in [1 .. c -> 1 .. n],
           \A i, j \in 1 .. c : i < j => at[i] < at[j],
           NEW k \in 1 .. n, \E i \in 1 .. c : at[i] = k
    PROVE  /\ k = 1 => at[1] = 1
           /\ \A i \in 1 .. c - 1 : k = at[i] + 1 => at[i + 1] = k
<1>1. PICK j \in 1 .. c : at[j] = k OBVIOUS
<1>2. \A i \in 1 .. c : at[i] \in 1 .. n OBVIOUS
<1>3. k = 1 => at[1] = 1
  <2>1. 1 \in 1 .. c /\ (j = 1 \/ 1 < j) BY <1>1
  <2>2. at[1] = at[j] \/ at[1] < at[j] BY <1>1, <2>1
  <2>3. at[1] \in 1 .. n BY <1>2, <2>1
  <2> QED BY <1>1, <2>2, <2>3
<1>4. ASSUME NEW i \in 1 .. c - 1, k = at[i] + 1 PROVE at[i + 1] = k
  <2>1. i \in 1 .. c /\ i + 1 \in 1 .. c /\ i < i + 1 /\ i \in Int /\ j \in Int OBVIOUS
  <2>2. at[i] \in Int /\ at[i + 1] \in Int /\ at[j] \in Int /\ at[i] < at[i + 1]
    BY <1>1, <1>2, <2>1
  <2>3. ~(j < i) /\ j # i
    <3>1. j < i => at[j] < at[i] BY <1>1, <2>1
    <3> QED BY <1>1, <1>4, <2>2, <3>1
  <2>4. j = i + 1 \/ i + 1 < j BY <2>1, <2>3
  <2>5. at[i + 1] = at[j] \/ at[i + 1] < at[j] BY <1>1, <2>1, <2>4
  <2> QED BY <1>1, <1>4, <2>2, <2>5
<1> QED BY <1>3, <1>4

LEMMA NearAtAll ==
    ASSUME Inv, PartyType, NEW p \in Players, party[p] # NULL,
           NEW list, list = struct[party[p]].members
    PROVE  /\ \A i, j \in 1 .. Len(NearAt(p)) : i < j => NearAt(p)[i] < NearAt(p)[j]
           /\ \A k \in 1 .. Len(list) : Near(p, list[k]) =>
                \E i \in 1 .. Len(NearAt(p)) : NearAt(p)[i] = k
           /\ \A q \in Mates(p) : \E i \in 1 .. Len(NearAt(p)) : list[NearAt(p)[i]] = q
           /\ \A i, j \in 1 .. Len(NearAt(p)) :
                list[NearAt(p)[i]] = list[NearAt(p)[j]] => i = j
<1> DEFINE n == Len(list)
           T == {i \in 1 .. n : Near(p, list[i])}
           at == NearAt(p)
           c == Cardinality(T)
<1>1. /\ party[p] \in Parties /\ Whole(struct[party[p]])
      /\ list \in Seq(Players) /\ n \in Nat /\ at \in Seq(1 .. n) /\ Len(at) \in 1 .. n
      /\ Cardinality(Mates(p)) = Len(at)
  BY InUse, NearAtIs
<1>2. DOMAIN list = 1 .. n BY <1>1, LenProperties
<1>3. T \in SUBSET (1 .. n) /\ at = Ascending(T)
  BY <1>2 DEF NearAt
<1> HIDE DEF n
<1>4. /\ IsFiniteSet(T) /\ c \in 0 .. n /\ at \in [1 .. c -> T]
      /\ \A i, j \in 1 .. c : i < j => at[i] < at[j]
      /\ \A k \in T : \E i \in 1 .. c : at[i] = k
  <2> HIDE DEF T
  <2> DEFINE a == Ascending(T)
  <2>1. n \in Nat /\ T \in SUBSET (1 .. n) BY <1>1, <1>3
  <2>2. /\ IsFiniteSet(T) /\ c \in 0 .. n /\ a \in [1 .. c -> T]
        /\ \A i, j \in 1 .. c : i < j => a[i] < a[j]
        /\ \A k \in T : \E i \in 1 .. c : a[i] = k
    BY ONLY <2>1, AscendingIs
  <2>3. at = a BY <1>3
  <2> HIDE DEF a, at, c
  <2> QED BY <2>2, <2>3
<1>5. Len(at) = c
  <2>1. DOMAIN at = 1 .. c /\ DOMAIN at = 1 .. Len(at) BY <1>1, <1>4, LenProperties
  <2>2. c \in Nat /\ Len(at) \in Nat
    <3> HIDE DEF c, at
    <3> QED BY <1>1, <1>4
  <2> HIDE DEF c, at
  <2> QED BY <2>1, <2>2
<1>6. ASSUME NEW k \in 1 .. n, Near(p, list[k]) PROVE \E i \in 1 .. c : at[i] = k
  <2>1. k \in T BY <1>6
  <2> QED BY <1>4, <2>1
<1>7. ASSUME NEW q \in Mates(p) PROVE \E i \in 1 .. c : list[at[i]] = q
  <2>1. PICK k \in 1 .. n : list[k] = q /\ Near(p, q)
    BY <1>2 DEF Mates, Members, ToSet
  <2>2. PICK i \in 1 .. c : at[i] = k BY <1>6, <2>1
  <2> QED BY <2>1, <2>2
<1>8. ASSUME NEW i \in 1 .. c, NEW j \in 1 .. c, list[at[i]] = list[at[j]] PROVE i = j
  <2>1. at[i] \in 1 .. n /\ at[j] \in 1 .. n BY <1>3, <1>4
  <2>2. at[i] = at[j] BY <1>1, <1>2, <1>8, <2>1 DEF Whole, Distinct
  <2>3. c \in Nat
    <3> HIDE DEF c
    <3> QED BY <1>1, <1>4
  <2> HIDE DEF c, at
  <2>4. i < j => at[i] < at[j] BY <1>4
  <2>5. j < i => at[j] < at[i] BY <1>4
  <2>6. at[i] \in Int /\ i \in Int /\ j \in Int BY <2>1, <2>3
  <2> QED BY <2>2, <2>4, <2>5, <2>6
<1> HIDE DEF at, c, T
<1> QED BY <1>4, <1>5, <1>6, <1>7, <1>8 DEF n, at

(* While all things could be given away, the walk is at somebody who is near if the
   position says so, and those who are next got one less than the others. *)
Fair(p, r) ==
    LET list == struct[party[p]].members
        at   == NearAt(p)
    IN  /\ Near(p, list[r.pos]) => r.pos = at[r.idx + 1]
        /\ \E s \in 0 .. Len(at) - 1, m \in Nat : \A j \in 0 .. Len(at) - 1 :
              r.got[list[at[j + 1]]] = IF j \in Round(s, r.idx) THEN m + 1 ELSE m

LEMMA StartFair ==
    ASSUME Inv, PartyType, NEW p \in Players, party[p] # NULL, NEW D,
           NEW r, r = [idx |-> SplitStart(p).idx, pos |-> SplitStart(p).pos, got |-> Nobody,
                       left |-> [i \in D |-> TRUE]]
    PROVE  Fair(p, r)
<1> DEFINE list == struct[party[p]].members
           at == NearAt(p)
           c == Len(at)
           n == Len(list)
           k == struct[party[p]].idx
           s == SplitStart(p)
<1>1. /\ c \in 1 .. n /\ n \in Nat /\ k \in Nat /\ at \in [1 .. c -> 1 .. n]
      /\ \A i \in 1 .. c : list[at[i]] \in Players
  <2>1. /\ c \in 1 .. n /\ n \in Nat /\ k \in Nat /\ at \in Seq(1 .. n) /\ list \in Seq(Players)
    BY NearAtIs DEF Record
  <2>2. at \in [1 .. c -> 1 .. n] /\ list \in [1 .. n -> Players] BY <2>1, LenProperties
  <2> HIDE DEF at, list, c, n
  <2> QED BY <2>1, <2>2
<1>2. /\ \A i, j \in 1 .. c : i < j => at[i] < at[j]
      /\ \A l \in 1 .. n : Near(p, list[l]) => \E i \in 1 .. c : at[i] = l
  BY NearAtAll
<1>3. s = IF k >= c THEN [idx |-> 0, pos |-> 1] ELSE [idx |-> k, pos |-> at[k + 1]]
  BY DEF SplitStart
<1>4. r.idx = s.idx /\ r.pos = s.pos /\ r.got = Nobody OBVIOUS
<1> HIDE DEF at, c, n, k, s, list
<1>5. s.idx \in 0 .. c - 1 /\ (Near(p, list[s.pos]) => s.pos = at[s.idx + 1])
  <2>1. CASE k >= c
    <3>1. s.idx = 0 /\ s.pos = 1 /\ 1 \in 1 .. n /\ c \in Nat BY <1>1, <1>3, <2>1
    <3>2. Near(p, list[1]) => at[1] = 1
      <4>1. \A i \in 1 .. n : (\E j \in 1 .. c : at[j] = i) => (i = 1 => at[1] = 1)
        BY <1>1, <1>2, <3>1, NextNear
      <4> QED BY <1>2, <3>1, <4>1
    <3> QED BY <1>1, <3>1, <3>2
  <2>2. CASE ~(k >= c)
    <3>1. s.idx = k /\ s.pos = at[k + 1] BY <1>3, <2>2
    <3> QED BY <1>1, <2>2, <3>1
  <2> QED BY <2>1, <2>2
<1>6. ASSUME NEW j \in 0 .. c - 1
      PROVE  r.got[list[at[j + 1]]] = IF j \in Round(s.idx, r.idx) THEN 0 + 1 ELSE 0
  <2>1. j + 1 \in 1 .. c BY <1>1
  <2>2. r.got[list[at[j + 1]]] = 0 BY <1>1, <1>4, <2>1 DEF Nobody
  <2>3. j \notin Round(s.idx, s.idx) BY <1>1, <1>5 DEF Round
  <2> QED BY <1>4, <2>2, <2>3
<1>7. \E s1 \in 0 .. c - 1, m \in Nat : \A j \in 0 .. c - 1 :
         r.got[list[at[j + 1]]] = IF j \in Round(s1, r.idx) THEN m + 1 ELSE m
  BY <1>5, <1>6
<1> QED BY <1>4, <1>5, <1>7 DEF Fair, at, c, list

LEMMA OneFair ==
    ASSUME Inv, PartyType, NEW p \in Players, party[p] # NULL,
           NEW D, NEW able, NEW i \in D, NEW r \in Walking(p, D), r.left[i], Fair(p, r),
           NEW new, new = SplitOne(p, able, r, i), ~new.left[i]
    PROVE  Fair(p, new)
<1> DEFINE list == struct[party[p]].members
           at == NearAt(p)
           c == Len(at)
           n == Len(list)
           q == list[r.pos]
           next == SplitNext(p, r)
           Type == [idx : Nat, pos : Nat, got : [Players -> Nat], left : [D -> BOOLEAN]]
<1>1. /\ c \in 1 .. n /\ n \in Nat /\ at \in [1 .. c -> 1 .. n]
      /\ \A k \in 1 .. n : list[k] \in Players
  <2>1. /\ c \in 1 .. n /\ n \in Nat /\ at \in Seq(1 .. n) /\ list \in Seq(Players)
    BY NearAtIs
  <2>2. at \in [1 .. c -> 1 .. n] /\ list \in [1 .. n -> Players] BY <2>1, LenProperties
  <2> HIDE DEF at, list, c, n
  <2> QED BY <2>1, <2>2
<1>2. /\ \A k, j \in 1 .. c : k < j => at[k] < at[j]
      /\ \A l \in 1 .. n : Near(p, list[l]) => \E k \in 1 .. c : at[k] = l
      /\ \A k, j \in 1 .. c : list[at[k]] = list[at[j]] => k = j
  BY NearAtAll
<1>3. /\ r \in Type /\ r.idx < c /\ r.pos > 0 /\ r.pos + (c - 1 - r.idx) <= n
  BY DEF Walking
<1>4. next = IF r.idx + 1 >= c THEN [r EXCEPT !.idx = 0, !.pos = 1]
             ELSE [r EXCEPT !.idx = r.idx + 1, !.pos = r.pos + 1]
  BY DEF SplitNext
<1>5. new = IF Near(p, q) /\ i \in able THEN [next EXCEPT !.left[i] = FALSE, !.got[q] = @ + 1]
            ELSE next
  BY DEF SplitOne
<1>6. /\ Near(p, q) => r.pos = at[r.idx + 1]
      /\ \E s \in 0 .. c - 1, m \in Nat : \A j \in 0 .. c - 1 :
            r.got[list[at[j + 1]]] = IF j \in Round(s, r.idx) THEN m + 1 ELSE m
  BY DEF Fair
<1> DEFINE k == IF r.idx + 1 >= c THEN 0 ELSE r.idx + 1
           l == IF r.idx + 1 >= c THEN 1 ELSE r.pos + 1
<1>7. next = [r EXCEPT !.idx = k, !.pos = l] BY <1>4
<1>8. r.idx \in 0 .. c - 1 /\ r.pos \in 1 .. n /\ c \in Nat /\ r.idx + 1 \in 1 .. c
  BY <1>1, <1>3
<1>9. k \in 0 .. c - 1 /\ l \in 1 .. n /\ k + 1 \in 1 .. c
  <2>1. r.idx \in Nat /\ r.pos \in Nat /\ c \in Nat BY <1>3, <1>8
  <2> HIDE DEF c, n, at, list
  <2>2. CASE r.idx + 1 >= c BY <1>1, <2>1, <2>2
  <2>3. CASE ~(r.idx + 1 >= c)
    <3>1. k = r.idx + 1 /\ l = r.pos + 1 BY <2>3
    <3>2. r.idx < c /\ r.pos + (c - 1 - r.idx) <= n /\ n \in Nat BY <1>1, <1>3
    <3>3. r.idx + 1 \in 0 .. c - 1 /\ r.pos + 1 \in 1 .. n /\ (r.idx + 1) + 1 \in 1 .. c
      BY <2>1, <2>3, <3>2
    <3> HIDE DEF k, l
    <3> QED BY <3>1, <3>3
  <2> QED BY <2>2, <2>3
<1>10. /\ next \in Type /\ next.idx = k /\ next.pos = l /\ next.got = r.got /\ next.left = r.left
  <2> HIDE DEF k, l, list, next
  <2>1. k \in Nat /\ l \in Nat BY <1>9
  <2> QED BY <1>3, <1>7, <2>1
<1>11. q \in Players BY <1>1, <1>8
<1> HIDE DEF next, q, Type
<1>12. Near(p, q) /\ i \in able BY <1>5, <1>10
<1>13. new.idx = k /\ new.pos = l /\ new.got = [r.got EXCEPT ![q] = @ + 1]
  <2> HIDE DEF k, l
  <2>1. new = [next EXCEPT !.left[i] = FALSE, !.got[q] = @ + 1] BY <1>5, <1>12
  <2> QED BY <1>10, <2>1 DEF Type
<1>14. r.pos = at[r.idx + 1] /\ q = list[at[r.idx + 1]] BY <1>6, <1>12 DEF q
<1>15. Near(p, list[l]) => l = at[k + 1]
  <2> SUFFICES ASSUME Near(p, list[l]) PROVE l = at[k + 1] OBVIOUS
  <2>1. \E j \in 1 .. c : at[j] = l BY <1>2, <1>9
  <2>2. /\ l = 1 => at[1] = 1
        /\ \A j \in 1 .. c - 1 : l = at[j] + 1 => at[j + 1] = l
    <3>1. /\ c \in Nat /\ n \in Nat /\ at \in [1 .. c -> 1 .. n]
          /\ \A x, y \in 1 .. c : x < y => at[x] < at[y]
          /\ l \in 1 .. n /\ \E x \in 1 .. c : at[x] = l
      BY <1>1, <1>2, <1>8, <1>9, <2>1
    <3> HIDE DEF l, at, c, n
    <3> QED BY ONLY <3>1, NextNear
  <2>3. CASE r.idx + 1 >= c
    <3>1. k = 0 /\ l = 1 BY <2>3
    <3> QED BY <2>2, <3>1
  <2>4. CASE ~(r.idx + 1 >= c)
    <3>1. k = r.idx + 1 /\ l = at[r.idx + 1] + 1 /\ r.idx + 1 \in 1 .. c - 1
      BY <1>8, <1>14, <2>4
    <3> QED BY <2>2, <3>1
  <2> QED BY <2>3, <2>4
<1>16. PICK s \in 0 .. c - 1, m \in Nat : \A j \in 0 .. c - 1 :
            r.got[list[at[j + 1]]] = IF j \in Round(s, r.idx) THEN m + 1 ELSE m
  BY <1>6
<1> HIDE DEF l
<1>17. ASSUME NEW j \in 0 .. c - 1
       PROVE  new.got[list[at[j + 1]]] = IF j \in Round(s, r.idx) \cup {r.idx} THEN m + 1 ELSE m
  <2>1. j + 1 \in 1 .. c /\ j \in Int /\ r.idx \in Int BY <1>8
  <2>2. r.got \in [Players -> Nat] BY <1>3 DEF Type
  <2>3. list[at[j + 1]] \in Players
    <3>1. at[j + 1] \in 1 .. n BY <1>1, <2>1
    <3> QED BY <1>1, <3>1
  <2>4. CASE j = r.idx
    <3>1. j \notin Round(s, r.idx)
      <4> HIDE DEF c
      <4> QED BY <1>8, <2>4 DEF Round
    <3>2. r.got[q] = m BY <1>14, <1>16, <2>4, <3>1
    <3>3. new.got[q] = m + 1 BY <1>11, <1>13, <2>2, <3>2
    <3> QED BY <1>14, <2>4, <3>3
  <2>5. CASE j # r.idx
    <3>1. list[at[j + 1]] # q
      <4>1. j + 1 # r.idx + 1 BY <2>1, <2>5
      <4> HIDE DEF at, c, list
      <4> QED BY <1>2, <1>8, <1>14, <2>1, <4>1
    <3>2. new.got[list[at[j + 1]]] = r.got[list[at[j + 1]]] BY <1>13, <2>2, <2>3, <3>1
    <3>3. r.got[list[at[j + 1]]] = IF j \in Round(s, r.idx) THEN m + 1 ELSE m BY <1>16
    <3> QED BY <2>5, <3>2, <3>3
  <2> QED BY <2>4, <2>5
<1> DEFINE G(j) == new.got[list[at[j + 1]]]
<1>18. \E s1 \in 0 .. c - 1, m1 \in Nat : \A j \in 0 .. c - 1 :
          G(j) = IF j \in Round(s1, k) THEN m1 + 1 ELSE m1
  <2>1. \A j \in 0 .. c - 1 : G(j) = IF j \in Round(s, r.idx) \cup {r.idx} THEN m + 1 ELSE m
    BY <1>17
  <2>2. ASSUME NEW j \in 0 .. c - 1
        PROVE  /\ j \notin Round(s, s)
               /\ k = s => j \in Round(s, r.idx) \cup {r.idx}
               /\ k # s => (j \in Round(s, k) <=> j \in Round(s, r.idx) \cup {r.idx})
    <3> DEFINE x == r.idx
    <3>1. c \in Nat /\ s \in 0 .. c - 1 /\ x \in 0 .. c - 1 /\ j \in 0 .. c - 1
          /\ k = IF x + 1 >= c THEN 0 ELSE x + 1
      BY <1>8
    <3> HIDE DEF c, x, k
    <3>2. /\ j \notin Round(s, s)
          /\ k = s => j \in Round(s, x) \cup {x}
          /\ k # s => (j \in Round(s, k) <=> j \in Round(s, x) \cup {x})
      BY ONLY <3>1 DEF Round
    <3> QED BY <3>2 DEF x
  <2> HIDE DEF G, k
  <2>3. CASE k = s
    <3>1. \A j \in 0 .. c - 1 : G(j) = IF j \in Round(s, k) THEN (m + 1) + 1 ELSE m + 1
      BY <2>1, <2>2, <2>3
    <3>2. m + 1 \in Nat OBVIOUS
    <3> QED BY <3>1, <3>2
  <2>4. CASE k # s
    <3>1. \A j \in 0 .. c - 1 : G(j) = IF j \in Round(s, k) THEN m + 1 ELSE m
      BY <2>1, <2>2, <2>4
    <3> QED BY <3>1
  <2> QED BY <2>3, <2>4
<1>19. Near(p, list[new.pos]) => new.pos = at[new.idx + 1]
  <2> HIDE DEF list, at, k
  <2> QED BY <1>13, <1>15
<1>20. \E s1 \in 0 .. c - 1, m1 \in Nat : \A j \in 0 .. c - 1 :
          new.got[list[at[j + 1]]] = IF j \in Round(s1, new.idx) THEN m1 + 1 ELSE m1
  <2>1. new.idx = k BY <1>13
  <2> HIDE DEF k, G
  <2>2. PICK s1 \in 0 .. c - 1, m1 \in Nat : \A j \in 0 .. c - 1 :
          G(j) = IF j \in Round(s1, k) THEN m1 + 1 ELSE m1
    BY <1>18
  <2>3. \A j \in 0 .. c - 1 : G(j) = IF j \in Round(s1, new.idx) THEN m1 + 1 ELSE m1
    BY <2>1, <2>2
  <2> QED BY <2>3 DEF G
<1> HIDE DEF k, G
<1> QED BY <1>19, <1>20 DEF Fair

(* If nothing is left at the end, the walk was fair all along.             *)
LEMMA SplitFair ==
    ASSUME Inv, PartyType, NEW p \in Players, party[p] # NULL,
           NEW S, NEW inv \in Seq(S), NEW able,
           \A j \in DOMAIN inv : ~SplitAll(p, inv, able).left[j]
    PROVE  Fair(p, SplitAll(p, inv, able)) /\ SplitAll(p, inv, able) \in Walking(p, DOMAIN inv)
<1> DEFINE D == DOMAIN inv
           n == Len(inv)
           W == Walking(p, D)
<1>1. PICK upto : SplitStep(p, inv, able, upto) BY SplitAllSteps
<1>2. n \in Nat /\ D = 1 .. n BY LenProperties
<1>3. /\ SplitAll(p, inv, able) = upto[n] /\ upto[0] \in W
      /\ upto[0] = [idx |-> SplitStart(p).idx, pos |-> SplitStart(p).pos, got |-> Nobody,
                    left |-> [i \in D |-> TRUE]]
      /\ \A i \in 1 .. n : upto[i] = SplitOne(p, able, upto[i - 1], i)
  BY <1>1 DEF SplitStep
<1> HIDE DEF D, n, W
<1> DEFINE Good(i) == /\ upto[i] \in W
                      /\ (\E j \in D : j <= i /\ upto[i].left[j]) \/ Fair(p, upto[i])
                      /\ \A j \in D : j > i => upto[i].left[j]
           Bad == {i \in 0 .. n : ~Good(i)}
<1>4. Good(0)
  <2>1. Fair(p, upto[0]) BY <1>3, StartFair
  <2>2. \A j \in D : upto[0].left[j] BY <1>3
  <2> QED BY <1>3, <2>1, <2>2
<1>5. ASSUME NEW i \in 1 .. n, Good(i - 1) PROVE Good(i)
  <2> DEFINE r == upto[i - 1]
             s == upto[i]
  <2>1. i \in D /\ i \in Nat /\ s = SplitOne(p, able, r, i) BY <1>2, <1>3
  <2>2. r \in W /\ \A j \in D : j > i - 1 => r.left[j] BY <1>5
  <2>3. (\E j \in D : j <= i - 1 /\ r.left[j]) \/ Fair(p, r) BY <1>5
  <2> HIDE DEF r, s
  <2>4. s \in W /\ HandedOut(r, i, s) BY <2>1, <2>2, SplitOneIs DEF W
  <2>5. ASSUME NEW j \in D, j # i PROVE s.left[j] = r.left[j]
    <3>1. r.left \in [D -> BOOLEAN] BY <2>2 DEF W, Walking
    <3> QED BY <2>4, <2>5, <3>1 DEF HandedOut
  <2>6. r.left[i]
    <3>1. i > i - 1 BY <2>1
    <3> QED BY <2>1, <2>2, <3>1
  <2>7. ASSUME NEW j \in D, j > i PROVE s.left[j]
    <3>1. j > i - 1 /\ j # i BY <1>2, <2>1, <2>7
    <3>2. r.left[j] BY <2>2, <3>1
    <3> QED BY <2>5, <3>1, <3>2
  <2>8. (\E j \in D : j <= i /\ s.left[j]) \/ Fair(p, s)
    <3>1. ASSUME NEW j \in D, j <= i - 1, r.left[j] PROVE j <= i /\ s.left[j]
      <4>1. j # i /\ j <= i BY <1>2, <2>1, <3>1
      <4> QED BY <2>5, <3>1, <4>1
    <3>2. CASE s.left[i]
      <4>1. i <= i BY <2>1
      <4> QED BY <2>1, <3>2, <4>1
    <3>3. CASE Fair(p, r) /\ ~s.left[i]
      <4>1. Fair(p, s) BY <2>1, <2>2, <2>6, <3>3, OneFair DEF W
      <4> QED BY <4>1
    <3> QED BY <2>3, <3>1, <3>2, <3>3
  <2> QED BY <2>4, <2>7, <2>8 DEF s
<1> HIDE DEF Good
<1>6. Bad = {}
  <2> SUFFICES ASSUME Bad # {} PROVE FALSE OBVIOUS
  <2>1. PICK i \in Bad : \A j \in Bad : i <= j
    <3>1. Bad \subseteq Nat BY <1>2
    <3> HIDE DEF Bad
    <3> QED BY <3>1, SmallestNumber
  <2>2. i \in 1 .. n /\ i - 1 \in 0 .. n /\ ~(i <= i - 1) BY <1>2, <1>4, <2>1
  <2>3. i - 1 \notin Bad
    <3> HIDE DEF Bad
    <3> QED BY <2>1, <2>2
  <2>4. Good(i) BY <1>5, <2>2, <2>3
  <2> QED BY <2>1, <2>4
<1>7. Good(n) BY <1>2, <1>6
<1>8. \A j \in D : ~upto[n].left[j] BY <1>3 DEF D
<1>9. Fair(p, upto[n]) /\ upto[n] \in W BY <1>7, <1>8 DEF Good
<1> QED BY <1>3, <1>9 DEF W, D

(* What the members of a party get when all of it is split                 *)
Evenly(p, given1) ==
    \A q, r \in Mates(p) :
      /\ given1.things[q] <= given1.things[r] + 1
      /\ given1.coins[q] < given1.coins[r] + Cardinality(Mates(p))

LEMMA SplitIsEven ==
    ASSUME Inv, PartyType, NEW p \in Players, party[p] # NULL, corpse.coins \in Nat,
           NEW S, NEW inv \in Seq(S), NEW able,
           Selected(inv, Split(p, inv, able).inv) = <<>>
    PROVE  Evenly(p, Split(p, inv, able).given)
<1> DEFINE list == struct[party[p]].members
           at == NearAt(p)
           n == Len(at)
           first == list[at[1]]
           M == Mates(p)
           end == SplitAll(p, inv, able)
           m == corpse.coins
           g == [q \in Players |-> IF q \notin M THEN 0
                                   ELSE (m \div n) + IF q = first THEN m % n ELSE 0]
           given1 == [Nothing EXCEPT !.things = end.got, !.coins = g]
           result == Split(p, inv, able)
<1>1. result.inv = end.left /\ result.given = given1
  BY DEF Split
<1>2. given1.things = end.got /\ given1.coins = g
  BY DEF Nothing
<1>3. \A j \in DOMAIN inv : ~end.left[j]
  <2> DEFINE T == {i \in DOMAIN inv : end.left[i]}
  <2>1. Selected(inv, end.left) = <<>> BY <1>1
  <2>2. IsFiniteSet(T) /\ Len(Selected(inv, end.left)) = Cardinality(T)
    <3> HIDE DEF end
    <3> QED BY SelectedIs
  <2>3. Cardinality(T) = 0 BY <2>1, <2>2
  <2>4. T = {}
    <3> HIDE DEF T
    <3> QED BY <2>2, <2>3, FS_EmptySet
  <2> QED BY <2>4
<1>4. Fair(p, end) /\ end \in Walking(p, DOMAIN inv)
  BY <1>3, SplitFair
<1>5. /\ n \in Nat /\ n > 0 /\ Cardinality(M) = n /\ M \subseteq Players
      /\ \A q \in M : \E i \in 1 .. n : list[at[i]] = q
  <2>1. n \in 1 .. Len(list) /\ Len(list) \in Nat /\ Cardinality(M) = n /\ M \in SUBSET Players
    BY NearAtIs
  <2>2. \A q \in M : \E i \in 1 .. n : list[at[i]] = q BY NearAtAll
  <2> HIDE DEF n, M, at, list
  <2> QED BY <2>1, <2>2
<1>6. \E s \in 0 .. n - 1, k \in Nat : \A j \in 0 .. n - 1 :
         end.got[list[at[j + 1]]] = IF j \in Round(s, end.idx) THEN k + 1 ELSE k
  BY <1>4 DEF Fair
<1> HIDE DEF end, g, M, n, at, list, result, given1
<1>7. PICK k \in Nat : \A q \in M : end.got[q] \in {k, k + 1}
  <2>1. PICK s \in 0 .. n - 1, k \in Nat : \A j \in 0 .. n - 1 :
           end.got[list[at[j + 1]]] = IF j \in Round(s, end.idx) THEN k + 1 ELSE k
    BY <1>6
  <2>2. ASSUME NEW q \in M PROVE end.got[q] \in {k, k + 1}
    <3>1. PICK i \in 1 .. n : list[at[i]] = q BY <1>5
    <3>2. i - 1 \in 0 .. n - 1 /\ (i - 1) + 1 = i BY <1>5
    <3> QED BY <2>1, <3>1, <3>2
  <2> QED BY <2>2
<1>8. ASSUME NEW q \in M, NEW r \in M PROVE end.got[q] <= end.got[r] + 1
  <2>1. end.got[q] \in {k, k + 1} /\ end.got[r] \in {k, k + 1} BY <1>7
  <2> QED BY <2>1
<1>9. ASSUME NEW q \in M, NEW r \in M PROVE g[q] < g[r] + n
  <2> DEFINE d == m \div n
             e == m % n
  <2>1. d \in Nat /\ e \in 0 .. n - 1 BY <1>5
  <2>2. /\ g[q] = d + (IF q = first THEN e ELSE 0) /\ g[r] = d + (IF r = first THEN e ELSE 0)
    BY <1>5 DEF g
  <2> HIDE DEF d, e, first
  <2> QED BY <1>5, <2>1, <2>2
<1> QED BY <1>1, <1>2, <1>5, <1>8, <1>9 DEF Evenly, M, result

(* Only who opens a corpse begins to look into it.                         *)
LEMMA ViewerOpens ==
    ASSUME GameInv, GameNext, corpse # NULL, corpse' # NULL,
           NEW p \in Players, p \notin corpse.viewers, p \in corpse'.viewers
    PROVE  Open(p)
<1>0. corpse \in Corpses BY DEF GameInv, Lying
<1>1. ASSUME corpse' = corpse PROVE FALSE BY <1>1
<1>2. ASSUME corpse'.viewers \subseteq corpse.viewers PROVE FALSE BY <1>2
<1>3. ASSUME NEW q \in Players,
             \/ PartyCommand(q) /\ UNCHANGED <<place, prey, corpse, fought>>
             \/ Enter(q) \/ Stick(q) \/ Hit(q)
      PROVE  FALSE
  BY <1>1, <1>3 DEF Enter, Stick, Hit
<1>4. ASSUME NEW q \in Players, Exit(q) PROVE FALSE
  <2> DEFINE inv == Ownerless(corpse.inv, q)
  <2>1. corpse' = [corpse EXCEPT !.viewers = @ \ {q}, !.inv = inv] BY <1>4 DEF Exit
  <2> HIDE DEF inv
  <2>2. corpse'.viewers = corpse.viewers \ {q} BY <1>0, <2>1 DEF Corpses
  <2> QED BY <1>2, <2>2
<1>5. ASSUME NEW q \in Players, (\E m \in Maps : Walk(q, m)) \/ Close(q) PROVE FALSE
  <2>1. corpse' = [corpse EXCEPT !.viewers = @ \ {q}] BY <1>5 DEF Walk, Close
  <2>2. corpse'.viewers = corpse.viewers \ {q} BY <1>0, <2>1 DEF Corpses
  <2> QED BY <1>2, <2>2
<1>6. ASSUME NEW q \in Players, Take(q) PROVE FALSE
  <2>1. \/ \E inv : corpse' = [corpse EXCEPT !.inv = inv]
        \/ corpse' = [corpse EXCEPT !.coins = 0]
    BY <1>6 DEF Take
  <2>2. corpse'.viewers = corpse.viewers BY <1>0, <2>1 DEF Corpses
  <2> QED BY <1>2, <2>2
<1>7. ASSUME Rot PROVE FALSE
  <2>1. corpse' = corpse \/ corpse' = [corpse EXCEPT !.lock = NULL] BY <1>7 DEF Rot, Rotten
  <2>2. corpse'.viewers = corpse.viewers BY <1>0, <2>1 DEF Corpses
  <2> QED BY <1>2, <2>2
<1>8. ASSUME OtherObject \/ Aggro \/ Respawn PROVE FALSE
  BY <1>1, <1>8 DEF OtherObject, Aggro, Respawn
<1>9. ASSUME KilledByBeast \/ \E q \in Players : Kill(q) PROVE FALSE
  BY <1>9 DEF KilledByBeast, Kill, GameInv, Single
<1>10. ASSUME NEW q \in Players, Open(q) PROVE q = p
  <2>1. online \cup {NULL} \in SUBSET (Players \cup {NULL}) /\ corpse.inv \in Seq(online \cup {NULL})
    BY DEF GameInv, Lying, PartyType
  <2>2. Opened(q, online \cup {NULL}) BY <1>0, <1>10, <2>1, OpenGives DEF GameInv
  <2>3. corpse'.viewers = corpse.viewers \cup {q} BY <2>2 DEF Opened
  <2> QED BY <2>3
<1> QED BY <1>3, <1>4, <1>5, <1>6, <1>7, <1>8, <1>9, <1>10 DEF GameNext

LEMMA StepEven ==
    ASSUME GameInv, GameNext, corpse # NULL, corpse' # NULL, corpse.kind = "party",
           NEW p \in Players, corpse'.viewers = corpse.viewers \cup {p},
           p \notin corpse.viewers, struct[party[p]].loot = "split", corpse'.inv = <<>>
    PROVE  Evenly(p, given')
<1>1. Open(p)
  <2>1. p \in corpse'.viewers OBVIOUS
  <2> QED BY <2>1, ViewerOpens
<1>2. /\ corpse \in Corpses /\ corpse.inv \in Seq(Players \cup {NULL})
      /\ corpse.coins \in Nat /\ Inv /\ PartyType
  <2>1. corpse \in Corpses BY DEF GameInv, Lying
  <2>2. corpse.coins \in Nat BY <2>1, BountyAssumption DEF Corpses
  <2> QED BY <2>1, <2>2 DEF GameInv, Corpses
<1>3. party[p] # NULL
  BY <1>1 DEF Open, MayOpen, party_can_open_corpse
<1> DEFINE Back(back) == Selected(corpse.inv, [i \in DOMAIN corpse.inv |-> corpse.inv[i] \notin back])
<1>4. PICK back, able : Handled(p, Split(p, Back(back), able), Back(back), back)
  BY <1>1 DEF Open
<1> DEFINE inv == Back(back)
           result == Split(p, inv, able)
           rest == Selected(inv, result.inv)
<1>5. inv \in Seq(Players \cup {NULL})
  <2> DEFINE all == corpse.inv
             left == [i \in DOMAIN all |-> all[i] \notin back]
  <2>1. all \in Seq(Players \cup {NULL}) BY <1>2
  <2>2. inv = Selected(all, left) OBVIOUS
  <2> HIDE DEF all, left, inv
  <2> QED BY <2>1, <2>2, SelectedIs
<1>6. /\ corpse' = [corpse EXCEPT !.viewers = @ \cup {p}, !.coins = result.coins, !.inv = rest]
      /\ given' = [result.given EXCEPT !.back = Returned(back)]
  BY <1>4 DEF Handled
<1>7. rest = <<>>
  <2> HIDE DEF rest, result
  <2>1. corpse'.inv = rest BY <1>2, <1>6 DEF Corpses
  <2> QED BY <2>1
<1> HIDE DEF inv
<1>8. Evenly(p, result.given)
  BY <1>2, <1>3, <1>5, <1>7, SplitIsEven
<1>9. given'.things = result.given.things /\ given'.coins = result.given.coins
  BY <1>6 DEF result, Split, Nothing
<1> QED BY <1>8, <1>9 DEF Evenly

(* Two members who are near do not differ by more than one thing when all of a
   corpse is split, nor by as many coins as there are members, wherever the index
   was left by the corpse before, whoever came, went or walked away since. *)
THEOREM SplitIsFair == GameSpec => SplitEvenly
<1> DEFINE Even ==
      \A p \in Players :
         /\ corpse # NULL /\ corpse' # NULL
         /\ corpse.kind = "party" /\ corpse'.viewers = corpse.viewers \cup {p}
         /\ p \notin corpse.viewers
         /\ struct[party[p]].loot = "split" /\ corpse'.inv = <<>>
         => \A q, r \in Mates(p) :
              /\ given'.things[q] <= given'.things[r] + 1
              /\ given'.coins[q] < given'.coins[r] + Cardinality(Mates(p))
<1>1. GameInv /\ [GameNext]_gameVars => [Even]_gameVars
  BY StepEven DEF Evenly
<1>2. [Even]_gameVars =>
        [\A p \in Players :
           /\ corpse # NULL /\ corpse' # NULL
           /\ corpse.kind = "party" /\ corpse'.viewers = corpse.viewers \cup {p}
           /\ p \notin corpse.viewers
           /\ struct[party[p]].loot = "split" /\ corpse'.inv = <<>>
           => \A q, r \in Mates(p) :
                /\ given'.things[q] <= given'.things[r] + 1
                /\ given'.coins[q] < given'.coins[r] + Cardinality(Mates(p))]_gameVars
  OBVIOUS
<1> HIDE DEF Even
<1> QED BY <1>1, <1>2, GameInvInit, GameInvKeeps, PTL DEF GameSpec, SplitEvenly

=============================================================================
