---------------------------- MODULE ItemsProofs ----------------------------
(***************************************************************************)
(* Things, their weight and who looks into them, for any number of         *)
(* players, containers and piles.                                          *)
(***************************************************************************)
EXTENDS Items, FiniteSetTheorems, TLAPS

---------------------------------------------------------------------------
(* Induction, as the smallest counterexample                               *)

LEMMA SmallestSet ==
    ASSUME NEW S, IsFiniteSet(S), NEW T, T \subseteq SUBSET S, T # {}
    PROVE  \E U \in T : \A V \in T : V \subseteq U => V = U
<1>1. IsWellFoundedOn(StrictSubsetOrdering(S), SUBSET S)
  BY FS_StrictSubsetOrderingWellFounded, FS_FiniteSubsetsOfFinite
<1>2. PICK U \in T : \A V \in T : <<V, U>> \notin StrictSubsetOrdering(S)
  BY <1>1, WFMin
<1> QED BY <1>2 DEF StrictSubsetOrdering

LEMMA SmallestNumber ==
    ASSUME NEW T, T \subseteq Nat, T # {}
    PROVE  \E n \in T : \A m \in T : n <= m
<1>1. PICK k \in T : TRUE OBVIOUS
<1> DEFINE Initial == {0 .. m : m \in {i \in T : i <= k}}
<1>2. IsFiniteSet(0 .. k) BY <1>1, FS_Interval
<1>3. Initial \subseteq SUBSET (0 .. k) /\ Initial # {} BY <1>1
<1>4. PICK U \in Initial : \A V \in Initial : V \subseteq U => V = U
  <2> DEFINE upto == 0 .. k
  <2>1. IsFiniteSet(upto) /\ Initial \subseteq SUBSET upto /\ Initial # {} BY <1>2, <1>3
  <2> HIDE DEF Initial, upto
  <2> QED BY <2>1, SmallestSet
<1>5. PICK n \in T : n <= k /\ U = 0 .. n BY <1>4
<1>6. ASSUME NEW m \in T, m < n PROVE FALSE
  <2>1. 0 .. m \in Initial BY <1>5, <1>6, <1>1
  <2>2. 0 .. m \subseteq U BY <1>5, <1>6
  <2>3. 0 .. m = 0 .. n BY <1>4, <1>5, <2>1, <2>2
  <2>4. n \in 0 .. n BY <1>5
  <2> QED BY <1>6, <1>5, <2>3, <2>4
<1> QED BY <1>5, <1>6

(* A loop that starts with s0 and takes one step after the other           *)
LEMMA Iteration ==
    ASSUME NEW S, NEW s0 \in S, NEW step \in [S -> S]
    PROVE  \E f \in [Nat -> S] : f[0] = s0 /\ \A n \in Nat : f[n + 1] = step[f[n]]
<1> DEFINE Begun(n) == {g \in [0 .. n -> S] : /\ g[0] = s0
                                              /\ \A i \in 0 .. n - 1 : g[i + 1] = step[g[i]]}
           Stuck == {n \in Nat : Begun(n) = {}}
<1>1. Stuck = {}
  <2> SUFFICES ASSUME Stuck # {} PROVE FALSE OBVIOUS
  <2>1. PICK n \in Stuck : \A m \in Stuck : n <= m
    <3>1. Stuck \subseteq Nat OBVIOUS
    <3> HIDE DEF Stuck
    <3> QED BY <3>1, SmallestNumber
  <2>2. CASE n = 0
    <3>1. [i \in 0 .. 0 |-> s0] \in Begun(0) OBVIOUS
    <3> QED BY <2>1, <2>2, <3>1
  <2>3. CASE n # 0
    <3>1. n \in Nat /\ n - 1 \in Nat /\ n - 1 \notin Stuck
      <4>1. n \in Nat BY <2>1
      <4>2. n - 1 \in Nat /\ ~(n <= n - 1) BY <4>1, <2>3
      <4> HIDE DEF Stuck
      <4> QED BY <2>1, <4>1, <4>2
    <3>2. PICK g : g \in Begun(n - 1) BY <3>1
    <3> DEFINE h == [i \in 0 .. n |-> IF i = n THEN step[g[n - 1]] ELSE g[i]]
    <3>3. g \in [0 .. n - 1 -> S] /\ g[0] = s0 BY <3>2
    <3>4. \A i \in 0 .. (n - 1) - 1 : g[i + 1] = step[g[i]] BY <3>2
    <3>5. h \in [0 .. n -> S] /\ h[0] = s0 BY <3>1, <3>3, <2>3
    <3>6. ASSUME NEW i \in 0 .. n - 1 PROVE h[i + 1] = step[h[i]]
      <4>1. CASE i = n - 1 BY <4>1, <3>1
      <4>2. CASE i # n - 1
        <5>1. i \in 0 .. (n - 1) - 1 /\ i + 1 # n /\ i # n BY <4>2, <3>1
        <5> QED BY <5>1, <3>4, <3>1
      <4> QED BY <4>1, <4>2
    <3>7. h \in Begun(n) BY <3>5, <3>6
    <3> QED BY <3>7, <2>1
  <2> QED BY <2>2, <2>3
<1>2. ASSUME NEW n \in Nat, NEW m \in Nat, n <= m, NEW g \in Begun(n), NEW h \in Begun(m)
      PROVE  \A i \in 0 .. n : g[i] = h[i]
  <2> DEFINE Apart == {i \in 0 .. n : g[i] # h[i]}
  <2> SUFFICES ASSUME Apart # {} PROVE FALSE OBVIOUS
  <2>1. PICK i \in Apart : \A j \in Apart : i <= j
    <3>1. Apart \subseteq Nat OBVIOUS
    <3> HIDE DEF Apart
    <3> QED BY <3>1, SmallestNumber
  <2>2. i # 0 BY <2>1
  <2>3. i - 1 \in 0 .. n - 1 /\ i - 1 \in 0 .. m - 1 /\ (i - 1) + 1 = i /\ i - 1 \notin Apart
    BY <2>1, <2>2, <1>2
  <2>4. g[i - 1] = h[i - 1] BY <2>3
  <2>5. g[i] = step[g[i - 1]] /\ h[i] = step[h[i - 1]] BY <2>3
  <2> QED BY <2>1, <2>4, <2>5
<1> DEFINE begun == [n \in Nat |-> CHOOSE g \in Begun(n) : TRUE]
           f == [n \in Nat |-> begun[n][n]]
<1>3. ASSUME NEW n \in Nat PROVE begun[n] \in Begun(n)
  <2>1. n \notin Stuck BY <1>1
  <2>2. \E g : g \in Begun(n) BY <2>1
  <2> HIDE DEF Begun
  <2> QED BY <2>2
<1>4. f \in [Nat -> S]
  <2> SUFFICES ASSUME NEW n \in Nat PROVE f[n] \in S OBVIOUS
  <2>1. begun[n] \in [0 .. n -> S] BY <1>3
  <2> QED BY <2>1
<1>5. f[0] = s0
  <2>1. begun[0][0] = s0 BY <1>3
  <2> QED BY <2>1
<1>6. ASSUME NEW n \in Nat PROVE f[n + 1] = step[f[n]]
  <2>1. n + 1 \in Nat /\ n <= n + 1 /\ n \in 0 .. n /\ n \in 0 .. (n + 1) - 1 OBVIOUS
  <2>2. begun[n][n] = begun[n + 1][n]
    <3>1. begun[n] \in Begun(n) /\ begun[n + 1] \in Begun(n + 1) BY <2>1, <1>3
    <3> HIDE DEF Begun, begun
    <3> QED BY <2>1, <3>1, <1>2
  <2>3. begun[n + 1][n + 1] = step[begun[n + 1][n]] BY <2>1, <1>3
  <2> QED BY <2>1, <2>2, <2>3
<1> HIDE DEF f
<1> QED BY <1>4, <1>5, <1>6

---------------------------------------------------------------------------
(* Sums: SumFunctionOnSet(f, S), and SumFunction(f), as they are defined   *)
(* by a fold that takes the elements in some order of its own              *)

Chosen(S) == CHOOSE x \in S : TRUE

(* g has the sum of f over every set of elements of S.                     *)
SumsUp(g, f, S) ==
    g = [s \in SUBSET S |-> IF s = {} THEN 0 ELSE f[Chosen(s)] + g[s \ {Chosen(s)}]]

LEMMA SumsUpUnique ==
    ASSUME NEW S, NEW T, IsFiniteSet(S), S \subseteq T, NEW f,
           NEW g, SumsUp(g, f, S), NEW h, SumsUp(h, f, T)
    PROVE  g[S] = h[S]
<1> DEFINE Apart == {U \in SUBSET S : g[U] # h[U]}
<1> SUFFICES ASSUME Apart # {} PROVE FALSE OBVIOUS
<1>1. PICK U \in Apart : \A V \in Apart : V \subseteq U => V = U
  <2>1. Apart \subseteq SUBSET S OBVIOUS
  <2> HIDE DEF Apart
  <2> QED BY <2>1, SmallestSet
<1>2. U # {} BY <1>1 DEF SumsUp
<1>3. Chosen(U) \in U BY <1>2 DEF Chosen
<1>4. U \ {Chosen(U)} \subseteq U /\ U \ {Chosen(U)} # U BY <1>3
<1>5. g[U \ {Chosen(U)}] = h[U \ {Chosen(U)}] BY <1>1, <1>4
<1>6. g[U] = f[Chosen(U)] + g[U \ {Chosen(U)}] BY <1>1, <1>2 DEF SumsUp
<1>7. h[U] = f[Chosen(U)] + h[U \ {Chosen(U)}] BY <1>1, <1>2 DEF SumsUp
<1> QED BY <1>1, <1>5, <1>6, <1>7

LEMMA SumsUpExists ==
    ASSUME NEW S, IsFiniteSet(S), NEW f
    PROVE  \E g : SumsUp(g, f, S)
<1> DEFINE Without == {U \in SUBSET S : ~ \E g : SumsUp(g, f, U)}
<1> SUFFICES ASSUME Without # {} PROVE FALSE OBVIOUS
<1>1. PICK U \in Without : \A V \in Without : V \subseteq U => V = U
  <2>1. Without \subseteq SUBSET S OBVIOUS
  <2> HIDE DEF Without
  <2> QED BY <2>1, SmallestSet
<1> DEFINE G(V) == CHOOSE g : SumsUp(g, f, V)
           total == [V \in SUBSET U |-> IF V = {} THEN 0
                         ELSE f[Chosen(V)] + G(V \ {Chosen(V)})[V \ {Chosen(V)}]]
<1>2. ASSUME NEW V \in SUBSET U, V # U PROVE SumsUp(G(V), f, V) /\ IsFiniteSet(V)
  <2>1. V \in SUBSET S /\ V \notin Without BY <1>1, <1>2
  <2>2. \E g : SumsUp(g, f, V) BY <2>1
  <2>3. SumsUp(G(V), f, V) BY <2>2
  <2> QED BY <2>1, <2>3, FS_Subset
<1>3. ASSUME NEW V \in SUBSET U, V # U PROVE G(V)[V] = total[V]
  <2>1. SumsUp(G(V), f, V) /\ IsFiniteSet(V) BY <1>2, <1>3
  <2>2. CASE V = {}
    <3> DEFINE g == G(V)
    <3>1. SumsUp(g, f, V) BY <2>1
    <3> HIDE DEF g
    <3>2. g[V] = 0 BY <3>1, <2>2 DEF SumsUp
    <3>3. total[V] = 0 BY <2>2
    <3> QED BY <3>2, <3>3 DEF g
  <2>3. CASE V # {}
    <3> DEFINE W == V \ {Chosen(V)}
               g == G(V)
               h == G(W)
    <3>1. Chosen(V) \in V BY <2>3 DEF Chosen
    <3>2. W \in SUBSET U /\ W # U /\ W \subseteq V BY <3>1
    <3>3. SumsUp(h, f, W) /\ IsFiniteSet(W) BY <3>2, <1>2
    <3>4. SumsUp(g, f, V) BY <2>1
    <3>5. total[V] = f[Chosen(V)] + h[W] BY <2>3
    <3> HIDE DEF g, h
    <3>6. h[W] = g[W] BY <3>2, <3>3, <3>4, SumsUpUnique
    <3>7. g[V] = f[Chosen(V)] + g[W] BY <3>4, <2>3 DEF SumsUp
    <3>8. total[V] = g[V] BY <3>5, <3>6, <3>7
    <3> QED BY <3>8 DEF g
  <2> QED BY <2>2, <2>3
<1>4. ASSUME NEW V \in SUBSET U, V # {} PROVE total[V] = f[Chosen(V)] + total[V \ {Chosen(V)}]
  <2>1. Chosen(V) \in V BY <1>4 DEF Chosen
  <2>2. V \ {Chosen(V)} \in SUBSET U /\ V \ {Chosen(V)} # U BY <2>1
  <2> QED BY <2>2, <1>3, <1>4
<1>5. total[{}] = 0 OBVIOUS
<1>6. total = [V \in SUBSET U |-> total[V]] OBVIOUS
<1>7. SumsUp(total, f, U)
  <2> HIDE DEF total
  <2>1. \A V \in SUBSET U : total[V] = IF V = {} THEN 0 ELSE f[Chosen(V)] + total[V \ {Chosen(V)}]
    BY <1>4, <1>5
  <2> QED BY <1>6, <2>1 DEF SumsUp
<1> QED BY <1>1, <1>7

LEMMA SumIsFold ==
    ASSUME NEW S, IsFiniteSet(S), NEW f
    PROVE  \E g : SumsUp(g, f, S) /\ SumFunctionOnSet(f, S) = g[S]
<1> DEFINE sum == CHOOSE g : g = [s \in SUBSET S |-> IF s = {} THEN 0
                                      ELSE f[Chosen(s)] + g[s \ {Chosen(s)}]]
<1>1. SumFunctionOnSet(f, S) = sum[S]
  BY DEF SumFunctionOnSet, FoldFunctionOnSet, MapThenFoldSet, Chosen
<1>2. \E g : g = [s \in SUBSET S |-> IF s = {} THEN 0 ELSE f[Chosen(s)] + g[s \ {Chosen(s)}]]
  <2>1. PICK g : SumsUp(g, f, S) BY SumsUpExists
  <2> QED BY <2>1 DEF SumsUp
<1>3. SumsUp(sum, f, S) BY <1>2 DEF SumsUp
<1> HIDE DEF sum
<1> QED BY <1>1, <1>3

LEMMA SumEmpty ==
    ASSUME NEW f
    PROVE  SumFunctionOnSet(f, {}) = 0
  BY SumIsFold, FS_EmptySet DEF SumsUp

LEMMA SumStep ==
    ASSUME NEW S, IsFiniteSet(S), S # {}, NEW f
    PROVE  /\ Chosen(S) \in S
           /\ SumFunctionOnSet(f, S) = f[Chosen(S)] + SumFunctionOnSet(f, S \ {Chosen(S)})
<1> DEFINE U == S \ {Chosen(S)}
<1>1. Chosen(S) \in S BY DEF Chosen
<1>2. U \subseteq S /\ IsFiniteSet(U) BY FS_Subset
<1>3. PICK g : SumsUp(g, f, S) /\ SumFunctionOnSet(f, S) = g[S] BY SumIsFold
<1>4. PICK h : SumsUp(h, f, U) /\ SumFunctionOnSet(f, U) = h[U] BY <1>2, SumIsFold
<1>5. h[U] = g[U]
  <2> HIDE DEF U
  <2> QED BY <1>2, <1>3, <1>4, SumsUpUnique
<1>6. g[S] = f[Chosen(S)] + g[U] BY <1>3 DEF SumsUp
<1> QED BY <1>1, <1>3, <1>4, <1>5, <1>6

(* The sum over a set is one of its elements and the sum of the rest.      *)
LEMMA SumSplit ==
    ASSUME NEW S, IsFiniteSet(S), NEW f, \A x \in S : f[x] \in Int
    PROVE  /\ SumFunctionOnSet(f, S) \in Int
           /\ \A x \in S : SumFunctionOnSet(f, S) = f[x] + SumFunctionOnSet(f, S \ {x})
<1> DEFINE Sum(U) == SumFunctionOnSet(f, U)
           Right(U) == Sum(U) \in Int /\ \A x \in U : Sum(U) = f[x] + Sum(U \ {x})
           Wrong == {U \in SUBSET S : ~Right(U)}
<1> SUFFICES ASSUME Wrong # {} PROVE FALSE OBVIOUS
<1>1. PICK U \in Wrong : \A V \in Wrong : V \subseteq U => V = U
  <2>1. Wrong \subseteq SUBSET S OBVIOUS
  <2> HIDE DEF Wrong
  <2> QED BY <2>1, SmallestSet
<1>2. U # {}
  <2>1. Right({}) BY SumEmpty
  <2> QED BY <1>1, <2>1
<1> DEFINE c == Chosen(U)
<1>3. IsFiniteSet(U) BY <1>1, FS_Subset
<1>4. c \in U /\ Sum(U) = f[c] + Sum(U \ {c}) BY <1>2, <1>3, SumStep
<1>5. ASSUME NEW x \in U PROVE Right(U \ {x})
  <2>1. U \ {x} \in SUBSET S /\ U \ {x} \subseteq U /\ U \ {x} # U BY <1>1
  <2>2. U \ {x} \notin Wrong BY <1>1, <2>1
  <2> QED BY <2>1, <2>2
<1> HIDE DEF Sum
<1>6. Sum(U) \in Int BY <1>4, <1>5
<1>7. ASSUME NEW x \in U PROVE Sum(U) = f[x] + Sum(U \ {x})
  <2>1. CASE x = c BY <1>4, <2>1
  <2>2. CASE x # c
    <3>1. (U \ {c}) \ {x} = (U \ {x}) \ {c} OBVIOUS
    <3>2. Sum(U \ {c}) = f[x] + Sum((U \ {c}) \ {x}) BY <1>4, <1>5, <2>2
    <3>3. Sum(U \ {x}) = f[c] + Sum((U \ {x}) \ {c}) BY <1>4, <1>5, <2>2
    <3>4. IsFiniteSet((U \ {x}) \ {c}) /\ Sum((U \ {x}) \ {c}) \in Int
      <4>1. (U \ {x}) \ {c} \in SUBSET S /\ (U \ {x}) \ {c} \subseteq U /\ (U \ {x}) \ {c} # U
        BY <1>1
      <4>2. (U \ {x}) \ {c} \notin Wrong BY <1>1, <4>1
      <4> QED BY <4>1, <4>2, FS_Subset
    <3>5. f[x] \in Int /\ f[c] \in Int BY <1>1, <1>4
    <3>6. Sum((U \ {c}) \ {x}) = Sum((U \ {x}) \ {c}) BY <3>1
    <3> QED BY <1>4, <3>2, <3>3, <3>4, <3>5, <3>6
  <2> QED BY <2>1, <2>2
<1> QED BY <1>1, <1>6, <1>7

LEMMA SumSame ==
    ASSUME NEW S, IsFiniteSet(S), NEW f, NEW g, \A x \in S : f[x] = g[x]
    PROVE  SumFunctionOnSet(f, S) = SumFunctionOnSet(g, S)
<1> DEFINE Apart == {U \in SUBSET S : SumFunctionOnSet(f, U) # SumFunctionOnSet(g, U)}
<1> SUFFICES ASSUME Apart # {} PROVE FALSE OBVIOUS
<1>1. PICK U \in Apart : \A V \in Apart : V \subseteq U => V = U
  <2>1. Apart \subseteq SUBSET S OBVIOUS
  <2> HIDE DEF Apart
  <2> QED BY <2>1, SmallestSet
<1>2. U # {}
  <2>1. SumFunctionOnSet(f, {}) = SumFunctionOnSet(g, {}) BY SumEmpty
  <2> QED BY <1>1, <2>1
<1>3. IsFiniteSet(U) BY <1>1, FS_Subset
<1> DEFINE V == U \ {Chosen(U)}
<1>4. /\ Chosen(U) \in U
      /\ SumFunctionOnSet(f, U) = f[Chosen(U)] + SumFunctionOnSet(f, V)
      /\ SumFunctionOnSet(g, U) = g[Chosen(U)] + SumFunctionOnSet(g, V)
  BY <1>2, <1>3, SumStep
<1>5. SumFunctionOnSet(f, V) = SumFunctionOnSet(g, V)
  <2>1. V \in SUBSET S /\ V \subseteq U /\ V # U BY <1>1, <1>4
  <2>2. V \notin Apart BY <1>1, <2>1
  <2> QED BY <2>1, <2>2
<1>6. f[Chosen(U)] = g[Chosen(U)] BY <1>1, <1>4
<1> QED BY <1>1, <1>4, <1>5, <1>6

(* Changing what one element counts                                        *)
LEMMA SumChange ==
    ASSUME NEW S, IsFiniteSet(S), NEW f, \A y \in S : f[y] \in Int,
           NEW g, \A y \in S : g[y] \in Int,
           NEW x \in S, \A y \in S \ {x} : g[y] = f[y]
    PROVE  SumFunctionOnSet(g, S) = SumFunctionOnSet(f, S) + g[x] - f[x]
<1>1. IsFiniteSet(S \ {x}) BY FS_RemoveElement
<1>2. SumFunctionOnSet(g, S \ {x}) = SumFunctionOnSet(f, S \ {x}) BY <1>1, SumSame
<1>3. SumFunctionOnSet(f, S \ {x}) \in Int BY <1>1, SumSplit
<1>4. SumFunctionOnSet(f, S) = f[x] + SumFunctionOnSet(f, S \ {x}) BY SumSplit
<1>5. SumFunctionOnSet(g, S) = g[x] + SumFunctionOnSet(g, S \ {x}) BY SumSplit
<1>6. f[x] \in Int /\ g[x] \in Int OBVIOUS
<1> QED BY <1>2, <1>3, <1>4, <1>5, <1>6

LEMMA SumAdd ==
    ASSUME NEW S, IsFiniteSet(S), NEW x, x \notin S,
           NEW f, \A y \in S \cup {x} : f[y] \in Int
    PROVE  SumFunctionOnSet(f, S \cup {x}) = f[x] + SumFunctionOnSet(f, S)
<1>1. IsFiniteSet(S \cup {x}) BY FS_AddElement
<1>2. (S \cup {x}) \ {x} = S OBVIOUS
<1>3. SumFunctionOnSet(f, S \cup {x}) = f[x] + SumFunctionOnSet(f, (S \cup {x}) \ {x})
  BY <1>1, SumSplit
<1> QED BY <1>2, <1>3

(* A sum grows with its elements and with what they count.                 *)
LEMMA SumAtMost ==
    ASSUME NEW T, IsFiniteSet(T), NEW S \in SUBSET T,
           NEW f, NEW g, \A x \in S : f[x] \in Int /\ f[x] <= g[x],
           \A x \in T : g[x] \in Nat
    PROVE  /\ SumFunctionOnSet(f, S) <= SumFunctionOnSet(g, T)
           /\ SumFunctionOnSet(g, T) \in Nat
<1> DEFINE F(U) == SumFunctionOnSet(f, S \cap U)
           G(U) == SumFunctionOnSet(g, U)
           Right(U) == F(U) <= G(U) /\ G(U) \in Nat
           Wrong == {U \in SUBSET T : ~Right(U)}
<1>0. Wrong = {}
  <2> SUFFICES ASSUME Wrong # {} PROVE FALSE OBVIOUS
  <2>1. PICK U \in Wrong : \A V \in Wrong : V \subseteq U => V = U
    <3>1. Wrong \subseteq SUBSET T OBVIOUS
    <3> HIDE DEF Wrong
    <3> QED BY <3>1, SmallestSet
  <2>2. U # {}
    <3>1. S \cap {} = {} OBVIOUS
    <3>2. F({}) = 0 /\ G({}) = 0 BY <3>1, SumEmpty
    <3>3. Right({}) BY <3>2
    <3> QED BY <2>1, <3>3
  <2>3. PICK x \in U : TRUE BY <2>2
  <2> DEFINE V == U \ {x}
  <2>4. Right(V)
    <3>1. V \in SUBSET T /\ V \subseteq U /\ V # U BY <2>1, <2>3
    <3>2. V \notin Wrong BY <2>1, <3>1
    <3> QED BY <3>1, <3>2
  <2>5. IsFiniteSet(U) /\ IsFiniteSet(S \cap U) /\ IsFiniteSet(S \cap V)
    BY <2>1, FS_Subset
  <2>6. G(U) = g[x] + G(V) /\ g[x] \in Nat BY <2>1, <2>3, <2>5, SumSplit
  <2>7. F(V) \in Int BY <2>5, SumSplit
  <2>8. CASE x \in S
    <3>1. (S \cap U) \ {x} = S \cap V /\ x \in S \cap U BY <2>3, <2>8
    <3>2. SumFunctionOnSet(f, S \cap U) = f[x] + SumFunctionOnSet(f, (S \cap U) \ {x})
      BY <3>1, <2>5, SumSplit
    <3>3. F(U) = f[x] + F(V) BY <3>1, <3>2
    <3>4. f[x] \in Int /\ f[x] <= g[x] BY <2>8
    <3> HIDE DEF F, G
    <3> QED BY <2>1, <2>4, <2>6, <2>7, <3>3, <3>4
  <2>9. CASE x \notin S
    <3>1. S \cap U = S \cap V BY <2>9
    <3>2. F(U) = F(V) BY <3>1
    <3> HIDE DEF F, G
    <3> QED BY <2>1, <2>4, <2>6, <2>7, <3>2
  <2> QED BY <2>8, <2>9
<1>1. S \cap T = S OBVIOUS
<1>2. Right(T) BY <1>0
<1> QED BY <1>1, <1>2

---------------------------------------------------------------------------
(* What is reached                                                         *)

LEMMA ReachedFacts ==
    ASSUME NEW next, NEW x
    PROVE  LET R == Reached(next, x)
           IN  /\ R \subseteq DOMAIN next
               /\ x \in DOMAIN next => x \in R
               /\ \A y \in R : next[y] \in DOMAIN next => next[y] \in R
               /\ \A S \in SUBSET DOMAIN next :
                      /\ x \in DOMAIN next => x \in S
                      /\ \A y \in S : next[y] \in DOMAIN next => next[y] \in S
                      => R \subseteq S
<1> DEFINE D == DOMAIN next
           Closed(S) == ({x} \cup {next[z] : z \in S}) \cap D \subseteq S
           R == {y \in D : \A S \in SUBSET D : Closed(S) => y \in S}
<1>1. Reached(next, x) = R BY DEF Reached
<1>2. R \subseteq D OBVIOUS
<1>3. x \in D => x \in R OBVIOUS
<1>4. ASSUME NEW y \in R, next[y] \in D PROVE next[y] \in R
  <2> SUFFICES ASSUME NEW S \in SUBSET D, Closed(S) PROVE next[y] \in S BY <1>4
  <2>1. y \in S BY <1>4
  <2> QED BY <1>4, <2>1
<1>5. ASSUME NEW S \in SUBSET D, x \in D => x \in S, \A y \in S : next[y] \in D => next[y] \in S
      PROVE  R \subseteq S
  <2>1. Closed(S) BY <1>5
  <2> QED BY <2>1
<1> HIDE DEF R
<1> QED BY <1>1, <1>2, <1>3, <1>4, <1>5

---------------------------------------------------------------------------
(* The players who look into containers                                    *)

(* A world where weights may be anything, which is what the operators      *)
(* handle                                                                  *)
Raw ==
    [env : [Things \cup Players -> Holders \cup Squares \cup {NULL}],
     nrof : [Piles -> Int], carrying : [Holders -> Int], sum : [Magical -> Int],
     applied : SUBSET Containers, container : [Players -> Containers \cup {NULL}],
     above : [Players -> Players \cup {NULL}], below : [Players -> Players \cup {NULL}],
     newest : [Containers -> Players \cup {NULL}]]

(* The lists of viewers: linked both ways, each within one container, none *)
(* a ring, and who has nobody below is the newest viewer of his container. *)
Linked(w) == \A p, q \in Players : w.above[p] = q <=> w.below[q] = p
OneList(w) ==
    \A p \in Players :
        /\ w.container[p] = NULL => w.above[p] = NULL /\ w.below[p] = NULL
        /\ w.above[p] # NULL => w.container[w.above[p]] = w.container[p]
Heads(w) ==
    /\ \A p \in Players : w.container[p] # NULL =>
           (w.below[p] = NULL <=> w.newest[w.container[p]] = p)
    /\ \A c \in Containers : w.newest[c] # NULL => w.container[w.newest[c]] = c
NoRing(w) == \A V \in SUBSET Players : V # {} => \E p \in V : w.below[p] \notin V
Lists(w) == Linked(w) /\ OneList(w) /\ Heads(w) /\ NoRing(w)

LEMMA Kinds ==
    /\ NULL \notin Players /\ NULL \notin Containers /\ NULL \notin Piles /\ NULL \notin Squares
    /\ \A x : ~(x \in Players /\ x \in Containers) /\ ~(x \in Players /\ x \in Piles)
    /\ \A x : ~(x \in Players /\ x \in Squares) /\ ~(x \in Containers /\ x \in Piles)
    /\ \A x : ~(x \in Containers /\ x \in Squares) /\ ~(x \in Piles /\ x \in Squares)
  BY KindsAssumption

(* From the newest viewer on, above leads to all who look into c.          *)
LEMMA ListedIsViewers ==
    ASSUME NEW w \in Raw, Lists(w), NEW c \in Containers
    PROVE  Listed(w, c) = {p \in Players : w.container[p] = c}
<1> DEFINE V == {p \in Players : w.container[p] = c}
           R == Reached(w.above, w.newest[c])
<1>1. DOMAIN w.above = Players BY DEF Raw
<1>2. /\ w.container \in [Players -> Containers \cup {NULL}]
      /\ w.above \in [Players -> Players \cup {NULL}]
      /\ w.below \in [Players -> Players \cup {NULL}]
      /\ w.newest \in [Containers -> Players \cup {NULL}]
  BY DEF Raw
<1>3. R \subseteq V
  <2>1. w.newest[c] \in Players => w.newest[c] \in V BY Kinds DEF Lists, Heads
  <2>2. \A y \in V : w.above[y] \in Players => w.above[y] \in V BY Kinds DEF Lists, OneList
  <2>3. V \in SUBSET DOMAIN w.above BY <1>1
  <2> HIDE DEF V
  <2> QED BY <1>1, <2>1, <2>2, <2>3, ReachedFacts
<1>4. V \subseteq R
  <2> DEFINE U == V \ R
  <2> SUFFICES ASSUME U # {} PROVE FALSE OBVIOUS
  <2>1. PICK p \in U : w.below[p] \notin U
    <3>1. U \in SUBSET Players OBVIOUS
    <3> HIDE DEF U
    <3> QED BY <3>1 DEF Lists, NoRing
  <2>2. w.container[p] = c /\ p \in Players /\ c # NULL BY <2>1, Kinds
  <2>3. CASE w.below[p] = NULL
    <3>1. w.newest[c] = p BY <2>2, <2>3 DEF Lists, Heads
    <3>2. p \in R BY <2>2, <3>1, <1>1, ReachedFacts
    <3> QED BY <2>1, <3>2
  <2>4. CASE w.below[p] # NULL
    <3> DEFINE b == w.below[p]
    <3>1. b \in Players /\ w.above[b] = p BY <1>2, <2>2, <2>4 DEF Lists, Linked
    <3>2. w.container[b] = c BY <3>1, <2>2, Kinds DEF Lists, OneList
    <3>3. b \in R BY <3>1, <3>2, <2>1
    <3>4. p \in R BY <3>1, <3>3, <2>2, <1>1, ReachedFacts
    <3> QED BY <2>1, <3>4
  <2> QED BY <2>3, <2>4
<1> QED BY <1>3, <1>4 DEF Listed

(* Taking all viewers of one container out of the lists leaves lists.      *)
LEMMA ForgetViewers ==
    ASSUME NEW w \in Raw, Lists(w), NEW c \in Containers, NEW u \in Raw,
           LET V == {p \in Players : w.container[p] = c}
           IN  /\ \A p \in V : u.container[p] = NULL /\ u.above[p] = NULL /\ u.below[p] = NULL
               /\ \A p \in Players \ V : /\ u.container[p] = w.container[p]
                                         /\ u.above[p] = w.above[p] /\ u.below[p] = w.below[p],
           u.newest = [w.newest EXCEPT ![c] = NULL]
    PROVE  Lists(u)
<1> DEFINE V == {p \in Players : w.container[p] = c}
<1>t. /\ w.container \in [Players -> Containers \cup {NULL}]
      /\ w.above \in [Players -> Players \cup {NULL}]
      /\ w.below \in [Players -> Players \cup {NULL}]
      /\ w.newest \in [Containers -> Players \cup {NULL}]
  BY DEF Raw
<1>1. \A p \in V : u.container[p] = NULL /\ u.above[p] = NULL /\ u.below[p] = NULL OBVIOUS
<1>2. \A p \in Players \ V : /\ u.container[p] = w.container[p]
                             /\ u.above[p] = w.above[p] /\ u.below[p] = w.below[p]
  OBVIOUS
<1>3. \A p, q \in Players : w.above[p] = q => (p \in V <=> q \in V)
  BY Kinds DEF Lists, OneList
<1>4. Linked(u)
  <2> SUFFICES ASSUME NEW p \in Players, NEW q \in Players PROVE u.above[p] = q <=> u.below[q] = p
    BY DEF Linked
  <2>1. w.above[p] = q <=> w.below[q] = p BY DEF Lists, Linked
  <2> HIDE DEF V
  <2> QED BY <1>1, <1>2, <1>3, <2>1, Kinds
<1>5. OneList(u)
  <2> SUFFICES ASSUME NEW p \in Players
               PROVE  /\ u.container[p] = NULL => u.above[p] = NULL /\ u.below[p] = NULL
                      /\ u.above[p] # NULL => u.container[u.above[p]] = u.container[p]
    BY DEF OneList
  <2>1. /\ w.container[p] = NULL => w.above[p] = NULL /\ w.below[p] = NULL
        /\ w.above[p] # NULL => w.container[w.above[p]] = w.container[p]
    BY DEF Lists, OneList
  <2>2. w.above[p] # NULL => (w.above[p] \in Players /\ (p \in V <=> w.above[p] \in V))
    BY <1>3, <1>t
  <2> HIDE DEF V
  <2> QED BY <1>1, <1>2, <2>1, <2>2
<1>6. Heads(u)
  <2>1. ASSUME NEW p \in Players, u.container[p] # NULL
        PROVE  u.below[p] = NULL <=> u.newest[u.container[p]] = p
    <3>1. p \notin V BY <1>1, <2>1
    <3>2. u.container[p] = w.container[p] /\ u.below[p] = w.below[p] BY <1>2, <3>1
    <3>3. w.container[p] \in Containers /\ w.container[p] # c BY <1>t, <2>1, <3>1, <3>2
    <3>4. u.newest[u.container[p]] = w.newest[w.container[p]] BY <3>2, <3>3, <1>t
    <3>5. w.below[p] = NULL <=> w.newest[w.container[p]] = p
      BY <2>1, <3>2 DEF Lists, Heads
    <3> QED BY <3>2, <3>4, <3>5
  <2>2. ASSUME NEW d \in Containers, u.newest[d] # NULL PROVE u.container[u.newest[d]] = d
    <3>1. d # c /\ u.newest[d] = w.newest[d] BY <2>2, <1>t
    <3>2. w.newest[d] \in Players /\ w.container[w.newest[d]] = d
      BY <2>2, <3>1, <1>t DEF Lists, Heads
    <3> QED BY <3>1, <3>2, <1>2
  <2> QED BY <2>1, <2>2 DEF Heads
<1>7. NoRing(u)
  <2> SUFFICES ASSUME NEW U \in SUBSET Players, U # {} PROVE \E p \in U : u.below[p] \notin U
    BY DEF NoRing
  <2>1. CASE U \cap V # {}
    <3>1. PICK p \in U : p \in V BY <2>1
    <3> QED BY <3>1, <1>1, Kinds
  <2>2. CASE U \cap V = {}
    <3>1. PICK p \in U : w.below[p] \notin U BY DEF Lists, NoRing
    <3> QED BY <3>1, <1>2, <2>2
  <2> QED BY <2>1, <2>2
<1> QED BY <1>4, <1>5, <1>6, <1>7 DEF Lists

LEMMA ForgetShape ==
    ASSUME NEW w \in Raw, NEW S
    PROVE  /\ Forget(w, S) \in Raw
           /\ \A p \in Players \cap S : /\ Forget(w, S).container[p] = NULL
                                        /\ Forget(w, S).above[p] = NULL
                                        /\ Forget(w, S).below[p] = NULL
           /\ \A p \in Players \ S : /\ Forget(w, S).container[p] = w.container[p]
                                     /\ Forget(w, S).above[p] = w.above[p]
                                     /\ Forget(w, S).below[p] = w.below[p]
           /\ Forget(w, S).env = w.env /\ Forget(w, S).nrof = w.nrof
           /\ Forget(w, S).carrying = w.carrying /\ Forget(w, S).sum = w.sum
           /\ Forget(w, S).applied = w.applied /\ Forget(w, S).newest = w.newest
  BY DEF Forget, Raw

(* What the operators on lists of viewers leave as it is                   *)
SameThings(u, w) ==
    u.env = w.env /\ u.nrof = w.nrof /\ u.carrying = w.carrying /\ u.sum = w.sum

LEMMA CloseAllFacts ==
    ASSUME NEW w \in Raw, Lists(w), NEW c \in Containers
    PROVE  LET u == CloseAll(w, c)
           IN  /\ u \in Raw /\ Lists(u) /\ SameThings(u, w)
               /\ u.container = [p \in Players |-> IF w.container[p] = c THEN NULL
                                                   ELSE w.container[p]]
               /\ u.newest = [w.newest EXCEPT ![c] = NULL]
               /\ u.applied = IF w.newest[c] = NULL THEN w.applied ELSE w.applied \ {c}
<1> DEFINE V == {p \in Players : w.container[p] = c}
           u == CloseAll(w, c)
<1>1. Listed(w, c) = V BY ListedIsViewers
<1>2. CASE w.newest[c] = NULL
  <2>1. V = {}
    <3>1. DOMAIN w.above = Players BY DEF Raw
    <3> DEFINE none == {}
    <3>2. w.newest[c] \notin DOMAIN w.above BY <3>1, <1>2, Kinds
    <3>3. /\ none \in SUBSET DOMAIN w.above
          /\ \A y \in none : w.above[y] \in DOMAIN w.above => w.above[y] \in none
      OBVIOUS
    <3> HIDE DEF none
    <3>4. Reached(w.above, w.newest[c]) \subseteq none BY <3>2, <3>3, ReachedFacts
    <3> QED BY <1>1, <3>4 DEF Listed, none
  <2>2. u = w BY <1>2 DEF CloseAll
  <2>3. w.newest = [w.newest EXCEPT ![c] = NULL] BY <1>2 DEF Raw
  <2>4. w.container = [p \in Players |-> IF w.container[p] = c THEN NULL ELSE w.container[p]]
    <3>1. \A p \in Players : w.container[p] # c BY <2>1
    <3>2. w.container \in [Players -> Containers \cup {NULL}] BY DEF Raw
    <3> QED BY <3>1, <3>2
  <2> QED BY <1>2, <2>2, <2>3, <2>4 DEF SameThings
<1>3. CASE w.newest[c] # NULL
  <2> DEFINE f == Forget(w, V)
  <2>1. u = [f EXCEPT !.applied = @ \ {c}, !.newest[c] = NULL] BY <1>1, <1>3 DEF CloseAll
  <2>2. f \in Raw BY ForgetShape
  <2>3. /\ \A p \in V : f.container[p] = NULL /\ f.above[p] = NULL /\ f.below[p] = NULL
        /\ \A p \in Players \ V : /\ f.container[p] = w.container[p]
                                  /\ f.above[p] = w.above[p] /\ f.below[p] = w.below[p]
    BY ForgetShape
  <2>4. SameThings(f, w) /\ f.applied = w.applied /\ f.newest = w.newest
    BY ForgetShape DEF SameThings
  <2> HIDE DEF f, u
  <2>5. u \in Raw BY <2>1, <2>2 DEF Raw
  <2>6. /\ u.env = f.env /\ u.nrof = f.nrof /\ u.carrying = f.carrying /\ u.sum = f.sum
        /\ u.container = f.container /\ u.above = f.above /\ u.below = f.below
        /\ u.applied = f.applied \ {c} /\ u.newest = [f.newest EXCEPT ![c] = NULL]
    BY <2>1, <2>2 DEF Raw
  <2>7. SameThings(u, w) BY <2>4, <2>6 DEF SameThings
  <2>8. u.newest = [w.newest EXCEPT ![c] = NULL] /\ u.applied = w.applied \ {c} BY <2>4, <2>6
  <2>9. Lists(u) BY <2>3, <2>5, <2>6, <2>8, ForgetViewers
  <2>10. u.container = [p \in Players |-> IF w.container[p] = c THEN NULL ELSE w.container[p]]
    <3>1. u.container \in [Players -> Containers \cup {NULL}] BY <2>5 DEF Raw
    <3> QED BY <3>1, <2>3, <2>6
  <2> QED BY <1>3, <2>5, <2>7, <2>8, <2>9, <2>10 DEF u
<1> QED BY <1>2, <1>3

(* Taking one viewer out of his list links his neighbours.                 *)
LEMMA UnlinkOne ==
    ASSUME NEW w \in Raw, Lists(w), NEW p \in Players, w.container[p] # NULL, NEW u \in Raw,
           LET c == w.container[p]
               a == w.above[p]
               b == w.below[p]
           IN  /\ \A q \in Players : /\ u.container[q] = IF q = p THEN NULL ELSE w.container[q]
                                     /\ u.above[q] = IF q = p THEN NULL
                                                     ELSE IF q = b THEN a ELSE w.above[q]
                                     /\ u.below[q] = IF q = p THEN NULL
                                                     ELSE IF q = a THEN b ELSE w.below[q]
               /\ \A d \in Containers : u.newest[d] = IF b = NULL /\ d = c THEN a ELSE w.newest[d]
    PROVE  Lists(u)
<1> DEFINE c == w.container[p]
           a == w.above[p]
           b == w.below[p]
<1>t. /\ w.container \in [Players -> Containers \cup {NULL}]
      /\ w.above \in [Players -> Players \cup {NULL}]
      /\ w.below \in [Players -> Players \cup {NULL}]
      /\ w.newest \in [Containers -> Players \cup {NULL}]
  BY DEF Raw
<1>1. \A q \in Players : /\ u.container[q] = IF q = p THEN NULL ELSE w.container[q]
                         /\ u.above[q] = IF q = p THEN NULL ELSE IF q = b THEN a ELSE w.above[q]
                         /\ u.below[q] = IF q = p THEN NULL ELSE IF q = a THEN b ELSE w.below[q]
  OBVIOUS
<1>2. \A d \in Containers : u.newest[d] = IF b = NULL /\ d = c THEN a ELSE w.newest[d]
  OBVIOUS
<1>3. c \in Containers /\ a \in Players \cup {NULL} /\ b \in Players \cup {NULL}
  BY <1>t
<1>4. \A q \in Players : (w.above[p] = q <=> w.below[q] = p) /\ (w.above[q] = p <=> w.below[p] = q)
  BY DEF Lists, Linked
<1>5. a # p /\ b # p
  <2>1. \E q \in {p} : w.below[q] \notin {p} BY DEF Lists, NoRing
  <2> QED BY <2>1, <1>4
<1>6. (a # NULL => w.container[a] = c) /\ (b # NULL => w.container[b] = c)
  <2>1. a # NULL => w.container[a] = c BY DEF Lists, OneList
  <2>2. b # NULL => b \in Players /\ w.above[b] = p BY <1>3, <1>4
  <2>3. b # NULL => w.container[b] = c BY <2>2, Kinds DEF Lists, OneList
  <2> QED BY <2>1, <2>3
<1>7. Linked(u)
  <2> SUFFICES ASSUME NEW x \in Players, NEW y \in Players PROVE u.above[x] = y <=> u.below[y] = x
    BY DEF Linked
  <2>1. w.above[x] = y <=> w.below[y] = x BY DEF Lists, Linked
  <2>2. w.above[x] = a <=> (a = NULL /\ w.above[x] = NULL) \/ (a # NULL /\ x = p)
    <3>1. a # NULL => (w.above[x] = a <=> w.below[a] = x) BY <1>3 DEF Lists, Linked
    <3> QED BY <3>1, <1>4, <1>3
  <2>3. w.below[y] = b <=> (b = NULL /\ w.below[y] = NULL) \/ (b # NULL /\ y = p)
    <3>1. b # NULL => (w.above[b] = y <=> w.below[y] = b) BY <1>3 DEF Lists, Linked
    <3> QED BY <3>1, <1>4, <1>3
  <2> HIDE DEF a, b
  <2> QED BY <1>1, <1>3, <1>4, <1>5, <2>1, <2>2, <2>3, Kinds
<1>8. OneList(u)
  <2> SUFFICES ASSUME NEW q \in Players
               PROVE  /\ u.container[q] = NULL => u.above[q] = NULL /\ u.below[q] = NULL
                      /\ u.above[q] # NULL => u.container[u.above[q]] = u.container[q]
    BY DEF OneList
  <2>1. /\ w.container[q] = NULL => w.above[q] = NULL /\ w.below[q] = NULL
        /\ w.above[q] # NULL => w.container[w.above[q]] = w.container[q] /\ w.above[q] \in Players
    BY <1>t DEF Lists, OneList
  <2>2. w.above[q] = p => q = b BY <1>4
  <2>3. c # NULL BY <1>3, Kinds
  <2> HIDE DEF a, b, c
  <2> QED BY <1>1, <1>3, <1>5, <1>6, <2>1, <2>2, <2>3, Kinds
<1>9. Heads(u)
  <2>0. c # NULL BY <1>3, Kinds
  <2>1. ASSUME NEW q \in Players, u.container[q] # NULL
        PROVE  u.below[q] = NULL <=> u.newest[u.container[q]] = q
    <3>1. q # p /\ u.container[q] = w.container[q] /\ w.container[q] \in Containers
      BY <1>1, <1>t, <2>1
    <3>2. w.below[q] = NULL <=> w.newest[w.container[q]] = q BY <3>1, <2>1 DEF Lists, Heads
    <3>3. b = NULL <=> w.newest[c] = p BY DEF Lists, Heads
    <3>4. q = a => w.below[q] = p BY <1>4, <3>1
    <3>5. q = a => w.container[q] = c BY <1>6, <3>1, Kinds
    <3>6. u.newest[u.container[q]] = IF b = NULL /\ w.container[q] = c THEN a
                                     ELSE w.newest[w.container[q]]
      BY <1>2, <3>1
    <3>7. u.below[q] = IF q = a THEN b ELSE w.below[q] BY <1>1, <3>1
    <3> HIDE DEF a, b, c
    <3> QED BY <3>1, <3>2, <3>3, <3>4, <3>5, <3>6, <3>7, Kinds
  <2>2. ASSUME NEW d \in Containers, u.newest[d] # NULL PROVE u.container[u.newest[d]] = d
    <3>1. CASE b = NULL /\ d = c BY <3>1, <2>2, <1>1, <1>2, <1>3, <1>5, <1>6
    <3>2. CASE ~(b = NULL /\ d = c)
      <4>1. u.newest[d] = w.newest[d] /\ w.newest[d] \in Players BY <1>2, <1>t, <2>2, <3>2
      <4>2. w.container[w.newest[d]] = d BY <2>2, <4>1 DEF Lists, Heads
      <4>3. w.newest[d] # p
        <5>1. b = NULL <=> w.newest[c] = p BY DEF Lists, Heads
        <5> QED BY <5>1, <4>2, <3>2
      <4> QED BY <1>1, <4>1, <4>2, <4>3
    <3> QED BY <3>1, <3>2
  <2> QED BY <2>1, <2>2 DEF Heads
<1>10. NoRing(u)
  <2> SUFFICES ASSUME NEW V \in SUBSET Players, V # {} PROVE \E q \in V : u.below[q] \notin V
    BY DEF NoRing
  <2>1. CASE p \in V BY <2>1, <1>1, Kinds
  <2>2. CASE p \notin V /\ a \in V /\ b \in V
    <3> DEFINE W == V \cup {p}
    <3>1. PICK q \in W : w.below[q] \notin W
      <4>1. W \in SUBSET Players /\ W # {} OBVIOUS
      <4> HIDE DEF W
      <4> QED BY <4>1 DEF Lists, NoRing
    <3>2. q # p /\ q # a BY <3>1, <2>2, <1>4
    <3> QED BY <3>1, <3>2, <1>1
  <2>3. CASE p \notin V /\ ~(a \in V /\ b \in V)
    <3>1. PICK q \in V : w.below[q] \notin V BY DEF Lists, NoRing
    <3> QED BY <3>1, <2>3, <1>1
  <2> QED BY <2>1, <2>2, <2>3
<1> QED BY <1>7, <1>8, <1>9, <1>10 DEF Lists

(* What the operators on the lists do to who looks into what: p looks into *)
(* nothing, others into nothing new, and a container that is not applied   *)
(* any more has no viewers, one that still is not fewer than one, if it    *)
(* had one.                                                                *)
LetGo(u, w, p) ==
    /\ u \in Raw /\ Lists(u) /\ SameThings(u, w)
    /\ u.container[p] = NULL
    /\ \A q \in Players : u.container[q] \in {w.container[q], NULL}
    /\ u.applied \subseteq w.applied
    /\ \A q \in Players : u.container[q] \in w.applied => u.container[q] \in u.applied
    /\ \A c \in u.applied : u.newest[c] = NULL => w.newest[c] = NULL

LEMMA CloseFacts ==
    ASSUME NEW w \in Raw, Lists(w), NEW p \in Players,
           w.container[p] # NULL => w.env[w.container[p]] # NULL
    PROVE  LetGo(Close(w, p), w, p)
<1> DEFINE c == w.container[p]
           a == w.above[p]
           b == w.below[p]
           u == Close(w, p)
<1>t. /\ w.container \in [Players -> Containers \cup {NULL}]
      /\ w.above \in [Players -> Players \cup {NULL}]
      /\ w.below \in [Players -> Players \cup {NULL}]
      /\ w.newest \in [Containers -> Players \cup {NULL}]
      /\ w.applied \subseteq Containers
  BY DEF Raw
<1>1. CASE c = NULL
  <2>1. u = w BY <1>1 DEF Close
  <2> QED BY <1>1, <2>1, <1>t, Kinds DEF LetGo, SameThings
<1>2. CASE c # NULL /\ a = NULL /\ b = NULL
  <2>1. u = CloseAll(w, c) BY <1>2 DEF Close
  <2>2. c \in Containers BY <1>2, <1>t
  <2> HIDE DEF u
  <2>3. /\ u \in Raw /\ Lists(u) /\ SameThings(u, w)
        /\ u.container = [q \in Players |-> IF w.container[q] = c THEN NULL ELSE w.container[q]]
        /\ u.newest = [w.newest EXCEPT ![c] = NULL]
        /\ u.applied = IF w.newest[c] = NULL THEN w.applied ELSE w.applied \ {c}
    BY <2>1, <2>2, CloseAllFacts
  <2>4. \A q \in Players : u.container[q] \in w.applied => u.container[q] \in u.applied
    BY <2>3, <1>t, Kinds
  <2>5. \A d \in u.applied : u.newest[d] = NULL => w.newest[d] = NULL BY <2>3, <2>2, <1>t
  <2>6. LetGo(u, w, p) BY <2>3, <2>4, <2>5 DEF LetGo
  <2> QED BY <2>6 DEF u
<1>3. CASE c # NULL /\ ~(a = NULL /\ b = NULL)
  <2> DEFINE v == IF b = NULL THEN [w EXCEPT !.newest[c] = a, !.below[a] = NULL]
                  ELSE [w EXCEPT !.above[b] = a,
                                 !.below = [q \in Players |-> IF q = a THEN b ELSE @[q]]]
  <2>1. c \in Containers /\ w.env[c] # NULL BY <1>3, <1>t
  <2>2. a \in Players \cup {NULL} /\ b \in Players \cup {NULL} BY <1>t
  <2>3. u = Forget(v, {p}) BY <1>3, <2>1, <2>2, Kinds DEF Close
  <2>4. v \in Raw /\ SameThings(v, w) /\ v.container = w.container /\ v.applied = w.applied
    <3>1. CASE b = NULL BY <3>1, <2>1, <2>2, <1>3 DEF Raw, SameThings
    <3>2. CASE b # NULL BY <3>2, <2>1, <2>2 DEF Raw, SameThings
    <3> QED BY <3>1, <3>2
  <2>5. \A q \in Players : /\ v.above[q] = IF q = b THEN a ELSE w.above[q]
                           /\ v.below[q] = IF q = a THEN b ELSE w.below[q]
    <3>1. CASE b = NULL
      <4>1. a \in Players /\ v = [w EXCEPT !.newest[c] = a, !.below[a] = NULL]
        BY <3>1, <1>3, <2>2
      <4>2. v.above = w.above /\ v.below = [w.below EXCEPT ![a] = NULL] BY <4>1, <1>t DEF Raw
      <4> QED BY <4>1, <4>2, <3>1, <1>t, Kinds
    <3>2. CASE b # NULL
      <4>1. v = [w EXCEPT !.above[b] = a, !.below = [q \in Players |-> IF q = a THEN b ELSE @[q]]]
        BY <3>2
      <4>2. /\ v.above = [w.above EXCEPT ![b] = a]
            /\ v.below = [q \in Players |-> IF q = a THEN b ELSE w.below[q]]
        BY <4>1 DEF Raw
      <4> QED BY <4>2, <1>t
    <3> QED BY <3>1, <3>2
  <2>6. \A d \in Containers : v.newest[d] = IF b = NULL /\ d = c THEN a ELSE w.newest[d]
    <3>1. CASE b = NULL BY <3>1, <1>t DEF Raw
    <3>2. CASE b # NULL BY <3>2 DEF Raw
    <3> QED BY <3>1, <3>2
  <2> HIDE DEF v, u
  <2>7. /\ u \in Raw /\ SameThings(u, v) /\ u.applied = v.applied /\ u.newest = v.newest
        /\ u.container[p] = NULL /\ u.above[p] = NULL /\ u.below[p] = NULL
        /\ \A q \in Players \ {p} : /\ u.container[q] = v.container[q]
                                    /\ u.above[q] = v.above[q] /\ u.below[q] = v.below[q]
    <3>1. p \in Players \cap {p} /\ Players \ {p} = {q \in Players : q \notin {p}} OBVIOUS
    <3> QED BY <2>3, <2>4, <3>1, ForgetShape DEF SameThings
  <2>8. /\ \A q \in Players : /\ u.container[q] = IF q = p THEN NULL ELSE w.container[q]
                              /\ u.above[q] = IF q = p THEN NULL
                                              ELSE IF q = b THEN a ELSE w.above[q]
                              /\ u.below[q] = IF q = p THEN NULL
                                              ELSE IF q = a THEN b ELSE w.below[q]
        /\ \A d \in Containers : u.newest[d] = IF b = NULL /\ d = c THEN a ELSE w.newest[d]
    BY <2>4, <2>5, <2>6, <2>7
  <2>9. Lists(u) BY <2>7, <2>8, <1>3, UnlinkOne
  <2>10. SameThings(u, w) /\ u.applied = w.applied BY <2>4, <2>7 DEF SameThings
  <2>11. \A q \in Players : u.container[q] \in {w.container[q], NULL} BY <2>8
  <2>12. \A d \in u.applied : u.newest[d] = NULL => w.newest[d] = NULL
    BY <2>8, <2>10, <1>3, <1>t
  <2>13. LetGo(u, w, p) BY <2>7, <2>9, <2>10, <2>11, <2>12 DEF LetGo
  <2> QED BY <2>13 DEF u
<1> QED BY <1>1, <1>2, <1>3

---------------------------------------------------------------------------
(* The loop of object_weight_add()                                         *)

Turn ==
    [carrying : [Holders -> Int], sum : [Magical -> Int],
     at : Holders \cup Squares \cup {NULL}, by : Int]

LEMMA HalfIsWhole ==
    ASSUME NEW n \in Int
    PROVE  /\ n \div 2 \in Int /\ 2 * (n \div 2) <= n /\ n <= 2 * (n \div 2) + 1
           /\ n \in Nat => n \div 2 \in Nat
  OBVIOUS

LEMMA ReducedType ==
    ASSUME NEW h, NEW n \in Int
    PROVE  Reduced(h, n) \in Int /\ (n \in Nat => Reduced(h, n) \in Nat)
  BY HalfIsWhole DEF Reduced

LEMMA PassedType ==
    ASSUME NEW w \in Raw, NEW s \in Turn
    PROVE  Passed(w, s) \in Turn
<1>1. CASE s.at \notin Holders BY <1>1 DEF Passed
<1>2. CASE s.at \in Holders
  <2> DEFINE total == Stored(s, s.at) + s.by
  <2>1. total \in Int BY <1>2 DEF Turn, Stored
  <2>2. Reduced(s.at, total) \in Int BY <2>1, ReducedType
  <2>3. w.env[s.at] \in Holders \cup Squares \cup {NULL} BY <1>2 DEF Raw, Holders, Things
  <2>4. Reduced(s.at, total) - s.carrying[s.at] \in Int BY <2>2, <1>2 DEF Turn
  <2>5. [s.carrying EXCEPT ![s.at] = Reduced(s.at, total)] \in [Holders -> Int]
    BY <2>2 DEF Turn
  <2>6. [c \in Magical |-> IF c = s.at THEN total ELSE s.sum[c]] \in [Magical -> Int]
    BY <2>1 DEF Turn
  <2> HIDE DEF total
  <2> QED BY <1>2, <2>3, <2>4, <2>5, <2>6 DEF Passed, Turn, total
<1> QED BY <1>1, <1>2

(* AddWeight is what the last of the turns leaves.                         *)
AreTurns(f, w, h, d) ==
    /\ f \in [Nat -> Turn]
    /\ f[0] = [carrying |-> w.carrying, sum |-> w.sum, at |-> h, by |-> d]
    /\ \A k \in Nat : f[k + 1] = Passed(w, f[k])
    /\ AddWeight(w, h, d) = [w EXCEPT !.carrying = f[Cardinality(Containers) + 1].carrying,
                                      !.sum = f[Cardinality(Containers) + 1].sum]

LEMMA Turns ==
    ASSUME NEW w \in Raw, NEW h \in Holders \cup Squares \cup {NULL}, NEW d \in Int
    PROVE  \E f : AreTurns(f, w, h, d)
<1> DEFINE first == [carrying |-> w.carrying, sum |-> w.sum, at |-> h, by |-> d]
           step == [s \in Turn |-> Passed(w, s)]
           IsTurns(f) == f = [k \in Nat |-> IF k = 0 THEN first ELSE Passed(w, f[k - 1])]
           turn == CHOOSE f : IsTurns(f)
<1>1. first \in Turn BY DEF Raw, Turn
<1>2. step \in [Turn -> Turn] BY PassedType
<1>3. PICK g \in [Nat -> Turn] : g[0] = first /\ \A k \in Nat : g[k + 1] = step[g[k]]
  <2> HIDE DEF first, step
  <2> QED BY <1>1, <1>2, Iteration
<1>4. \A k \in Nat : g[k] = IF k = 0 THEN first ELSE Passed(w, g[k - 1])
  <2> SUFFICES ASSUME NEW k \in Nat, k # 0 PROVE g[k] = Passed(w, g[k - 1]) BY <1>3
  <2>1. k - 1 \in Nat /\ (k - 1) + 1 = k OBVIOUS
  <2>2. g[k] = step[g[k - 1]] BY <1>3, <2>1
  <2>3. g[k - 1] \in Turn BY <2>1
  <2> QED BY <2>2, <2>3
<1>5. IsTurns(g)
  <2> HIDE DEF first
  <2> QED BY <1>4
<1>6. IsTurns(turn) BY <1>5
<1>7. AddWeight(w, h, d) = [w EXCEPT !.carrying = turn[Cardinality(Containers) + 1].carrying,
                                     !.sum = turn[Cardinality(Containers) + 1].sum]
  BY DEF AddWeight
<1> HIDE DEF turn
<1>8. turn[0] = first BY <1>6
<1>9. \A k \in Nat : turn[k + 1] = Passed(w, turn[k])
  <2> SUFFICES ASSUME NEW k \in Nat PROVE turn[k + 1] = Passed(w, turn[k]) OBVIOUS
  <2>1. k + 1 \in Nat /\ k + 1 # 0 /\ (k + 1) - 1 = k OBVIOUS
  <2> HIDE DEF first
  <2> QED BY <2>1, <1>6
<1>10. turn \in [Nat -> Turn]
  <2> DEFINE Off == {k \in Nat : turn[k] \notin Turn}
  <2>1. Off = {}
    <3> SUFFICES ASSUME Off # {} PROVE FALSE OBVIOUS
    <3>1. PICK k \in Off : \A m \in Off : k <= m
      <4>1. Off \subseteq Nat OBVIOUS
      <4> HIDE DEF Off
      <4> QED BY <4>1, SmallestNumber
    <3>2. k # 0 BY <3>1, <1>8, <1>1
    <3>3. k - 1 \in Nat /\ (k - 1) + 1 = k /\ k - 1 \notin Off BY <3>1, <3>2
    <3>4. turn[k - 1] \in Turn /\ turn[k] = Passed(w, turn[k - 1]) BY <3>3, <1>9
    <3> QED BY <3>1, <3>4, PassedType
  <2>2. turn = [k \in Nat |-> turn[k]] BY <1>6
  <2> QED BY <2>1, <2>2
<1> QED BY <1>7, <1>8, <1>9, <1>10 DEF AreTurns

(* Players are on squares or not in the game, and nothing is in itself.    *)
Places(w) ==
    /\ \A p \in Players : w.env[p] \notin Holders
    /\ \A S \in SUBSET Containers : S # {} => \E c \in S : w.env[c] \notin S

LEMMA NotInside ==
    ASSUME NEW w, Places(w), NEW c \in Containers
    PROVE  w.env[c] # c
<1>1. {c} \in SUBSET Containers /\ {c} # {} OBVIOUS
<1>2. \E b \in {c} : w.env[b] \notin {c} BY <1>1 DEF Places
<1> QED BY <1>2

LEMMA Between ==
    ASSUME NEW i \in Int, NEW j \in Int, NEW k \in Int, NEW n \in Int,
           0 <= i, i <= k, k <= j - 1, j <= n
    PROVE  /\ k \in 0 .. n /\ k + 1 \in 0 .. n
           /\ k + 1 <= j - 1 => k + 1 \in i .. j - 1
           /\ ~(k + 1 <= j - 1) => k + 1 = j
           /\ i \in i .. j - 1
  OBVIOUS

(* There are not more containers around each other than there are, so the  *)
(* loop is out of them, and of the player who has the last, by its end.    *)
LEMMA TurnsEnd ==
    ASSUME NEW w \in Raw, Places(w),
           NEW f \in [Nat -> Turn], \A k \in Nat : f[k + 1] = Passed(w, f[k])
    PROVE  f[Cardinality(Containers) + 1].at \notin Holders
<1> DEFINE n == Cardinality(Containers)
<1>1. IsFiniteSet(Containers) /\ n \in Nat BY KindsAssumption, FS_CardinalityType
<1>2. ASSUME NEW k \in Nat
      PROVE  f[k + 1].at = IF f[k].at \in Holders THEN w.env[f[k].at] ELSE f[k].at
  <2>1. f[k + 1] = Passed(w, f[k]) OBVIOUS
  <2> QED BY <2>1 DEF Passed
<1> SUFFICES ASSUME f[n + 1].at \in Holders PROVE FALSE OBVIOUS
<1>3. ASSUME NEW k \in 0 .. n + 1 PROVE f[k].at \in Holders
  <2> SUFFICES ASSUME f[k].at \notin Holders PROVE FALSE OBVIOUS
  <2> DEFINE Back == {m \in Nat : m >= k /\ f[m].at \in Holders}
  <2>1. n + 1 \in Back BY <1>1
  <2>2. PICK m \in Back : \A i \in Back : m <= i
    <3>1. Back \subseteq Nat /\ Back # {} BY <2>1
    <3> HIDE DEF Back
    <3> QED BY <3>1, SmallestNumber
  <2>3. m > k /\ m - 1 \in Nat /\ (m - 1) + 1 = m /\ m - 1 \notin Back BY <2>2, <1>1
  <2>4. f[m - 1].at \notin Holders BY <2>3, <1>1
  <2>5. f[(m - 1) + 1].at = f[m - 1].at BY <2>3, <2>4, <1>2
  <2> QED BY <2>2, <2>3, <2>4, <2>5
<1>4. ASSUME NEW k \in 0 .. n PROVE f[k].at \in Containers /\ f[k + 1].at = w.env[f[k].at]
  <2>1. k \in 0 .. n + 1 /\ k + 1 \in 0 .. n + 1 /\ k \in Nat BY <1>1
  <2>2. f[k].at \in Holders /\ f[k + 1].at \in Holders BY <2>1, <1>3
  <2>3. f[k + 1].at = w.env[f[k].at] BY <2>1, <2>2, <1>2
  <2>4. f[k].at \notin Players BY <2>2, <2>3 DEF Places
  <2> QED BY <2>2, <2>3, <2>4 DEF Holders
<1> DEFINE pos == [k \in 0 .. n |-> f[k].at]
<1>5. pos \in [0 .. n -> Containers] BY <1>4
<1>6. \E i, j \in 0 .. n : i # j /\ pos[i] = pos[j]
  <2> DEFINE D == 0 .. n
  <2>1. IsFiniteSet(D) /\ Cardinality(D) = n + 1 BY <1>1, FS_Interval
  <2>2. n < Cardinality(D) BY <1>1, <2>1
  <2>3. pos \in [D -> Containers] BY <1>5
  <2> HIDE DEF D, pos
  <2>4. \E i, j \in D : i # j /\ pos[i] = pos[j] BY <1>1, <2>1, <2>2, <2>3, FS_PigeonHole
  <2> QED BY <2>4 DEF D
<1>7. PICK i \in 0 .. n, j \in 0 .. n : i < j /\ pos[i] = pos[j]
  <2>1. PICK a \in 0 .. n, b \in 0 .. n : a # b /\ pos[a] = pos[b] BY <1>6
  <2>2. a < b \/ b < a BY <2>1, <1>1
  <2> QED BY <2>1, <2>2
<1> DEFINE S == {pos[k] : k \in i .. j - 1}
<1>8. S \in SUBSET Containers /\ S # {}
  <2>1. \A k \in i .. j - 1 : k \in 0 .. n BY <1>7, <1>1
  <2>2. i \in i .. j - 1 BY <1>7, <1>1
  <2> HIDE DEF pos
  <2> QED BY <2>1, <2>2, <1>5
<1>9. PICK c \in S : w.env[c] \notin S
  <2> HIDE DEF S
  <2> QED BY <1>8 DEF Places
<1>10. PICK k \in i .. j - 1 : c = pos[k] BY <1>9
<1>i. i \in Int /\ j \in Int /\ 0 <= i /\ i < j /\ j <= n BY <1>7, <1>1
<1>k. k \in Int /\ i <= k /\ k <= j - 1 BY <1>i, <1>10
<1>11. k \in 0 .. n /\ k + 1 \in 0 .. n
  <2>1. n \in Int BY <1>1
  <2> HIDE DEF n, pos, S
  <2> QED BY <1>i, <1>k, <2>1, Between
<1>12. w.env[c] = pos[k + 1] BY <1>10, <1>11, <1>4
<1>13. CASE k + 1 <= j - 1
  <2>1. k + 1 \in i .. j - 1 BY <1>i, <1>k, <1>1, <1>13, Between
  <2> QED BY <2>1, <1>9, <1>12
<1>14. CASE ~(k + 1 <= j - 1)
  <2>1. k + 1 = j /\ i \in i .. j - 1
    <3>1. n \in Int BY <1>1
    <3> HIDE DEF n, pos, S
    <3> QED BY <1>i, <1>k, <3>1, <1>14, Between
  <2> QED BY <2>1, <1>7, <1>9, <1>12
<1> QED BY <1>13, <1>14

---------------------------------------------------------------------------
(* What is in a holder, as a sum over things                               *)

Load(n, c) == [x \in Things |-> IF x \in Containers THEN 1 + c[x] ELSE n[x]]

LEMMA ThingsFinite == IsFiniteSet(Things) /\ IsFiniteSet(Containers) /\ IsFiniteSet(Piles)
  BY KindsAssumption, FS_Union DEF Things

LEMMA LoadType ==
    ASSUME NEW n \in [Piles -> Int], NEW c, \A g \in Containers : c[g] \in Int
    PROVE  /\ \A x \in Things : Load(n, c)[x] \in Int
           /\ \A x \in Containers : Load(n, c)[x] = 1 + c[x]
           /\ \A x \in Piles : Load(n, c)[x] = n[x]
  BY Kinds DEF Load, Things

LEMMA FilledIsSum ==
    ASSUME NEW z \in Raw, NEW c, \A g \in Containers : c[g] \in Int, NEW h
    PROVE  /\ Filled(z, c, h) = SumFunctionOnSet(Load(z.nrof, c), In(z, h))
           /\ IsFiniteSet(In(z, h)) /\ In(z, h) \subseteq Things
           /\ Filled(z, c, h) \in Int
<1> DEFINE f == [x \in In(z, h) |-> IF x \in Containers THEN Own(x) + c[x] ELSE z.nrof[x] * Own(x)]
           g == Load(z.nrof, c)
<1>1. Filled(z, c, h) = SumFunctionOnSet(f, In(z, h)) BY DEF Filled, SumFunction
<1>2. In(z, h) \subseteq Things BY DEF In
<1>3. IsFiniteSet(In(z, h)) BY <1>2, ThingsFinite, FS_Subset
<1>4. z.nrof \in [Piles -> Int] BY DEF Raw
<1>5. \A x \in In(z, h) : f[x] = g[x]
  <2> SUFFICES ASSUME NEW x \in In(z, h) PROVE f[x] = g[x] OBVIOUS
  <2>1. CASE x \in Containers BY <2>1, <1>2 DEF Load, Own
  <2>2. CASE x \notin Containers
    <3>1. x \in Piles /\ z.nrof[x] \in Int BY <2>2, <1>2, <1>4 DEF Things
    <3>2. f[x] = z.nrof[x] * 1 /\ g[x] = z.nrof[x] BY <2>2, <1>2 DEF Load, Own
    <3> QED BY <3>1, <3>2
  <2> QED BY <2>1, <2>2
<1>6. \A x \in In(z, h) : g[x] \in Int BY <1>2, <1>4, LoadType
<1> HIDE DEF f, g
<1>7. SumFunctionOnSet(f, In(z, h)) = SumFunctionOnSet(g, In(z, h)) BY <1>3, <1>5, SumSame
<1>8. SumFunctionOnSet(g, In(z, h)) \in Int BY <1>3, <1>6, SumSplit
<1> QED BY <1>1, <1>2, <1>3, <1>7, <1>8 DEF g

LEMMA FilledSame ==
    ASSUME NEW z \in Raw, NEW c, \A g \in Containers : c[g] \in Int,
           NEW y \in Raw, NEW b, \A g \in Containers : b[g] \in Int, NEW h,
           In(y, h) = In(z, h),
           \A x \in In(z, h) \cap Containers : b[x] = c[x],
           \A x \in In(z, h) \cap Piles : y.nrof[x] = z.nrof[x]
    PROVE  Filled(y, b, h) = Filled(z, c, h)
<1> DEFINE f == Load(z.nrof, c)
           g == Load(y.nrof, b)
<1>1. /\ Filled(z, c, h) = SumFunctionOnSet(f, In(z, h)) /\ IsFiniteSet(In(z, h))
      /\ Filled(y, b, h) = SumFunctionOnSet(g, In(z, h)) /\ In(z, h) \subseteq Things
  BY FilledIsSum
<1>2. \A x \in In(z, h) : f[x] = g[x]
  <2>1. z.nrof \in [Piles -> Int] /\ y.nrof \in [Piles -> Int] BY DEF Raw
  <2> QED BY <1>1, <2>1, LoadType DEF Things
<1> HIDE DEF f, g
<1> QED BY <1>1, <1>2, SumSame

LEMMA FilledChange ==
    ASSUME NEW z \in Raw, NEW c \in [Holders -> Int], NEW b \in [Holders -> Int],
           NEW g \in Containers, \A h \in Containers \ {g} : b[h] = c[h], NEW h
    PROVE  Filled(z, b, h) = Filled(z, c, h) + (IF z.env[g] = h THEN b[g] - c[g] ELSE 0)
<1> DEFINE S == In(z, h)
           e == Load(z.nrof, c)
           f == Load(z.nrof, b)
<1>0. \A x \in Containers : b[x] \in Int /\ c[x] \in Int BY DEF Holders
<1>1. /\ Filled(z, c, h) = SumFunctionOnSet(e, S) /\ IsFiniteSet(S) /\ S \subseteq Things
      /\ Filled(z, b, h) = SumFunctionOnSet(f, S) /\ Filled(z, c, h) \in Int
  BY <1>0, FilledIsSum
<1>2. z.nrof \in [Piles -> Int] BY DEF Raw
<1>3. /\ \A x \in Things : e[x] \in Int /\ f[x] \in Int
      /\ \A x \in Containers : e[x] = 1 + c[x] /\ f[x] = 1 + b[x]
      /\ \A x \in Piles : e[x] = z.nrof[x] /\ f[x] = z.nrof[x]
  BY <1>0, <1>2, LoadType
<1>4. \A x \in Things \ {g} : f[x] = e[x] BY <1>3 DEF Things
<1>5. f[g] - e[g] = b[g] - c[g] BY <1>0, <1>3
<1>6. g \in S <=> z.env[g] = h BY DEF In, Things
<1>7. CASE z.env[g] = h
  <2> HIDE DEF e, f, S
  <2>1. SumFunctionOnSet(f, S) = SumFunctionOnSet(e, S) + f[g] - e[g]
    BY <1>1, <1>3, <1>4, <1>6, <1>7, SumChange
  <2>2. f[g] \in Int /\ e[g] \in Int /\ b[g] \in Int /\ c[g] \in Int
    BY <1>0, <1>3 DEF Things
  <2> QED BY <1>1, <1>5, <1>7, <2>1, <2>2
<1>8. CASE z.env[g] # h
  <2> HIDE DEF e, f, S
  <2>1. SumFunctionOnSet(f, S) = SumFunctionOnSet(e, S) BY <1>1, <1>4, <1>6, <1>8, SumSame
  <2> QED BY <1>1, <1>8, <2>1
<1> QED BY <1>7, <1>8

LEMMA FilledNat ==
    ASSUME NEW z \in Raw, \A o \in Piles : z.nrof[o] \in Nat,
           NEW c, \A g \in Containers : c[g] \in Nat, NEW h
    PROVE  Filled(z, c, h) \in Nat
<1> DEFINE f == Load(z.nrof, c)
<1>1. \A g \in Containers : c[g] \in Int OBVIOUS
<1>2. Filled(z, c, h) = SumFunctionOnSet(f, In(z, h)) /\ IsFiniteSet(In(z, h)) /\ In(z, h) \subseteq Things
  BY <1>1, FilledIsSum
<1>3. \A x \in In(z, h) : f[x] \in Nat
  <2>1. z.nrof \in [Piles -> Int] BY DEF Raw
  <2> QED BY <1>1, <1>2, <2>1, LoadType DEF Things
<1> HIDE DEF f
<1>4. \A x \in In(z, h) : f[x] \in Int /\ f[x] <= f[x] BY <1>3
<1> QED BY <1>2, <1>3, <1>4, SumAtMost

(* One thing more in h                                                     *)
LEMMA FilledMore ==
    ASSUME NEW z \in Raw, NEW y \in Raw, NEW c, \A g \in Containers : c[g] \in Int,
           NEW h, NEW x \in Things, x \notin In(z, h), In(y, h) = In(z, h) \cup {x},
           \A o \in In(z, h) \cap Piles : y.nrof[o] = z.nrof[o]
    PROVE  Filled(y, c, h) = Filled(z, c, h) + Load(y.nrof, c)[x]
<1> DEFINE e == Load(z.nrof, c)
           f == Load(y.nrof, c)
           S == In(z, h)
<1>1. /\ Filled(z, c, h) = SumFunctionOnSet(e, S) /\ IsFiniteSet(S) /\ S \subseteq Things
      /\ Filled(y, c, h) = SumFunctionOnSet(f, S \cup {x}) /\ Filled(z, c, h) \in Int
  BY FilledIsSum
<1>2. z.nrof \in [Piles -> Int] /\ y.nrof \in [Piles -> Int] BY DEF Raw
<1>3. \A t \in Things : e[t] \in Int /\ f[t] \in Int BY <1>2, LoadType
<1>4. \A t \in S : e[t] = f[t] BY <1>1, <1>2, LoadType DEF Things
<1> HIDE DEF e, f, S
<1>5. SumFunctionOnSet(e, S) = SumFunctionOnSet(f, S) BY <1>1, <1>4, SumSame
<1>6. x \notin S BY DEF S
<1>7. SumFunctionOnSet(f, S \cup {x}) = f[x] + SumFunctionOnSet(f, S)
  <2>1. \A t \in S \cup {x} : f[t] \in Int BY <1>1, <1>3
  <2> QED BY <1>1, <1>6, <2>1, SumAdd
<1>8. f[x] \in Int BY <1>3
<1> QED BY <1>1, <1>5, <1>7, <1>8 DEF f

(* The weights c and the sums s are right for what is where in z.          *)
Right(z, c, s) ==
    /\ c \in [Holders -> Nat] /\ s \in [Magical -> Nat]
    /\ \A h \in Holders : /\ c[h] = Reduced(h, Filled(z, c, h))
                          /\ h \in Magical => s[h] = Filled(z, c, h)

(* In the loop all weights are right for what is to be where in z, but for *)
(* the holder that the loop is at, who is short of what is passed on.      *)
Owed(z, t) ==
    \A g \in Holders :
        /\ t.carrying[g] \in Nat /\ t.carrying[g] = Reduced(g, Stored(t, g))
        /\ Filled(z, t.carrying, g) = Stored(t, g) + (IF g = t.at THEN t.by ELSE 0)

LEMMA PassedKeeps ==
    ASSUME NEW w \in Raw, Places(w), NEW z \in Raw, \A o \in Piles : z.nrof[o] \in Nat,
           NEW t \in Turn, Owed(z, t), t.at \in Containers => z.env[t.at] = w.env[t.at]
    PROVE  Owed(z, Passed(w, t))
<1> DEFINE u == Passed(w, t)
           g == t.at
           total == Stored(t, g) + t.by
<1>1. CASE g \notin Holders BY <1>1 DEF Passed
<1>2. CASE g \in Holders
  <2>1. /\ u.carrying = [t.carrying EXCEPT ![g] = Reduced(g, total)]
        /\ u.sum = [c \in Magical |-> IF c = g THEN total ELSE t.sum[c]]
        /\ u.at = w.env[g] /\ u.by = Reduced(g, total) - t.carrying[g]
    BY <1>2 DEF Passed
  <2>2. t.carrying \in [Holders -> Int] /\ t.sum \in [Magical -> Int] BY DEF Turn
  <2>3. total = Filled(z, t.carrying, g) BY <1>2 DEF Owed
  <2>4. total \in Nat
    <3>1. \A x \in Containers : t.carrying[x] \in Nat BY DEF Owed, Holders
    <3> QED BY <2>3, <3>1, FilledNat
  <2> DEFINE r == Reduced(g, total)
  <2>5. r \in Nat BY <2>4, ReducedType
  <2> HIDE DEF u, total, r
  <2>r. u.carrying = [t.carrying EXCEPT ![g] = r] BY <2>1 DEF r
  <2>6. \A h \in Holders : u.carrying[h] = IF h = g THEN r ELSE t.carrying[h]
    BY <2>r, <2>2, <1>2
  <2>7. u.carrying \in [Holders -> Int]
    <3>1. r \in Int BY <2>5
    <3> HIDE DEF g
    <3> QED BY <2>r, <2>2, <3>1
  <2>8. \A h \in Holders : Stored(u, h) = IF h = g THEN (IF g \in Magical THEN total ELSE r)
                                          ELSE Stored(t, h)
    BY <2>1, <2>6 DEF Stored
  <2>9. g \notin Magical => r = total BY DEF r, Reduced
  <2>10. w.env[g] # g
    <3>1. g \in Players => w.env[g] \notin Holders BY DEF Places
    <3>2. g \in Containers => w.env[g] # g BY NotInside
    <3> QED BY <1>2, <3>1, <3>2 DEF Holders
  <2>11. ASSUME NEW h \in Holders
         PROVE  Filled(z, u.carrying, h) =
                    Filled(z, t.carrying, h) + (IF h = w.env[g] THEN u.by ELSE 0)
    <3>0. Filled(z, t.carrying, h) \in Int
      <4>1. \A x \in Containers : t.carrying[x] \in Int BY <2>2 DEF Holders
      <4> QED BY <4>1, FilledIsSum
    <3>1. CASE g \in Containers
      <4>1. z.env[g] = w.env[g] BY <3>1
      <4>2. \A x \in Containers \ {g} : u.carrying[x] = t.carrying[x] BY <2>6 DEF Holders
      <4>3. Filled(z, u.carrying, h) = Filled(z, t.carrying, h)
                + (IF z.env[g] = h THEN u.carrying[g] - t.carrying[g] ELSE 0)
        BY <2>2, <2>7, <3>1, <4>2, FilledChange
      <4>4. u.by = u.carrying[g] - t.carrying[g] BY <2>1, <2>6, <1>2 DEF r
      <4> QED BY <4>1, <4>3, <4>4
    <3>2. CASE g \in Players
      <4>1. h # w.env[g] BY <3>2 DEF Places
      <4>2. \A x \in In(z, h) \cap Containers : u.carrying[x] = t.carrying[x]
        BY <2>6, <3>2, Kinds DEF Holders
      <4>3. \A x \in Containers : u.carrying[x] \in Int /\ t.carrying[x] \in Int
        BY <2>2, <2>7 DEF Holders
      <4>4. Filled(z, u.carrying, h) = Filled(z, t.carrying, h)
        BY <4>2, <4>3, FilledSame
      <4> QED BY <3>0, <4>1, <4>4
    <3> QED BY <1>2, <3>1, <3>2 DEF Holders
  <2>12. ASSUME NEW h \in Holders
         PROVE  /\ u.carrying[h] \in Nat /\ u.carrying[h] = Reduced(h, Stored(u, h))
                /\ Filled(z, u.carrying, h) = Stored(u, h) + (IF h = u.at THEN u.by ELSE 0)
    <3>1. CASE h = g
      <4>1. u.carrying[h] = r /\ Stored(u, h) = total BY <2>6, <2>8, <2>9, <3>1
      <4>2. r = Reduced(g, total) BY DEF r
      <4>3. h # w.env[g] /\ Filled(z, u.carrying, h) = total + 0 BY <2>3, <2>10, <2>11, <3>1
      <4> QED BY <3>1, <4>1, <4>2, <4>3, <2>1, <2>5
    <3>2. CASE h # g
      <4>1. u.carrying[h] = t.carrying[h] /\ Stored(u, h) = Stored(t, h) BY <2>6, <2>8, <3>2
      <4>2. /\ t.carrying[h] \in Nat /\ t.carrying[h] = Reduced(h, Stored(t, h))
            /\ Filled(z, t.carrying, h) = Stored(t, h) + 0
        BY <3>2 DEF Owed
      <4>3. Stored(t, h) \in Int BY <2>2 DEF Stored
      <4> QED BY <4>1, <4>2, <4>3, <2>1, <2>11
    <3> QED BY <3>1, <3>2
  <2>13. Owed(z, u) BY <2>12 DEF Owed
  <2> QED BY <2>13 DEF u
<1> QED BY <1>1, <1>2

(* v is w with weights that are right for z.                               *)
Settled(v, w, z) ==
    \E c, s : v = [w EXCEPT !.carrying = c, !.sum = s] /\ Right(z, c, s)

(* When the loop has ended the weights are right.                          *)
LEMMA WeightsSettle ==
    ASSUME NEW w \in Raw, Places(w), NEW h \in Holders \cup Squares \cup {NULL}, NEW d \in Int,
           NEW z \in Raw, \A o \in Piles : z.nrof[o] \in Nat,
           NEW U \in SUBSET Containers, h \in Containers => h \in U,
           \A c \in U : w.env[c] \in Containers => w.env[c] \in U,
           \A c \in U : z.env[c] = w.env[c],
           Owed(z, [carrying |-> w.carrying, sum |-> w.sum, at |-> h, by |-> d])
    PROVE  Settled(AddWeight(w, h, d), w, z)
<1> DEFINE n == Cardinality(Containers) + 1
<1>0. PICK f : AreTurns(f, w, h, d) BY Turns
<1>1. /\ f \in [Nat -> Turn]
      /\ f[0] = [carrying |-> w.carrying, sum |-> w.sum, at |-> h, by |-> d]
      /\ \A k \in Nat : f[k + 1] = Passed(w, f[k])
      /\ AddWeight(w, h, d) = [w EXCEPT !.carrying = f[n].carrying, !.sum = f[n].sum]
  BY <1>0 DEF AreTurns
<1>2. n \in Nat BY ThingsFinite, FS_CardinalityType
<1> DEFINE Fine(k) == Owed(z, f[k]) /\ (f[k].at \in Containers => f[k].at \in U)
           Off == {k \in Nat : ~Fine(k)}
<1>3. Off = {}
  <2> SUFFICES ASSUME Off # {} PROVE FALSE OBVIOUS
  <2>1. PICK k \in Off : \A m \in Off : k <= m
    <3>1. Off \subseteq Nat OBVIOUS
    <3> HIDE DEF Off
    <3> QED BY <3>1, SmallestNumber
  <2>2. Fine(0) BY <1>1
  <2>3. k # 0 BY <2>1, <2>2
  <2>4. k - 1 \in Nat /\ (k - 1) + 1 = k /\ k - 1 \notin Off BY <2>1, <2>3
  <2> DEFINE t == f[k - 1]
  <2>5. t \in Turn /\ Owed(z, t) /\ (t.at \in Containers => t.at \in U) /\ f[k] = Passed(w, t)
    BY <2>4, <1>1
  <2> HIDE DEF t
  <2>6. Owed(z, f[k]) BY <2>5, PassedKeeps
  <2>7. f[k].at \in Containers => f[k].at \in U
    <3>1. CASE t.at \notin Holders BY <3>1, <2>5 DEF Passed
    <3>2. CASE t.at \in Holders
      <4>1. f[k].at = w.env[t.at] BY <2>5, <3>2 DEF Passed
      <4>2. t.at \in Players => w.env[t.at] \notin Containers BY DEF Places, Holders
      <4> QED BY <2>5, <3>2, <4>1, <4>2 DEF Holders
    <3> QED BY <3>1, <3>2
  <2> QED BY <2>1, <2>6, <2>7
<1>4. Owed(z, f[n]) BY <1>2, <1>3
<1>5. f[n].at \notin Holders BY <1>1, TurnsEnd
<1>6. f[n] \in Turn BY <1>1, <1>2
<1> DEFINE c == f[n].carrying
           s == f[n].sum
<1>7. \A g \in Holders : /\ c[g] \in Nat /\ c[g] = Reduced(g, Stored(f[n], g))
                         /\ Filled(z, c, g) = Stored(f[n], g) + 0
  BY <1>4, <1>5 DEF Owed
<1>8. \A g \in Holders : Stored(f[n], g) \in Int BY <1>6 DEF Turn, Stored
<1>9. \A g \in Holders : Filled(z, c, g) = Stored(f[n], g) BY <1>7, <1>8
<1>10. \A g \in Holders : c[g] = Reduced(g, Filled(z, c, g)) BY <1>7, <1>9
<1>11. \A g \in Magical : s[g] = Filled(z, c, g) /\ g \in Containers
  BY <1>9, ConstantsAssumption DEF Stored, Holders
<1>12. c \in [Holders -> Nat]
  <2>1. c \in [Holders -> Int] BY <1>6 DEF Turn
  <2> HIDE DEF c
  <2> QED BY <1>7, <2>1
<1>13. s \in [Magical -> Nat]
  <2>1. s \in [Magical -> Int] BY <1>6 DEF Turn
  <2>2. \A g \in Containers : c[g] \in Nat BY <1>12 DEF Holders
  <2>3. \A g \in Magical : s[g] \in Nat BY <1>11, <2>2, FilledNat
  <2> HIDE DEF s
  <2> QED BY <2>1, <2>3
<1>14. Right(z, c, s) BY <1>10, <1>11, <1>12, <1>13 DEF Right
<1> HIDE DEF c, s
<1>15. AddWeight(w, h, d) = [w EXCEPT !.carrying = c, !.sum = s] BY <1>1 DEF c, s
<1> QED BY <1>14, <1>15 DEF Settled

---------------------------------------------------------------------------
(* Weights where things are taken out, put in, or become more or fewer     *)

Counted(w) == \A o \in Piles : w.nrof[o] \in Nat

(* Where the weights of w are right for what is where in y                 *)
LEMMA StoredRight ==
    ASSUME NEW w \in Raw, NEW y \in Raw, Right(y, w.carrying, w.sum), NEW g \in Holders
    PROVE  /\ w.carrying[g] \in Nat /\ w.carrying[g] = Reduced(g, Stored(w, g))
           /\ Stored(w, g) = Filled(y, w.carrying, g) /\ Stored(w, g) \in Int
<1>1. /\ w.carrying[g] = Reduced(g, Filled(y, w.carrying, g)) /\ w.carrying[g] \in Nat
      /\ g \in Magical => w.sum[g] = Filled(y, w.carrying, g)
  BY DEF Right
<1>2. Stored(w, g) = Filled(y, w.carrying, g)
  <2>1. g \notin Magical => w.carrying[g] = Filled(y, w.carrying, g) BY <1>1 DEF Reduced
  <2> QED BY <1>1, <2>1 DEF Stored
<1>3. \A x \in Containers : w.carrying[x] \in Int BY DEF Raw, Holders
<1> QED BY <1>1, <1>2, <1>3, FilledIsSum

LEMMA WholeIsLoad ==
    ASSUME NEW w \in Raw, NEW x \in Things
    PROVE  Whole(w, x) = Load(w.nrof, w.carrying)[x] /\ Whole(w, x) \in Int
<1>1. w.nrof \in [Piles -> Int] /\ \A c \in Containers : w.carrying[c] \in Int
  BY DEF Raw, Holders
<1>2. CASE x \in Containers BY <1>1, <1>2, LoadType DEF Whole, Weight, Own
<1>3. CASE x \in Piles
  <2>1. Whole(w, x) = w.nrof[x] * 1 /\ w.nrof[x] \in Int
    BY <1>1, <1>3, Kinds DEF Whole, Weight, Own
  <2> QED BY <1>1, <1>3, <2>1, LoadType
<1> QED BY <1>2, <1>3 DEF Things

(* What is around a container does not come by it again.                   *)
LEMMA OuterSet ==
    ASSUME NEW w, Places(w), NEW x \in Containers
    PROVE  \E U \in SUBSET Containers :
               /\ x \notin U /\ (w.env[x] \in Containers => w.env[x] \in U)
               /\ \A c \in U : w.env[c] \in Containers => w.env[c] \in U
<1> DEFINE Full(S) == x \in S /\ \A y \in Containers : w.env[y] \in S => y \in S
           D == {c \in Containers : \A S \in SUBSET Containers : Full(S) => c \in S}
           U == Containers \ D
<1>1. x \in D OBVIOUS
<1>2. ASSUME NEW y \in Containers, w.env[y] \in D PROVE y \in D
  <2> SUFFICES ASSUME NEW S \in SUBSET Containers, Full(S) PROVE y \in S OBVIOUS
  <2>1. w.env[y] \in S BY <1>2
  <2> QED BY <2>1
<1>3. w.env[x] \notin D
  <2> SUFFICES ASSUME w.env[x] \in D PROVE FALSE OBVIOUS
  <2> DEFINE S == {y \in D : w.env[y] \in D}
  <2>1. S \in SUBSET Containers OBVIOUS
  <2>2. Full(S)
    <3>1. x \in S BY <1>1
    <3>2. ASSUME NEW y \in Containers, w.env[y] \in S PROVE y \in S
      <4>1. w.env[y] \in D BY <3>2
      <4>2. y \in D BY <4>1, <1>2
      <4> QED BY <4>1, <4>2
    <3> QED BY <3>1, <3>2
  <2>3. D \subseteq S BY <2>1, <2>2
  <2>4. \A y \in D : w.env[y] \in D BY <2>3
  <2>5. D \in SUBSET Containers /\ D # {} BY <1>1
  <2> HIDE DEF D
  <2> QED BY <2>4, <2>5 DEF Places
<1>4. U \in SUBSET Containers /\ x \notin U /\ (w.env[x] \in Containers => w.env[x] \in U)
  BY <1>1, <1>3
<1>5. \A c \in U : w.env[c] \in Containers => w.env[c] \in U BY <1>2
<1> HIDE DEF U
<1> QED BY <1>4, <1>5

(* An object_weight_add() that makes up for how the contents have changed  *)
LEMMA Settling ==
    ASSUME NEW w \in Raw, Places(w), NEW y \in Raw, Right(y, w.carrying, w.sum),
           NEW z \in Raw, Counted(z),
           NEW h \in Holders \cup Squares \cup {NULL}, NEW d \in Int,
           \A g \in Holders : Filled(z, w.carrying, g)
                                  = Filled(y, w.carrying, g) + (IF g = h THEN d ELSE 0),
           NEW U \in SUBSET Containers, h \in Containers => h \in U,
           \A c \in U : w.env[c] \in Containers => w.env[c] \in U,
           \A c \in U : z.env[c] = w.env[c]
    PROVE  Settled(AddWeight(w, h, d), w, z)
<1> DEFINE t == [carrying |-> w.carrying, sum |-> w.sum, at |-> h, by |-> d]
<1>1. ASSUME NEW g \in Holders
      PROVE  /\ t.carrying[g] \in Nat /\ t.carrying[g] = Reduced(g, Stored(t, g))
             /\ Filled(z, t.carrying, g) = Stored(t, g) + (IF g = t.at THEN t.by ELSE 0)
  <2>1. Stored(t, g) = Stored(w, g) BY DEF Stored
  <2>2. /\ w.carrying[g] \in Nat /\ w.carrying[g] = Reduced(g, Stored(w, g))
        /\ Stored(w, g) = Filled(y, w.carrying, g)
    BY StoredRight
  <2>3. t.carrying = w.carrying /\ t.at = h /\ t.by = d OBVIOUS
  <2> HIDE DEF t
  <2> QED BY <2>1, <2>2, <2>3
<1>2. Owed(z, t) BY <1>1 DEF Owed
<1>3. \A o \in Piles : z.nrof[o] \in Nat BY DEF Counted
<1> QED BY <1>2, <1>3, WeightsSettle

(* object_remove() takes the weight of a thing from what it is in.         *)
Unloaded(w, x) ==
    IF w.env[x] \in Holders THEN AddWeight(w, w.env[x], -Whole(w, x)) ELSE w

LEMMA WeightOut ==
    ASSUME NEW w \in Raw, Places(w), Counted(w), Right(w, w.carrying, w.sum), NEW x \in Things,
           NEW z \in Raw, z.env = [w.env EXCEPT ![x] = NULL], z.nrof = w.nrof
    PROVE  Settled(Unloaded(w, x), w, z)
<1> DEFINE h == w.env[x]
           k == w.carrying
<1>t. /\ w.env \in [Things \cup Players -> Holders \cup Squares \cup {NULL}]
      /\ k \in [Holders -> Int] /\ \A g \in Containers : k[g] \in Int
  BY DEF Raw, Holders
<1>1. NULL \notin Holders BY Kinds DEF Holders
<1>2. \A g \in Holders : In(z, g) = In(w, g) \ {x} BY <1>t, <1>1 DEF In
<1>3. ASSUME NEW g \in Holders, g # h PROVE Filled(z, k, g) = Filled(w, k, g)
  <2>1. In(z, g) = In(w, g) BY <1>2, <1>3 DEF In
  <2> QED BY <2>1, <1>t, FilledSame
<1>4. CASE h \in Holders
  <2>1. Filled(w, k, h) = Filled(z, k, h) + Whole(w, x)
    <3>1. x \notin In(z, h) /\ In(w, h) = In(z, h) \cup {x} BY <1>2, <1>4 DEF In
    <3>2. Filled(w, k, h) = Filled(z, k, h) + Load(w.nrof, k)[x]
      BY <1>t, <3>1, FilledMore
    <3> QED BY <3>2, WholeIsLoad
  <2> DEFINE d == -Whole(w, x)
  <2>2. Whole(w, x) \in Int /\ d \in Int BY WholeIsLoad
  <2>3. \A g \in Holders : Filled(z, k, g) \in Int /\ Filled(w, k, g) \in Int
    BY <1>t, FilledIsSum
  <2>4. \A g \in Holders : Filled(z, k, g) = Filled(w, k, g) + (IF g = h THEN d ELSE 0)
    <3> SUFFICES ASSUME NEW g \in Holders
                 PROVE  Filled(z, k, g) = Filled(w, k, g) + (IF g = h THEN d ELSE 0)
      OBVIOUS
    <3>1. CASE g = h BY <2>1, <2>2, <2>3, <3>1
    <3>2. CASE g # h BY <1>3, <2>3, <3>2
    <3> QED BY <3>1, <3>2
  <2>5. PICK U \in SUBSET Containers :
            /\ h \in Containers => h \in U
            /\ \A c \in U : w.env[c] \in Containers => w.env[c] \in U
            /\ x \notin U
    <3>1. CASE x \in Containers BY <3>1, OuterSet
    <3>2. CASE x \notin Containers
      <4>1. Containers \in SUBSET Containers OBVIOUS
      <4> QED BY <3>2, <4>1
    <3> QED BY <3>1, <3>2
  <2>6. \A c \in U : z.env[c] = w.env[c] BY <2>5, <1>t DEF Things
  <2>7. h \in Holders \cup Squares \cup {NULL} /\ Counted(z) BY <1>4 DEF Counted
  <2>8. Unloaded(w, x) = AddWeight(w, h, d) BY <1>4 DEF Unloaded
  <2> HIDE DEF h, d
  <2>9. Settled(AddWeight(w, h, d), w, z)
    BY <2>2, <2>4, <2>5, <2>6, <2>7, Settling
  <2> QED BY <2>8, <2>9
<1>5. CASE h \notin Holders
  <2>1. \A g \in Holders : Filled(z, k, g) = Filled(w, k, g) BY <1>3, <1>5
  <2>2. Right(z, k, w.sum) BY <2>1, ConstantsAssumption DEF Right, Holders
  <2>3. w = [w EXCEPT !.carrying = w.carrying, !.sum = w.sum] BY DEF Raw
  <2>4. Unloaded(w, x) = w BY <1>5 DEF Unloaded
  <2> QED BY <2>2, <2>3, <2>4 DEF Settled
<1> QED BY <1>4, <1>5

(* Where one pile becomes more or fewer                                    *)
LEMMA FilledUnits ==
    ASSUME NEW w \in Raw, NEW z \in Raw, z.env = w.env, NEW o \in Piles,
           NEW k, \A c \in Containers : k[c] \in Int, NEW g,
           \A x \in Piles \ {o} : w.env[x] = g => z.nrof[x] = w.nrof[x]
    PROVE  Filled(z, k, g)
             = Filled(w, k, g) + (IF g = w.env[o] THEN z.nrof[o] - w.nrof[o] ELSE 0)
<1>0. Filled(z, k, g) \in Int /\ Filled(w, k, g) \in Int BY FilledIsSum
<1>1. CASE g # w.env[o]
  <2>1. In(z, g) = In(w, g) BY DEF In
  <2>2. \A x \in In(z, g) \cap Piles : z.nrof[x] = w.nrof[x] BY <1>1 DEF In
  <2>3. Filled(z, k, g) = Filled(w, k, g) BY <2>1, <2>2, FilledSame
  <2> QED BY <1>0, <1>1, <2>3
<1>2. CASE g = w.env[o]
  <2> DEFINE S == In(w, g) \ {o}
             e == Load(w.nrof, k)
             f == Load(z.nrof, k)
  <2>1. In(z, g) = In(w, g) /\ o \in In(w, g) BY <1>2 DEF In, Things
  <2>2. /\ Filled(w, k, g) = SumFunctionOnSet(e, In(w, g)) /\ IsFiniteSet(In(w, g))
        /\ Filled(z, k, g) = SumFunctionOnSet(f, In(w, g)) /\ In(w, g) \subseteq Things
    BY <2>1, FilledIsSum
  <2>3. w.nrof \in [Piles -> Int] /\ z.nrof \in [Piles -> Int] BY DEF Raw
  <2>4. /\ \A x \in Things : e[x] \in Int /\ f[x] \in Int
        /\ e[o] = w.nrof[o] /\ f[o] = z.nrof[o]
    BY <2>3, LoadType
  <2>5. \A x \in S : f[x] = e[x]
    <3> SUFFICES ASSUME NEW x \in S PROVE f[x] = e[x] OBVIOUS
    <3>1. CASE x \in Containers BY <2>3, <3>1, LoadType
    <3>2. CASE x \in Piles
      <4>1. z.nrof[x] = w.nrof[x] BY <3>2 DEF In
      <4> QED BY <2>3, <3>2, <4>1, LoadType
    <3> QED BY <2>2, <3>1, <3>2 DEF Things
  <2>6. w.nrof[o] \in Int /\ z.nrof[o] \in Int BY <2>3
  <2> HIDE DEF e, f
  <2>7. SumFunctionOnSet(f, In(w, g)) = SumFunctionOnSet(e, In(w, g)) + f[o] - e[o]
    BY <2>1, <2>2, <2>4, <2>5, SumChange
  <2> QED BY <1>0, <1>2, <2>2, <2>4, <2>6, <2>7
<1> QED BY <1>1, <1>2

(* A pile becomes more or fewer, where others may change that nobody       *)
(* holds.                                                                  *)
LEMMA WeightUnits ==
    ASSUME NEW w \in Raw, Places(w), NEW y \in Raw, y.env = w.env,
           Right(y, w.carrying, w.sum),
           NEW z \in Raw, Counted(z), z.env = w.env, NEW o \in Piles,
           \A x \in Piles \ {o} : w.env[x] \in Holders => z.nrof[x] = y.nrof[x]
    PROVE  Settled(AddWeight(w, w.env[o], z.nrof[o] - y.nrof[o]), w, z)
<1> DEFINE h == w.env[o]
           d == z.nrof[o] - y.nrof[o]
           U == Containers
<1>1. h \in Holders \cup Squares \cup {NULL} /\ d \in Int BY DEF Raw, Things
<1>2. \A c \in Containers : w.carrying[c] \in Int BY DEF Raw, Holders
<1>3. \A g \in Holders : Filled(z, w.carrying, g)
                             = Filled(y, w.carrying, g) + (IF g = h THEN d ELSE 0)
  BY <1>2, FilledUnits
<1>4. /\ U \in SUBSET Containers /\ (h \in Containers => h \in U)
      /\ \A c \in U : w.env[c] \in Containers => w.env[c] \in U
      /\ \A c \in U : z.env[c] = w.env[c]
  OBVIOUS
<1> HIDE DEF h, d, U
<1>5. Settled(AddWeight(w, h, d), w, z) BY <1>1, <1>3, <1>4, Settling
<1> QED BY <1>5 DEF h, d

(* A thing that nobody holds is put somewhere: object_insert_into() adds   *)
(* its weight.                                                             *)
LEMMA WeightIn ==
    ASSUME NEW w \in Raw, Places(w), Counted(w), Right(w, w.carrying, w.sum),
           NEW x \in Things, w.env[x] \notin Holders,
           NEW h \in Holders \cup Squares, NEW z \in Raw, z.env = [w.env EXCEPT ![x] = h],
           z.nrof = w.nrof, x \in Piles \/ h \notin Containers \/ (w.env[h] \notin Containers /\ h # x)
    PROVE  Settled(AddWeight(w, h, Whole(w, x)), w, z)
<1> DEFINE k == w.carrying
           d == Whole(w, x)
<1>t. /\ w.env \in [Things \cup Players -> Holders \cup Squares \cup {NULL}]
      /\ \A g \in Containers : k[g] \in Int
  BY DEF Raw, Holders
<1>0. h \in Holders \cup Squares \cup {NULL} /\ d \in Int /\ Counted(z)
  BY WholeIsLoad DEF Counted
<1>1. \A g \in Holders : /\ x \notin In(w, g)
                         /\ In(z, g) = IF g = h THEN In(w, g) \cup {x} ELSE In(w, g)
  BY <1>t DEF In
<1>2. \A g \in Holders : Filled(z, k, g) = Filled(w, k, g) + (IF g = h THEN d ELSE 0)
  <2> SUFFICES ASSUME NEW g \in Holders
               PROVE  Filled(z, k, g) = Filled(w, k, g) + (IF g = h THEN d ELSE 0)
    OBVIOUS
  <2>0. Filled(w, k, g) \in Int /\ d = Load(z.nrof, k)[x] BY <1>t, WholeIsLoad, FilledIsSum
  <2>1. CASE g = h
    <3>1. Filled(z, k, g) = Filled(w, k, g) + Load(z.nrof, k)[x]
      BY <1>t, <1>1, <2>1, FilledMore
    <3> QED BY <2>0, <2>1, <3>1
  <2>2. CASE g # h
    <3>1. Filled(z, k, g) = Filled(w, k, g) BY <1>t, <1>1, <2>2, FilledSame
    <3> QED BY <2>0, <2>2, <3>1
  <2> QED BY <2>1, <2>2
<1>3. PICK U \in SUBSET Containers :
          /\ h \in Containers => h \in U
          /\ \A c \in U : w.env[c] \in Containers => w.env[c] \in U
          /\ x \notin U
  <2>1. CASE x \in Piles
    <3>1. Containers \in SUBSET Containers /\ x \notin Containers BY <2>1, Kinds
    <3> QED BY <3>1
  <2>2. CASE h \notin Containers
    <3> DEFINE none == {}
    <3>1. none \in SUBSET Containers OBVIOUS
    <3> QED BY <2>2, <3>1
  <2>3. CASE h \in Containers /\ w.env[h] \notin Containers /\ h # x
    <3>1. {h} \in SUBSET Containers BY <2>3
    <3> QED BY <2>3, <3>1
  <2> QED BY <2>1, <2>2, <2>3
<1>4. \A c \in U : z.env[c] = w.env[c] BY <1>3, <1>t DEF Things
<1> HIDE DEF d
<1>5. Settled(AddWeight(w, h, d), w, z) BY <1>0, <1>2, <1>3, <1>4, Settling
<1> QED BY <1>5 DEF d

LEMMA SettledFacts ==
    ASSUME NEW w \in Raw, NEW z, NEW v, Settled(v, w, z)
    PROVE  /\ v \in Raw /\ Right(z, v.carrying, v.sum)
           /\ v.env = w.env /\ v.nrof = w.nrof /\ v.applied = w.applied
           /\ v.container = w.container /\ v.above = w.above /\ v.below = w.below
           /\ v.newest = w.newest
<1>1. PICK c, s : v = [w EXCEPT !.carrying = c, !.sum = s] /\ Right(z, c, s) BY DEF Settled
<1>2. c \in [Holders -> Int] /\ s \in [Magical -> Int] BY <1>1 DEF Right
<1>3. v.carrying = c /\ v.sum = s BY <1>1 DEF Raw
<1> QED BY <1>1, <1>2, <1>3 DEF Raw

(* What is right for a world is right where the same things are in each    *)
(* holder, piles in the same number.                                       *)
LEMMA RightSame ==
    ASSUME NEW z \in Raw, NEW c, NEW s, Right(z, c, s), NEW u \in Raw,
           \A h \in Holders : In(u, h) = In(z, h),
           \A o \in Piles : z.env[o] \in Holders => u.nrof[o] = z.nrof[o]
    PROVE  Right(u, c, s)
<1>1. \A g \in Containers : c[g] \in Int BY DEF Right, Holders
<1>2. ASSUME NEW h \in Holders PROVE Filled(u, c, h) = Filled(z, c, h)
  <2>1. \A o \in In(z, h) \cap Piles : u.nrof[o] = z.nrof[o] BY DEF In
  <2> QED BY <1>1, <2>1, FilledSame
<1> QED BY <1>2, ConstantsAssumption DEF Right, Holders

---------------------------------------------------------------------------
(* What the operators of the model keep                                    *)

(* Who looks into a container is in the game; it is applied and exists.    *)
(* What is applied is not in another container, and has viewers where it   *)
(* is on the floor.                                                        *)
Opened(w) ==
    /\ \A p \in Players : w.container[p] # NULL =>
           /\ w.env[p] # NULL /\ w.container[p] \in w.applied /\ w.env[w.container[p]] # NULL
    /\ \A c \in w.applied : /\ w.env[c] \notin Containers
                            /\ w.env[c] \in Squares => w.newest[c] # NULL

Sound(w) ==
    /\ w \in Raw /\ Lists(w) /\ Opened(w) /\ Places(w) /\ Counted(w)
    /\ Right(w, w.carrying, w.sum)

LEMMA ListsSame ==
    ASSUME NEW w, Lists(w), NEW u, u.container = w.container, u.above = w.above,
           u.below = w.below, u.newest = w.newest
    PROVE  Lists(u)
  BY DEF Lists, Linked, OneList, Heads, NoRing

(* A thing that is put somewhere is not inside itself then, if it is no    *)
(* container, or put into none, or into one that is in none.               *)
LEMMA PlacesPut ==
    ASSUME NEW w \in Raw, Places(w), NEW x \in Things, NEW h,
           x \in Piles \/ h \notin Containers \/ (h # x /\ w.env[h] \notin Containers),
           NEW z, z.env = [w.env EXCEPT ![x] = h]
    PROVE  Places(z)
<1>0. \A y \in Things \cup Players : z.env[y] = IF y = x THEN h ELSE w.env[y] BY DEF Raw
<1>1. \A p \in Players : z.env[p] \notin Holders BY <1>0, Kinds DEF Places, Things
<1>2. ASSUME NEW S \in SUBSET Containers, S # {} PROVE \E c \in S : z.env[c] \notin S
  <2>1. CASE h \in S /\ x \notin Piles BY <2>1, <1>0 DEF Things
  <2>2. CASE h \notin S \/ x \in Piles
    <3>1. PICK c \in S : w.env[c] \notin S BY <1>2 DEF Places
    <3> QED BY <3>1, <2>2, <1>0, Kinds DEF Things
  <2> QED BY <2>1, <2>2
<1> QED BY <1>1, <1>2 DEF Places

(* object_remove().  The thing may have been unapplied just before.        *)
MaybeUnapplied(w, x) == {w, [w EXCEPT !.applied = @ \ {x}]}

LEMMA RemoveFacts ==
    ASSUME NEW w, Sound(w), NEW x \in Things, NEW y \in MaybeUnapplied(w, x)
    PROVE  LET u == Remove(y, x)
           IN  /\ Sound(u) /\ u.env = [w.env EXCEPT ![x] = NULL] /\ u.nrof = w.nrof
               /\ u.applied \subseteq w.applied /\ w.applied \subseteq u.applied \cup {x}
               /\ x \in u.applied => x \in y.applied /\ w.env[x] \notin Squares
               /\ \A q \in Players : u.container[q] = IF w.container[q] = x THEN NULL
                                                      ELSE w.container[q]
<1> DEFINE z == [w EXCEPT !.env[x] = NULL]
           v == Unloaded(y, x)
           m == IF x \in Containers THEN CloseAll(v, x) ELSE v
           u == Remove(y, x)
<1>0. w \in Raw /\ Lists(w) /\ Opened(w) /\ Places(w) /\ Counted(w) /\ Right(w, w.carrying, w.sum)
  BY DEF Sound
<1>1. /\ y \in Raw /\ y.env = w.env /\ y.nrof = w.nrof /\ y.carrying = w.carrying
      /\ y.sum = w.sum /\ y.container = w.container /\ y.above = w.above
      /\ y.below = w.below /\ y.newest = w.newest
      /\ y.applied \subseteq w.applied /\ w.applied \subseteq y.applied \cup {x}
  BY <1>0 DEF Raw, MaybeUnapplied
<1>2. z \in Raw /\ z.env = [w.env EXCEPT ![x] = NULL] /\ z.nrof = w.nrof BY <1>0 DEF Raw
<1>3. Places(y) /\ Counted(y) /\ Right(y, y.carrying, y.sum)
  <2>1. Places(y) /\ Counted(y) BY <1>0, <1>1 DEF Places, Counted
  <2>2. \A h : In(y, h) = In(w, h) BY <1>1 DEF In
  <2> QED BY <1>0, <1>1, <2>1, <2>2, RightSame
<1> HIDE DEF z
<1>4. Settled(v, y, z)
  <2>1. z.env = [y.env EXCEPT ![x] = NULL] /\ z.nrof = y.nrof BY <1>1, <1>2
  <2> QED BY <1>1, <1>2, <1>3, <2>1, WeightOut
<1>5. /\ v \in Raw /\ Right(z, v.carrying, v.sum) /\ v.env = w.env /\ v.nrof = w.nrof
      /\ v.applied = y.applied /\ v.container = w.container /\ v.newest = w.newest /\ Lists(v)
  <2> HIDE DEF v
  <2>1. /\ v \in Raw /\ Right(z, v.carrying, v.sum) /\ v.env = y.env /\ v.nrof = y.nrof
        /\ v.applied = y.applied /\ v.container = y.container /\ v.newest = y.newest
        /\ v.above = y.above /\ v.below = y.below
    BY <1>1, <1>4, SettledFacts
  <2>2. Lists(v) BY <1>0, <1>1, <2>1, ListsSame
  <2> QED BY <1>1, <2>1, <2>2
<1>6. u = [m EXCEPT !.env[x] = NULL] BY DEF Remove, Unloaded
<1> HIDE DEF v
<1>7. /\ m \in Raw /\ Lists(m) /\ SameThings(m, v)
      /\ m.container = [q \in Players |-> IF w.container[q] = x THEN NULL ELSE w.container[q]]
      /\ m.applied = IF x \in Containers /\ w.newest[x] # NULL THEN y.applied \ {x} ELSE y.applied
      /\ \A c \in Containers \ {x} : m.newest[c] = w.newest[c]
  <2>1. CASE x \in Containers
    <3>1. m = CloseAll(v, x) BY <2>1
    <3> HIDE DEF m
    <3>2. /\ m \in Raw /\ Lists(m) /\ SameThings(m, v)
          /\ m.container = [q \in Players |-> IF v.container[q] = x THEN NULL ELSE v.container[q]]
          /\ m.newest = [v.newest EXCEPT ![x] = NULL]
          /\ m.applied = IF v.newest[x] = NULL THEN v.applied ELSE v.applied \ {x}
      BY <1>5, <2>1, <3>1, CloseAllFacts
    <3>3. \A c \in Containers \ {x} : m.newest[c] = w.newest[c] BY <3>2, <1>5, <1>0 DEF Raw
    <3> QED BY <1>5, <2>1, <3>2, <3>3
  <2>2. CASE x \notin Containers
    <3>1. m = v BY <2>2
    <3>2. w.container = [q \in Players |-> IF w.container[q] = x THEN NULL ELSE w.container[q]]
      <4>1. w.container \in [Players -> Containers \cup {NULL}] BY <1>0 DEF Raw
      <4>2. \A q \in Players : w.container[q] = x => w.container[q] = NULL BY <4>1, <2>2
      <4> QED BY <4>1, <4>2
    <3> HIDE DEF m
    <3> QED BY <1>5, <2>2, <3>1, <3>2 DEF SameThings
  <2> QED BY <2>1, <2>2
<1> HIDE DEF m, u
<1>8. /\ u \in Raw /\ u.env = [w.env EXCEPT ![x] = NULL] /\ u.nrof = w.nrof
      /\ u.carrying = v.carrying /\ u.sum = v.sum /\ u.container = m.container
      /\ u.applied = m.applied /\ u.newest = m.newest /\ u.above = m.above /\ u.below = m.below
  BY <1>5, <1>6, <1>7 DEF Raw, SameThings
<1>9. Right(u, u.carrying, u.sum)
  <2>1. \A h : In(u, h) = In(z, h) BY <1>2, <1>8 DEF In
  <2> QED BY <1>2, <1>5, <1>8, <2>1, RightSame
<1>10. Lists(u) BY <1>7, <1>8, ListsSame
<1>11. Places(u) BY <1>0, <1>8, PlacesPut, Kinds
<1>12. Counted(u) BY <1>0, <1>8 DEF Counted
<1>13. \A e \in Things \cup Players : u.env[e] = IF e = x THEN NULL ELSE w.env[e]
  BY <1>0, <1>8 DEF Raw
<1>14. \A q \in Players : u.container[q] = IF w.container[q] = x THEN NULL ELSE w.container[q]
  BY <1>7, <1>8
<1>15. /\ u.applied \subseteq w.applied /\ w.applied \subseteq u.applied \cup {x}
       /\ x \in u.applied => x \in y.applied /\ w.env[x] \notin Squares
  BY <1>0, <1>1, <1>7, <1>8 DEF Opened, Raw
<1>16. Opened(u)
  <2>1. ASSUME NEW q \in Players, u.container[q] # NULL
        PROVE  u.env[q] # NULL /\ u.container[q] \in u.applied /\ u.env[u.container[q]] # NULL
    <3>1. u.container[q] = w.container[q] /\ w.container[q] # x BY <2>1, <1>14
    <3>2. w.env[q] # NULL /\ w.container[q] \in w.applied /\ w.env[w.container[q]] # NULL
      BY <2>1, <3>1, <1>0 DEF Opened
    <3>3. q # x /\ w.container[q] \in Things
      BY <1>0, <3>2, Kinds DEF Raw, Things
    <3> QED BY <3>1, <3>2, <3>3, <1>13, <1>15
  <2>2. ASSUME NEW c \in u.applied
        PROVE  u.env[c] \notin Containers /\ (u.env[c] \in Squares => u.newest[c] # NULL)
    <3>1. c \in w.applied /\ c \in Containers BY <1>0, <1>15 DEF Raw
    <3>2. w.env[c] \notin Containers /\ (w.env[c] \in Squares => w.newest[c] # NULL)
      BY <1>0, <3>1 DEF Opened
    <3>3. CASE c = x BY <3>1, <3>3, <1>13, Kinds DEF Things
    <3>4. CASE c # x BY <3>1, <3>2, <3>4, <1>7, <1>8, <1>13 DEF Things
    <3> QED BY <3>3, <3>4
  <2> QED BY <2>1, <2>2 DEF Opened
<1>17. Sound(u) BY <1>8, <1>9, <1>10, <1>11, <1>12, <1>16 DEF Sound
<1> QED BY <1>8, <1>14, <1>15, <1>17 DEF u

(* A world is sound once its weights are.                                  *)
Weighed(z, c, s) == [z EXCEPT !.carrying = c, !.sum = s]

LEMMA SoundWeights ==
    ASSUME NEW z \in Raw, Lists(z), Opened(z), Places(z), Counted(z),
           NEW c, NEW s, Right(z, c, s), NEW u, u = Weighed(z, c, s)
    PROVE  /\ Sound(u) /\ u.env = z.env /\ u.nrof = z.nrof /\ u.applied = z.applied
           /\ u.container = z.container /\ u.newest = z.newest
<1>1. c \in [Holders -> Int] /\ s \in [Magical -> Int] BY DEF Right
<1>2. /\ u \in Raw /\ u.env = z.env /\ u.nrof = z.nrof /\ u.applied = z.applied
      /\ u.container = z.container /\ u.newest = z.newest
      /\ u.above = z.above /\ u.below = z.below /\ u.carrying = c /\ u.sum = s
  BY <1>1 DEF Raw, Weighed
<1>3. Lists(u) BY <1>2, ListsSame
<1>4. Opened(u) /\ Places(u) /\ Counted(u) BY <1>2 DEF Opened, Places, Counted
<1>5. Right(u, c, s)
  <2>1. \A h : In(u, h) = In(z, h) BY <1>2 DEF In
  <2> QED BY <1>2, <2>1, RightSame
<1> QED BY <1>2, <1>3, <1>4, <1>5 DEF Sound

LEMMA PileWeight ==
    ASSUME NEW w, NEW x \in Piles, NEW n \in Int
    PROVE  Weight(w, x, n) = n
  BY Kinds DEF Weight, Own

(* The weight of one pile is changed in what holds it, then the numbers    *)
(* are: those of other piles only where nobody holds them.                 *)
Recounted(v, m) == [v EXCEPT !.nrof = m]

LEMMA RecountSound ==
    ASSUME NEW w, Sound(w), NEW m \in [Piles -> Nat], NEW x \in Piles,
           \A o \in Piles \ {x} : w.env[o] \in Holders => m[o] = w.nrof[o],
           NEW u, u = Recounted(AddWeight(w, w.env[x], m[x] - w.nrof[x]), m)
    PROVE  /\ Sound(u) /\ u.env = w.env /\ u.nrof = m /\ u.applied = w.applied
           /\ u.container = w.container
<1> DEFINE z == Recounted(w, m)
           v == AddWeight(w, w.env[x], m[x] - w.nrof[x])
<1>0. w \in Raw /\ Lists(w) /\ Opened(w) /\ Places(w) /\ Counted(w) /\ Right(w, w.carrying, w.sum)
  BY DEF Sound
<1>1. m \in [Piles -> Int] OBVIOUS
<1>2. /\ z \in Raw /\ z.env = w.env /\ z.nrof = m /\ z.applied = w.applied
      /\ z.container = w.container /\ z.newest = w.newest
      /\ z.above = w.above /\ z.below = w.below
  BY <1>0, <1>1 DEF Raw, Recounted
<1> HIDE DEF z
<1>3. Lists(z) /\ Opened(z) /\ Places(z) /\ Counted(z)
  <2>1. Lists(z) BY <1>0, <1>2, ListsSame
  <2>2. Opened(z) /\ Places(z) BY <1>0, <1>2 DEF Opened, Places
  <2>3. Counted(z) BY <1>2 DEF Counted
  <2> QED BY <2>1, <2>2, <2>3
<1>4. Settled(v, w, z)
  <2>1. \A o \in Piles \ {x} : w.env[o] \in Holders => z.nrof[o] = w.nrof[o] BY <1>2
  <2>2. Settled(AddWeight(w, w.env[x], z.nrof[x] - w.nrof[x]), w, z)
    BY <1>0, <1>2, <1>3, <2>1, WeightUnits
  <2> QED BY <1>2, <2>2
<1>5. PICK c, s : v = [w EXCEPT !.carrying = c, !.sum = s] /\ Right(z, c, s)
  BY <1>4 DEF Settled
<1>6. u = Recounted(v, m) OBVIOUS
<1> HIDE DEF v
<1>7. u = Weighed(z, c, s) BY <1>0, <1>5, <1>6 DEF z, Raw, Weighed, Recounted
<1>8. z \in Raw /\ Right(z, c, s) BY <1>2, <1>5
<1>9. /\ Sound(u) /\ u.env = z.env /\ u.nrof = z.nrof /\ u.applied = z.applied
      /\ u.container = z.container
  BY <1>3, <1>7, <1>8, SoundWeights
<1> QED BY <1>2, <1>9

(* object_split(), of no more than there is                                *)
LEMMA SplitFacts ==
    ASSUME NEW w, Sound(w), NEW x \in Piles, NEW n \in Nat, n <= w.nrof[x],
           NEW new \in Piles \ {x}, w.env[new] = NULL
    PROVE  LET u == Split(w, x, n, new)
           IN  /\ Sound(u) /\ u.env = w.env /\ u.applied = w.applied
               /\ u.container = w.container
               /\ u.nrof = [w.nrof EXCEPT ![x] = @ - n, ![new] = n]
<1> DEFINE m == [w.nrof EXCEPT ![x] = w.nrof[x] - n, ![new] = n]
           u == Split(w, x, n, new)
           v == AddWeight(w, w.env[x], m[x] - w.nrof[x])
<1>0. w \in Raw /\ w.nrof \in [Piles -> Nat] /\ Right(w, w.carrying, w.sum) /\ Places(w)
      /\ Counted(w)
  BY DEF Sound, Raw, Counted
<1>1. /\ m \in [Piles -> Nat] /\ m[x] = w.nrof[x] - n
      /\ \A o \in Piles \ {x, new} : m[o] = w.nrof[o]
  BY <1>0
<1>2. m[x] - w.nrof[x] = -n BY <1>0, <1>1
<1>3. -Weight(w, x, n) = m[x] - w.nrof[x]
  <2>1. Weight(w, x, n) = n BY PileWeight
  <2> HIDE DEF m
  <2> QED BY <1>2, <2>1
<1>4. AddWeight(w, w.env[x], -Weight(w, x, n)).nrof = w.nrof
  BY <1>0 DEF AddWeight, Raw
<1>5. u = Recounted(v, m)
  <2>1. u = [AddWeight(w, w.env[x], -Weight(w, x, n)) EXCEPT
                 !.nrof = [@ EXCEPT ![x] = w.nrof[x] - n, ![new] = n]]
    BY DEF Split
  <2> HIDE DEF u
  <2>2. u = [AddWeight(w, w.env[x], -Weight(w, x, n)) EXCEPT !.nrof = m] BY <1>4, <2>1
  <2> HIDE DEF m
  <2> QED BY <1>3, <2>2 DEF Recounted
<1>6. \A o \in Piles \ {x} : w.env[o] \in Holders => m[o] = w.nrof[o]
  <2>1. NULL \notin Holders BY Kinds DEF Holders
  <2> QED BY <1>1, <2>1
<1> HIDE DEF m, u
<1>7. /\ Sound(u) /\ u.env = w.env /\ u.nrof = m /\ u.applied = w.applied
      /\ u.container = w.container
  BY <1>1, <1>5, <1>6, RecountSound
<1> QED BY <1>7 DEF u, m

(* A thing that is nowhere gets into a holder: nothing else changes.       *)
Put(w, x, h) == [AddWeight(w, h, Whole(w, x)) EXCEPT !.env[x] = h]

LEMMA PutSound ==
    ASSUME NEW w, Sound(w), NEW x \in Things, w.env[x] = NULL, NEW h \in Holders \cup Squares,
           x \in Piles \/ h \notin Containers \/ (h \in w.applied /\ h # x),
           x \in w.applied => h \in Players,
           NEW u, u = Put(w, x, h)
    PROVE  /\ Sound(u) /\ u.env = [w.env EXCEPT ![x] = h] /\ u.nrof = w.nrof
           /\ u.applied = w.applied /\ u.container = w.container
<1> DEFINE z == [w EXCEPT !.env[x] = h]
           v == AddWeight(w, h, Whole(w, x))
<1>0. w \in Raw /\ Lists(w) /\ Opened(w) /\ Places(w) /\ Counted(w) /\ Right(w, w.carrying, w.sum)
  BY DEF Sound
<1>1. /\ z \in Raw /\ z.env = [w.env EXCEPT ![x] = h] /\ z.nrof = w.nrof
      /\ z.applied = w.applied /\ z.container = w.container /\ z.newest = w.newest
      /\ z.above = w.above /\ z.below = w.below
  BY <1>0 DEF Raw
<1>2. \A e \in Things \cup Players : z.env[e] = IF e = x THEN h ELSE w.env[e] BY <1>0 DEF Raw
<1> HIDE DEF z
<1>3. x \in Piles \/ h \notin Containers \/ (w.env[h] \notin Containers /\ h # x)
  BY <1>0 DEF Opened
<1>4. Lists(z) /\ Places(z) /\ Counted(z)
  <2>1. Places(z) BY <1>0, <1>1, <1>3, PlacesPut
  <2>2. Counted(z) BY <1>0, <1>1 DEF Counted
  <2> QED BY <2>1, <2>2, <1>0, <1>1, ListsSame
<1>5. Opened(z)
  <2>1. ASSUME NEW p \in Players, z.container[p] # NULL
        PROVE  z.env[p] # NULL /\ z.container[p] \in z.applied /\ z.env[z.container[p]] # NULL
    <3>1. w.env[p] # NULL /\ w.container[p] \in w.applied /\ w.env[w.container[p]] # NULL
      BY <1>0, <1>1, <2>1 DEF Opened
    <3>2. p # x /\ w.container[p] # x BY <3>1, Kinds DEF Things
    <3>3. w.container[p] \in Things BY <3>1, <1>0 DEF Raw, Things
    <3> QED BY <1>1, <1>2, <3>1, <3>2, <3>3
  <2>2. ASSUME NEW c \in z.applied
        PROVE  z.env[c] \notin Containers /\ (z.env[c] \in Squares => z.newest[c] # NULL)
    <3>1. c \in Containers /\ c \in w.applied BY <1>1, <1>0 DEF Raw
    <3>2. CASE c = x
      <4>1. h \in Players BY <3>1, <3>2
      <4> QED BY <4>1, <3>1, <3>2, <1>2, Kinds DEF Things
    <3>3. CASE c # x
      <4>1. z.env[c] = w.env[c] BY <3>1, <3>3, <1>2 DEF Things
      <4> QED BY <4>1, <3>1, <1>0, <1>1 DEF Opened
    <3> QED BY <3>2, <3>3
  <2> QED BY <2>1, <2>2 DEF Opened
<1>6. Settled(v, w, z)
  <2>1. w.env[x] \notin Holders BY Kinds DEF Holders
  <2> QED BY <1>0, <1>1, <1>3, <2>1, WeightIn
<1>7. PICK c, s : v = [w EXCEPT !.carrying = c, !.sum = s] /\ Right(z, c, s)
  BY <1>6 DEF Settled
<1> HIDE DEF v
<1>8. u = Weighed(z, c, s) BY <1>0, <1>7 DEF z, v, Raw, Weighed, Put
<1>9. z \in Raw /\ Right(z, c, s) BY <1>1, <1>7
<1>10. /\ Sound(u) /\ u.env = z.env /\ u.nrof = z.nrof /\ u.applied = z.applied
       /\ u.container = z.container
  BY <1>4, <1>5, <1>8, <1>9, SoundWeights
<1> QED BY <1>1, <1>10

(* object_stack_get_removed(): u is w without o, which is x or n of x.     *)
TakenAs(w, y, x, n, o, u) ==
    /\ Sound(u) /\ o \in Things /\ u.env[o] = NULL /\ (o \in Containers => o = x)
    /\ u.applied \subseteq w.applied /\ w.applied \subseteq u.applied \cup {x}
    /\ o \in u.applied => x \in y.applied /\ w.env[x] \notin Squares
    /\ \A q \in Players : u.container[q] \in {w.container[q], NULL}
    /\ \/ /\ o = x /\ u.env = [w.env EXCEPT ![x] = NULL] /\ u.nrof = w.nrof
          /\ x \in Piles => n = w.nrof[x]
       \/ /\ x \in Piles /\ o \in Piles \ {x} /\ w.env[o] = NULL /\ n < w.nrof[x]
          /\ u.env = w.env /\ u.nrof = [w.nrof EXCEPT ![x] = @ - n, ![o] = n]

LEMMA TakenFacts ==
    ASSUME NEW w, Sound(w), NEW x \in Things, w.env[x] # NULL, NEW n \in Amounts(w, x),
           NEW y \in MaybeUnapplied(w, x), NEW t \in Taken(y, x, n)
    PROVE  TakenAs(w, y, x, n, t[1], t[2])
<1>0. w \in Raw BY DEF Sound
<1>1. y \in Raw /\ y.nrof = w.nrof /\ y.env = w.env BY <1>0 DEF Raw, MaybeUnapplied
<1>2. CASE t = <<x, Remove(y, x)>>
  <2> DEFINE u == Remove(y, x)
  <2>1. /\ Sound(u) /\ u.env = [w.env EXCEPT ![x] = NULL] /\ u.nrof = w.nrof
        /\ u.applied \subseteq w.applied /\ w.applied \subseteq u.applied \cup {x}
        /\ x \in u.applied => x \in y.applied /\ w.env[x] \notin Squares
        /\ \A q \in Players : u.container[q] = IF w.container[q] = x THEN NULL
                                               ELSE w.container[q]
    BY RemoveFacts
  <2>2. t[1] = x /\ t[2] = u BY <1>2
  <2> HIDE DEF u
  <2>3. u.env[x] = NULL BY <1>0, <2>1 DEF Raw
  <2>4. ASSUME x \in Piles PROVE n = w.nrof[x]
    <3>1. w.nrof[x] \in Int /\ n \in 1 .. w.nrof[x] BY <1>0, <2>4 DEF Raw, Amounts
    <3> SUFFICES ASSUME n < w.nrof[x] PROVE FALSE BY <3>1
    <3>2. ~(x \in Containers \/ n >= y.nrof[x]) BY <1>1, <2>4, <3>1, Kinds
    <3>3. PICK new \in Unused(y) : t = <<new, Split(y, x, n, new)>> BY <3>2 DEF Taken
    <3>4. new = x BY <2>2, <3>3
    <3> QED BY <1>1, <3>3, <3>4 DEF Unused
  <2> QED BY <2>1, <2>2, <2>3, <2>4 DEF TakenAs
<1>3. CASE x \in Piles /\ n < w.nrof[x] /\ t # <<x, Remove(y, x)>>
  <2>1. x \notin Containers BY <1>3, Kinds
  <2>2. y = w
    <3>1. w.applied \subseteq Containers BY <1>0 DEF Raw
    <3>2. w.applied \ {x} = w.applied BY <2>1, <3>1
    <3> QED BY <1>0, <3>2 DEF Raw, MaybeUnapplied
  <2>3. n \in Nat /\ w.nrof[x] \in Int
    <3>1. w.nrof[x] \in Int BY <1>0, <1>3 DEF Raw
    <3> QED BY <1>3, <3>1 DEF Amounts
  <2>4. PICK o \in Unused(w) : t = <<o, Split(w, x, n, o)>>
    <3>1. ~(x \in Containers \/ n >= w.nrof[x]) BY <1>3, <2>1, <2>3
    <3> QED BY <2>2, <3>1 DEF Taken
  <2>5. o \in Piles \ {x} /\ w.env[o] = NULL BY <2>4 DEF Unused
  <2> DEFINE u == Split(w, x, n, o)
  <2>6. /\ Sound(u) /\ u.env = w.env /\ u.applied = w.applied /\ u.container = w.container
        /\ u.nrof = [w.nrof EXCEPT ![x] = @ - n, ![o] = n]
    BY <1>3, <2>3, <2>5, SplitFacts
  <2>7. t[1] = o /\ t[2] = u BY <2>4
  <2> HIDE DEF u
  <2>8. o \in Things /\ o \notin Containers BY <2>5, Kinds DEF Things
  <2>9. u.applied \subseteq Containers BY <2>6, <1>0 DEF Raw
  <2> QED BY <1>3, <2>5, <2>6, <2>7, <2>8, <2>9 DEF TakenAs
<1>4. t = <<x, Remove(y, x)>> \/ (x \in Piles /\ n < w.nrof[x])
  <2>1. CASE x \in Containers BY <2>1 DEF Taken
  <2>2. CASE x \notin Containers
    <3>1. x \in Piles BY <2>2 DEF Things
    <3>2. w.nrof[x] \in Int BY <1>0, <3>1 DEF Raw
    <3>3. n \in Int BY <3>1, <3>2 DEF Amounts
    <3>4. n >= w.nrof[x] => t = <<x, Remove(y, x)>> BY <1>1 DEF Taken
    <3> QED BY <3>1, <3>2, <3>3, <3>4
  <2> QED BY <2>1, <2>2
<1> QED BY <1>2, <1>3, <1>4

(* object_insert_into(): u is w with x in h, or in the pile o of h.        *)
PutAs(w, x, h, u) ==
    /\ Sound(u) /\ u.applied = w.applied /\ u.container = w.container
    /\ \/ u.env = [w.env EXCEPT ![x] = h] /\ u.nrof = w.nrof
       \/ /\ x \in Piles /\ u.env = w.env
          /\ \E o \in Mergeable(w, x, h) :
                 u.nrof = [w.nrof EXCEPT ![o] = w.nrof[o] + w.nrof[x], ![x] = 0]

Joined(w, o, x) == [w EXCEPT !.nrof = [@ EXCEPT ![o] = w.nrof[o] + w.nrof[x], ![x] = 0]]

LEMMA JoinedSound ==
    ASSUME NEW w, Sound(w), NEW x \in Piles, w.env[x] = NULL, NEW h \in Holders,
           NEW o \in Mergeable(w, x, h), NEW u, u = AddWeight(Joined(w, o, x), h, Whole(w, x))
    PROVE  /\ Sound(u) /\ u.env = w.env /\ u.applied = w.applied /\ u.container = w.container
           /\ u.nrof = [w.nrof EXCEPT ![o] = w.nrof[o] + w.nrof[x], ![x] = 0]
<1> DEFINE m == [w.nrof EXCEPT ![o] = w.nrof[o] + w.nrof[x], ![x] = 0]
           z == Joined(w, o, x)
           d == Whole(w, x)
<1>0. w \in Raw /\ Lists(w) /\ Opened(w) /\ Places(w) /\ Counted(w) /\ Right(w, w.carrying, w.sum)
  BY DEF Sound
<1>1. o \in Piles /\ o # x /\ w.env[o] = h BY DEF Mergeable
<1>2. /\ m \in [Piles -> Nat] /\ m[o] = w.nrof[o] + w.nrof[x] /\ m[x] = 0
      /\ \A q \in Piles \ {x, o} : m[q] = w.nrof[q]
      /\ w.nrof[o] \in Nat /\ w.nrof[x] \in Nat
  <2>1. w.nrof \in [Piles -> Nat] BY <1>0 DEF Raw, Counted
  <2> QED BY <1>1, <2>1
<1>3. z = [w EXCEPT !.nrof = m] BY DEF Joined
<1> HIDE DEF m, z
<1>4. /\ z \in Raw /\ z.env = w.env /\ z.nrof = m /\ z.applied = w.applied
      /\ z.container = w.container /\ z.newest = w.newest /\ z.above = w.above
      /\ z.below = w.below /\ z.carrying = w.carrying /\ z.sum = w.sum
  BY <1>0, <1>2, <1>3 DEF Raw
<1>5. Lists(z) /\ Opened(z) /\ Places(z) /\ Counted(z)
  <2>1. Lists(z) BY <1>0, <1>4, ListsSame
  <2>2. Opened(z) /\ Places(z) BY <1>0, <1>4 DEF Opened, Places
  <2>3. Counted(z) BY <1>2, <1>4 DEF Counted
  <2> QED BY <2>1, <2>2, <2>3
<1>6. d = w.nrof[x]
  <2>1. w.nrof[x] \in Int BY <1>2
  <2> QED BY <2>1, PileWeight DEF Whole
<1>7. Settled(u, z, z)
  <2>1. z.nrof[o] - w.nrof[o] = d BY <1>2, <1>4, <1>6
  <2>2. \A q \in Piles \ {o} : z.env[q] \in Holders => z.nrof[q] = w.nrof[q]
    <3>1. NULL \notin Holders BY Kinds DEF Holders
    <3> QED BY <3>1, <1>2, <1>4
  <2>3. Right(w, z.carrying, z.sum) /\ w.env = z.env BY <1>0, <1>4
  <2>4. Settled(AddWeight(z, z.env[o], z.nrof[o] - w.nrof[o]), z, z)
    BY <1>0, <1>1, <1>4, <1>5, <2>2, <2>3, WeightUnits
  <2>5. u = AddWeight(z, z.env[o], z.nrof[o] - w.nrof[o]) BY <1>1, <1>4, <2>1 DEF z
  <2> QED BY <2>4, <2>5
<1>8. PICK c, s : u = [z EXCEPT !.carrying = c, !.sum = s] /\ Right(z, c, s)
  BY <1>7 DEF Settled
<1>9. u = Weighed(z, c, s) BY <1>8 DEF Weighed
<1>10. z \in Raw /\ Right(z, c, s) BY <1>4, <1>8
<1>11. /\ Sound(u) /\ u.env = z.env /\ u.nrof = z.nrof /\ u.applied = z.applied
       /\ u.container = z.container
  BY <1>5, <1>9, <1>10, SoundWeights
<1> QED BY <1>4, <1>11 DEF m

LEMMA InsertIntoFacts ==
    ASSUME NEW w, Sound(w), NEW x \in Things, w.env[x] = NULL, NEW h \in Holders,
           h \in Containers => h \in w.applied /\ h # x,
           x \in w.applied => h \in Players,
           NEW u \in InsertInto(w, x, h)
    PROVE  PutAs(w, x, h, u)
<1>1. CASE x \in Piles /\ Mergeable(w, x, h) # {}
  <2>1. PICK o \in Mergeable(w, x, h) : u = AddWeight(Joined(w, o, x), h, Whole(w, x))
    BY <1>1 DEF InsertInto, Joined
  <2>2. /\ Sound(u) /\ u.env = w.env /\ u.applied = w.applied /\ u.container = w.container
        /\ u.nrof = [w.nrof EXCEPT ![o] = w.nrof[o] + w.nrof[x], ![x] = 0]
    BY <1>1, <2>1, JoinedSound
  <2> QED BY <1>1, <2>2 DEF PutAs
<1>2. CASE ~(x \in Piles /\ Mergeable(w, x, h) # {})
  <2>1. u = Put(w, x, h) BY <1>2 DEF InsertInto, Put
  <2>2. /\ Sound(u) /\ u.env = [w.env EXCEPT ![x] = h] /\ u.nrof = w.nrof
        /\ u.applied = w.applied /\ u.container = w.container
    BY <2>1, PutSound
  <2> QED BY <2>2 DEF PutAs
<1> QED BY <1>1, <1>2

(* What happens on the floor, to things that nobody looks into, leaves the *)
(* rest as it is.                                                          *)
LEMMA FloorSound ==
    ASSUME NEW w, Sound(w), NEW u \in Raw, Counted(u),
           u.carrying = w.carrying, u.sum = w.sum, u.container = w.container,
           u.above = w.above, u.below = w.below, u.newest = w.newest,
           u.applied \subseteq w.applied,
           NEW T \in SUBSET Things,
           \A e \in (Things \cup Players) \ T : u.env[e] = w.env[e],
           \A e \in T : /\ w.env[e] \in Squares \cup {NULL} /\ u.env[e] \in Squares \cup {NULL}
                        /\ e \notin u.applied /\ \A p \in Players : w.container[p] # e,
           \A c \in w.applied \ T : c \in u.applied,
           \A o \in Piles \ T : u.nrof[o] = w.nrof[o]
    PROVE  Sound(u)
<1>0. w \in Raw /\ Lists(w) /\ Opened(w) /\ Places(w) /\ Counted(w) /\ Right(w, w.carrying, w.sum)
  BY DEF Sound
<1>n. \A s \in Squares \cup {NULL} : s \notin Holders /\ s \notin Containers
  BY Kinds DEF Holders
<1>1. Lists(u) BY <1>0, ListsSame
<1>2. Opened(u)
  <2>1. ASSUME NEW p \in Players, u.container[p] # NULL
        PROVE  u.env[p] # NULL /\ u.container[p] \in u.applied /\ u.env[u.container[p]] # NULL
    <3>1. w.env[p] # NULL /\ w.container[p] \in w.applied /\ w.env[w.container[p]] # NULL
      BY <1>0, <2>1 DEF Opened
    <3>2. p \notin T /\ w.container[p] \notin T BY Kinds DEF Things
    <3>3. w.container[p] \in Things BY <3>1, <1>0 DEF Raw, Things
    <3> QED BY <3>1, <3>2, <3>3
  <2>2. ASSUME NEW c \in u.applied
        PROVE  u.env[c] \notin Containers /\ (u.env[c] \in Squares => u.newest[c] # NULL)
    <3>1. c \in Things /\ c \in w.applied /\ c \notin T BY <1>0 DEF Raw, Things
    <3>2. u.env[c] = w.env[c] BY <3>1
    <3> QED BY <3>1, <3>2, <1>0 DEF Opened
  <2> QED BY <2>1, <2>2 DEF Opened
<1>3. Places(u)
  <2>1. \A p \in Players : u.env[p] \notin Holders
    <3>1. \A p \in Players : p \notin T BY Kinds DEF Things
    <3> QED BY <3>1, <1>0 DEF Places
  <2>2. ASSUME NEW S \in SUBSET Containers, S # {} PROVE \E c \in S : u.env[c] \notin S
    <3>1. PICK c \in S : w.env[c] \notin S BY <1>0, <2>2 DEF Places
    <3>2. c \in T => u.env[c] \notin S BY <1>n
    <3>3. c \in Things BY DEF Things
    <3> QED BY <3>1, <3>2, <3>3
  <2> QED BY <2>1, <2>2 DEF Places
<1>4. Right(u, u.carrying, u.sum)
  <2>1. \A h \in Holders : In(u, h) = In(w, h) BY <1>n DEF In
  <2>2. \A o \in Piles : w.env[o] \in Holders => u.nrof[o] = w.nrof[o] BY <1>n
  <2> QED BY <1>0, <2>1, <2>2, RightSame
<1> QED BY <1>1, <1>2, <1>3, <1>4 DEF Sound

(* object_insert_map()                                                     *)
OnMapAs(w, x, s, u) ==
    /\ Sound(u) /\ u.applied = w.applied \ {x} /\ u.container = w.container
    /\ \/ u.env = [w.env EXCEPT ![x] = s] /\ u.nrof = w.nrof
       \/ /\ x \in Piles
          /\ \E o \in Mergeable(w, x, s) :
                 /\ u.env = [w.env EXCEPT ![x] = s, ![o] = NULL]
                 /\ u.nrof = [w.nrof EXCEPT ![x] = w.nrof[x] + w.nrof[o], ![o] = 0]

LEMMA InsertMapFacts ==
    ASSUME NEW w, Sound(w), NEW x \in Things, w.env[x] = NULL, NEW s \in Squares,
           NEW u \in InsertMap(w, x, s)
    PROVE  OnMapAs(w, x, s, u)
<1> DEFINE v == [w EXCEPT !.env[x] = s, !.applied = @ \ {x}]
<1>0. w \in Raw /\ Lists(w) /\ Opened(w) /\ Places(w) /\ Counted(w)
  BY DEF Sound
<1>1. /\ v \in Raw /\ v.env = [w.env EXCEPT ![x] = s] /\ v.nrof = w.nrof
      /\ v.applied = w.applied \ {x} /\ v.carrying = w.carrying /\ v.sum = w.sum
      /\ v.container = w.container /\ v.above = w.above /\ v.below = w.below
      /\ v.newest = w.newest
  BY <1>0 DEF Raw
<1>2. \A p \in Players : w.container[p] # x BY <1>0, Kinds DEF Opened, Things
<1>3. CASE u = v
  <2> HIDE DEF v
  <2> DEFINE T == {x}
  <2>1. Counted(u) BY <1>0, <1>1, <1>3 DEF Counted
  <2>2. /\ T \in SUBSET Things
        /\ \A e \in (Things \cup Players) \ T : u.env[e] = w.env[e]
        /\ \A e \in T : /\ w.env[e] \in Squares \cup {NULL} /\ u.env[e] \in Squares \cup {NULL}
                        /\ e \notin u.applied /\ \A p \in Players : w.container[p] # e
        /\ \A c \in w.applied \ T : c \in u.applied
        /\ \A o \in Piles \ T : u.nrof[o] = w.nrof[o]
        /\ u.applied \subseteq w.applied
    BY <1>0, <1>1, <1>2, <1>3 DEF Raw
  <2> HIDE DEF T
  <2>3. Sound(u) BY <1>1, <1>3, <2>1, <2>2, FloorSound
  <2> QED BY <1>1, <1>3, <2>3 DEF OnMapAs
<1>4. CASE x \in Piles /\ Mergeable(w, x, s) # {}
  <2>1. PICK o \in Mergeable(w, x, s) :
            u = [v EXCEPT !.nrof = [@ EXCEPT ![x] = w.nrof[x] + w.nrof[o], ![o] = 0],
                          !.env[o] = NULL]
    BY <1>4 DEF InsertMap
  <2> DEFINE m == [w.nrof EXCEPT ![x] = w.nrof[x] + w.nrof[o], ![o] = 0]
             T == {x, o}
  <2>2. o \in Piles /\ o # x /\ w.env[o] = s BY DEF Mergeable
  <2>3. /\ m \in [Piles -> Nat] /\ \A q \in Piles \ T : m[q] = w.nrof[q]
    <3>1. w.nrof \in [Piles -> Nat] BY <1>0 DEF Raw, Counted
    <3> QED BY <1>4, <2>2, <3>1
  <2> HIDE DEF v
  <2>4. u = [v EXCEPT !.nrof = m, !.env[o] = NULL] BY <1>1, <2>1
  <2> HIDE DEF m
  <2>5. /\ u \in Raw /\ u.nrof = m /\ u.env = [v.env EXCEPT ![o] = NULL]
        /\ u.applied = v.applied /\ u.carrying = v.carrying /\ u.sum = v.sum
        /\ u.container = v.container /\ u.above = v.above /\ u.below = v.below
        /\ u.newest = v.newest
    <3>1. m \in [Piles -> Int] /\ o \in Things \cup Players BY <2>2, <2>3 DEF Things
    <3>2. [v.env EXCEPT ![o] = NULL] \in [Things \cup Players -> Holders \cup Squares \cup {NULL}]
      BY <1>1, <3>1 DEF Raw
    <3> QED BY <1>1, <2>4, <3>1, <3>2 DEF Raw
  <2>6. u.env = [w.env EXCEPT ![x] = s, ![o] = NULL] BY <1>1, <2>5
  <2>7. Counted(u) BY <2>3, <2>5 DEF Counted
  <2>8. T \in SUBSET Things /\ o \notin Containers /\ o \in Things BY <1>4, <2>2, Kinds DEF Things
  <2>9. /\ \A e \in (Things \cup Players) \ T : u.env[e] = w.env[e]
        /\ u.env[x] = s /\ u.env[o] = NULL
    BY <1>0, <2>2, <2>6, <2>8 DEF Raw
  <2>10. o \notin w.applied /\ \A p \in Players : w.container[p] # o
    <3>1. o # NULL BY <2>2, Kinds
    <3> QED BY <1>0, <2>8, <3>1 DEF Raw
  <2>11. \A e \in T : /\ w.env[e] \in Squares \cup {NULL} /\ u.env[e] \in Squares \cup {NULL}
                      /\ e \notin u.applied /\ \A p \in Players : w.container[p] # e
    BY <1>1, <1>2, <2>2, <2>5, <2>9, <2>10
  <2>12. /\ \A c \in w.applied \ T : c \in u.applied
         /\ \A q \in Piles \ T : u.nrof[q] = w.nrof[q]
         /\ u.applied \subseteq w.applied
    BY <1>1, <2>3, <2>5
  <2>13. /\ u.carrying = w.carrying /\ u.sum = w.sum /\ u.container = w.container
         /\ u.above = w.above /\ u.below = w.below /\ u.newest = w.newest
    BY <1>1, <2>5
  <2>14. /\ u \in Raw /\ T \in SUBSET Things
         /\ \A e \in (Things \cup Players) \ T : u.env[e] = w.env[e]
    BY <2>5, <2>8, <2>9
  <2> HIDE DEF T
  <2>15. Sound(u) BY <2>7, <2>11, <2>12, <2>13, <2>14, FloorSound
  <2> QED BY <1>1, <1>4, <2>5, <2>6, <2>15 DEF OnMapAs, m
<1>5. u = v \/ (x \in Piles /\ Mergeable(w, x, s) # {}) BY DEF InsertMap
<1> QED BY <1>3, <1>4, <1>5

(* Closing a container, for one of its viewers                             *)
LEMMA CloseSound ==
    ASSUME NEW w, Sound(w), NEW p \in Players
    PROVE  Sound(Close(w, p)) /\ LetGo(Close(w, p), w, p)
<1> DEFINE u == Close(w, p)
<1>0. w \in Raw /\ Lists(w) /\ Opened(w) /\ Places(w) /\ Counted(w) /\ Right(w, w.carrying, w.sum)
  BY DEF Sound
<1>1. LetGo(u, w, p) BY <1>0, CloseFacts DEF Opened
<1> HIDE DEF u
<1>2. /\ u \in Raw /\ Lists(u) /\ u.env = w.env /\ u.nrof = w.nrof
      /\ u.carrying = w.carrying /\ u.sum = w.sum
      /\ \A q \in Players : u.container[q] \in {w.container[q], NULL}
      /\ u.applied \subseteq w.applied
      /\ \A q \in Players : u.container[q] \in w.applied => u.container[q] \in u.applied
      /\ \A c \in u.applied : u.newest[c] = NULL => w.newest[c] = NULL
  BY <1>1 DEF LetGo, SameThings
<1>3. Opened(u) BY <1>0, <1>2 DEF Opened
<1>4. Places(u) /\ Counted(u) BY <1>0, <1>2 DEF Places, Counted
<1>5. Right(u, u.carrying, u.sum)
  <2>1. \A h : In(u, h) = In(w, h) BY <1>2 DEF In
  <2> QED BY <1>0, <1>2, <2>1, RightSame
<1>6. Sound(u) BY <1>2, <1>3, <1>4, <1>5 DEF Sound
<1> QED BY <1>1, <1>6 DEF u

(* A player who is put on another square or who leaves the game            *)
Moved(w, p, s) == [w EXCEPT !.env[p] = s]

LEMMA SoundMoved ==
    ASSUME NEW w, Sound(w), NEW p \in Players, NEW s \in Squares \cup {NULL},
           s = NULL => w.container[p] = NULL,
           NEW u, u = Moved(w, p, s)
    PROVE  /\ Sound(u) /\ u.env = [w.env EXCEPT ![p] = s] /\ u.nrof = w.nrof
           /\ u.applied = w.applied /\ u.container = w.container
<1>0. w \in Raw /\ Lists(w) /\ Opened(w) /\ Places(w) /\ Counted(w) /\ Right(w, w.carrying, w.sum)
  BY DEF Sound
<1>1. /\ u \in Raw /\ u.env = [w.env EXCEPT ![p] = s] /\ u.nrof = w.nrof
      /\ u.applied = w.applied /\ u.container = w.container /\ u.above = w.above
      /\ u.below = w.below /\ u.newest = w.newest
      /\ u.carrying = w.carrying /\ u.sum = w.sum
  BY <1>0 DEF Raw, Moved
<1>2. \A e \in Things \cup Players : u.env[e] = IF e = p THEN s ELSE w.env[e]
  BY <1>0, <1>1 DEF Raw
<1>3. \A e \in Things : u.env[e] = w.env[e] BY <1>2, Kinds DEF Things
<1>4. Lists(u) /\ Counted(u) BY <1>0, <1>1, ListsSame DEF Counted
<1>5. Opened(u)
  <2>1. ASSUME NEW q \in Players, u.container[q] # NULL
        PROVE  u.env[q] # NULL /\ u.container[q] \in u.applied /\ u.env[u.container[q]] # NULL
    <3>1. w.env[q] # NULL /\ w.container[q] \in w.applied /\ w.env[w.container[q]] # NULL
      BY <1>0, <1>1, <2>1 DEF Opened
    <3>2. w.container[q] \in Things BY <3>1, <1>0 DEF Raw, Things
    <3> QED BY <1>1, <1>2, <1>3, <2>1, <3>1, <3>2
  <2>2. ASSUME NEW c \in u.applied
        PROVE  u.env[c] \notin Containers /\ (u.env[c] \in Squares => u.newest[c] # NULL)
    <3>1. c \in Things /\ c \in w.applied BY <1>0, <1>1 DEF Raw, Things
    <3> QED BY <1>0, <1>1, <1>3, <3>1 DEF Opened
  <2> QED BY <2>1, <2>2 DEF Opened
<1>6. Places(u)
  <2>1. s \notin Holders BY Kinds DEF Holders
  <2>2. \A q \in Players : u.env[q] \notin Holders BY <2>1, <1>0, <1>2 DEF Places
  <2>3. ASSUME NEW S \in SUBSET Containers, S # {} PROVE \E c \in S : u.env[c] \notin S
    <3>1. PICK c \in S : w.env[c] \notin S BY <1>0, <2>3 DEF Places
    <3> QED BY <3>1, <1>3 DEF Things
  <2> QED BY <2>2, <2>3 DEF Places
<1>7. Right(u, u.carrying, u.sum)
  <2>1. \A h : In(u, h) = In(w, h) BY <1>3 DEF In
  <2> QED BY <1>0, <1>1, <2>1, RightSame
<1> QED BY <1>1, <1>4, <1>5, <1>6, <1>7 DEF Sound

LEMMA EnterFacts ==
    ASSUME NEW w, Sound(w), NEW p \in Players, NEW s \in Squares
    PROVE  LET u == Enter(w, p, s)
           IN  Sound(u) /\ u.env = [w.env EXCEPT ![p] = s] /\ u.nrof = w.nrof
<1> DEFINE c == w.container[p]
           v == IF c # NULL /\ w.env[c] # p THEN Close(w, p) ELSE w
           u == Enter(w, p, s)
<1>1. Sound(v) /\ v.env = w.env /\ v.nrof = w.nrof
  <2>1. Sound(Close(w, p)) /\ LetGo(Close(w, p), w, p) BY CloseSound
  <2> QED BY <2>1 DEF LetGo, SameThings
<1>2. u = [[v EXCEPT !.env[p] = NULL] EXCEPT !.env[p] = s] BY DEF Enter, RemovePlayer
<1> HIDE DEF u, v
<1>3. u = Moved(v, p, s)
  <2>1. v \in Raw BY <1>1 DEF Sound
  <2>2. [[v.env EXCEPT ![p] = NULL] EXCEPT ![p] = s] = [v.env EXCEPT ![p] = s]
    BY <2>1 DEF Raw
  <2> QED BY <1>2, <2>1, <2>2 DEF Raw, Moved
<1>4. s # NULL BY Kinds
<1>5. Sound(u) /\ u.env = [v.env EXCEPT ![p] = s] /\ u.nrof = v.nrof
  BY <1>1, <1>3, <1>4, SoundMoved
<1> QED BY <1>1, <1>5 DEF u

(* A new viewer is the first of the list.                                  *)
FirstIn(w, p, c, u) ==
    /\ \A q \in Players : /\ u.container[q] = IF q = p THEN c ELSE w.container[q]
                          /\ u.above[q] = IF q = p THEN w.newest[c] ELSE w.above[q]
                          /\ u.below[q] = IF q = p THEN NULL
                                          ELSE IF q = w.newest[c] THEN p ELSE w.below[q]
    /\ \A d \in Containers : u.newest[d] = IF d = c THEN p ELSE w.newest[d]

LEMMA LinkOne ==
    ASSUME NEW w \in Raw, Lists(w), NEW p \in Players, w.container[p] = NULL,
           NEW c \in Containers, NEW u \in Raw, FirstIn(w, p, c, u)
    PROVE  Lists(u)
<1> DEFINE m == w.newest[c]
<1>t. /\ w.container \in [Players -> Containers \cup {NULL}]
      /\ w.above \in [Players -> Players \cup {NULL}]
      /\ w.below \in [Players -> Players \cup {NULL}]
      /\ w.newest \in [Containers -> Players \cup {NULL}]
  BY DEF Raw
<1>1. \A q \in Players : /\ u.container[q] = IF q = p THEN c ELSE w.container[q]
                         /\ u.above[q] = IF q = p THEN m ELSE w.above[q]
                         /\ u.below[q] = IF q = p THEN NULL ELSE IF q = m THEN p ELSE w.below[q]
  BY DEF FirstIn
<1>2. \A d \in Containers : u.newest[d] = IF d = c THEN p ELSE w.newest[d]
  BY DEF FirstIn
<1>3. m \in Players \cup {NULL} BY <1>t
<1>4. m # NULL => m # p /\ w.container[m] = c /\ w.below[m] = NULL
  <2>1. m # NULL => w.container[m] = c BY DEF Lists, Heads
  <2>2. m # NULL => m # p BY <2>1, Kinds
  <2>3. m # NULL => w.below[m] = NULL BY <1>3, <2>1, Kinds DEF Lists, Heads
  <2> QED BY <2>1, <2>2, <2>3
<1>5. w.above[p] = NULL /\ w.below[p] = NULL BY DEF Lists, OneList
<1>6. \A x, y \in Players : w.above[x] = y <=> w.below[y] = x BY DEF Lists, Linked
<1>7. Linked(u)
  <2> SUFFICES ASSUME NEW x \in Players, NEW y \in Players PROVE u.above[x] = y <=> u.below[y] = x
    BY DEF Linked
  <2> HIDE DEF m
  <2>1. CASE x = p BY <2>1, <1>1, <1>3, <1>4, <1>5, <1>6, Kinds
  <2>2. CASE x # p /\ y = p BY <2>2, <1>1, <1>5, <1>6, Kinds
  <2>3. CASE x # p /\ y # p /\ y = m BY <2>3, <1>1, <1>4, <1>6, Kinds
  <2>4. CASE x # p /\ y # p /\ y # m BY <2>4, <1>1, <1>6
  <2> QED BY <2>1, <2>2, <2>3, <2>4
<1>8. OneList(u)
  <2> SUFFICES ASSUME NEW q \in Players
               PROVE  /\ u.container[q] = NULL => u.above[q] = NULL /\ u.below[q] = NULL
                      /\ u.above[q] # NULL => u.container[u.above[q]] = u.container[q]
    BY DEF OneList
  <2>1. /\ w.container[q] = NULL => w.above[q] = NULL /\ w.below[q] = NULL
        /\ w.above[q] # NULL => w.container[w.above[q]] = w.container[q] /\ w.above[q] \in Players
    BY <1>t DEF Lists, OneList
  <2>2. w.above[q] # p
    <3>1. w.above[q] = p => w.below[p] = q BY <1>6
    <3> QED BY <3>1, <1>5, Kinds
  <2>3. c # NULL BY Kinds
  <2>4. q = m => w.container[q] = c BY <1>4, Kinds
  <2> HIDE DEF m
  <2>5. CASE q = p BY <2>5, <1>1, <1>3, <1>4, <2>3
  <2>6. CASE q # p BY <2>6, <1>1, <2>1, <2>2, <2>3, <2>4
  <2> QED BY <2>5, <2>6
<1>9. Heads(u)
  <2>1. ASSUME NEW q \in Players, u.container[q] # NULL
        PROVE  u.below[q] = NULL <=> u.newest[u.container[q]] = q
    <3>1. CASE q = p BY <3>1, <1>1, <1>2
    <3>2. CASE q # p
      <4>1. u.container[q] = w.container[q] /\ w.container[q] \in Containers
        BY <1>1, <1>t, <2>1, <3>2
      <4>2. w.below[q] = NULL <=> w.newest[w.container[q]] = q
        BY <4>1, <2>1 DEF Lists, Heads
      <4>3. u.newest[w.container[q]] = IF w.container[q] = c THEN p ELSE w.newest[w.container[q]]
        BY <4>1, <1>2
      <4>4. q = m => w.container[q] = c BY <1>4, Kinds
      <4>5. u.below[q] = IF q = m THEN p ELSE w.below[q] BY <1>1, <3>2
      <4>6. w.container[q] = c => (w.newest[w.container[q]] = q <=> q = m) OBVIOUS
      <4> HIDE DEF m
      <4> QED BY <3>2, <4>1, <4>2, <4>3, <4>4, <4>5, <4>6, Kinds
    <3> QED BY <3>1, <3>2
  <2>2. ASSUME NEW d \in Containers, u.newest[d] # NULL PROVE u.container[u.newest[d]] = d
    <3>1. CASE d = c BY <3>1, <1>1, <1>2
    <3>2. CASE d # c
      <4>1. u.newest[d] = w.newest[d] /\ w.newest[d] \in Players BY <1>2, <1>t, <2>2, <3>2
      <4>2. w.container[w.newest[d]] = d BY <2>2, <4>1 DEF Lists, Heads
      <4>3. w.newest[d] # p BY <4>2, Kinds
      <4> QED BY <1>1, <4>1, <4>2, <4>3
    <3> QED BY <3>1, <3>2
  <2> QED BY <2>1, <2>2 DEF Heads
<1>10. NoRing(u)
  <2> SUFFICES ASSUME NEW V \in SUBSET Players, V # {} PROVE \E q \in V : u.below[q] \notin V
    BY DEF NoRing
  <2>1. CASE p \in V BY <2>1, <1>1, Kinds
  <2>2. CASE p \notin V
    <3>1. PICK q \in V : w.below[q] \notin V BY DEF Lists, NoRing
    <3> QED BY <2>2, <3>1, <1>1
  <2> QED BY <2>1, <2>2
<1> QED BY <1>7, <1>8, <1>9, <1>10 DEF Lists

(* container_open(), in the order in which it sets the fields              *)
Joining(w, p, c) ==
    [w EXCEPT !.container[p] = c, !.above[p] = w.newest[c],
              !.below = [q \in Players |-> IF q = w.newest[c] THEN p ELSE @[q]],
              !.applied = @ \cup {c}]
Headed(u, p, c) == [u EXCEPT !.below[p] = NULL, !.newest[c] = p]

LEMMA OpenFacts ==
    ASSUME NEW w, Sound(w), NEW p \in Players, w.container[p] = NULL, w.env[p] # NULL,
           NEW c \in Containers, w.env[c] \in Squares \cup {p}, NEW u \in Open(w, p, c)
    PROVE  /\ Sound(u) /\ u.nrof = w.nrof
           /\ u.env = w.env \/ u.env = [w.env EXCEPT ![p] = Home]
<1> DEFINE v == Joining(w, p, c)
           z == Headed(v, p, c)
<1>0. w \in Raw /\ Lists(w) /\ Opened(w) /\ Places(w) /\ Counted(w) /\ Right(w, w.carrying, w.sum)
  BY DEF Sound
<1>1. /\ v \in Raw /\ v.env = w.env /\ v.nrof = w.nrof /\ v.carrying = w.carrying
      /\ v.sum = w.sum /\ v.applied = w.applied \cup {c} /\ v.newest = w.newest
      /\ v.container = [w.container EXCEPT ![p] = c]
      /\ v.above = [w.above EXCEPT ![p] = w.newest[c]]
      /\ v.below = [q \in Players |-> IF q = w.newest[c] THEN p ELSE w.below[q]]
  <2>1. w.newest[c] \in Players \cup {NULL} BY <1>0 DEF Raw
  <2>2. [q \in Players |-> IF q = w.newest[c] THEN p ELSE w.below[q]] \in [Players -> Players \cup {NULL}]
    BY <1>0 DEF Raw
  <2> QED BY <1>0, <2>1, <2>2 DEF Raw, Joining
<1> HIDE DEF v
<1>2. /\ z \in Raw /\ z.env = w.env /\ z.nrof = w.nrof /\ z.carrying = w.carrying
      /\ z.sum = w.sum /\ z.applied = w.applied \cup {c}
      /\ z.container = v.container /\ z.above = v.above
      /\ z.below = [v.below EXCEPT ![p] = NULL] /\ z.newest = [w.newest EXCEPT ![c] = p]
  BY <1>1 DEF Raw, Headed
<1> HIDE DEF z
<1>3. Lists(z)
  <2>1. \A q \in Players : /\ z.container[q] = IF q = p THEN c ELSE w.container[q]
                           /\ z.above[q] = IF q = p THEN w.newest[c] ELSE w.above[q]
                           /\ z.below[q] = IF q = p THEN NULL
                                           ELSE IF q = w.newest[c] THEN p ELSE w.below[q]
    BY <1>0, <1>1, <1>2 DEF Raw
  <2>2. \A d \in Containers : z.newest[d] = IF d = c THEN p ELSE w.newest[d]
    BY <1>0, <1>2 DEF Raw
  <2>3. FirstIn(w, p, c, z) BY <2>1, <2>2 DEF FirstIn
  <2> QED BY <1>0, <1>2, <2>3, LinkOne
<1>4. Opened(z)
  <2>1. ASSUME NEW q \in Players, z.container[q] # NULL
        PROVE  z.env[q] # NULL /\ z.container[q] \in z.applied /\ z.env[z.container[q]] # NULL
    <3>1. CASE q = p
      <4>1. z.container[q] = c BY <3>1, <1>0, <1>1, <1>2 DEF Raw
      <4> QED BY <3>1, <4>1, <1>2, Kinds
    <3>2. CASE q # p
      <4>1. z.container[q] = w.container[q] BY <3>2, <1>0, <1>1, <1>2 DEF Raw
      <4> QED BY <4>1, <2>1, <1>0, <1>2 DEF Opened
    <3> QED BY <3>1, <3>2
  <2>2. ASSUME NEW d \in z.applied
        PROVE  z.env[d] \notin Containers /\ (z.env[d] \in Squares => z.newest[d] # NULL)
    <3>1. CASE d = c BY <3>1, <1>0, <1>2, Kinds DEF Raw
    <3>2. CASE d # c
      <4>1. d \in w.applied /\ z.newest[d] = w.newest[d] BY <3>2, <1>0, <1>2 DEF Raw
      <4> QED BY <4>1, <1>0, <1>2 DEF Opened
    <3> QED BY <3>1, <3>2
  <2> QED BY <2>1, <2>2 DEF Opened
<1>5. Places(z) /\ Counted(z) BY <1>0, <1>2 DEF Places, Counted
<1>6. Right(z, z.carrying, z.sum)
  <2>1. \A h : In(z, h) = In(w, h) BY <1>2 DEF In
  <2> QED BY <1>0, <1>2, <2>1, RightSame
<1>7. Sound(z) BY <1>2, <1>3, <1>4, <1>5, <1>6 DEF Sound
<1>8. CASE u = z BY <1>2, <1>7, <1>8
<1>9. CASE w.newest[c] = NULL /\ u = Headed(Enter(v, p, Home), p, c)
  <2>1. Close(v, p) = v
    <3>1. v.container[p] = c /\ v.above[p] = NULL /\ v.below[p] = w.below[p]
      BY <1>0, <1>1, <1>9, Kinds DEF Raw
    <3>2. w.below[p] = NULL BY <1>0 DEF Lists, OneList
    <3>3. CloseAll(v, c) = v BY <1>1, <1>9 DEF CloseAll
    <3>4. v.env[c] # NULL /\ c # NULL BY <1>1, Kinds
    <3> QED BY <3>1, <3>2, <3>3, <3>4 DEF Close
  <2>2. Enter(v, p, Home) = [[v EXCEPT !.env[p] = NULL] EXCEPT !.env[p] = Home]
    BY <2>1 DEF Enter, RemovePlayer
  <2>3. Enter(v, p, Home) = Moved(v, p, Home)
    <3>1. [[v.env EXCEPT ![p] = NULL] EXCEPT ![p] = Home] = [v.env EXCEPT ![p] = Home]
      BY <1>1 DEF Raw
    <3> QED BY <1>1, <2>2, <3>1 DEF Raw, Moved
  <2>4. u = Moved(z, p, Home)
    <3>1. u = Headed(Moved(v, p, Home), p, c) BY <1>9, <2>3
    <3> QED BY <1>1, <3>1 DEF Headed, Moved, Raw, z
  <2>5. Home \in Squares /\ Home # NULL BY ConstantsAssumption, Kinds
  <2>6. Sound(u) /\ u.env = [z.env EXCEPT ![p] = Home] /\ u.nrof = z.nrof
    BY <1>7, <2>4, <2>5, SoundMoved
  <2> QED BY <1>2, <2>6
<1>10. u = z \/ (w.newest[c] = NULL /\ u = Headed(Enter(v, p, Home), p, c))
  <2>1. \E e \in {v, Enter(v, p, Home)} : /\ u = Headed(e, p, c)
                                          /\ e # v => w.newest[c] = NULL
    BY DEF Open, Headed, Joining, v
  <2> QED BY <2>1 DEF z
<1> QED BY <1>8, <1>9, <1>10

---------------------------------------------------------------------------
(* Weights from the inside out                                             *)

(* Among some containers there is one with none of them inside.            *)
LEMMA Innermost ==
    ASSUME NEW w, Places(w), NEW S \in SUBSET Containers, S # {}
    PROVE  \E c \in S : \A d \in S : w.env[d] # c
<1> DEFINE T == {U \in SUBSET S : U # {} /\ \A d \in S : w.env[d] \in U => d \in U}
<1>1. PICK U \in T : \A V \in T : V \subseteq U => V = U
  <2>1. T \subseteq SUBSET S /\ S \in T OBVIOUS
  <2>2. IsFiniteSet(S) BY ThingsFinite, FS_Subset
  <2> HIDE DEF T
  <2> QED BY <2>1, <2>2, SmallestSet
<1>2. U \in SUBSET Containers /\ U # {} /\ \A d \in S : w.env[d] \in U => d \in U
  BY <1>1
<1>3. PICK c \in U : w.env[c] \notin U BY <1>2 DEF Places
<1> DEFINE V == U \ {c}
<1>4. \A d \in S : w.env[d] \in V => d \in V BY <1>2, <1>3
<1>5. V = {}
  <2> SUFFICES ASSUME V # {} PROVE FALSE OBVIOUS
  <2>1. V \in T BY <1>1, <1>4
  <2>2. V \subseteq U /\ V # U OBVIOUS
  <2> HIDE DEF V, T
  <2> QED BY <1>1, <2>1, <2>2
<1>6. ASSUME NEW d \in S, w.env[d] = c PROVE FALSE
  <2>1. d \in U BY <1>2, <1>6
  <2>2. d = c BY <2>1, <1>5
  <2> QED BY <2>2, <1>3, <1>6
<1>7. c \in S BY <1>1
<1> QED BY <1>6, <1>7

(* Only one load is right for what is where, so object_weight_sum() finds  *)
(* what the holders have.                                                  *)
IsLoad(f, w) == f = [h \in Holders |-> Reduced(h, Filled(w, f, h))]

LEMMA FilledBy ==
    ASSUME NEW w, NEW f, NEW k, NEW h, \A d \in In(w, h) \cap Containers : f[d] = k[d]
    PROVE  Filled(w, f, h) = Filled(w, k, h)
<1> DEFINE a == [x \in In(w, h) |-> IF x \in Containers THEN Own(x) + f[x]
                                                        ELSE w.nrof[x] * Own(x)]
           b == [x \in In(w, h) |-> IF x \in Containers THEN Own(x) + k[x]
                                                        ELSE w.nrof[x] * Own(x)]
<1>1. a = b OBVIOUS
<1>2. Filled(w, f, h) = SumFunction(a) /\ Filled(w, k, h) = SumFunction(b) BY DEF Filled
<1> HIDE DEF a, b
<1> QED BY <1>1, <1>2

LEMMA LoadIsCarrying ==
    ASSUME NEW w, Sound(w), NEW f, IsLoad(f, w)
    PROVE  \A h \in Holders : f[h] = w.carrying[h] /\ Filled(w, f, h) = Contents(w, h)
<1>0. w \in Raw /\ Places(w) /\ Right(w, w.carrying, w.sum) BY DEF Sound
<1>1. \A h \in Holders : /\ f[h] = Reduced(h, Filled(w, f, h))
                         /\ w.carrying[h] = Reduced(h, Filled(w, w.carrying, h))
  <2>1. \A h \in Holders : f[h] = Reduced(h, Filled(w, f, h)) BY DEF IsLoad
  <2> QED BY <2>1, <1>0 DEF Right
<1> DEFINE Off == {c \in Containers : f[c] # w.carrying[c]}
<1>2. Off = {}
  <2> SUFFICES ASSUME Off # {} PROVE FALSE OBVIOUS
  <2>1. PICK c \in Off : \A d \in Off : w.env[d] # c
    <3>1. Off \in SUBSET Containers OBVIOUS
    <3> HIDE DEF Off
    <3> QED BY <1>0, <3>1, Innermost
  <2>2. \A d \in In(w, c) \cap Containers : f[d] = w.carrying[d] BY <2>1 DEF In
  <2>3. Filled(w, f, c) = Filled(w, w.carrying, c) BY <2>2, FilledBy
  <2>4. c \in Holders BY <2>1 DEF Holders
  <2>5. f[c] = w.carrying[c] BY <2>3, <2>4, <1>1
  <2> QED BY <2>1, <2>5
<1>3. ASSUME NEW h \in Holders PROVE Filled(w, f, h) = Filled(w, w.carrying, h)
  <2>1. \A d \in In(w, h) \cap Containers : f[d] = w.carrying[d] BY <1>2
  <2> QED BY <2>1, FilledBy
<1> QED BY <1>1, <1>3 DEF Contents

LEMMA WeightSumFacts ==
    ASSUME NEW w, Sound(w), NEW p
    PROVE  WeightSum(w, p) = w
<1> DEFINE load == CHOOSE f : IsLoad(f, w)
           loaded == {h \in Holders : h = p \/ \E y \in Around(w, h) : w.env[y] = p}
           k == [h \in Holders |-> IF h \in loaded THEN load[h] ELSE w.carrying[h]]
           s == [c \in Magical |-> IF c \in loaded THEN Filled(w, load, c) ELSE w.sum[c]]
<1>0. w \in Raw /\ Places(w) /\ Right(w, w.carrying, w.sum) BY DEF Sound
<1>1. IsLoad(w.carrying, w) BY <1>0 DEF Right, IsLoad
<1>2. IsLoad(load, w) BY <1>1
<1>3. WeightSum(w, p) = [w EXCEPT !.carrying = k, !.sum = s] BY DEF WeightSum, IsLoad
<1> HIDE DEF load
<1>4. \A h \in Holders : load[h] = w.carrying[h] /\ Filled(w, load, h) = Contents(w, h)
  BY <1>2, LoadIsCarrying
<1>5. k = w.carrying
  <2>1. w.carrying = [h \in Holders |-> w.carrying[h]] BY <1>0 DEF Raw
  <2>2. \A h \in Holders : (IF h \in loaded THEN load[h] ELSE w.carrying[h]) = w.carrying[h]
    BY <1>4
  <2> HIDE DEF loaded
  <2> QED BY <2>1, <2>2
<1>6. s = w.sum
  <2>1. w.sum = [c \in Magical |-> w.sum[c]] BY <1>0 DEF Raw
  <2>2. \A c \in Magical : c \in Holders BY ConstantsAssumption DEF Holders
  <2>3. \A c \in Magical : (IF c \in loaded THEN Filled(w, load, c) ELSE w.sum[c]) = w.sum[c]
    BY <1>0, <1>4, <2>2 DEF Right, Contents
  <2> HIDE DEF loaded
  <2> QED BY <2>1, <2>3
<1> HIDE DEF k, s
<1> QED BY <1>0, <1>3, <1>5, <1>6 DEF Raw

---------------------------------------------------------------------------
(* Destroying a container with what is in it                               *)

(* What is inside x: x, what is directly in what is inside, no more.       *)
LEMMA InsideFacts ==
    ASSUME NEW w, NEW x \in Things
    PROVE  /\ x \in Inside(w, x)
           /\ \A y \in Things : w.env[y] \in Inside(w, x) => y \in Inside(w, x)
           /\ \A y \in Inside(w, x) \ {x} : w.env[y] \in Inside(w, x)
<1> DEFINE next == [y \in Things |-> w.env[y]]
           R(y) == Reached(next, y)
<1>0. DOMAIN next = Things /\ \A y \in Things : next[y] = w.env[y] OBVIOUS
<1> HIDE DEF next
<1>1. Inside(w, x) = {y \in Things : x \in R(y)} BY DEF Inside, Around, next
<1>2. ASSUME NEW y
      PROVE  /\ R(y) \subseteq Things /\ (y \in Things => y \in R(y))
             /\ \A z \in R(y) : w.env[z] \in Things => w.env[z] \in R(y)
             /\ \A S \in SUBSET Things :
                    /\ y \in Things => y \in S
                    /\ \A z \in S : w.env[z] \in Things => w.env[z] \in S
                    => R(y) \subseteq S
  BY <1>0, ReachedFacts
<1> HIDE DEF R
<1>3. x \in Inside(w, x) BY <1>1, <1>2
<1>4. ASSUME NEW y \in Things, w.env[y] \in Inside(w, x) PROVE y \in Inside(w, x)
  <2> DEFINE e == w.env[y]
  <2>1. e \in Things /\ x \in R(e) BY <1>1, <1>4
  <2>2. e \in R(y) BY <1>2, <2>1
  <2>3. R(e) \subseteq R(y) BY <1>2, <2>2
  <2> QED BY <1>1, <2>1, <2>3
<1>5. ASSUME NEW y \in Inside(w, x) \ {x} PROVE w.env[y] \in Inside(w, x)
  <2> DEFINE e == w.env[y]
             S == {y} \cup (IF e \in Things THEN R(e) ELSE {})
  <2>1. y \in Things /\ x \in R(y) BY <1>1
  <2>2. S \in SUBSET Things BY <2>1, <1>2
  <2>3. \A z \in S : w.env[z] \in Things => w.env[z] \in S
    <3> SUFFICES ASSUME NEW z \in S, w.env[z] \in Things PROVE w.env[z] \in S OBVIOUS
    <3>1. CASE z = y BY <3>1, <1>2
    <3>2. CASE z # y BY <3>2, <1>2
    <3> QED BY <3>1, <3>2
  <2>4. y \in S OBVIOUS
  <2>5. R(y) \subseteq S
    <3> HIDE DEF S
    <3> QED BY <1>2, <2>2, <2>3, <2>4
  <2>6. e \in Things /\ x \in R(e) BY <2>1, <2>5
  <2> QED BY <1>1, <2>6
<1> QED BY <1>3, <1>4, <1>5

(* Among what is inside a container, once that is taken out, nobody looks  *)
(* into anything.                                                          *)
LEMMA NobodyInside ==
    ASSUME NEW w, Sound(w), NEW c \in Containers, NEW v, Sound(v),
           v.env = [w.env EXCEPT ![c] = NULL], \A p \in Players : v.container[p] # c,
           NEW g \in Inside(w, c) \cap Containers
    PROVE  /\ \A p \in Players : v.container[p] # g
           /\ Listed(v, g) = {} /\ v.newest[g] = NULL
<1>0. w \in Raw /\ v \in Raw /\ Lists(v) /\ Opened(v) BY DEF Sound
<1>1. \A p \in Players : v.container[p] # g
  <2>1. CASE g # c
    <3>1. w.env[g] \in Inside(w, c) BY <2>1, InsideFacts DEF Things
    <3>2. w.env[g] \in Things /\ w.env[g] \in Holders \cup Squares \cup {NULL}
      BY <1>0, <3>1 DEF Inside, Raw, Things
    <3>3. w.env[g] \in Containers BY <3>2, Kinds DEF Things, Holders
    <3>4. v.env[g] = w.env[g] BY <1>0, <2>1 DEF Raw, Things
    <3>5. g \notin v.applied BY <1>0, <3>3, <3>4 DEF Opened
    <3>6. g # NULL BY Kinds
    <3> QED BY <1>0, <3>5, <3>6 DEF Opened
  <2> QED BY <2>1
<1>2. Listed(v, g) = {}
  <2>1. Listed(v, g) = {p \in Players : v.container[p] = g} BY <1>0, ListedIsViewers
  <2> QED BY <1>1, <2>1
<1>3. v.newest[g] = NULL
  <2>1. v.newest[g] # NULL => v.newest[g] \in Players /\ v.container[v.newest[g]] = g
    BY <1>0 DEF Lists, Heads, Raw
  <2> QED BY <1>1, <2>1
<1> QED BY <1>1, <1>2, <1>3

(* u is w with all of what is inside c gone.                               *)
GoneFrom(w, c, u) ==
    /\ u.env = [x \in Things \cup Players |-> IF x \in Inside(w, c) THEN NULL ELSE w.env[x]]
    /\ u.nrof = [o \in Piles |-> IF o \in Inside(w, c) THEN 0 ELSE w.nrof[o]]

LEMMA DestroyedFacts ==
    ASSUME NEW w, Sound(w), NEW c \in Containers
    PROVE  Sound(Destroyed(w, c)) /\ GoneFrom(w, c, Destroyed(w, c))
<1> DEFINE v == Remove(w, c)
           gone == Inside(w, c)
           left(g) == Stored(v, g) - Contents(v, g)
           env == [x \in Things \cup Players |-> IF x \in gone THEN NULL ELSE v.env[x]]
           nrof == [o \in Piles |-> IF o \in gone THEN 0 ELSE v.nrof[o]]
           k == [h \in Holders |-> IF h \in gone THEN Reduced(h, left(h)) ELSE v.carrying[h]]
           s == [g \in Magical |-> IF g \in gone THEN left(g) ELSE v.sum[g]]
           viewers == UNION {Listed(v, g) : g \in gone \cap Containers}
           f == Forget(v, viewers)
           u == Destroyed(w, c)
<1>c. c \in Things BY DEF Things
<1>0. /\ Sound(v) /\ v.env = [w.env EXCEPT ![c] = NULL] /\ v.nrof = w.nrof
      /\ \A q \in Players : v.container[q] = IF w.container[q] = c THEN NULL ELSE w.container[q]
  <2>1. w \in MaybeUnapplied(w, c) BY DEF MaybeUnapplied
  <2> QED BY <1>c, <2>1, RemoveFacts
<1> HIDE DEF v
<1>1. \A p \in Players : v.container[p] # c BY <1>0, Kinds
<1>2. /\ w \in Raw /\ v \in Raw /\ Lists(v) /\ Opened(v) /\ Places(v) /\ Counted(v)
      /\ Right(v, v.carrying, v.sum)
  BY <1>0 DEF Sound
<1>3. /\ c \in gone /\ gone \subseteq Things
      /\ \A y \in Things : w.env[y] \in gone => y \in gone
      /\ \A y \in gone \ {c} : w.env[y] \in gone
  BY <1>c, InsideFacts DEF Inside
<1>4. \A g \in gone \cap Containers : /\ \A p \in Players : v.container[p] # g
                                      /\ Listed(v, g) = {} /\ v.newest[g] = NULL
  BY <1>0, <1>1, NobodyInside
<1>5. u = [f EXCEPT !.env = [x \in Things \cup Players |-> IF x \in gone THEN NULL ELSE @[x]],
                    !.nrof = [o \in Piles |-> IF o \in gone THEN 0 ELSE @[o]],
                    !.carrying = [h \in Holders |-> IF h \in gone THEN Reduced(h, left(h)) ELSE @[h]],
                    !.sum = [g \in Magical |-> IF g \in gone THEN left(g) ELSE @[g]],
                    !.applied = {g \in @ : g \in gone => v.newest[g] = NULL},
                    !.newest = [g \in Containers |-> IF g \in gone THEN NULL ELSE @[g]]]
  BY DEF Destroyed, v
<1>6. f = v
  <2>1. viewers = {} BY <1>4
  <2>2. v.container = [p \in Players |-> IF p \in viewers THEN NULL ELSE v.container[p]]
    BY <1>2, <2>1 DEF Raw
  <2>3. v.above = [p \in Players |-> IF p \in viewers THEN NULL ELSE v.above[p]]
    BY <1>2, <2>1 DEF Raw
  <2>4. v.below = [p \in Players |-> IF p \in viewers THEN NULL ELSE v.below[p]]
    BY <1>2, <2>1 DEF Raw
  <2> HIDE DEF viewers
  <2> QED BY <1>2, <2>2, <2>3, <2>4 DEF Forget, Raw
<1> HIDE DEF gone, left, f, u
<1>7. \A h \in Holders : left(h) = 0
  <2> SUFFICES ASSUME NEW h \in Holders PROVE left(h) = 0 OBVIOUS
  <2>1. Stored(v, h) = Filled(v, v.carrying, h) /\ Stored(v, h) \in Int BY <1>2, StoredRight
  <2> QED BY <2>1 DEF left, Contents
<1>8. \A h \in Holders : k[h] = IF h \in gone THEN 0 ELSE v.carrying[h]
  <2>1. \A h \in Holders : Reduced(h, 0) = 0 BY DEF Reduced
  <2> QED BY <1>7, <2>1
<1>9. \A g \in Magical : s[g] = (IF g \in gone THEN 0 ELSE v.sum[g]) /\ g \in Holders
  <2>1. \A g \in Magical : g \in Holders BY ConstantsAssumption DEF Holders
  <2> QED BY <1>7, <2>1
<1>10. k \in [Holders -> Nat] /\ s \in [Magical -> Nat]
  <2>1. v.carrying \in [Holders -> Nat] /\ v.sum \in [Magical -> Nat] BY <1>2 DEF Right
  <2> QED BY <1>8, <1>9, <2>1
<1>11. {g \in v.applied : g \in gone => v.newest[g] = NULL} = v.applied BY <1>2, <1>4 DEF Raw
<1>12. [g \in Containers |-> IF g \in gone THEN NULL ELSE v.newest[g]] = v.newest
  BY <1>2, <1>4 DEF Raw
<1>13. /\ env \in [Things \cup Players -> Holders \cup Squares \cup {NULL}]
       /\ nrof \in [Piles -> Nat]
  BY <1>2 DEF Raw, Counted
<1>14. u = [v EXCEPT !.env = env, !.nrof = nrof, !.carrying = k, !.sum = s]
  <2>1. u = [v EXCEPT !.env = env, !.nrof = nrof, !.carrying = k, !.sum = s,
                      !.applied = v.applied, !.newest = v.newest]
    BY <1>5, <1>6, <1>11, <1>12
  <2> HIDE DEF env, nrof, k, s
  <2> QED BY <1>2, <2>1 DEF Raw
<1>15. \A x \in Things \cup Players : env[x] = IF x \in gone THEN NULL ELSE w.env[x]
  BY <1>0, <1>2, <1>3 DEF Raw
<1>16. \A o \in Piles : nrof[o] = IF o \in gone THEN 0 ELSE w.nrof[o] BY <1>0
<1>v. \A x \in Things \cup Players : v.env[x] = IF x = c THEN NULL ELSE w.env[x]
  BY <1>0, <1>2 DEF Raw
<1>17. env = [x \in Things \cup Players |-> IF x \in gone THEN NULL ELSE w.env[x]]
  BY <1>15
<1>18. nrof = [o \in Piles |-> IF o \in gone THEN 0 ELSE w.nrof[o]] BY <1>16
<1>t. nrof \in [Piles -> Int] /\ k \in [Holders -> Int] /\ s \in [Magical -> Int]
  BY <1>10, <1>13
<1> HIDE DEF env, nrof, k, s
<1>19. /\ u \in Raw /\ u.env = env /\ u.nrof = nrof /\ u.carrying = k /\ u.sum = s
       /\ u.applied = v.applied /\ u.container = v.container /\ u.above = v.above
       /\ u.below = v.below /\ u.newest = v.newest
  BY <1>2, <1>13, <1>14, <1>t DEF Raw
<1>20. Lists(u) BY <1>2, <1>19, ListsSame
<1>21. Counted(u) BY <1>13, <1>19 DEF Counted
<1>22. \A x \in Things \cup Players : u.env[x] = IF x \in gone THEN NULL ELSE v.env[x]
  BY <1>3, <1>15, <1>19, <1>v
<1>23. Places(u)
  <2>1. \A p \in Players : u.env[p] \notin Holders
    <3>1. NULL \notin Holders BY Kinds DEF Holders
    <3> QED BY <3>1, <1>2, <1>22 DEF Places
  <2>2. ASSUME NEW S \in SUBSET Containers, S # {} PROVE \E d \in S : u.env[d] \notin S
    <3>1. PICK d \in S : v.env[d] \notin S BY <1>2, <2>2 DEF Places
    <3>2. NULL \notin S BY Kinds
    <3> QED BY <3>1, <3>2, <1>22 DEF Things
  <2> QED BY <2>1, <2>2 DEF Places
<1>24. Opened(u)
  <2>1. ASSUME NEW p \in Players, u.container[p] # NULL
        PROVE  u.env[p] # NULL /\ u.container[p] \in u.applied /\ u.env[u.container[p]] # NULL
    <3>1. /\ v.env[p] # NULL /\ v.container[p] \in v.applied /\ v.env[v.container[p]] # NULL
      BY <1>2, <1>19, <2>1 DEF Opened
    <3>2. v.container[p] \in Containers BY <3>1, <1>2 DEF Raw
    <3>3. p \notin gone /\ v.container[p] \notin gone BY <1>3, <1>4, <3>2, Kinds DEF Things
    <3> QED BY <1>19, <1>22, <3>1, <3>2, <3>3 DEF Things
  <2>2. ASSUME NEW d \in u.applied
        PROVE  u.env[d] \notin Containers /\ (u.env[d] \in Squares => u.newest[d] # NULL)
    <3>1. d \in v.applied /\ d \in Things BY <1>2, <1>19 DEF Raw, Things
    <3> QED BY <3>1, <1>2, <1>19, <1>22, Kinds DEF Opened
  <2> QED BY <2>1, <2>2 DEF Opened
<1>25. Right(u, k, s)
  <2>1. ASSUME NEW h \in Holders
        PROVE  Filled(u, k, h) = IF h \in gone THEN 0 ELSE Filled(v, v.carrying, h)
    <3>0. \A g \in Containers : k[g] \in Int /\ v.carrying[g] \in Int
      BY <1>t, <1>2 DEF Raw, Holders
    <3>h. h # NULL BY Kinds DEF Holders
    <3>1. CASE h \in gone
      <4>1. In(u, h) = {} BY <1>3, <1>22, <1>v, <3>1, <3>h DEF In
      <4>2. Filled(u, k, h) = SumFunctionOnSet(Load(u.nrof, k), {})
        BY <1>19, <3>0, <4>1, FilledIsSum
      <4> QED BY <3>1, <4>2, SumEmpty
    <3>2. CASE h \notin gone
      <4>1. \A x \in Things : v.env[x] = h => x \notin gone BY <1>3, <1>v, <3>2, <3>h
      <4>2. In(u, h) = In(v, h) /\ \A x \in In(v, h) : x \notin gone
        BY <1>22, <4>1, <3>h DEF In
      <4>3. \A x \in In(v, h) \cap Containers : k[x] = v.carrying[x]
        BY <4>2, <1>8 DEF Holders
      <4>4. \A x \in In(v, h) \cap Piles : u.nrof[x] = v.nrof[x]
        BY <4>2, <1>0, <1>16, <1>19
      <4>5. Filled(u, k, h) = Filled(v, v.carrying, h)
        BY <1>2, <1>19, <3>0, <4>2, <4>3, <4>4, FilledSame
      <4> QED BY <3>2, <4>5
    <3> QED BY <3>1, <3>2
  <2>2. ASSUME NEW h \in Holders PROVE k[h] = Reduced(h, Filled(u, k, h))
    <3>1. CASE h \in gone BY <3>1, <1>8, <2>1 DEF Reduced
    <3>2. CASE h \notin gone BY <3>2, <1>2, <1>8, <2>1 DEF Right
    <3> QED BY <3>1, <3>2
  <2>3. ASSUME NEW h \in Magical PROVE s[h] = Filled(u, k, h)
    <3>1. h \in Holders /\ s[h] = IF h \in gone THEN 0 ELSE v.sum[h] BY <1>9
    <3>2. v.sum[h] = Filled(v, v.carrying, h) BY <3>1, <1>2 DEF Right
    <3> QED BY <3>1, <3>2, <2>1
  <2> QED BY <1>10, <2>2, <2>3 DEF Right
<1>26. Sound(u) BY <1>19, <1>20, <1>21, <1>23, <1>24, <1>25 DEF Sound
<1>27. GoneFrom(w, c, u) BY <1>17, <1>18, <1>19 DEF GoneFrom, gone
<1> QED BY <1>26, <1>27 DEF u

---------------------------------------------------------------------------
(* What happens to piles                                                   *)

(* object_decrease(), of less than there is                                *)
Lessened(w, x, n) == [AddWeight(w, w.env[x], -n * Own(x)) EXCEPT !.nrof[x] = @ - n]

LEMMA DecreaseFacts ==
    ASSUME NEW w, Sound(w), NEW x \in Piles, NEW n \in Nat, n <= w.nrof[x],
           NEW u, u = Lessened(w, x, n)
    PROVE  /\ Sound(u) /\ u.env = w.env /\ u.container = w.container
           /\ u.nrof = [w.nrof EXCEPT ![x] = @ - n]
<1> DEFINE m == [w.nrof EXCEPT ![x] = @ - n]
<1>0. w \in Raw /\ w.nrof \in [Piles -> Nat] BY DEF Sound, Raw, Counted
<1>1. /\ m \in [Piles -> Nat] /\ m[x] = w.nrof[x] - n
      /\ \A o \in Piles \ {x} : m[o] = w.nrof[o]
  BY <1>0
<1>2. -n * Own(x) = m[x] - w.nrof[x]
  <2>1. -n * Own(x) = -n BY DEF Own
  <2>2. m[x] - w.nrof[x] = -n BY <1>0, <1>1
  <2> QED BY <2>1, <2>2
<1>3. AddWeight(w, w.env[x], -n * Own(x)).nrof = w.nrof
  BY <1>0 DEF AddWeight, Raw
<1>4. u = [AddWeight(w, w.env[x], -n * Own(x)) EXCEPT !.nrof = m]
  BY <1>3 DEF Lessened
<1> HIDE DEF m
<1>5. u = Recounted(AddWeight(w, w.env[x], m[x] - w.nrof[x]), m)
  BY <1>2, <1>4 DEF Recounted
<1>6. /\ Sound(u) /\ u.env = w.env /\ u.nrof = m /\ u.applied = w.applied
      /\ u.container = w.container
  BY <1>1, <1>5, RecountSound
<1> QED BY <1>6 DEF m

(* The number of a pile that is nowhere does not matter.                   *)
Renumbered(w, x, n) == [w EXCEPT !.nrof[x] = n]

LEMMA NowhereSound ==
    ASSUME NEW w, Sound(w), NEW x \in Piles, w.env[x] = NULL, NEW n \in Nat,
           NEW u, u = Renumbered(w, x, n)
    PROVE  /\ Sound(u) /\ u.env = w.env /\ u.nrof = [w.nrof EXCEPT ![x] = n]
           /\ u.applied = w.applied /\ u.container = w.container
<1> DEFINE T == {x}
<1>0. w \in Raw /\ Opened(w) /\ Counted(w) BY DEF Sound
<1>1. n \in Int OBVIOUS
<1>2. /\ u \in Raw /\ u.nrof = [w.nrof EXCEPT ![x] = n]
      /\ u.carrying = w.carrying /\ u.sum = w.sum /\ u.container = w.container
      /\ u.above = w.above /\ u.below = w.below /\ u.newest = w.newest
      /\ u.applied = w.applied /\ u.env = w.env
  BY <1>0, <1>1 DEF Raw, Renumbered
<1>3. Counted(u) /\ \A o \in Piles \ T : u.nrof[o] = w.nrof[o]
  BY <1>0, <1>2 DEF Counted, Raw
<1>4. /\ T \in SUBSET Things /\ x \notin Containers /\ x # NULL BY Kinds DEF Things
<1>5. \A e \in T : /\ w.env[e] \in Squares \cup {NULL} /\ u.env[e] \in Squares \cup {NULL}
                   /\ e \notin u.applied /\ \A p \in Players : w.container[p] # e
  BY <1>0, <1>2, <1>4 DEF Raw
<1>6. /\ u.applied \subseteq w.applied /\ \A c \in w.applied \ T : c \in u.applied
      /\ \A e \in (Things \cup Players) \ T : u.env[e] = w.env[e]
  BY <1>2
<1> HIDE DEF T
<1>7. Sound(u) BY ZenonT(30), <1>2, <1>3, <1>4, <1>5, <1>6, FloorSound
<1> QED BY <1>2, <1>7

(* A part of a pile that is put beside the rest of it                      *)
Beside(v, x, n, new) ==
    [AddWeight(v, v.env[x], n * Own(x)) EXCEPT !.env[new] = v.env[x]]

LEMMA SplitOffFacts ==
    ASSUME NEW w, Sound(w), NEW x \in Piles, w.env[x] # NULL, NEW n \in Nat, n <= w.nrof[x],
           NEW new \in Piles, w.env[new] = NULL,
           NEW u, u = Beside(Split(w, x, n, new), x, n, new)
    PROVE  /\ Sound(u) /\ u.env = [w.env EXCEPT ![new] = w.env[x]]
           /\ u.nrof = [w.nrof EXCEPT ![x] = @ - n, ![new] = n]
<1> DEFINE v == Split(w, x, n, new)
           h == w.env[x]
<1>0. w \in Raw /\ new # x BY DEF Sound
<1>1. /\ Sound(v) /\ v.env = w.env /\ v.applied = w.applied /\ v.container = w.container
      /\ v.nrof = [w.nrof EXCEPT ![x] = @ - n, ![new] = n]
  BY <1>0, SplitFacts
<1>2. u = Beside(v, x, n, new) OBVIOUS
<1> HIDE DEF v
<1>3. h \in Holders \cup Squares BY <1>0 DEF Raw, Things
<1>4. v.nrof[new] = n BY <1>0, <1>1 DEF Raw
<1>5. n * Own(x) = Whole(v, new)
  <2>1. n * Own(x) = n BY DEF Own
  <2>2. Whole(v, new) = n BY <1>4, PileWeight DEF Whole
  <2> QED BY <2>1, <2>2
<1>6. u = Put(v, new, h) BY <1>1, <1>2, <1>5 DEF Put, Beside
<1>7. new \in Things /\ new \notin Containers /\ new \notin v.applied
  <2>1. v.applied \subseteq Containers BY <1>1 DEF Sound, Raw
  <2> QED BY <2>1, Kinds DEF Things
<1> HIDE DEF h
<1>8. Sound(u) /\ u.env = [v.env EXCEPT ![new] = h] /\ u.nrof = v.nrof
  BY <1>1, <1>3, <1>6, <1>7, PutSound
<1> QED BY <1>1, <1>8 DEF h

(* A pile that is added to another in the same place                       *)
MergedIn(w, x, o, z) ==
    /\ z.env = [w.env EXCEPT ![x] = NULL]
    /\ z.nrof = [w.nrof EXCEPT ![o] = w.nrof[o] + w.nrof[x], ![x] = 0]

LEMMA FilledMerged ==
    ASSUME NEW w \in Raw, NEW z \in Raw, NEW x \in Piles, NEW o \in Piles \ {x},
           w.env[o] = w.env[x], MergedIn(w, x, o, z),
           NEW k, \A c \in Containers : k[c] \in Int, NEW g, g # NULL
    PROVE  Filled(z, k, g) = Filled(w, k, g)
<1> DEFINE y == [w EXCEPT !.env[x] = NULL]
           h == w.env[x]
<1>1. y \in Raw /\ y.env = [w.env EXCEPT ![x] = NULL] /\ y.nrof = w.nrof BY DEF Raw
<1> HIDE DEF y
<1>2. \A e \in Things \cup Players : y.env[e] = IF e = x THEN NULL ELSE w.env[e]
  BY <1>1 DEF Raw
<1>3. w.nrof \in [Piles -> Int] /\ w.nrof[o] \in Int /\ w.nrof[x] \in Int BY DEF Raw
<1>z. /\ z.env = y.env /\ \A q \in Piles \ {x, o} : z.nrof[q] = w.nrof[q]
      /\ z.nrof[o] = w.nrof[o] + w.nrof[x]
  BY <1>1, <1>3 DEF MergedIn
<1>4. z.nrof[o] - y.nrof[o] = w.nrof[x] BY <1>1, <1>3, <1>z
<1>5. /\ Filled(y, k, g) \in Int /\ Filled(w, k, g) \in Int BY <1>1, FilledIsSum
<1>6. Filled(z, k, g) = Filled(y, k, g) + (IF g = y.env[o] THEN z.nrof[o] - y.nrof[o] ELSE 0)
  <2>1. \A q \in Piles \ {o} : y.env[q] = g => z.nrof[q] = y.nrof[q]
    <3>1. y.env[x] # g BY <1>2 DEF Things
    <3> QED BY <1>1, <1>z, <3>1
  <2>2. y \in Raw /\ z.env = y.env BY <1>1, <1>z
  <2> QED BY <2>1, <2>2, FilledUnits
<1>7. y.env[o] = h BY <1>2 DEF Things
<1>8. CASE g = h
  <2>1. x \notin In(y, g) /\ In(w, g) = In(y, g) \cup {x} BY <1>2, <1>8 DEF In, Things
  <2>2. Filled(w, k, g) = Filled(y, k, g) + Load(w.nrof, k)[x]
    BY <1>1, <2>1, FilledMore DEF Things
  <2>3. Load(w.nrof, k)[x] = w.nrof[x] BY <1>3, LoadType
  <2> HIDE DEF h
  <2> QED BY <1>4, <1>5, <1>6, <1>7, <1>8, <2>2, <2>3
<1>9. CASE g # h
  <2>1. In(y, g) = In(w, g) BY <1>2, <1>9 DEF In
  <2>2. Filled(y, k, g) = Filled(w, k, g) BY <1>1, <2>1, FilledSame
  <2> HIDE DEF h
  <2> QED BY <1>5, <1>6, <1>7, <1>9, <2>2
<1> QED BY <1>8, <1>9

(* object_merge()                                                          *)
AddedTo(w, x, o) ==
    [w EXCEPT !.nrof = [@ EXCEPT ![o] = w.nrof[o] + w.nrof[x], ![x] = 0], !.env[x] = NULL]

LEMMA MergeFacts ==
    ASSUME NEW w, Sound(w), NEW x \in Piles, NEW o \in Mergeable(w, x, w.env[x]),
           NEW u, u = AddedTo(w, x, o)
    PROVE  Sound(u) /\ MergedIn(w, x, o, u)
<1> DEFINE m == [w.nrof EXCEPT ![o] = w.nrof[o] + w.nrof[x], ![x] = 0]
<1>0. w \in Raw /\ Lists(w) /\ Opened(w) /\ Places(w) /\ Counted(w) /\ Right(w, w.carrying, w.sum)
  BY DEF Sound
<1>1. o \in Piles \ {x} /\ w.env[o] = w.env[x] BY DEF Mergeable
<1>2. m \in [Piles -> Nat] /\ m \in [Piles -> Int]
  <2>1. w.nrof \in [Piles -> Nat] BY <1>0 DEF Raw, Counted
  <2> QED BY <1>1, <2>1
<1>3. u = [w EXCEPT !.nrof = m, !.env[x] = NULL] BY DEF AddedTo
<1>e. [w.env EXCEPT ![x] = NULL] \in [Things \cup Players -> Holders \cup Squares \cup {NULL}]
  BY <1>0 DEF Raw
<1> HIDE DEF m
<1>4. /\ u \in Raw /\ u.nrof = m /\ u.env = [w.env EXCEPT ![x] = NULL]
      /\ u.carrying = w.carrying /\ u.sum = w.sum /\ u.container = w.container
      /\ u.above = w.above /\ u.below = w.below /\ u.newest = w.newest
      /\ u.applied = w.applied
  BY <1>0, <1>2, <1>3, <1>e DEF Raw
<1>m. MergedIn(w, x, o, u) BY <1>4 DEF MergedIn, m
<1>5. \A e \in Things \cup Players : u.env[e] = IF e = x THEN NULL ELSE w.env[e]
  BY <1>0, <1>4 DEF Raw
<1>6. Right(u, w.carrying, w.sum)
  <2>1. \A c \in Containers : w.carrying[c] \in Int BY <1>0 DEF Raw, Holders
  <2>2. \A g \in Holders : Filled(u, w.carrying, g) = Filled(w, w.carrying, g)
    <3>1. NULL \notin Holders BY Kinds DEF Holders
    <3> QED BY <1>0, <1>1, <1>4, <1>m, <2>1, <3>1, FilledMerged
  <2> QED BY <1>0, <2>2, ConstantsAssumption DEF Right, Holders
<1>7. Lists(u) /\ Counted(u) BY <1>0, <1>2, <1>4, ListsSame DEF Counted
<1>8. Places(u)
  <2>1. x \in Things BY DEF Things
  <2> QED BY <1>0, <1>4, <2>1, PlacesPut
<1>9. Opened(u)
  <2>1. \A c \in Containers : u.env[c] = w.env[c] BY <1>5, Kinds DEF Things
  <2>2. \A p \in Players : u.env[p] = w.env[p] BY <1>5, Kinds DEF Things
  <2>3. /\ \A p \in Players : w.container[p] # NULL => w.container[p] \in Containers
        /\ w.applied \subseteq Containers
    BY <1>0 DEF Raw
  <2> QED BY <1>0, <1>4, <2>1, <2>2, <2>3 DEF Opened
<1>10. Sound(u) BY <1>4, <1>6, <1>7, <1>8, <1>9 DEF Sound
<1> QED BY <1>10, <1>m

---------------------------------------------------------------------------
(* The steps of the system, by what they do to things                      *)

(* Things are where they were, piles in the same number.                   *)
NothingMoved(w, u) == u.nrof = w.nrof /\ \A x \in Things : u.env[x] = w.env[x]

LEMMA InGameIs ==
    ASSUME NEW w, NEW x \in Things, InGame(w, x)
    PROVE  w.env[x] # NULL
<1> SUFFICES ASSUME w.env[x] = NULL PROVE FALSE OBVIOUS
<1> DEFINE next == [y \in Things |-> w.env[y]]
           S == {x}
<1>1. DOMAIN next = Things /\ next[x] = NULL /\ NULL \notin Things BY Kinds DEF Things
<1>2. S \in SUBSET DOMAIN next /\ x \in S
      /\ \A y \in S : next[y] \in DOMAIN next => next[y] \in S
  BY <1>1
<1> HIDE DEF next, S
<1>3. Reached(next, x) \subseteq S BY <1>2, ReachedFacts
<1>4. Around(w, x) \subseteq S BY <1>3 DEF Around, next
<1>5. PICK y \in Around(w, x) : w.env[y] \in Squares \cup {p \in Players : w.env[p] # NULL}
  BY DEF InGame
<1> QED BY <1>4, <1>5, Kinds DEF S

LEMMA SeesIs ==
    ASSUME NEW w, NEW p \in Players, w.env[p] # NULL, NEW x, Sees(w, p, x)
    PROVE  w.env[x] # NULL
<1>1. CASE x \in InReach(w, p) BY <1>1, Kinds DEF InReach, In
<1>2. CASE w.container[p] \in InReach(w, p) /\ w.env[x] = w.container[p]
  <2>1. w.container[p] \in Things BY <1>2 DEF InReach, In
  <2> QED BY <1>2, <2>1, Kinds DEF Things
<1> QED BY <1>1, <1>2 DEF Sees

LEMMA UnappliedIs ==
    ASSUME NEW w, Sound(w), NEW p, NEW x, NEW y \in Unapplied(w, p, x)
    PROVE  y \in MaybeUnapplied(w, x) /\ x \notin y.applied
<1>1. w \in Raw BY DEF Sound
<1>2. CASE x \notin w.applied BY <1>2 DEF Unapplied, MaybeUnapplied
<1>3. CASE x \in w.applied
  <2>1. y = [w EXCEPT !.applied = @ \ {x}] BY <1>3 DEF Unapplied
  <2>2. y.applied = w.applied \ {x} BY <1>1, <2>1 DEF Raw
  <2> QED BY <2>1, <2>2 DEF MaybeUnapplied
<1> QED BY <1>2, <1>3

LEMMA MovesInto ==
    ASSUME NEW w, Sound(w), NEW x \in Things, w.env[x] # NULL, NEW n \in Amounts(w, x),
           NEW y \in MaybeUnapplied(w, x), x \in y.applied => w.env[x] \in Squares,
           NEW h \in Holders, h \in Containers => h \in w.applied /\ h # x,
           NEW v \in MovedInto(y, x, n, h)
    PROVE  \E o, u : TakenAs(w, y, x, n, o, u) /\ PutAs(u, o, h, v) /\ o \notin u.applied
<1>1. PICK t \in Taken(y, x, n) : v \in InsertInto(t[2], t[1], h) BY DEF MovedInto
<1> DEFINE o == t[1]
           u == t[2]
<1>2. TakenAs(w, y, x, n, o, u) BY <1>1, TakenFacts
<1> HIDE DEF o, u
<1>3. /\ Sound(u) /\ o \in Things /\ u.env[o] = NULL /\ o \notin u.applied
      /\ o \in Containers => o = x
      /\ w.applied \subseteq u.applied \cup {x}
  BY <1>2 DEF TakenAs
<1>4. h \in Containers => h \in u.applied /\ h # o
  <2>1. h \in Containers => h # o BY <1>3
  <2> QED BY <1>3, <2>1
<1>5. v \in InsertInto(u, o, h) BY <1>1 DEF o, u
<1>6. PutAs(u, o, h, v) BY <1>3, <1>4, <1>5, InsertIntoFacts
<1> QED BY <1>2, <1>3, <1>6

---------------------------------------------------------------------------
(* Numbers of units: there are none in what does not exist, and not more   *)
(* altogether than there may be.                                           *)

(* S has the piles that are on their way from one place to another.        *)
Numbered(w, S) ==
    /\ \A q \in Piles \ S : w.nrof[q] = 0 <=> w.env[q] = NULL
    /\ \A q \in Piles \cap S : w.nrof[q] # 0
    /\ Units(w) <= MaxUnits

LEMMA UnitsIsSum ==
    ASSUME NEW w \in Raw
    PROVE  Units(w) = SumFunctionOnSet(w.nrof, Piles) /\ Units(w) \in Int
<1>1. w.nrof \in [Piles -> Int] /\ DOMAIN w.nrof = Piles BY DEF Raw
<1>2. Units(w) = SumFunctionOnSet(w.nrof, Piles)
  BY <1>1 DEF Units, SumFunction, SumFunctionOnSet, FoldFunction
<1> QED BY <1>1, <1>2, ThingsFinite, SumSplit

LEMMA UnitsChange ==
    ASSUME NEW w \in Raw, NEW u \in Raw, NEW x \in Piles,
           \A q \in Piles \ {x} : u.nrof[q] = w.nrof[q]
    PROVE  Units(u) = Units(w) + u.nrof[x] - w.nrof[x]
<1>1. \A q \in Piles : w.nrof[q] \in Int /\ u.nrof[q] \in Int BY DEF Raw
<1>2. SumFunctionOnSet(u.nrof, Piles) = SumFunctionOnSet(w.nrof, Piles) + u.nrof[x] - w.nrof[x]
  BY <1>1, ThingsFinite, SumChange
<1> QED BY <1>2, UnitsIsSum

LEMMA UnitsMoved ==
    ASSUME NEW w \in Raw, NEW u \in Raw, NEW x \in Piles, NEW o \in Piles \ {x},
           \A q \in Piles \ {x, o} : u.nrof[q] = w.nrof[q],
           u.nrof[x] + u.nrof[o] = w.nrof[x] + w.nrof[o]
    PROVE  Units(u) = Units(w)
<1> DEFINE v == Renumbered(w, x, u.nrof[x])
<1>1. \A q \in Piles : w.nrof[q] \in Int /\ u.nrof[q] \in Int BY DEF Raw
<1>2. /\ v \in Raw /\ v.nrof[x] = u.nrof[x] /\ v.nrof[o] = w.nrof[o]
      /\ \A q \in Piles \ {x} : v.nrof[q] = w.nrof[q]
  BY <1>1 DEF Raw, Renumbered
<1> HIDE DEF v
<1>3. \A q \in Piles \ {o} : u.nrof[q] = v.nrof[q] BY <1>2
<1>4. Units(v) = Units(w) + v.nrof[x] - w.nrof[x] BY <1>2, UnitsChange
<1>5. Units(u) = Units(v) + u.nrof[o] - v.nrof[o] BY <1>2, <1>3, UnitsChange
<1>6. Units(w) \in Int /\ Units(v) \in Int /\ Units(u) \in Int BY <1>2, UnitsIsSum
<1> QED BY <1>1, <1>2, <1>4, <1>5, <1>6

LEMMA UnitsFewer ==
    ASSUME NEW w \in Raw, NEW u \in Raw, Counted(w), Counted(u),
           \A q \in Piles : u.nrof[q] <= w.nrof[q]
    PROVE  Units(u) <= Units(w)
<1>1. \A q \in Piles : u.nrof[q] \in Int /\ u.nrof[q] <= w.nrof[q] /\ w.nrof[q] \in Nat
  BY DEF Counted
<1>2. SumFunctionOnSet(u.nrof, Piles) <= SumFunctionOnSet(w.nrof, Piles)
  BY <1>1, ThingsFinite, SumAtMost
<1> QED BY <1>2, UnitsIsSum

LEMMA UnitsOfOne ==
    ASSUME NEW w \in Raw, Counted(w), NEW x \in Piles
    PROVE  w.nrof[x] <= Units(w)
<1> DEFINE one == {x}
           none == {}
<1>1. \A q \in Piles : w.nrof[q] \in Int /\ w.nrof[q] <= w.nrof[q] /\ w.nrof[q] \in Nat
  BY DEF Counted
<1>2. IsFiniteSet(one) /\ one \in SUBSET Piles /\ x \in one BY FS_Singleton
<1>3. one \ {x} = none OBVIOUS
<1> HIDE DEF one
<1>4. SumFunctionOnSet(w.nrof, one) <= SumFunctionOnSet(w.nrof, Piles)
  BY <1>1, <1>2, ThingsFinite, SumAtMost
<1>5. SumFunctionOnSet(w.nrof, one) = w.nrof[x] + SumFunctionOnSet(w.nrof, none)
  BY <1>1, <1>2, <1>3, SumSplit
<1>6. SumFunctionOnSet(w.nrof, none) = 0 BY SumEmpty
<1> QED BY <1>1, <1>4, <1>5, <1>6, UnitsIsSum

---------------------------------------------------------------------------
(* Things are picked up by a count, and moved                              *)

LEMMA ClaimedIsWeight ==
    ASSUME NEW w \in Raw, NEW x \in Things, NEW n \in Amounts(w, x)
    PROVE  Claimed(w, x, n) = Weight(w, x, n)
<1>1. CASE x \in Piles
  <2>1. w.nrof[x] \in Int BY <1>1 DEF Raw
  <2>2. n \in Int /\ n >= 1 /\ x \notin Containers BY <1>1, <2>1, Kinds DEF Amounts
  <2> QED BY <2>2 DEF Claimed, Weight, Own
<1>2. CASE x \in Containers
  <2>1. n = 1 /\ w.carrying[x] \in Int BY <1>2, Kinds DEF Amounts, Raw, Holders
  <2> QED BY <1>2, <2>1 DEF Claimed, Weight, Own
<1> QED BY <1>1, <1>2 DEF Things

(* The number that object_stack_get_removed() gets from pick_up(), and     *)
(* that m are no more than were asked for, or else the number was beyond   *)
(* an int.                                                                 *)
Meant(w, x, n) == ToUnsigned(Clipped(w, x, Asked(w, x, n)))
HoldsAsked(w, x, n, m) ==
    \/ n > IntMax /\ x \in Piles /\ w.nrof[x] > 1 /\ Asked(w, x, n) = ToInt(n)
    \/ \A c \in Containers : CanHold(w, c, x, Asked(w, x, n)) => CanHold(w, c, x, m)

LEMMA HoldsFewer ==
    ASSUME NEW w, Sound(w), NEW x \in Things, NEW a \in Int, NEW m \in Int, m <= 1 \/ m <= a,
           NEW c \in Containers, CanHold(w, c, x, a)
    PROVE  CanHold(w, c, x, m)
<1>1. /\ w.carrying[c] \in Int /\ Limit[c] \in Int
      /\ x \in Containers => w.carrying[x] \in Int
  BY ConstantsAssumption DEF Sound, Raw, Right, Holders
<1>2. /\ Claimed(w, x, m) <= Claimed(w, x, a) /\ Claimed(w, x, m) \in Int
      /\ Claimed(w, x, a) \in Int
  <2>1. CASE x \in Containers BY <1>1, <2>1 DEF Claimed, Own
  <2>2. CASE x \notin Containers BY <2>2 DEF Claimed, Own
  <2> QED BY <2>1, <2>2
<1> QED BY <1>1, <1>2 DEF CanHold

(* What is picked up is an amount there is, whatever was asked for.        *)
LEMMA AskedIsAmount ==
    ASSUME NEW w, Sound(w), Numbered(w, {}), NEW x \in Things, w.env[x] # NULL,
           NEW n \in Counts, NEW h
    PROVE  \E m \in Amounts(w, x) : /\ MovedInto(w, x, Meant(w, x, n), h) = MovedInto(w, x, m, h)
                                   /\ HoldsAsked(w, x, n, m)
<1>0. w \in Raw /\ Counted(w) /\ n \in Int /\ n >= 0 /\ n <= 2 * IntMax + 1 /\ IntMax \in Int
  BY CountsAssumption DEF Sound, Counts
<1>1. CASE x \in Containers
  <2>1. x \notin Piles BY <1>1, Kinds
  <2>2. Asked(w, x, n) \in Int BY <1>0, <2>1 DEF Asked, ToInt
  <2>3. \A c \in Containers : CanHold(w, c, x, Asked(w, x, n)) => CanHold(w, c, x, 1)
    BY <2>2, HoldsFewer
  <2>4. Taken(w, x, Meant(w, x, n)) = Taken(w, x, 1) BY <1>1 DEF Taken
  <2>5. MovedInto(w, x, Meant(w, x, n), h) = MovedInto(w, x, 1, h) BY <2>4 DEF MovedInto
  <2>6. 1 \in Amounts(w, x) BY <2>1 DEF Amounts
  <2> QED BY <2>3, <2>5, <2>6 DEF HoldsAsked
<1>2. CASE x \in Piles
  <2> DEFINE all == w.nrof[x]
  <2>1. all \in Int /\ all >= 1 /\ all <= IntMax
    <3>1. all <= Units(w) /\ Units(w) \in Int /\ Units(w) <= MaxUnits
      BY <1>0, <1>2, UnitsOfOne, UnitsIsSum DEF Numbered
    <3>2. all \in Nat /\ all # 0 BY <1>0, <1>2 DEF Counted, Numbered
    <3> QED BY <3>1, <3>2, CountsAssumption, ConstantsAssumption
  <2>2. all \in Amounts(w, x) /\ x \notin Containers BY <1>2, <2>1, Kinds DEF Amounts
  <2>3. \A k \in Int : k >= all => MovedInto(w, x, k, h) = MovedInto(w, x, all, h)
    <3> SUFFICES ASSUME NEW k \in Int, k >= all
                 PROVE  Taken(w, x, k) = Taken(w, x, all)
      BY DEF MovedInto
    <3> QED BY <2>1 DEF Taken
  <2>4. CASE n > IntMax
    <3>1. /\ Asked(w, x, n) = n - 2 * (IntMax + 1) /\ Asked(w, x, n) = ToInt(n)
          /\ n - 2 * (IntMax + 1) < 0
      BY <1>0, <2>1, <2>4 DEF Asked, ToInt
    <3>2. Clipped(w, x, Asked(w, x, n)) = n - 2 * (IntMax + 1)
      BY <1>0, <1>2, <2>1, <3>1 DEF Clipped
    <3>3. Meant(w, x, n) = n BY <1>0, <3>1, <3>2 DEF Meant, ToUnsigned
    <3>4. MovedInto(w, x, Meant(w, x, n), h) = MovedInto(w, x, all, h)
      BY <1>0, <2>1, <2>3, <2>4, <3>3
    <3>5. HoldsAsked(w, x, n, all)
      <4>1. CASE all > 1 BY <1>2, <2>4, <3>1, <4>1 DEF HoldsAsked
      <4>2. CASE all <= 1
        <5>1. Asked(w, x, n) \in Int BY <1>0, <3>1
        <5> QED BY <2>1, <4>2, <5>1, HoldsFewer DEF HoldsAsked
      <4> QED BY <2>1, <4>1, <4>2
    <3> QED BY <2>2, <3>4, <3>5
  <2>5. CASE n <= IntMax
    <3> DEFINE a == Asked(w, x, n)
    <3>1. a \in Int /\ a >= 1 BY <1>0, <1>2, <2>1, <2>5 DEF Asked, ToInt
    <3> HIDE DEF a
    <3>2. CASE a > all
      <4>1. Meant(w, x, n) = all
        BY <1>2, <2>1, <3>1, <3>2 DEF Meant, Clipped, ToUnsigned, a
      <4>2. HoldsAsked(w, x, n, all) BY <2>1, <3>1, <3>2, HoldsFewer DEF HoldsAsked, a
      <4> QED BY <2>2, <4>1, <4>2
    <3>3. CASE a <= all
      <4>1. Meant(w, x, n) = a
        BY <1>2, <2>1, <3>1, <3>3 DEF Meant, Clipped, ToUnsigned, a
      <4>2. HoldsAsked(w, x, n, a) BY DEF HoldsAsked, a
      <4>3. a \in Amounts(w, x) BY <1>2, <2>1, <3>1, <3>3 DEF Amounts
      <4> QED BY <4>1, <4>2, <4>3
    <3> QED BY <2>1, <3>1, <3>2, <3>3
  <2> QED BY <1>0, <2>4, <2>5
<1> QED BY <1>1, <1>2 DEF Things

LEMMA PickUpSteps ==
    ASSUME Sound(world), Numbered(world, {}), NEW p \in Players, NEW x \in Things,
           NEW n \in Counts, PickUp(p, x, n)
    PROVE  /\ world.env[x] # NULL
           /\ \E m \in Amounts(world, x) : \E h, o, u :
                  /\ h \in Destinations(world, p, x, Asked(world, x, n))
                  /\ h \in Holders /\ (h \in Containers => h \in world.applied /\ h # x)
                  /\ TakenAs(world, world, x, m, o, u) /\ PutAs(u, o, h, world')
                  /\ o \notin u.applied
                  /\ HoldsAsked(world, x, n, m)
<1>0. world \in Raw /\ Opened(world) /\ Places(world) BY DEF Sound
<1>1. /\ world.env[p] # NULL /\ world.env[x] \in {world.env[p], world.container[p]} \ {NULL, p}
      /\ \E h \in Destinations(world, p, x, Asked(world, x, n)) :
             world' \in MovedInto(world, x, Meant(world, x, n), h)
  BY DEF PickUp, Present, Meant
<1>2. PICK h \in Destinations(world, p, x, Asked(world, x, n)) :
          world' \in MovedInto(world, x, Meant(world, x, n), h)
  BY <1>1
<1>7. PICK m \in Amounts(world, x) :
          /\ MovedInto(world, x, Meant(world, x, n), h) = MovedInto(world, x, m, h)
          /\ HoldsAsked(world, x, n, m)
  BY <1>1, AskedIsAmount
<1> DEFINE open == world.container[p]
           ready == {c \in In(world, p) \cap world.applied :
                         CanHold(world, c, x, Asked(world, x, n)) /\ ~BothMagical(x, c)}
<1>3. h \in Holders /\ (h \in Containers => h \in world.applied /\ h # x)
  <2>1. CASE open \notin {NULL, x, world.env[x]}
    <3>1. h = open BY <2>1 DEF Destinations
    <3>2. open \in Containers BY <1>0, <2>1 DEF Raw
    <3>3. open \in world.applied BY <1>0, <2>1 DEF Opened
    <3> QED BY <2>1, <3>1, <3>2, <3>3 DEF Holders
  <2>2. CASE ~(open \notin {NULL, x, world.env[x]})
    <3>1. h \in {IF world.env[x] = c THEN p ELSE c : c \in IF ready = {} THEN {p} ELSE ready}
      BY <2>2 DEF Destinations
    <3>2. PICK c \in (IF ready = {} THEN {p} ELSE ready) : h = IF world.env[x] = c THEN p ELSE c
      BY <3>1
    <3>3. h = p \/ h \in ready BY <3>2
    <3>4. h \in ready => h \in Containers /\ h \in world.applied /\ h # x
      BY <1>0 DEF CanHold, Raw
    <3> HIDE DEF ready
    <3> QED BY <3>3, <3>4, Kinds DEF Holders
  <2> QED BY <2>1, <2>2
<1>4. x \in world.applied => world.env[x] \in Squares
  <2>1. x \in world.applied => world.env[x] \notin Containers BY <1>0 DEF Opened
  <2>2. world.env[x] # open \/ open \in Containers BY <1>0, <1>1 DEF Raw
  <2>3. world.env[p] \in Squares BY <1>0, <1>1 DEF Raw, Places
  <2> QED BY <1>1, <2>1, <2>2, <2>3
<1>5. world \in MaybeUnapplied(world, x) BY DEF MaybeUnapplied
<1>6. \E o, u : /\ TakenAs(world, world, x, m, o, u) /\ PutAs(u, o, h, world')
                /\ o \notin u.applied
  BY <1>1, <1>2, <1>7, <1>3, <1>4, <1>5, MovesInto
<1> QED BY <1>1, <1>2, <1>7, <1>3, <1>6

LEMMA PutInSteps ==
    ASSUME Sound(world), NEW p \in Players, NEW x \in Things, NEW n \in Amounts(world, x),
           NEW c \in Containers, PutIn(p, x, n, c)
    PROVE  /\ world.env[x] # NULL /\ x # c /\ ~BothMagical(x, c) /\ CanHold(world, c, x, n)
           /\ \E y, o, u : /\ TakenAs(world, y, x, n, o, u) /\ PutAs(u, o, c, world')
                           /\ o \notin u.applied
<1>1. /\ world.env[p] # NULL /\ Sees(world, p, x)
      /\ x # c /\ ~BothMagical(x, c) /\ CanHold(world, c, x, n)
      /\ \E y \in Unapplied(world, p, x) : world' \in MovedInto(y, x, n, c)
  BY DEF PutIn, Present
<1>2. PICK y \in Unapplied(world, p, x) : world' \in MovedInto(y, x, n, c) BY <1>1
<1>3. y \in MaybeUnapplied(world, x) /\ x \notin y.applied BY <1>2, UnappliedIs
<1>4. world.env[x] # NULL BY <1>1, SeesIs
<1>5. c \in Holders /\ c \in world.applied /\ c # x BY <1>1 DEF CanHold, Holders
<1>6. \E o, u : /\ TakenAs(world, y, x, n, o, u) /\ PutAs(u, o, c, world')
                /\ o \notin u.applied
  BY <1>2, <1>3, <1>4, <1>5, MovesInto
<1> QED BY <1>1, <1>4, <1>6

LEMMA DropSteps ==
    ASSUME Sound(world), NEW p \in Players, NEW x \in Things, NEW n \in Amounts(world, x),
           Drop(p, x, n)
    PROVE  /\ world.env[x] # NULL
           /\ \E y, o, u, v : /\ TakenAs(world, y, x, n, o, u)
                              /\ OnMapAs(u, o, world.env[p], v) /\ world.env[p] \in Squares
                              /\ Sound(world') /\ NothingMoved(v, world')
<1> DEFINE s == world.env[p]
<1>0. world \in Raw /\ Places(world) BY DEF Sound
<1>1. /\ s # NULL /\ Sees(world, p, x)
      /\ \E y \in Unapplied(world, p, x) :
         \E v \in MovedToMap(y, x, n, s) : world' = Enter(v, p, s)
  BY DEF Drop, Present
<1>2. s \in Squares BY <1>0, <1>1 DEF Raw, Places
<1>3. PICK y \in Unapplied(world, p, x) :
          \E v \in MovedToMap(y, x, n, s) : world' = Enter(v, p, s)
  BY <1>1
<1>4. PICK v \in MovedToMap(y, x, n, s) : world' = Enter(v, p, s) BY <1>3
<1>5. PICK t \in Taken(y, x, n) : v \in InsertMap(t[2], t[1], s) BY <1>4 DEF MovedToMap
<1> DEFINE o == t[1]
           u == t[2]
<1>6. world.env[x] # NULL BY <1>1, SeesIs
<1>7. y \in MaybeUnapplied(world, x) BY <1>3, UnappliedIs
<1>8. TakenAs(world, y, x, n, o, u) BY <1>5, <1>6, <1>7, TakenFacts
<1>9. v \in InsertMap(u, o, s) BY <1>5
<1> HIDE DEF o, u, s
<1>10. Sound(u) /\ o \in Things /\ u.env[o] = NULL BY <1>8 DEF TakenAs
<1>11. OnMapAs(u, o, s, v) BY <1>2, <1>9, <1>10, InsertMapFacts
<1>12. Sound(v) BY <1>11 DEF OnMapAs
<1>13. Sound(world') /\ world'.env = [v.env EXCEPT ![p] = s] /\ world'.nrof = v.nrof
  BY <1>2, <1>4, <1>12, EnterFacts
<1>14. NothingMoved(v, world')
  <2>1. v \in Raw BY <1>12 DEF Sound
  <2> QED BY <1>13, <2>1, Kinds DEF NothingMoved, Raw, Things
<1> QED BY <1>2, <1>6, <1>8, <1>11, <1>13, <1>14 DEF s

(* A player who applies a container that he carries                        *)
LEMMA ReadySound ==
    ASSUME NEW w, Sound(w), NEW p \in Players, NEW c \in Containers, w.env[c] = p,
           NEW u, u = [w EXCEPT !.applied = @ \cup {c}]
    PROVE  Sound(u) /\ NothingMoved(w, u)
<1>0. w \in Raw /\ Lists(w) /\ Opened(w) /\ Places(w) /\ Counted(w) /\ Right(w, w.carrying, w.sum)
  BY DEF Sound
<1>1. /\ u \in Raw /\ u.env = w.env /\ u.nrof = w.nrof /\ u.carrying = w.carrying
      /\ u.sum = w.sum /\ u.container = w.container /\ u.above = w.above
      /\ u.below = w.below /\ u.newest = w.newest /\ u.applied = w.applied \cup {c}
  BY <1>0 DEF Raw
<1>2. Lists(u) /\ Places(u) /\ Counted(u) BY <1>0, <1>1, ListsSame DEF Places, Counted
<1>3. Opened(u) BY <1>0, <1>1, Kinds DEF Opened
<1>4. Right(u, u.carrying, u.sum)
  <2>1. \A h : In(u, h) = In(w, h) BY <1>1 DEF In
  <2> QED BY <1>0, <1>1, <2>1, RightSame
<1> QED BY <1>1, <1>2, <1>3, <1>4 DEF Sound, NothingMoved

LEMMA ApplySteps ==
    ASSUME Sound(world), NEW p \in Players, NEW c \in Containers, Apply(p, c)
    PROVE  Sound(world') /\ NothingMoved(world, world')
<1> DEFINE w == Close(world, p)
<1>1. Sound(w) /\ LetGo(w, world, p) BY CloseSound
<1>2. /\ world.env[p] # NULL
      /\ \/ world' = w
         \/ w.env[c] \in Squares \cup {p} /\ world' \in Open(w, p, c)
         \/ w.env[c] = p /\ world' = [w EXCEPT !.applied = @ \cup {c}]
  BY DEF Apply, Present
<1> HIDE DEF w
<1>3. w \in Raw /\ w.env = world.env /\ w.nrof = world.nrof /\ w.container[p] = NULL
  BY <1>1 DEF LetGo, SameThings
<1>4. CASE world' = w BY <1>1, <1>3, <1>4 DEF NothingMoved
<1>5. CASE w.env[c] \in Squares \cup {p} /\ world' \in Open(w, p, c)
  <2>1. /\ Sound(world') /\ world'.nrof = w.nrof
        /\ world'.env = w.env \/ world'.env = [w.env EXCEPT ![p] = Home]
    BY <1>1, <1>2, <1>3, <1>5, OpenFacts
  <2>2. \A x \in Things : world'.env[x] = w.env[x]
    BY <1>3, <2>1, Kinds DEF Raw, Things
  <2> QED BY <1>3, <2>1, <2>2 DEF NothingMoved
<1>6. CASE w.env[c] = p /\ world' = [w EXCEPT !.applied = @ \cup {c}]
  <2>1. Sound(world') /\ NothingMoved(w, world') BY <1>1, <1>6, ReadySound
  <2> QED BY <1>3, <2>1 DEF NothingMoved
<1> QED BY <1>2, <1>4, <1>5, <1>6

LEMMA WhereaboutsSteps ==
    ASSUME Sound(world), NEW p \in Players,
           (\E s \in Squares : Walk(p, s)) \/ LogOut(p) \/ LogIn(p)
    PROVE  Sound(world') /\ NothingMoved(world, world')
<1>0. world \in Raw BY DEF Sound
<1>1. ASSUME NEW s, world'.env = [world.env EXCEPT ![p] = s], world'.nrof = world.nrof
      PROVE  NothingMoved(world, world')
  BY <1>0, <1>1, Kinds DEF NothingMoved, Raw, Things
<1>2. ASSUME NEW s \in Squares, Walk(p, s) PROVE Sound(world') /\ NothingMoved(world, world')
  <2>1. world' = Enter(world, p, s) BY <1>2 DEF Walk
  <2>2. Sound(world') /\ world'.env = [world.env EXCEPT ![p] = s] /\ world'.nrof = world.nrof
    BY <2>1, EnterFacts
  <2> QED BY <1>1, <2>2
<1>3. CASE LogOut(p)
  <2> DEFINE w == Close(world, p)
  <2>1. Sound(w) /\ LetGo(w, world, p) BY CloseSound
  <2>2. world' = Moved(w, p, NULL) BY <1>3 DEF LogOut, Moved
  <2> HIDE DEF w
  <2>3. w.env = world.env /\ w.nrof = world.nrof /\ w.container[p] = NULL
    BY <2>1 DEF LetGo, SameThings
  <2>4. Sound(world') /\ world'.env = [w.env EXCEPT ![p] = NULL] /\ world'.nrof = w.nrof
    BY <2>1, <2>2, <2>3, SoundMoved
  <2> QED BY <1>1, <2>3, <2>4
<1>4. CASE LogIn(p)
  <2>1. world' = Moved(world, p, Home) BY <1>4, WeightSumFacts DEF LogIn, Moved
  <2>2. Home \in Squares /\ Home # NULL BY ConstantsAssumption, Kinds
  <2>3. Sound(world') /\ world'.env = [world.env EXCEPT ![p] = Home] /\ world'.nrof = world.nrof
    BY <2>1, <2>2, SoundMoved
  <2> QED BY <1>1, <2>3
<1> QED BY <1>2, <1>3, <1>4

LEMMA AppearSteps ==
    ASSUME Sound(world), NEW x \in Things, NEW n \in Nat, NEW s \in Squares, Appear(x, n, s)
    PROVE  /\ world.env[x] = NULL /\ Units(world) + n <= MaxUnits
           /\ \E w : /\ Sound(w) /\ w.env = world.env /\ OnMapAs(w, x, s, world')
                     /\ w.nrof = IF x \in Piles THEN [world.nrof EXCEPT ![x] = n] ELSE world.nrof
<1>1. /\ world.env[x] = NULL /\ Units(world) + n <= MaxUnits
      /\ \E w \in IF x \in Piles THEN {[world EXCEPT !.nrof[x] = n]} ELSE {world} :
             world' \in InsertMap(w, x, s)
  BY DEF Appear
<1>2. PICK w \in (IF x \in Piles THEN {[world EXCEPT !.nrof[x] = n]} ELSE {world}) :
          world' \in InsertMap(w, x, s)
  BY <1>1
<1>3. /\ Sound(w) /\ w.env = world.env
      /\ w.nrof = IF x \in Piles THEN [world.nrof EXCEPT ![x] = n] ELSE world.nrof
  <2>1. CASE x \in Piles
    <3>1. w = Renumbered(world, x, n) BY <2>1 DEF Renumbered
    <3> QED BY <1>1, <2>1, <3>1, NowhereSound
  <2>2. CASE x \notin Piles BY <2>2
  <2> QED BY <2>1, <2>2
<1>4. OnMapAs(w, x, s, world') BY <1>1, <1>2, <1>3, InsertMapFacts
<1> QED BY <1>1, <1>3, <1>4

LEMMA DecreaseSteps ==
    ASSUME Sound(world), NEW x \in Piles, NEW n \in Amounts(world, x), Decrease(x, n)
    PROVE  /\ Sound(world') /\ n \in Nat /\ n # 0
           /\ \/ /\ world'.env = world.env /\ n < world.nrof[x]
                 /\ world'.nrof = [world.nrof EXCEPT ![x] = @ - n]
              \/ /\ world'.env = [world.env EXCEPT ![x] = NULL]
                 /\ world'.nrof = [world.nrof EXCEPT ![x] = 0]
<1>0. world \in Raw /\ world.nrof[x] \in Int BY DEF Sound, Raw
<1>1. n \in Nat /\ n # 0 /\ n <= world.nrof[x] BY <1>0 DEF Amounts
<1>2. CASE n < world.nrof[x]
  <2>1. world' = Lessened(world, x, n) BY <1>2 DEF Decrease, Lessened
  <2>2. Sound(world') /\ world'.env = world.env /\ world'.nrof = [world.nrof EXCEPT ![x] = @ - n]
    BY <1>1, <2>1, DecreaseFacts
  <2> QED BY <1>1, <1>2, <2>2
<1>3. CASE ~(n < world.nrof[x])
  <2> DEFINE v == Remove(world, x)
  <2>1. world' = Renumbered(v, x, 0) BY <1>3 DEF Decrease, Renumbered
  <2>2. Sound(v) /\ v.env = [world.env EXCEPT ![x] = NULL] /\ v.nrof = world.nrof
    <3>1. world \in MaybeUnapplied(world, x) /\ x \in Things BY DEF MaybeUnapplied, Things
    <3> QED BY <3>1, RemoveFacts
  <2> HIDE DEF v
  <2>3. v.env[x] = NULL BY <1>0, <2>2 DEF Raw, Things
  <2>4. Sound(world') /\ world'.env = v.env /\ world'.nrof = [v.nrof EXCEPT ![x] = 0]
    <3>1. Sound(v) /\ 0 \in Nat BY <2>2
    <3> QED BY <2>1, <2>3, <3>1, NowhereSound
  <2> QED BY <1>1, <2>2, <2>4
<1> QED BY <1>2, <1>3

LEMMA SplitOffSteps ==
    ASSUME Sound(world), NEW x \in Piles, NEW n \in Amounts(world, x), SplitOff(x, n)
    PROVE  /\ Sound(world') /\ world.env[x] # NULL /\ n \in Nat /\ n # 0 /\ n < world.nrof[x]
           /\ \E new \in Piles \ {x} :
                  /\ world.env[new] = NULL /\ world'.env = [world.env EXCEPT ![new] = world.env[x]]
                  /\ world'.nrof = [world.nrof EXCEPT ![x] = @ - n, ![new] = n]
<1>0. world \in Raw /\ world.nrof[x] \in Int BY DEF Sound, Raw
<1>1. n \in Nat /\ n # 0 /\ n <= world.nrof[x] BY <1>0 DEF Amounts
<1>2. world.env[x] # NULL /\ n < world.nrof[x] BY InGameIs DEF SplitOff, Things
<1>3. PICK new \in Unused(world) : world' = Beside(Split(world, x, n, new), x, n, new)
  BY DEF SplitOff, Beside
<1>4. new \in Piles \ {x} /\ world.env[new] = NULL BY <1>2, <1>3 DEF Unused
<1>5. /\ Sound(world') /\ world'.env = [world.env EXCEPT ![new] = world.env[x]]
      /\ world'.nrof = [world.nrof EXCEPT ![x] = @ - n, ![new] = n]
  BY <1>1, <1>2, <1>3, <1>4, SplitOffFacts
<1> QED BY <1>1, <1>2, <1>4, <1>5

LEMMA MergeSteps ==
    ASSUME Sound(world), NEW x \in Piles, Merge(x)
    PROVE  /\ Sound(world') /\ world.env[x] # NULL
           /\ \E o \in Mergeable(world, x, world.env[x]) : MergedIn(world, x, o, world')
<1>1. world.env[x] # NULL BY InGameIs DEF Merge, Things
<1>2. PICK o \in Mergeable(world, x, world.env[x]) : world' = AddedTo(world, x, o)
  BY DEF Merge, AddedTo
<1>3. Sound(world') /\ MergedIn(world, x, o, world') BY <1>2, MergeFacts
<1> QED BY <1>1, <1>3

LEMMA SoundInit == Init => Sound(world)
<1> SUFFICES ASSUME Init PROVE Sound(world) OBVIOUS
<1>1. world \in Raw /\ Counted(world)
  BY ConstantsAssumption DEF Init, Raw, Counted
<1>2. /\ \A e \in Things \cup Players : world.env[e] = NULL
      /\ \A o \in Piles : world.nrof[o] = 0
      /\ \A h \in Holders : world.carrying[h] = 0
      /\ \A c \in Magical : world.sum[c] = 0
      /\ world.applied = {}
      /\ \A p \in Players : /\ world.container[p] = NULL
                            /\ world.above[p] = NULL /\ world.below[p] = NULL
      /\ \A c \in Containers : world.newest[c] = NULL
      /\ world.carrying = [h \in Holders |-> 0] /\ world.sum = [c \in Magical |-> 0]
  BY DEF Init
<1>3. Lists(world)
  <2>1. Linked(world) /\ OneList(world) /\ Heads(world)
    BY <1>2, Kinds DEF Linked, OneList, Heads
  <2>2. NoRing(world) BY <1>2, Kinds DEF NoRing
  <2> QED BY <2>1, <2>2 DEF Lists
<1>4. Opened(world) BY <1>2 DEF Opened
<1>5. Places(world)
  <2>1. NULL \notin Holders BY Kinds DEF Holders
  <2>2. \A S \in SUBSET Containers : NULL \notin S BY Kinds
  <2> QED BY <1>2, <2>1, <2>2 DEF Places, Things
<1>6. Right(world, world.carrying, world.sum)
  <2>1. ASSUME NEW h \in Holders PROVE Filled(world, world.carrying, h) = 0
    <3>1. In(world, h) = {} BY <1>2, Kinds DEF In, Holders
    <3>2. \A g \in Containers : world.carrying[g] \in Int BY <1>2 DEF Holders
    <3>3. Filled(world, world.carrying, h) = SumFunctionOnSet(Load(world.nrof, world.carrying), {})
      BY <1>1, <3>1, <3>2, FilledIsSum
    <3> QED BY <3>3, SumEmpty
  <2>2. \A h \in Holders : Reduced(h, 0) = 0 BY DEF Reduced
  <2>3. world.carrying \in [Holders -> Nat] /\ world.sum \in [Magical -> Nat] BY <1>2
  <2>4. \A c \in Magical : c \in Holders BY ConstantsAssumption DEF Holders
  <2> QED BY <1>2, <2>1, <2>2, <2>3, <2>4 DEF Right
<1> QED BY <1>1, <1>3, <1>4, <1>5, <1>6 DEF Sound

---------------------------------------------------------------------------
(* Numbers of units, from step to step                                     *)

LEMMA NumberedTaken ==
    ASSUME NEW w, Sound(w), Numbered(w, {}), NEW x \in Things, w.env[x] # NULL,
           NEW n \in Amounts(w, x), NEW y, NEW o, NEW u, TakenAs(w, y, x, n, o, u)
    PROVE  Numbered(u, {o})
<1>0. w \in Raw /\ u \in Raw /\ Counted(w) /\ Counted(u) BY DEF Sound, TakenAs
<1>1. CASE o = x /\ u.env = [w.env EXCEPT ![x] = NULL] /\ u.nrof = w.nrof
  <2>1. \A q \in Piles \ {o} : u.env[q] = w.env[q] BY <1>0, <1>1 DEF Raw, Things
  <2>2. Units(u) = Units(w) BY <1>1 DEF Units
  <2> QED BY <1>1, <2>1, <2>2 DEF Numbered
<1>2. CASE /\ x \in Piles /\ o \in Piles \ {x} /\ w.env[o] = NULL /\ n < w.nrof[x]
           /\ u.env = w.env /\ u.nrof = [w.nrof EXCEPT ![x] = @ - n, ![o] = n]
  <2>1. \A q \in Piles : w.nrof[q] \in Nat BY <1>0 DEF Counted
  <2>2. n \in Nat /\ n # 0 BY <1>2, <2>1 DEF Amounts
  <2>3. /\ u.nrof[x] = w.nrof[x] - n /\ u.nrof[o] = n
        /\ \A q \in Piles \ {x, o} : u.nrof[q] = w.nrof[q]
    BY <1>0, <1>2 DEF Raw
  <2>4. w.nrof[o] = 0 BY <1>2 DEF Numbered
  <2>5. u.nrof[x] + u.nrof[o] = w.nrof[x] + w.nrof[o] /\ u.nrof[x] # 0
    BY <1>2, <2>1, <2>2, <2>3, <2>4
  <2>6. Units(u) = Units(w) BY <1>0, <1>2, <2>3, <2>5, UnitsMoved
  <2> QED BY <1>2, <2>2, <2>3, <2>5, <2>6 DEF Numbered
<1> QED BY <1>1, <1>2 DEF TakenAs

LEMMA NumberedPut ==
    ASSUME NEW w, Sound(w), NEW x \in Things, w.env[x] = NULL, Numbered(w, {x}),
           NEW h, h # NULL, NEW u, PutAs(w, x, h, u)
    PROVE  Numbered(u, {})
<1>0. w \in Raw /\ u \in Raw /\ Counted(w) BY DEF Sound, PutAs
<1>1. CASE u.env = [w.env EXCEPT ![x] = h] /\ u.nrof = w.nrof
  <2>1. \A q \in Piles : u.env[q] = IF q = x THEN h ELSE w.env[q] BY <1>0, <1>1 DEF Raw, Things
  <2>2. Units(u) = Units(w) BY <1>1 DEF Units
  <2> QED BY <1>1, <2>1, <2>2 DEF Numbered
<1>2. CASE /\ x \in Piles /\ u.env = w.env
           /\ \E o \in Mergeable(w, x, h) :
                  u.nrof = [w.nrof EXCEPT ![o] = w.nrof[o] + w.nrof[x], ![x] = 0]
  <2>1. PICK o \in Mergeable(w, x, h) :
            u.nrof = [w.nrof EXCEPT ![o] = w.nrof[o] + w.nrof[x], ![x] = 0]
    BY <1>2
  <2>2. o \in Piles \ {x} /\ w.env[o] = h BY DEF Mergeable
  <2>3. /\ u.nrof[o] = w.nrof[o] + w.nrof[x] /\ u.nrof[x] = 0
        /\ \A q \in Piles \ {x, o} : u.nrof[q] = w.nrof[q]
        /\ w.nrof[o] \in Nat /\ w.nrof[x] \in Nat
    BY <1>0, <1>2, <2>1, <2>2 DEF Raw, Counted
  <2>4. u.nrof[x] + u.nrof[o] = w.nrof[x] + w.nrof[o] BY <2>3
  <2>5. Units(u) = Units(w) BY <1>0, <1>2, <2>2, <2>3, <2>4, UnitsMoved
  <2>6. w.nrof[o] # 0 /\ u.nrof[o] # 0 BY <2>2, <2>3 DEF Numbered
  <2> QED BY <1>2, <2>2, <2>3, <2>5, <2>6 DEF Numbered
<1> QED BY <1>1, <1>2 DEF PutAs

LEMMA NumberedOnMap ==
    ASSUME NEW w, Sound(w), NEW x \in Things, w.env[x] = NULL, Numbered(w, {x}),
           NEW s \in Squares, NEW u, OnMapAs(w, x, s, u)
    PROVE  Numbered(u, {})
<1>0. w \in Raw /\ u \in Raw /\ Counted(w) /\ s # NULL BY Kinds DEF Sound, OnMapAs
<1>1. CASE u.env = [w.env EXCEPT ![x] = s] /\ u.nrof = w.nrof
  <2>1. \A q \in Piles : u.env[q] = IF q = x THEN s ELSE w.env[q] BY <1>0, <1>1 DEF Raw, Things
  <2>2. Units(u) = Units(w) BY <1>1 DEF Units
  <2> QED BY <1>0, <1>1, <2>1, <2>2 DEF Numbered
<1>2. CASE /\ x \in Piles
           /\ \E o \in Mergeable(w, x, s) :
                  /\ u.env = [w.env EXCEPT ![x] = s, ![o] = NULL]
                  /\ u.nrof = [w.nrof EXCEPT ![x] = w.nrof[x] + w.nrof[o], ![o] = 0]
  <2>1. PICK o \in Mergeable(w, x, s) :
            /\ u.env = [w.env EXCEPT ![x] = s, ![o] = NULL]
            /\ u.nrof = [w.nrof EXCEPT ![x] = w.nrof[x] + w.nrof[o], ![o] = 0]
    BY <1>2
  <2>2. o \in Piles \ {x} /\ w.env[o] = s BY DEF Mergeable
  <2>3. /\ u.nrof[x] = w.nrof[x] + w.nrof[o] /\ u.nrof[o] = 0
        /\ \A q \in Piles \ {x, o} : u.nrof[q] = w.nrof[q]
        /\ w.nrof[o] \in Nat /\ w.nrof[x] \in Nat
    BY <1>0, <1>2, <2>1, <2>2 DEF Raw, Counted
  <2>e. \A q \in Piles : u.env[q] = IF q = x THEN s ELSE IF q = o THEN NULL ELSE w.env[q]
    BY <1>0, <1>2, <2>1, <2>2 DEF Raw, Things
  <2>4. u.nrof[x] + u.nrof[o] = w.nrof[x] + w.nrof[o] BY <2>3
  <2>5. Units(u) = Units(w) BY <1>0, <1>2, <2>2, <2>3, <2>4, UnitsMoved
  <2>6. w.nrof[x] # 0 /\ u.nrof[x] # 0 BY <1>2, <2>3 DEF Numbered
  <2> QED BY <1>0, <1>2, <2>2, <2>3, <2>e, <2>5, <2>6 DEF Numbered
<1> QED BY <1>1, <1>2 DEF OnMapAs

LEMMA NumberedSame ==
    ASSUME NEW w, Numbered(w, {}), NEW u, NothingMoved(w, u)
    PROVE  Numbered(u, {})
  BY DEF Numbered, NothingMoved, Units, Things

(* Of some piles there are fewer, and of those that are gone there is      *)
(* nothing left.                                                           *)
LEMMA NumberedFewer ==
    ASSUME NEW w, Sound(w), Numbered(w, {}), NEW u, Sound(u),
           \A q \in Piles : /\ u.nrof[q] <= w.nrof[q]
                            /\ \/ u.nrof[q] = 0 /\ u.env[q] = NULL
                               \/ u.env[q] = w.env[q] /\ (u.nrof[q] = 0 <=> w.nrof[q] = 0)
    PROVE  Numbered(u, {})
<1>0. w \in Raw /\ u \in Raw /\ Counted(w) /\ Counted(u) BY DEF Sound
<1>1. Units(u) <= Units(w) BY <1>0, UnitsFewer
<1>2. Units(u) \in Int /\ Units(w) \in Int BY <1>0, UnitsIsSum
<1>3. Units(u) <= MaxUnits BY <1>1, <1>2, ConstantsAssumption DEF Numbered
<1>4. \A q \in Piles : u.nrof[q] = 0 <=> u.env[q] = NULL BY DEF Numbered
<1> QED BY <1>3, <1>4 DEF Numbered

LEMMA NumberedInit == Init => Numbered(world, {})
<1> SUFFICES ASSUME Init PROVE Numbered(world, {}) OBVIOUS
<1>0. world \in Raw BY SoundInit DEF Sound
<1>1. \A q \in Piles : world.nrof[q] = 0 /\ world.env[q] = NULL BY DEF Init, Things
<1> DEFINE zero == [s \in SUBSET Piles |-> 0]
<1>2. SumsUp(zero, world.nrof, Piles)
  <2>1. ASSUME NEW s \in SUBSET Piles, s # {}
        PROVE  world.nrof[Chosen(s)] + zero[s \ {Chosen(s)}] = 0
    <3>1. Chosen(s) \in s BY <2>1 DEF Chosen
    <3> QED BY <3>1, <1>1
  <2> QED BY <2>1 DEF SumsUp
<1>3. Units(world) = 0
  <2>1. PICK g : SumsUp(g, world.nrof, Piles) /\ SumFunctionOnSet(world.nrof, Piles) = g[Piles]
    BY ThingsFinite, SumIsFold
  <2>2. zero[Piles] = 0 OBVIOUS
  <2> HIDE DEF zero
  <2>3. g[Piles] = zero[Piles] BY <2>1, <1>2, ThingsFinite, SumsUpUnique
  <2> QED BY <1>0, <2>1, <2>2, <2>3, UnitsIsSum
<1> QED BY <1>1, <1>3, ConstantsAssumption DEF Numbered

LEMMA NumberedNext ==
    Sound(world) /\ Numbered(world, {}) /\ [Next]_world => Numbered(world', {})
<1> SUFFICES ASSUME Sound(world), Numbered(world, {}), [Next]_world
             PROVE  Numbered(world', {})
  OBVIOUS
<1>0. /\ \A p \in Players, c \in Containers : NULL \notin Holders /\ NULL # c
      /\ \A h \in Holders : h # NULL
  BY Kinds DEF Holders
<1>1. ASSUME NEW p \in Players, NEW c \in Containers, Apply(p, c) PROVE Numbered(world', {})
  BY <1>1, ApplySteps, NumberedSame
<1>2. ASSUME NEW p \in Players, NEW x \in Things, NEW n \in Counts, PickUp(p, x, n)
      PROVE  Numbered(world', {})
  <2>0. PICK m \in Amounts(world, x) : \E h, o, u :
            /\ h \in Holders
            /\ TakenAs(world, world, x, m, o, u) /\ PutAs(u, o, h, world')
    BY <1>2, PickUpSteps
  <2>1. PICK h, o, u : /\ h \in Holders
                       /\ TakenAs(world, world, x, m, o, u) /\ PutAs(u, o, h, world')
    BY <2>0
  <2>2. world.env[x] # NULL BY <1>2, PickUpSteps
  <2>3. Numbered(u, {o}) BY <2>1, <2>2, NumberedTaken
  <2>4. Sound(u) /\ o \in Things /\ u.env[o] = NULL BY <2>1 DEF TakenAs
  <2> QED BY <1>0, <2>1, <2>3, <2>4, NumberedPut
<1>3. ASSUME NEW p \in Players, NEW x \in Things, NEW n \in Amounts(world, x),
             NEW c \in Containers, PutIn(p, x, n, c)
      PROVE  Numbered(world', {})
  <2>1. PICK y, o, u : TakenAs(world, y, x, n, o, u) /\ PutAs(u, o, c, world')
    BY <1>3, PutInSteps
  <2>2. world.env[x] # NULL BY <1>3, PutInSteps
  <2>3. Numbered(u, {o}) BY <2>1, <2>2, NumberedTaken
  <2>4. Sound(u) /\ o \in Things /\ u.env[o] = NULL BY <2>1 DEF TakenAs
  <2> QED BY <1>0, <2>1, <2>3, <2>4, NumberedPut
<1>4. ASSUME NEW p \in Players, NEW x \in Things, NEW n \in Amounts(world, x), Drop(p, x, n)
      PROVE  Numbered(world', {})
  <2>1. PICK y, o, u, v : /\ TakenAs(world, y, x, n, o, u)
                          /\ OnMapAs(u, o, world.env[p], v) /\ world.env[p] \in Squares
                          /\ Sound(world') /\ NothingMoved(v, world')
    BY <1>4, DropSteps
  <2>2. world.env[x] # NULL BY <1>4, DropSteps
  <2>3. Numbered(u, {o}) BY <2>1, <2>2, NumberedTaken
  <2>4. Sound(u) /\ o \in Things /\ u.env[o] = NULL BY <2>1 DEF TakenAs
  <2>5. Numbered(v, {}) BY <2>1, <2>3, <2>4, NumberedOnMap
  <2> QED BY <2>1, <2>5, NumberedSame
<1>5. ASSUME NEW p \in Players, (\E s \in Squares : Walk(p, s)) \/ LogOut(p) \/ LogIn(p)
      PROVE  Numbered(world', {})
  BY <1>5, WhereaboutsSteps, NumberedSame
<1>6. ASSUME NEW x \in Things, NEW n \in Nat, x \in Piles => n # 0, NEW s \in Squares,
             x \notin Piles => n = 0, Appear(x, n, s)
      PROVE  Numbered(world', {})
  <2>1. PICK w : /\ Sound(w) /\ w.env = world.env /\ OnMapAs(w, x, s, world')
                 /\ w.nrof = IF x \in Piles THEN [world.nrof EXCEPT ![x] = n] ELSE world.nrof
    BY <1>6, AppearSteps
  <2>2. world.env[x] = NULL /\ Units(world) + n <= MaxUnits BY <1>6, AppearSteps
  <2>3. Numbered(w, {x})
    <3>0. w \in Raw /\ world \in Raw BY <2>1 DEF Sound
    <3>1. CASE x \in Piles
      <4>1. w.nrof[x] = n /\ \A q \in Piles \ {x} : w.nrof[q] = world.nrof[q]
        BY <2>1, <3>0, <3>1 DEF Raw
      <4>2. world.nrof[x] = 0 BY <2>2, <3>1 DEF Numbered
      <4>3. Units(w) = Units(world) + w.nrof[x] - world.nrof[x] BY <3>0, <3>1, <4>1, UnitsChange
      <4>4. Units(w) <= MaxUnits BY <4>1, <4>2, <4>3, <2>2, <3>0, UnitsIsSum
      <4> QED BY <1>6, <2>1, <3>1, <4>1, <4>4 DEF Numbered
    <3>2. CASE x \notin Piles
      <4>1. Units(w) = Units(world) BY <2>1, <3>2 DEF Units
      <4> QED BY <2>1, <3>2, <4>1 DEF Numbered
    <3> QED BY <3>1, <3>2
  <2>4. w.env[x] = NULL BY <2>1, <2>2
  <2> QED BY <2>1, <2>3, <2>4, NumberedOnMap
<1>7. ASSUME NEW x \in Piles, NEW n \in Amounts(world, x), Decrease(x, n)
      PROVE  Numbered(world', {})
  <2>0. world \in Raw /\ world' \in Raw /\ Counted(world) /\ Counted(world') /\ Sound(world')
    BY <1>7, DecreaseSteps DEF Sound
  <2>1. n \in Nat /\ n # 0 BY <1>7, DecreaseSteps
  <2>2. \A q \in Piles : world.nrof[q] \in Nat BY <2>0 DEF Counted
  <2>3. CASE /\ world'.env = world.env /\ n < world.nrof[x]
             /\ world'.nrof = [world.nrof EXCEPT ![x] = @ - n]
    <3>1. \A q \in Piles : world'.nrof[q] = IF q = x THEN world.nrof[x] - n ELSE world.nrof[q]
      BY <2>0, <2>3 DEF Raw
    <3>2. \A q \in Piles : /\ world'.nrof[q] <= world.nrof[q]
                           /\ world'.env[q] = world.env[q]
                           /\ world'.nrof[q] = 0 <=> world.nrof[q] = 0
      BY <2>1, <2>2, <2>3, <3>1
    <3> QED BY <2>0, <3>2, NumberedFewer
  <2>4. CASE /\ world'.env = [world.env EXCEPT ![x] = NULL]
             /\ world'.nrof = [world.nrof EXCEPT ![x] = 0]
    <3>1. \A q \in Piles : /\ world'.nrof[q] = IF q = x THEN 0 ELSE world.nrof[q]
                           /\ world'.env[q] = IF q = x THEN NULL ELSE world.env[q]
      BY <2>0, <2>4 DEF Raw, Things
    <3>2. \A q \in Piles : /\ world'.nrof[q] <= world.nrof[q]
                           /\ \/ world'.nrof[q] = 0 /\ world'.env[q] = NULL
                              \/ /\ world'.env[q] = world.env[q]
                                 /\ world'.nrof[q] = 0 <=> world.nrof[q] = 0
      BY <2>2, <3>1
    <3> QED BY <2>0, <3>2, NumberedFewer
  <2> QED BY <2>3, <2>4, <1>7, DecreaseSteps
<1>8. ASSUME NEW x \in Piles, NEW n \in Amounts(world, x), SplitOff(x, n)
      PROVE  Numbered(world', {})
  <2>1. PICK new \in Piles \ {x} :
            /\ world.env[new] = NULL /\ world'.env = [world.env EXCEPT ![new] = world.env[x]]
            /\ world'.nrof = [world.nrof EXCEPT ![x] = @ - n, ![new] = n]
    BY <1>8, SplitOffSteps
  <2>2. /\ Sound(world') /\ world.env[x] # NULL /\ n \in Nat /\ n # 0 /\ n < world.nrof[x]
    BY <1>8, SplitOffSteps
  <2>3. world \in Raw /\ world' \in Raw /\ \A q \in Piles : world.nrof[q] \in Nat
    BY <2>2 DEF Sound, Counted
  <2>4. /\ world'.nrof[x] = world.nrof[x] - n /\ world'.nrof[new] = n
        /\ \A q \in Piles \ {x, new} : world'.nrof[q] = world.nrof[q]
        /\ \A q \in Piles : world'.env[q] = IF q = new THEN world.env[x] ELSE world.env[q]
    BY <2>1, <2>3 DEF Raw, Things
  <2>5. world.nrof[new] = 0 BY <2>1 DEF Numbered
  <2>6. Units(world') = Units(world)
    <3>1. world'.nrof[x] + world'.nrof[new] = world.nrof[x] + world.nrof[new]
      BY <2>2, <2>3, <2>4, <2>5
    <3> QED BY <2>3, <2>4, <3>1, UnitsMoved
  <2>7. world'.nrof[x] # 0 /\ world.nrof[x] # 0 BY <2>2, <2>3, <2>4
  <2> QED BY <2>2, <2>4, <2>6, <2>7 DEF Numbered
<1>9. ASSUME NEW x \in Piles, Merge(x) PROVE Numbered(world', {})
  <2>1. PICK o \in Mergeable(world, x, world.env[x]) : MergedIn(world, x, o, world')
    BY <1>9, MergeSteps
  <2>2. Sound(world') /\ world.env[x] # NULL BY <1>9, MergeSteps
  <2>3. world \in Raw /\ world' \in Raw /\ \A q \in Piles : world.nrof[q] \in Nat
    BY <2>2 DEF Sound, Counted
  <2>4. o \in Piles \ {x} /\ world.env[o] = world.env[x] BY DEF Mergeable
  <2>5. /\ world'.nrof[o] = world.nrof[o] + world.nrof[x] /\ world'.nrof[x] = 0
        /\ \A q \in Piles \ {x, o} : world'.nrof[q] = world.nrof[q]
        /\ \A q \in Piles : world'.env[q] = IF q = x THEN NULL ELSE world.env[q]
    BY <2>1, <2>3, <2>4 DEF Raw, Things, MergedIn
  <2>6. Units(world') = Units(world)
    <3>1. world'.nrof[x] + world'.nrof[o] = world.nrof[x] + world.nrof[o] BY <2>3, <2>4, <2>5
    <3> QED BY <2>3, <2>4, <2>5, <3>1, UnitsMoved
  <2>7. world'.nrof[o] # 0 /\ world.nrof[o] # 0 BY <2>2, <2>3, <2>4, <2>5 DEF Numbered
  <2> QED BY <2>4, <2>5, <2>6, <2>7 DEF Numbered
<1>10. ASSUME NEW c \in Containers, Destroy(c) PROVE Numbered(world', {})
  <2>1. Sound(world') /\ GoneFrom(world, c, world') BY <1>10, DestroyedFacts DEF Destroy
  <2>2. \A q \in Piles : world.nrof[q] \in Nat BY DEF Sound, Counted
  <2>3. \A q \in Piles :
            /\ world'.nrof[q] = IF q \in Inside(world, c) THEN 0 ELSE world.nrof[q]
            /\ world'.env[q] = IF q \in Inside(world, c) THEN NULL ELSE world.env[q]
    BY <2>1 DEF GoneFrom, Things
  <2>4. \A q \in Piles : /\ world'.nrof[q] <= world.nrof[q]
                         /\ \/ world'.nrof[q] = 0 /\ world'.env[q] = NULL
                            \/ /\ world'.env[q] = world.env[q]
                               /\ world'.nrof[q] = 0 <=> world.nrof[q] = 0
    BY <2>2, <2>3
  <2> QED BY <2>1, <2>4, NumberedFewer
<1>11. CASE UNCHANGED world BY <1>11
<1>12. \A p \in Players : PlayerActs(p) => Numbered(world', {})
  BY <1>1, <1>2, <1>3, <1>4, <1>5 DEF PlayerActs
<1>13. /\ \A c \in Containers : c \in Things /\ c \notin Piles
       /\ \A o \in Piles : o \in Things
       /\ \A n \in 1 .. MaxUnits : n \in Nat /\ n # 0
  BY Kinds, ConstantsAssumption DEF Things
<1>14. CASE \/ \E c \in Containers, s \in Squares : Appear(c, 0, s)
            \/ \E o \in Piles, n \in 1 .. MaxUnits, s \in Squares : Appear(o, n, s)
  <2>1. ASSUME NEW c \in Containers, NEW s \in Squares, Appear(c, 0, s)
        PROVE  Numbered(world', {})
    BY <2>1, <1>6, <1>13
  <2>2. ASSUME NEW o \in Piles, NEW n \in 1 .. MaxUnits, NEW s \in Squares, Appear(o, n, s)
        PROVE  Numbered(world', {})
    BY <2>2, <1>6, <1>13
  <2> QED BY <1>14, <2>1, <2>2
<1> QED BY <1>7, <1>8, <1>9, <1>10, <1>11, <1>12, <1>14 DEF Next

LEMMA SoundNext == Sound(world) /\ Numbered(world, {}) /\ [Next]_world => Sound(world')
<1> SUFFICES ASSUME Sound(world), Numbered(world, {}), [Next]_world PROVE Sound(world')
  OBVIOUS
<1>1. CASE \E p \in Players : PlayerActs(p)
  <2> SUFFICES ASSUME NEW p \in Players, PlayerActs(p) PROVE Sound(world') BY <1>1
  <2>1. ASSUME NEW c \in Containers, Apply(p, c) PROVE Sound(world') BY <2>1, ApplySteps
  <2>2. ASSUME NEW x \in Things, NEW n \in Counts, PickUp(p, x, n)
        PROVE  Sound(world')
    BY <2>2, PickUpSteps DEF PutAs
  <2>3. ASSUME NEW x \in Things, NEW n \in Amounts(world, x), Drop(p, x, n)
        PROVE  Sound(world')
    BY <2>3, DropSteps
  <2>4. ASSUME NEW x \in Things, NEW n \in Amounts(world, x), NEW c \in Containers,
               PutIn(p, x, n, c)
        PROVE  Sound(world')
    BY <2>4, PutInSteps DEF PutAs
  <2>5. CASE (\E s \in Squares : Walk(p, s)) \/ LogOut(p) \/ LogIn(p)
    BY <2>5, WhereaboutsSteps
  <2> QED BY <2>1, <2>2, <2>3, <2>4, <2>5 DEF PlayerActs
<1>2. ASSUME NEW x \in Things, NEW n \in Nat, NEW s \in Squares, Appear(x, n, s)
      PROVE  Sound(world')
  BY <1>2, AppearSteps DEF OnMapAs
<1>3. ASSUME NEW o \in Piles, NEW n \in Amounts(world, o), Decrease(o, n) \/ SplitOff(o, n)
      PROVE  Sound(world')
  BY <1>3, DecreaseSteps, SplitOffSteps
<1>4. ASSUME NEW c \in Containers, Destroy(c) PROVE Sound(world')
  BY <1>4, DestroyedFacts DEF Destroy
<1>5. ASSUME NEW o \in Piles, Merge(o) PROVE Sound(world') BY <1>5, MergeSteps
<1>6. CASE UNCHANGED world BY <1>6
<1>7. \A n \in 1 .. MaxUnits : n \in Nat BY ConstantsAssumption
<1> QED BY <1>1, <1>2, <1>3, <1>4, <1>5, <1>6, <1>7 DEF Next, Things

(* The invariant that the first properties follow from                     *)
AllNumbered == Sound(world) /\ Numbered(world, {})

LEMMA AlwaysNumbered == Spec => []AllNumbered
<1>1. Init => AllNumbered BY SoundInit, NumberedInit DEF AllNumbered
<1>2. AllNumbered /\ [Next]_world => AllNumbered' BY SoundNext, NumberedNext DEF AllNumbered
<1> QED BY <1>1, <1>2, PTL DEF Spec

(* Following env from any thing leads to a square or a player.             *)
THEOREM NeverInItself == Spec => []NothingInItself
<1>1. AllNumbered => NothingInItself BY DEF AllNumbered, Sound, Places, NothingInItself
<1> QED BY <1>1, AlwaysNumbered, PTL

(* Whatever is moved, split, merged, destroyed or loaded, what a holder    *)
(* carries is the weight of its contents, reduced once for every magical   *)
(* container, and the full sum that a magical container keeps is exact.    *)
THEOREM AlwaysRight == Spec => []WeightsRight
<1>1. AllNumbered => WeightsRight BY DEF AllNumbered, Sound, Right, WeightsRight, Contents
<1> QED BY <1>1, AlwaysNumbered, PTL

(* The list of a container has just the players who look into it, linked   *)
(* both ways, and they are in the game, as is the container.               *)
THEOREM ListsAgree == Spec => []ViewersAgree
<1>1. ASSUME AllNumbered PROVE ViewersAgree
  <2>0. world \in Raw /\ Lists(world) /\ Opened(world) BY <1>1 DEF AllNumbered, Sound
  <2>1. ASSUME NEW c \in Containers
        PROVE  /\ {p \in Players : world.container[p] = c} = Listed(world, c)
               /\ world.newest[c] # NULL => /\ world.below[world.newest[c]] = NULL
                                            /\ c \in world.applied /\ world.env[c] # NULL
    <3>1. Listed(world, c) = {p \in Players : world.container[p] = c} BY <2>0, ListedIsViewers
    <3>2. ASSUME world.newest[c] # NULL
          PROVE  /\ world.below[world.newest[c]] = NULL
                 /\ c \in world.applied /\ world.env[c] # NULL
      <4>1. world.newest[c] \in Players /\ world.container[world.newest[c]] = c
        BY <2>0, <3>2 DEF Lists, Heads, Raw
      <4>2. c # NULL BY Kinds
      <4> QED BY <2>0, <4>1, <4>2 DEF Lists, Heads, Opened
    <3> QED BY <3>1, <3>2
  <2>2. \A p, q \in Players : world.above[p] = q <=> world.below[q] = p
    BY <2>0 DEF Lists, Linked
  <2>3. \A p \in Players : world.container[p] # NULL => Present(p)
    BY <2>0 DEF Opened, Present
  <2> QED BY <2>1, <2>2, <2>3 DEF ViewersAgree
<1> QED BY <1>1, AlwaysNumbered, PTL

LEMMA NumberedIsType == AllNumbered => TypeOK
<1> SUFFICES ASSUME AllNumbered PROVE TypeOK OBVIOUS
<1>1. /\ world \in Raw /\ Counted(world) /\ Right(world, world.carrying, world.sum)
      /\ Numbered(world, {})
  BY DEF AllNumbered, Sound
<1>2. ASSUME NEW o \in Piles PROVE world.nrof[o] \in 0 .. MaxUnits
  <2>1. world.nrof[o] <= Units(world) /\ Units(world) \in Int BY <1>1, UnitsOfOne, UnitsIsSum
  <2>2. world.nrof[o] \in Nat /\ Units(world) <= MaxUnits BY <1>1 DEF Counted, Numbered
  <2> QED BY <2>1, <2>2, ConstantsAssumption
<1>3. world.carrying \in [Holders -> Nat] /\ world.sum \in [Magical -> Nat] BY <1>1 DEF Right
<1>4. world.nrof \in [Piles -> 0 .. MaxUnits] BY <1>1, <1>2 DEF Raw
<1>5. world \in World BY <1>1, <1>3, <1>4 DEF Raw, World
<1>6. \A o \in Piles : world.nrof[o] = 0 <=> world.env[o] = NULL BY <1>1 DEF Numbered
<1> QED BY <1>5, <1>6 DEF TypeOK

(* No weight and no number of units ever wraps below zero or grows beyond  *)
(* the units that there are, and a pile exists just as long as it has      *)
(* units, however things are split, merged, moved and destroyed.           *)
THEOREM TypeCorrect == Spec => []TypeOK
<1> QED BY AlwaysNumbered, NumberedIsType, PTL

---------------------------------------------------------------------------
(* Limits: what was within its limit stays within it.                      *)

Kept(w, z) == \A c \in Containers : Within(w, c) => Within(z, c)

LEMMA PeeledFacts ==
    ASSUME NEW w \in Raw
    PROVE  /\ Peeled(w) \in Raw /\ Peeled(w).nrof = w.nrof
           /\ \A x \in Things \cup Players :
                  Peeled(w).env[x] = IF x \in Magical /\ w.env[x] \in Magical THEN NULL
                                     ELSE w.env[x]
           /\ \A g \in Containers :
                  In(Peeled(w), g) = {x \in In(w, g) : ~(x \in Magical /\ g \in Magical)}
<1> DEFINE e == [x \in Things \cup Players |->
                     IF x \in Magical /\ w.env[x] \in Magical THEN NULL ELSE w.env[x]]
<1>1. e \in [Things \cup Players -> Holders \cup Squares \cup {NULL}] BY DEF Raw
<1>2. Peeled(w) = [w EXCEPT !.env = e] BY DEF Peeled
<1>3. \A x \in Things \cup Players :
          e[x] = IF x \in Magical /\ w.env[x] \in Magical THEN NULL ELSE w.env[x]
  OBVIOUS
<1> HIDE DEF e
<1>4. Peeled(w) \in Raw /\ Peeled(w).nrof = w.nrof /\ Peeled(w).env = e
  BY <1>1, <1>2 DEF Raw
<1>5. ASSUME NEW g \in Containers
      PROVE  In(Peeled(w), g) = {x \in In(w, g) : ~(x \in Magical /\ g \in Magical)}
  <2>1. g # NULL BY Kinds
  <2>2. \A x \in Things : e[x] = g <=> (w.env[x] = g /\ ~(x \in Magical /\ g \in Magical))
    BY <1>3, <2>1
  <2> QED BY <1>4, <2>2 DEF In
<1> QED BY <1>3, <1>4, <1>5

LEMMA ReducedAtMost ==
    ASSUME NEW h, NEW m \in Int, NEW n \in Int, m <= n
    PROVE  Reduced(h, m) <= Reduced(h, n)
<1>1. m \div 2 <= n \div 2 BY HalfIsWhole
<1> QED BY <1>1 DEF Reduced

LEMMA FilledAtMost ==
    ASSUME NEW z \in Raw, NEW w \in Raw, Counted(w),
           NEW c, \A g \in Containers : c[g] \in Int,
           NEW k, \A g \in Containers : k[g] \in Nat, NEW h,
           In(z, h) \subseteq In(w, h),
           \A x \in In(z, h) \cap Containers : c[x] <= k[x],
           \A q \in In(z, h) \cap Piles : z.nrof[q] <= w.nrof[q]
    PROVE  Filled(z, c, h) <= Filled(w, k, h)
<1> DEFINE f == Load(z.nrof, c)
           g == Load(w.nrof, k)
<1>0. \A x \in Containers : k[x] \in Int OBVIOUS
<1>1. /\ Filled(z, c, h) = SumFunctionOnSet(f, In(z, h))
      /\ Filled(w, k, h) = SumFunctionOnSet(g, In(w, h)) /\ IsFiniteSet(In(w, h))
      /\ In(w, h) \subseteq Things
  BY <1>0, FilledIsSum
<1>2. z.nrof \in [Piles -> Int] /\ w.nrof \in [Piles -> Int] BY DEF Raw
<1>3. /\ \A x \in Things : f[x] \in Int /\ g[x] \in Int
      /\ \A x \in Containers : f[x] = 1 + c[x] /\ g[x] = 1 + k[x]
      /\ \A x \in Piles : f[x] = z.nrof[x] /\ g[x] = w.nrof[x]
  BY <1>0, <1>2, LoadType
<1> HIDE DEF f, g
<1>4. \A x \in Things : g[x] \in Nat BY <1>3 DEF Counted, Things
<1>5. \A x \in In(z, h) : f[x] <= g[x]
  <2>1. ASSUME NEW x \in In(z, h), x \in Containers PROVE f[x] <= g[x]
    <3>1. c[x] <= k[x] /\ c[x] \in Int /\ k[x] \in Int BY <1>0, <2>1
    <3> QED BY <1>3, <2>1, <3>1
  <2>2. ASSUME NEW x \in In(z, h), x \in Piles PROVE f[x] <= g[x] BY <1>3, <2>2
  <2> QED BY <1>1, <2>1, <2>2 DEF Things
<1>6. \A x \in In(z, h) : f[x] \in Int /\ f[x] <= g[x] BY <1>1, <1>3, <1>5
<1>7. \A x \in In(w, h) : g[x] \in Nat BY <1>1, <1>4
<1>8. In(z, h) \in SUBSET In(w, h) OBVIOUS
<1> QED BY <1>1, <1>6, <1>7, <1>8, SumAtMost

(* Containers with nothing more in them than before, nor in what is in     *)
(* them, weigh no more ...                                                 *)
LEMMA Lighter ==
    ASSUME NEW w, Sound(w), NEW z, Sound(z), NEW G \in SUBSET Containers,
           \A d \in Containers : z.env[d] \in G => d \in G,
           \A g \in G : Filled(z, w.carrying, g) <= Filled(w, w.carrying, g)
    PROVE  \A g \in G : z.carrying[g] <= w.carrying[g]
<1>0. /\ w \in Raw /\ Right(w, w.carrying, w.sum) /\ z \in Raw /\ Places(z) /\ Counted(z)
      /\ Right(z, z.carrying, z.sum)
  BY DEF Sound
<1>1. \A g \in Holders : /\ w.carrying[g] = Reduced(g, Filled(w, w.carrying, g))
                         /\ z.carrying[g] = Reduced(g, Filled(z, z.carrying, g))
                         /\ w.carrying[g] \in Nat /\ z.carrying[g] \in Nat
  BY <1>0 DEF Right
<1>2. \A g \in Containers : /\ w.carrying[g] \in Nat /\ w.carrying[g] \in Int
                            /\ z.carrying[g] \in Int
  BY <1>1 DEF Holders
<1> DEFINE Heavier == {g \in G : ~(z.carrying[g] <= w.carrying[g])}
<1>3. Heavier = {}
  <2> SUFFICES ASSUME Heavier # {} PROVE FALSE OBVIOUS
  <2>1. PICK c \in Heavier : \A d \in Heavier : z.env[d] # c
    <3>1. Heavier \in SUBSET Containers OBVIOUS
    <3> HIDE DEF Heavier
    <3> QED BY <1>0, <3>1, Innermost
  <2>2. \A d \in In(z, c) \cap Containers : z.carrying[d] <= w.carrying[d] BY <2>1 DEF In
  <2>3. \A q \in In(z, c) \cap Piles : z.nrof[q] <= z.nrof[q] BY <1>0 DEF Raw
  <2>4. Filled(z, z.carrying, c) <= Filled(z, w.carrying, c)
    BY <1>0, <1>2, <2>2, <2>3, FilledAtMost
  <2>5. /\ Filled(z, z.carrying, c) \in Int /\ Filled(z, w.carrying, c) \in Int
        /\ Filled(w, w.carrying, c) \in Int
    BY <1>0, <1>2, FilledIsSum
  <2>6. Filled(z, w.carrying, c) <= Filled(w, w.carrying, c) /\ c \in Holders
    BY <2>1 DEF Holders
  <2>7. Filled(z, z.carrying, c) <= Filled(w, w.carrying, c) BY <2>4, <2>5, <2>6
  <2>8. Reduced(c, Filled(z, z.carrying, c)) <= Reduced(c, Filled(w, w.carrying, c))
    BY <2>5, <2>7, ReducedAtMost
  <2> QED BY <1>1, <2>1, <2>6, <2>8
<1> QED BY <1>3

(* ... and fit where they did.                                             *)
LEMMA LighterFits ==
    ASSUME NEW w, Sound(w), NEW z, Sound(z), NEW G \in SUBSET Containers,
           \A d \in Containers : z.env[d] \in G => d \in G,
           \A g \in G : Filled(z, w.carrying, g) <= Filled(w, w.carrying, g),
           \A g \in G : Filled(Peeled(z), w.carrying, g) <= Filled(Peeled(w), w.carrying, g)
    PROVE  \A g \in G : Within(w, g) => Within(z, g)
<1> SUFFICES ASSUME NEW g \in G, Within(w, g) PROVE Within(z, g) OBVIOUS
<1>1. \A d \in G : z.carrying[d] <= w.carrying[d] BY Lighter
<1>2. w \in Raw /\ z \in Raw /\ Peeled(w) \in Raw /\ Peeled(z) \in Raw
  BY PeeledFacts DEF Sound
<1>3. \A d \in Containers : /\ w.carrying[d] \in Nat /\ w.carrying[d] \in Int
                            /\ z.carrying[d] \in Int
  BY DEF Sound, Right, Holders
<1>4. \A d \in In(Peeled(z), g) \cap Containers : z.carrying[d] <= w.carrying[d]
  BY <1>1, <1>2, PeeledFacts DEF In
<1>5. Counted(Peeled(z)) /\ \A q \in In(Peeled(z), g) \cap Piles :
                                Peeled(z).nrof[q] <= Peeled(z).nrof[q]
  BY <1>2, PeeledFacts DEF Sound, Counted
<1>6. Filled(Peeled(z), z.carrying, g) <= Filled(Peeled(z), w.carrying, g)
  BY <1>2, <1>3, <1>4, <1>5, FilledAtMost
<1>7. /\ Filled(Peeled(z), z.carrying, g) \in Int /\ Filled(Peeled(z), w.carrying, g) \in Int
      /\ Filled(Peeled(w), w.carrying, g) \in Int
  BY <1>2, <1>3, FilledIsSum
<1>8. Filled(Peeled(z), z.carrying, g) <= Filled(Peeled(w), w.carrying, g) BY <1>6, <1>7
<1>9. Reduced(g, Filled(Peeled(z), z.carrying, g)) <= Reduced(g, Filled(Peeled(w), w.carrying, g))
  BY <1>7, <1>8, ReducedAtMost
<1>10. /\ Reduced(g, Filled(Peeled(z), z.carrying, g)) \in Int
       /\ Reduced(g, Filled(Peeled(w), w.carrying, g)) \in Int /\ Limit[g] \in Int
  BY <1>7, ReducedType, ConstantsAssumption
<1> QED BY <1>9, <1>10 DEF Within

(* Nothing has come into the containers of G.                              *)
Shrunk(z, w, G) ==
    \A g \in G : /\ In(z, g) \subseteq In(w, g)
                 /\ \A q \in In(z, g) \cap Piles : z.nrof[q] <= w.nrof[q]

LEMMA ShrunkFits ==
    ASSUME NEW w, Sound(w), NEW z, Sound(z), NEW G \in SUBSET Containers,
           \A d \in Containers : z.env[d] \in G => d \in G,
           Shrunk(z, w, G)
    PROVE  \A g \in G : (Within(w, g) => Within(z, g)) /\ z.carrying[g] <= w.carrying[g]
<1>1. /\ w \in Raw /\ z \in Raw /\ Counted(w) /\ Peeled(w) \in Raw /\ Peeled(z) \in Raw
      /\ Counted(Peeled(w))
  BY PeeledFacts DEF Sound, Counted
<1>2. \A d \in Containers : /\ w.carrying[d] \in Nat /\ w.carrying[d] \in Int
                            /\ w.carrying[d] <= w.carrying[d]
  BY DEF Sound, Right, Holders
<1>3. ASSUME NEW g \in G PROVE Filled(z, w.carrying, g) <= Filled(w, w.carrying, g)
  <2>1. /\ In(z, g) \subseteq In(w, g) /\ \A q \in In(z, g) \cap Piles : z.nrof[q] <= w.nrof[q]
        /\ \A d \in In(z, g) \cap Containers : w.carrying[d] <= w.carrying[d]
    BY <1>2 DEF Shrunk
  <2> QED BY <1>1, <1>2, <2>1, FilledAtMost
<1>4. ASSUME NEW g \in G
      PROVE  Filled(Peeled(z), w.carrying, g) <= Filled(Peeled(w), w.carrying, g)
  <2>1. /\ In(Peeled(z), g) \subseteq In(Peeled(w), g)
        /\ \A q \in In(Peeled(z), g) \cap Piles : Peeled(z).nrof[q] <= Peeled(w).nrof[q]
        /\ \A d \in In(Peeled(z), g) \cap Containers : w.carrying[d] <= w.carrying[d]
    BY <1>1, <1>2, PeeledFacts DEF Shrunk
  <2> QED BY <1>1, <1>2, <2>1, FilledAtMost
<1>5. \A g \in G : z.carrying[g] <= w.carrying[g] BY <1>3, Lighter
<1>6. \A g \in G : Within(w, g) => Within(z, g) BY <1>3, <1>4, LighterFits
<1> QED BY <1>5, <1>6

LEMMA AllShrunk ==
    ASSUME NEW w, Sound(w), NEW z, Sound(z),
           \A x \in Things : z.env[x] \in Containers => z.env[x] = w.env[x],
           \A q \in Piles : z.env[q] \in Containers => z.nrof[q] <= w.nrof[q]
    PROVE  Kept(w, z) /\ \A g \in Containers : z.carrying[g] <= w.carrying[g]
<1>1. Shrunk(z, w, Containers) BY DEF Shrunk, In, Things
<1>2. \A g \in Containers : (Within(w, g) => Within(z, g)) /\ z.carrying[g] <= w.carrying[g]
  BY <1>1, ShrunkFits
<1> QED BY <1>2 DEF Kept

LEMMA FitsTaken ==
    ASSUME NEW w, Sound(w), NEW x \in Things, NEW n \in Amounts(w, x),
           NEW y, NEW o, NEW u, TakenAs(w, y, x, n, o, u)
    PROVE  /\ Kept(w, u) /\ \A g \in Containers : u.carrying[g] <= w.carrying[g]
           /\ Whole(u, o) <= Weight(w, x, n) /\ Weight(w, x, n) \in Int
<1>0. /\ Sound(u) /\ w \in Raw /\ u \in Raw /\ NULL \notin Containers
      /\ \A q \in Piles : w.nrof[q] \in Nat
      /\ \A g \in Containers : w.carrying[g] \in Nat /\ u.carrying[g] \in Nat
  BY Kinds DEF TakenAs, Sound, Counted, Right, Holders
<1>1. x \in Piles => n \in Nat BY <1>0 DEF Amounts
<1>2. /\ \A d \in Things : u.env[d] \in Containers => u.env[d] = w.env[d]
      /\ \A q \in Piles : u.env[q] \in Containers => u.nrof[q] <= w.nrof[q]
  <2>1. CASE o = x /\ u.env = [w.env EXCEPT ![x] = NULL] /\ u.nrof = w.nrof
    <3>1. \A d \in Things : u.env[d] = IF d = x THEN NULL ELSE w.env[d] BY <2>1, <1>0 DEF Raw
    <3> QED BY <1>0, <2>1, <3>1
  <2>2. CASE /\ x \in Piles /\ o \in Piles \ {x} /\ w.env[o] = NULL /\ n < w.nrof[x]
             /\ u.env = w.env /\ u.nrof = [w.nrof EXCEPT ![x] = @ - n, ![o] = n]
    <3>1. \A q \in Piles : u.nrof[q] = IF q = o THEN n ELSE IF q = x THEN w.nrof[x] - n
                                       ELSE w.nrof[q]
      BY <2>2, <1>0 DEF Raw
    <3> QED BY <1>0, <1>1, <2>2, <3>1
  <2> QED BY <2>1, <2>2 DEF TakenAs
<1>3. Kept(w, u) /\ \A g \in Containers : u.carrying[g] <= w.carrying[g]
  BY <1>0, <1>2, AllShrunk
<1>4. CASE x \in Piles
  <2>1. Weight(w, x, n) = n BY <1>1, <1>4, PileWeight
  <2>2. o \in Piles /\ u.nrof[o] = n
    <3>1. CASE o = x /\ u.nrof = w.nrof /\ n = w.nrof[x] BY <1>4, <3>1
    <3>2. CASE o \in Piles \ {x} /\ u.nrof = [w.nrof EXCEPT ![x] = @ - n, ![o] = n]
      BY <3>2, <1>0 DEF Raw
    <3> QED BY <1>4, <3>1, <3>2 DEF TakenAs
  <2>3. Whole(u, o) = n BY <1>1, <1>4, <2>2, PileWeight DEF Whole
  <2> QED BY <1>1, <1>3, <1>4, <2>1, <2>3
<1>5. CASE x \in Containers
  <2>1. o = x BY <1>5, Kinds DEF TakenAs
  <2>2. Weight(w, x, n) = 1 + w.carrying[x] /\ Whole(u, o) = 1 + u.carrying[x]
    BY <1>5, <2>1 DEF Whole, Weight, Own
  <2> QED BY <1>0, <1>3, <1>5, <2>2
<1> QED BY <1>4, <1>5 DEF Things

(* sack_can_hold() for the whole of a thing                                *)
Room(w, h, x) ==
    Limit[h] # 0 => IF h \in Magical THEN 2 * w.carrying[h] + Whole(w, x) <= 2 * Limit[h]
                                     ELSE w.carrying[h] + Whole(w, x) <= Limit[h]

LEMMA RoomTaken ==
    ASSUME NEW w, Sound(w), NEW x \in Things, NEW n \in Amounts(w, x),
           NEW y, NEW o, NEW u, TakenAs(w, y, x, n, o, u),
           NEW h \in Containers, CanHold(w, h, x, n)
    PROVE  Room(u, h, o)
<1>1. /\ u.carrying[h] <= w.carrying[h] /\ Whole(u, o) <= Weight(w, x, n)
      /\ Weight(w, x, n) \in Int
  BY FitsTaken
<1>2. /\ u \in Raw /\ o \in Things /\ w.carrying[h] \in Nat /\ u.carrying[h] \in Nat
      /\ Limit[h] \in Nat
  BY ConstantsAssumption DEF TakenAs, Sound, Right, Holders
<1>3. Whole(u, o) \in Int BY <1>2, WholeIsLoad
<1>4. Claimed(w, x, n) = Weight(w, x, n) BY ClaimedIsWeight DEF Sound
<1> QED BY <1>1, <1>2, <1>3, <1>4 DEF CanHold, Room

(* What is put into one that is in no other container                      *)
LEMMA FilledPut ==
    ASSUME NEW w, Sound(w), NEW x \in Things, w.env[x] = NULL, NEW h \in Containers,
           h # x, NEW z, PutAs(w, x, h, z)
    PROVE  Filled(Peeled(z), w.carrying, h)
             = Filled(Peeled(w), w.carrying, h) + (IF BothMagical(x, h) THEN 0 ELSE Whole(w, x))
<1>0. /\ w \in Raw /\ z \in Raw /\ Peeled(w) \in Raw /\ Peeled(z) \in Raw
      /\ Peeled(w).nrof = w.nrof /\ Peeled(z).nrof = z.nrof /\ h # NULL
      /\ \A g \in Containers : w.carrying[g] \in Int
  BY PeeledFacts, Kinds DEF PutAs, Sound, Right, Holders
<1> DEFINE k == w.carrying
           pw == Peeled(w)
           pz == Peeled(z)
<1>1. Filled(pw, k, h) \in Int /\ Filled(pz, k, h) \in Int BY <1>0, FilledIsSum
<1>2. CASE z.env = [w.env EXCEPT ![x] = h] /\ z.nrof = w.nrof
  <2>1. \A e \in Things : z.env[e] = IF e = x THEN h ELSE w.env[e] BY <1>0, <1>2 DEF Raw
  <2>2. In(z, h) = In(w, h) \cup {x} /\ x \notin In(w, h) BY <1>0, <2>1 DEF In
  <2>3. /\ In(pw, h) = {e \in In(w, h) : ~(e \in Magical /\ h \in Magical)}
        /\ In(pz, h) = {e \in In(z, h) : ~(e \in Magical /\ h \in Magical)}
    BY <1>0, PeeledFacts
  <2>4. CASE BothMagical(x, h)
    <3>1. In(pz, h) = In(pw, h) BY <2>2, <2>3, <2>4 DEF BothMagical
    <3>2. pw \in Raw /\ pz \in Raw /\ pw.nrof = w.nrof /\ pz.nrof = w.nrof BY <1>0, <1>2
    <3> HIDE DEF pw, pz, k
    <3>3. \A g \in Containers : k[g] \in Int BY <1>0 DEF k
    <3>4. Filled(pz, k, h) = Filled(pw, k, h) BY <3>1, <3>2, <3>3, FilledSame
    <3> QED BY <1>1, <2>4, <3>4 DEF pw, pz, k
  <2>5. CASE ~BothMagical(x, h)
    <3>1. In(pz, h) = In(pw, h) \cup {x} /\ x \notin In(pw, h)
      BY <2>2, <2>3, <2>5 DEF BothMagical
    <3>2. pw \in Raw /\ pz \in Raw /\ pw.nrof = w.nrof /\ pz.nrof = w.nrof BY <1>0, <1>2
    <3>3. Whole(w, x) = Load(w.nrof, k)[x] BY <1>0, WholeIsLoad
    <3>4. \A g \in Containers : k[g] \in Int BY <1>0
    <3> HIDE DEF pw, pz, k
    <3>5. Filled(pz, k, h) = Filled(pw, k, h) + Load(pz.nrof, k)[x]
      BY <3>1, <3>2, <3>4, FilledMore
    <3>6. Filled(pz, k, h) = Filled(pw, k, h) + Whole(w, x) BY <3>2, <3>3, <3>5
    <3> QED BY <2>5, <3>6 DEF pw, pz, k
  <2> QED BY <2>4, <2>5
<1>3. CASE /\ x \in Piles /\ z.env = w.env
           /\ \E o \in Mergeable(w, x, h) :
                  z.nrof = [w.nrof EXCEPT ![o] = w.nrof[o] + w.nrof[x], ![x] = 0]
  <2>1. PICK o \in Mergeable(w, x, h) :
            z.nrof = [w.nrof EXCEPT ![o] = w.nrof[o] + w.nrof[x], ![x] = 0]
    BY <1>3
  <2>2. o \in Piles \ {x} /\ w.env[o] = h /\ o \notin Magical /\ x \notin Magical
    BY <1>3, Kinds, ConstantsAssumption DEF Mergeable
  <2>3. \A e \in Things \cup Players : pz.env[e] = pw.env[e]
    BY <1>0, <1>3, PeeledFacts
  <2>4. /\ pz.env = pw.env /\ pw.env[o] = h /\ pw.env[x] = NULL
    <3>1. pz.env = pw.env BY <1>0, <2>3 DEF Raw
    <3>2. pw.env[o] = h /\ pw.env[x] = NULL BY <1>0, <2>2, PeeledFacts DEF Things
    <3> QED BY <3>1, <3>2
  <2>5. /\ z.nrof[o] = w.nrof[o] + w.nrof[x] /\ w.nrof[o] \in Int /\ w.nrof[x] \in Int
        /\ \A q \in Piles \ {o, x} : z.nrof[q] = w.nrof[q]
    BY <1>0, <1>3, <2>1, <2>2 DEF Raw
  <2>6. pw \in Raw /\ pz \in Raw /\ pw.nrof = w.nrof /\ pz.nrof = z.nrof BY <1>0
  <2>7. \A g \in Containers : k[g] \in Int BY <1>0
  <2>8. Whole(w, x) = w.nrof[x] BY <1>3, <2>5, PileWeight DEF Whole
  <2>9. ~BothMagical(x, h) BY <2>2 DEF BothMagical
  <2> HIDE DEF pw, pz, k
  <2>10. \A q \in Piles \ {o} : pw.env[q] = h => pz.nrof[q] = pw.nrof[q]
    BY <1>0, <2>4, <2>5, <2>6
  <2>11. Filled(pz, k, h)
           = Filled(pw, k, h) + (IF h = pw.env[o] THEN pz.nrof[o] - pw.nrof[o] ELSE 0)
    BY <2>2, <2>4, <2>6, <2>7, <2>10, FilledUnits
  <2>12. pz.nrof[o] - pw.nrof[o] = Whole(w, x) BY <2>5, <2>6, <2>8
  <2>13. Filled(pz, k, h) = Filled(pw, k, h) + Whole(w, x) BY <2>4, <2>11, <2>12
  <2> QED BY <2>9, <2>13 DEF pw, pz, k
<1> QED BY <1>2, <1>3 DEF PutAs

LEMMA FitsPut ==
    ASSUME NEW w, Sound(w), NEW x \in Things, w.env[x] = NULL, NEW h \in Holders,
           h \in Containers => h \in w.applied /\ h # x,
           NEW z, PutAs(w, x, h, z)
    PROVE  /\ \A g \in Containers \ {h} : Within(w, g) => Within(z, g)
           /\ h \in Containers /\ (Room(w, h, x) \/ BothMagical(x, h)) => Kept(w, z)
<1> DEFINE G == Containers \ {h}
<1>0. /\ w \in Raw /\ z \in Raw /\ Sound(z) /\ Opened(w) /\ NULL \notin Containers
      /\ \A q \in Piles : w.nrof[q] \in Nat
  BY Kinds DEF PutAs, Sound, Counted
<1>1. \A e \in Things : z.env[e] = w.env[e] \/ (e = x /\ z.env[e] = h) BY <1>0 DEF PutAs, Raw
<1>2. Shrunk(z, w, G)
  <2>1. \A q \in Piles : z.env[q] \in G => z.nrof[q] = w.nrof[q]
    <3>1. CASE z.nrof = w.nrof BY <3>1
    <3>2. CASE /\ x \in Piles /\ z.env = w.env
               /\ \E o \in Mergeable(w, x, h) :
                      z.nrof = [w.nrof EXCEPT ![o] = w.nrof[o] + w.nrof[x], ![x] = 0]
      <4>1. PICK o \in Mergeable(w, x, h) :
                z.nrof = [w.nrof EXCEPT ![o] = w.nrof[o] + w.nrof[x], ![x] = 0]
        BY <3>2
      <4>2. o \in Piles \ {x} /\ w.env[o] = h BY DEF Mergeable
      <4>3. \A q \in Piles \ {o, x} : z.nrof[q] = w.nrof[q] BY <4>1, <1>0 DEF Raw
      <4> QED BY <1>0, <3>2, <4>2, <4>3
    <3> QED BY <3>1, <3>2 DEF PutAs
  <2> QED BY <1>0, <1>1, <2>1 DEF Shrunk, In, Things
<1>3. G \in SUBSET Containers /\ \A d \in Containers : z.env[d] \in G => d \in G
  <2> SUFFICES ASSUME h \in Containers, z.env[h] \in Containers PROVE FALSE OBVIOUS
  <2>1. w.env[h] \notin Containers BY <1>0 DEF Opened
  <2>2. z.env[h] = w.env[h] BY <1>1 DEF Things
  <2> QED BY <2>1, <2>2
<1>4. \A g \in G : (Within(w, g) => Within(z, g)) /\ z.carrying[g] <= w.carrying[g]
  <2> HIDE DEF G
  <2> QED BY <1>0, <1>2, <1>3, ShrunkFits
<1>5. ASSUME h \in Containers, Within(w, h), Room(w, h, x) \/ BothMagical(x, h)
      PROVE  Within(z, h)
  <2>0. /\ Peeled(w) \in Raw /\ Peeled(z) \in Raw /\ Counted(Peeled(z)) /\ Counted(Peeled(w))
        /\ \A g \in Containers : z.carrying[g] \in Nat /\ w.carrying[g] \in Nat
                                 /\ w.carrying[g] \in Int /\ z.carrying[g] \in Int
    BY <1>0, PeeledFacts DEF Sound, Counted, Right, Holders
  <2>1. Filled(Peeled(z), z.carrying, h) <= Filled(Peeled(z), w.carrying, h)
    <3>1. h \notin In(Peeled(z), h)
      <4>1. z.env[h] # h BY <1>0, <1>5, NotInside DEF Sound
      <4> QED BY <1>0, <1>5, <4>1, PeeledFacts DEF In
    <3>2. In(Peeled(z), h) \subseteq Things BY DEF In
    <3>3. \A d \in In(Peeled(z), h) \cap Containers : z.carrying[d] <= w.carrying[d]
      BY <1>4, <3>1
    <3>4. \A q \in In(Peeled(z), h) \cap Piles : Peeled(z).nrof[q] <= Peeled(z).nrof[q]
      BY <2>0 DEF Raw
    <3> QED BY <2>0, <3>3, <3>4, FilledAtMost
  <2>2. Filled(Peeled(z), w.carrying, h)
          = Filled(Peeled(w), w.carrying, h) + (IF BothMagical(x, h) THEN 0 ELSE Whole(w, x))
    BY <1>5, FilledPut
  <2>3. Filled(Peeled(w), w.carrying, h) <= Filled(w, w.carrying, h)
    <3>1. In(Peeled(w), h) \subseteq In(w, h) BY <1>0, <1>5, PeeledFacts
    <3>2. /\ \A d \in In(Peeled(w), h) \cap Containers : w.carrying[d] <= w.carrying[d]
          /\ Counted(w)
      BY <1>0, <2>0 DEF Counted
    <3>3. Peeled(w).nrof = w.nrof BY <1>0, PeeledFacts
    <3>4. \A q \in In(Peeled(w), h) \cap Piles : Peeled(w).nrof[q] <= w.nrof[q]
      BY <1>0, <3>3
    <3> QED BY <1>0, <2>0, <3>1, <3>2, <3>4, FilledAtMost
  <2>4. /\ Filled(Peeled(z), z.carrying, h) \in Int /\ Filled(Peeled(z), w.carrying, h) \in Int
        /\ Filled(Peeled(w), w.carrying, h) \in Int /\ Filled(w, w.carrying, h) \in Int
        /\ Whole(w, x) \in Int /\ Limit[h] \in Nat
    BY <1>0, <1>5, <2>0, FilledIsSum, WholeIsLoad, ConstantsAssumption
  <2>5. w.carrying[h] = Reduced(h, Filled(w, w.carrying, h)) BY DEF Sound, Right
  <2>6. CASE BothMagical(x, h)
    <3>1. Filled(Peeled(z), z.carrying, h) <= Filled(Peeled(w), w.carrying, h)
      BY <2>1, <2>2, <2>4, <2>6
    <3>2. Reduced(h, Filled(Peeled(z), z.carrying, h))
            <= Reduced(h, Filled(Peeled(w), w.carrying, h))
      BY <2>4, <3>1, ReducedAtMost
    <3>3. Within(w, h) BY <1>5
    <3>4. /\ Reduced(h, Filled(Peeled(z), z.carrying, h)) \in Int
          /\ Reduced(h, Filled(Peeled(w), w.carrying, h)) \in Int
      BY <2>4, ReducedType
    <3> QED BY <2>4, <3>2, <3>3, <3>4 DEF Within
  <2>7. CASE ~BothMagical(x, h)
    <3>1. Room(w, h, x) BY <1>5, <2>7
    <3>2. Filled(Peeled(z), z.carrying, h) <= Filled(w, w.carrying, h) + Whole(w, x)
      BY <2>1, <2>2, <2>3, <2>4, <2>7
    <3> DEFINE f == Filled(w, w.carrying, h)
               g == Filled(Peeled(z), z.carrying, h)
               m == Whole(w, x)
               c == w.carrying[h]
               l == Limit[h]
    <3>3. f \in Int /\ g \in Int /\ m \in Int /\ c \in Int /\ l \in Nat /\ g <= f + m
          /\ c = Reduced(h, f)
      BY <1>5, <2>0, <2>4, <2>5, <3>2
    <3>4. l # 0 => IF h \in Magical THEN 2 * c + m <= 2 * l ELSE c + m <= l
      BY <3>1 DEF Room
    <3> HIDE DEF f, g, m, c, l
    <3>5. l # 0 => Reduced(h, g) <= l
      <4>1. CASE h \in Magical
        <5>1. f <= 2 * c + 1 BY <3>3, <4>1, HalfIsWhole DEF Reduced
        <5>2. 2 * (g \div 2) <= g /\ g \div 2 \in Int BY <3>3, HalfIsWhole
        <5>3. l # 0 => 2 * (g \div 2) <= 2 * l + 1 BY <3>3, <3>4, <4>1, <5>1, <5>2
        <5> QED BY <3>3, <4>1, <5>2, <5>3 DEF Reduced
      <4>2. CASE h \notin Magical BY <3>3, <3>4, <4>2 DEF Reduced
      <4> QED BY <4>1, <4>2
    <3> QED BY <3>5 DEF Within, g, l
  <2> QED BY <2>6, <2>7
<1> QED BY <1>4, <1>5 DEF Kept

LEMMA FitsSame ==
    ASSUME NEW w, Sound(w), NEW z, Sound(z), NothingMoved(w, z)
    PROVE  Kept(w, z)
<1>1. \A q \in Piles : w.nrof[q] \in Int BY DEF Sound, Raw
<1>2. /\ \A x \in Things : z.env[x] \in Containers => z.env[x] = w.env[x]
      /\ \A q \in Piles : z.env[q] \in Containers => z.nrof[q] <= w.nrof[q]
  BY <1>1 DEF NothingMoved
<1> QED BY <1>2, AllShrunk

LEMMA FitsOnMap ==
    ASSUME NEW w, Sound(w), NEW x \in Things, NEW s \in Squares,
           NEW z, OnMapAs(w, x, s, z)
    PROVE  Kept(w, z)
<1>0. /\ w \in Raw /\ z \in Raw /\ Sound(z) /\ s \notin Containers /\ NULL \notin Containers
      /\ \A q \in Piles : w.nrof[q] \in Nat
  BY Kinds DEF OnMapAs, Sound, Counted
<1>1. CASE z.env = [w.env EXCEPT ![x] = s] /\ z.nrof = w.nrof
  <2>1. \A e \in Things : z.env[e] = IF e = x THEN s ELSE w.env[e] BY <1>0, <1>1 DEF Raw
  <2>2. /\ \A e \in Things : z.env[e] \in Containers => z.env[e] = w.env[e]
        /\ \A q \in Piles : z.env[q] \in Containers => z.nrof[q] <= w.nrof[q]
    BY <1>0, <1>1, <2>1
  <2> QED BY <1>0, <2>2, AllShrunk
<1>2. CASE /\ x \in Piles
           /\ \E o \in Mergeable(w, x, s) :
                  /\ z.env = [w.env EXCEPT ![x] = s, ![o] = NULL]
                  /\ z.nrof = [w.nrof EXCEPT ![x] = w.nrof[x] + w.nrof[o], ![o] = 0]
  <2>1. PICK o \in Mergeable(w, x, s) :
            /\ z.env = [w.env EXCEPT ![x] = s, ![o] = NULL]
            /\ z.nrof = [w.nrof EXCEPT ![x] = w.nrof[x] + w.nrof[o], ![o] = 0]
    BY <1>2
  <2>2. \A e \in Things : z.env[e] = IF e = o THEN NULL ELSE IF e = x THEN s ELSE w.env[e]
    BY <1>0, <2>1 DEF Raw
  <2>3. \A q \in Piles \ {x, o} : z.nrof[q] = w.nrof[q] BY <1>0, <2>1 DEF Raw
  <2>4. /\ \A e \in Things : z.env[e] \in Containers => z.env[e] = w.env[e]
        /\ \A q \in Piles : z.env[q] \in Containers => z.nrof[q] <= w.nrof[q]
    BY <1>0, <2>2, <2>3 DEF Things
  <2> QED BY <1>0, <2>4, AllShrunk
<1> QED BY <1>1, <1>2 DEF OnMapAs

LEMMA PeeledMerged ==
    ASSUME NEW w \in Raw, NEW z \in Raw, NEW x \in Piles, NEW o \in Piles \ {x},
           MergedIn(w, x, o, z)
    PROVE  MergedIn(Peeled(w), x, o, Peeled(z)) /\ Peeled(w).env[o] = w.env[o]
           /\ Peeled(w).env[x] = w.env[x]
<1>1. /\ Peeled(w) \in Raw /\ Peeled(z) \in Raw
      /\ Peeled(w).nrof = w.nrof /\ Peeled(z).nrof = z.nrof
      /\ \A e \in Things \cup Players :
             /\ Peeled(w).env[e] = IF e \in Magical /\ w.env[e] \in Magical THEN NULL
                                   ELSE w.env[e]
             /\ Peeled(z).env[e] = IF e \in Magical /\ z.env[e] \in Magical THEN NULL
                                   ELSE z.env[e]
  BY PeeledFacts
<1>2. x \notin Magical /\ o \notin Magical /\ NULL \notin Magical /\ {x, o} \subseteq Things
  BY Kinds, ConstantsAssumption DEF Things
<1>3. \A e \in Things \cup Players : z.env[e] = IF e = x THEN NULL ELSE w.env[e]
  BY DEF MergedIn, Raw
<1>4. \A e \in Things \cup Players :
          Peeled(z).env[e] = IF e = x THEN NULL ELSE Peeled(w).env[e]
  BY <1>1, <1>2, <1>3
<1>5. Peeled(z).env = [Peeled(w).env EXCEPT ![x] = NULL]
  <2>1. Peeled(w).env \in [Things \cup Players -> Holders \cup Squares \cup {NULL}]
    BY <1>1 DEF Raw
  <2>2. Peeled(z).env \in [Things \cup Players -> Holders \cup Squares \cup {NULL}]
    BY <1>1 DEF Raw
  <2> QED BY <1>4, <2>1, <2>2
<1>6. Peeled(z).nrof = [Peeled(w).nrof EXCEPT ![o] = Peeled(w).nrof[o] + Peeled(w).nrof[x],
                                              ![x] = 0]
  BY <1>1 DEF MergedIn
<1> QED BY <1>1, <1>2, <1>5, <1>6 DEF MergedIn

LEMMA FitsMerged ==
    ASSUME NEW w, Sound(w), NEW z, Sound(z), NEW x \in Piles, NEW o \in Piles \ {x},
           w.env[o] = w.env[x], MergedIn(w, x, o, z)
    PROVE  Kept(w, z) /\ Kept(z, w)
<1>0. /\ w \in Raw /\ z \in Raw /\ Peeled(w) \in Raw /\ Peeled(z) \in Raw
      /\ \A g \in Containers : /\ w.carrying[g] \in Int /\ z.carrying[g] \in Int /\ g # NULL
  BY PeeledFacts, Kinds DEF Sound, Right, Holders
<1>1. MergedIn(Peeled(w), x, o, Peeled(z)) /\ Peeled(w).env[o] = Peeled(w).env[x]
  BY <1>0, PeeledMerged
<1>2. ASSUME NEW k, \A g \in Containers : k[g] \in Int, NEW g \in Containers
      PROVE  /\ Filled(z, k, g) <= Filled(w, k, g) /\ Filled(w, k, g) <= Filled(z, k, g)
             /\ Filled(Peeled(z), k, g) <= Filled(Peeled(w), k, g)
             /\ Filled(Peeled(w), k, g) <= Filled(Peeled(z), k, g)
  <2>1. Filled(z, k, g) = Filled(w, k, g) BY <1>0, <1>2, FilledMerged
  <2>2. Filled(Peeled(z), k, g) = Filled(Peeled(w), k, g)
    BY <1>0, <1>1, <1>2, FilledMerged
  <2>3. Filled(z, k, g) \in Int /\ Filled(Peeled(z), k, g) \in Int
    BY <1>0, <1>2, FilledIsSum
  <2> QED BY <2>1, <2>2, <2>3
<1>3. Kept(w, z)
  <2>1. \A g \in Containers :
            /\ Filled(z, w.carrying, g) <= Filled(w, w.carrying, g)
            /\ Filled(Peeled(z), w.carrying, g) <= Filled(Peeled(w), w.carrying, g)
    BY <1>0, <1>2
  <2> QED BY <2>1, LighterFits DEF Kept
<1>4. Kept(z, w)
  <2>1. \A g \in Containers :
            /\ Filled(w, z.carrying, g) <= Filled(z, z.carrying, g)
            /\ Filled(Peeled(w), z.carrying, g) <= Filled(Peeled(z), z.carrying, g)
    BY <1>0, <1>2
  <2> QED BY <2>1, LighterFits DEF Kept
<1> QED BY <1>3, <1>4

LEMMA DestinationsHold ==
    ASSUME NEW w, NEW p \in Players, NEW x, NEW n, NEW h \in Destinations(w, p, x, n),
           h \in Containers
    PROVE  CanHold(w, h, x, n) \/ BothMagical(x, h)
  BY Kinds DEF Destinations

(* Whatever is moved, split, merged or destroyed ...                       *)
LEMMA KeptNext ==
    ASSUME Sound(world), Numbered(world, {}), [Next]_world
    PROVE  \/ Kept(world, world')
           \/ \E p \in Players, x \in Things, n \in Counts : PickUp(p, x, n)
<1>1. ASSUME NEW p \in Players, NEW c \in Containers, Apply(p, c) PROVE Kept(world, world')
  BY <1>1, ApplySteps, FitsSame
<1>2. ASSUME NEW p \in Players, NEW x \in Things, NEW n \in Amounts(world, x),
             NEW c \in Containers, PutIn(p, x, n, c)
      PROVE  Kept(world, world')
  <2>1. PICK y, o, u : TakenAs(world, y, x, n, o, u) /\ PutAs(u, o, c, world')
    BY <1>2, PutInSteps
  <2>2. x # c /\ CanHold(world, c, x, n) BY <1>2, PutInSteps
  <2>3. Kept(world, u) BY <2>1, FitsTaken
  <2>4. Sound(u) /\ o \in Things /\ u.env[o] = NULL BY <2>1 DEF TakenAs
  <2>5. c \in u.applied /\ c # o BY <2>1, <2>2 DEF TakenAs, CanHold
  <2>6. Room(u, c, o) BY <2>1, <2>2, RoomTaken
  <2>7. c \in Holders BY DEF Holders
  <2>8. Kept(u, world') BY <2>1, <2>4, <2>5, <2>6, <2>7, FitsPut
  <2> QED BY <2>3, <2>8 DEF Kept
<1>3. ASSUME NEW p \in Players, NEW x \in Things, NEW n \in Amounts(world, x), Drop(p, x, n)
      PROVE  Kept(world, world')
  <2>1. PICK y, o, u, v : /\ TakenAs(world, y, x, n, o, u)
                          /\ OnMapAs(u, o, world.env[p], v) /\ world.env[p] \in Squares
                          /\ Sound(world') /\ NothingMoved(v, world')
    BY <1>3, DropSteps
  <2>2. Kept(world, u) BY <2>1, FitsTaken
  <2>3. Sound(u) /\ o \in Things BY <2>1 DEF TakenAs
  <2>4. u.env[o] = NULL BY <2>1 DEF TakenAs
  <2>5. Kept(u, v) /\ Sound(v) BY <2>1, <2>3, <2>4, FitsOnMap DEF OnMapAs
  <2>6. Kept(v, world') BY <2>1, <2>5, FitsSame
  <2> QED BY <2>2, <2>5, <2>6 DEF Kept
<1>4. ASSUME NEW p \in Players, (\E s \in Squares : Walk(p, s)) \/ LogOut(p) \/ LogIn(p)
      PROVE  Kept(world, world')
  BY <1>4, WhereaboutsSteps, FitsSame
<1>5. ASSUME NEW x \in Things, NEW n \in Nat, NEW s \in Squares, Appear(x, n, s)
      PROVE  Kept(world, world')
  <2>1. PICK w : /\ Sound(w) /\ w.env = world.env /\ OnMapAs(w, x, s, world')
                 /\ w.nrof = IF x \in Piles THEN [world.nrof EXCEPT ![x] = n] ELSE world.nrof
    BY <1>5, AppearSteps
  <2>2. world.env[x] = NULL BY <1>5, AppearSteps
  <2>3. /\ \A e \in Things : w.env[e] \in Containers => w.env[e] = world.env[e]
        /\ \A q \in Piles : w.env[q] \in Containers => w.nrof[q] <= world.nrof[q]
    <3>1. \A q \in Piles \ {x} : w.nrof[q] = world.nrof[q] BY <2>1 DEF Sound, Raw
    <3>2. w.env[x] \notin Containers BY <2>1, <2>2, Kinds
    <3>3. \A q \in Piles : world.nrof[q] \in Int BY DEF Sound, Raw
    <3> QED BY <2>1, <3>1, <3>2, <3>3
  <2>4. Kept(world, w) BY <2>1, <2>3, AllShrunk
  <2>5. Kept(w, world') BY <2>1, FitsOnMap
  <2> QED BY <2>4, <2>5 DEF Kept
<1>6. ASSUME NEW x \in Piles, NEW n \in Amounts(world, x), Decrease(x, n)
      PROVE  Kept(world, world')
  <2>1. /\ Sound(world') /\ n \in Nat /\ world \in Raw /\ x \in Things /\ NULL \notin Containers
        /\ \A q \in Piles : world.nrof[q] \in Nat
    BY <1>6, DecreaseSteps, Kinds DEF Sound, Counted, Things
  <2>2. CASE /\ world'.env = world.env
             /\ world'.nrof = [world.nrof EXCEPT ![x] = @ - n]
    <3>1. \A q \in Piles : world'.nrof[q] = IF q = x THEN world.nrof[x] - n ELSE world.nrof[q]
      BY <2>1, <2>2 DEF Raw
    <3>2. /\ \A e \in Things : world'.env[e] \in Containers => world'.env[e] = world.env[e]
          /\ \A q \in Piles : world'.env[q] \in Containers => world'.nrof[q] <= world.nrof[q]
      BY <2>1, <2>2, <3>1
    <3> QED BY <2>1, <3>2, AllShrunk
  <2>3. CASE /\ world'.env = [world.env EXCEPT ![x] = NULL]
             /\ world'.nrof = [world.nrof EXCEPT ![x] = 0]
    <3>1. /\ \A q \in Piles : world'.nrof[q] = IF q = x THEN 0 ELSE world.nrof[q]
          /\ \A e \in Things : world'.env[e] = IF e = x THEN NULL ELSE world.env[e]
      BY <2>1, <2>3 DEF Raw
    <3>2. /\ \A e \in Things : world'.env[e] \in Containers => world'.env[e] = world.env[e]
          /\ \A q \in Piles : world'.env[q] \in Containers => world'.nrof[q] <= world.nrof[q]
      BY <2>1, <3>1
    <3> QED BY <2>1, <3>2, AllShrunk
  <2> QED BY <2>2, <2>3, <1>6, DecreaseSteps
(* What object_stack_get_reinsert() takes apart, object_merge() would put  *)
(* together.                                                               *)
<1>7. ASSUME NEW x \in Piles, NEW n \in Amounts(world, x), SplitOff(x, n)
      PROVE  Kept(world, world')
  <2>1. PICK new \in Piles \ {x} :
            /\ world.env[new] = NULL /\ world'.env = [world.env EXCEPT ![new] = world.env[x]]
            /\ world'.nrof = [world.nrof EXCEPT ![x] = @ - n, ![new] = n]
    BY <1>7, SplitOffSteps
  <2>2. Sound(world') /\ n \in Nat BY <1>7, SplitOffSteps
  <2>3. /\ world \in Raw /\ world' \in Raw /\ world.nrof[new] = 0 /\ world.nrof[x] \in Int
        /\ {x, new} \subseteq Things
    BY <2>1, <2>2 DEF Sound, Raw, Numbered, Things
  <2>4. /\ world'.nrof[x] = world.nrof[x] - n /\ world'.nrof[new] = n
        /\ world'.env[x] = world.env[x] /\ world'.env[new] = world.env[x]
        /\ \A q \in Piles \ {x, new} : world'.nrof[q] = world.nrof[q]
        /\ \A e \in (Things \cup Players) \ {new} : world'.env[e] = world.env[e]
    BY <2>1, <2>3 DEF Raw
  <2>5. world.env = [world'.env EXCEPT ![new] = NULL] BY <2>1, <2>3, <2>4 DEF Raw
  <2>6. world.nrof = [world'.nrof EXCEPT ![x] = world'.nrof[x] + world'.nrof[new], ![new] = 0]
    <3>1. world'.nrof[x] + world'.nrof[new] = world.nrof[x] BY <2>2, <2>3, <2>4
    <3>2. world.nrof \in [Piles -> Int] /\ world'.nrof \in [Piles -> Int] BY <2>3 DEF Raw
    <3>3. \A q \in Piles : world.nrof[q] = IF q = new THEN 0 ELSE IF q = x THEN world.nrof[x]
                                           ELSE world'.nrof[q]
      BY <2>3, <2>4
    <3> QED BY <3>1, <3>2, <3>3
  <2>7. MergedIn(world', new, x, world) BY <2>5, <2>6 DEF MergedIn
  <2>8. x \in Piles \ {new} BY <2>1
  <2> QED BY <2>1, <2>2, <2>4, <2>7, <2>8, FitsMerged
<1>8. ASSUME NEW x \in Piles, Merge(x) PROVE Kept(world, world')
  <2>1. PICK o \in Mergeable(world, x, world.env[x]) : MergedIn(world, x, o, world')
    BY <1>8, MergeSteps
  <2>2. Sound(world') BY <1>8, MergeSteps
  <2>3. o \in Piles \ {x} /\ world.env[o] = world.env[x] BY DEF Mergeable
  <2> QED BY <2>1, <2>2, <2>3, FitsMerged
<1>9. ASSUME NEW c \in Containers, Destroy(c) PROVE Kept(world, world')
  <2>1. Sound(world') /\ GoneFrom(world, c, world') BY <1>9, DestroyedFacts DEF Destroy
  <2>2. \A q \in Piles : world.nrof[q] \in Nat BY DEF Sound, Counted
  <2>3. /\ \A q \in Piles :
               world'.nrof[q] = IF q \in Inside(world, c) THEN 0 ELSE world.nrof[q]
        /\ \A e \in Things :
               world'.env[e] = IF e \in Inside(world, c) THEN NULL ELSE world.env[e]
    BY <2>1 DEF GoneFrom, Things
  <2>4. /\ \A e \in Things : world'.env[e] \in Containers => world'.env[e] = world.env[e]
        /\ \A q \in Piles : world'.env[q] \in Containers => world'.nrof[q] <= world.nrof[q]
    BY <2>2, <2>3, Kinds
  <2> QED BY <2>1, <2>4, AllShrunk
<1>10. CASE UNCHANGED world BY <1>10 DEF Kept
<1>11. ASSUME NEW p \in Players, PlayerActs(p)
       PROVE  Kept(world, world') \/ \E x \in Things, n \in Counts : PickUp(p, x, n)
  BY <1>1, <1>2, <1>3, <1>4, <1>11 DEF PlayerActs
<1>12. /\ \A c \in Containers : c \in Things
       /\ \A o \in Piles : o \in Things
       /\ \A n \in 1 .. MaxUnits : n \in Nat
       /\ 0 \in Nat
  BY ConstantsAssumption DEF Things
<1>13. CASE \/ \E c \in Containers, s \in Squares : Appear(c, 0, s)
            \/ \E o \in Piles, n \in 1 .. MaxUnits, s \in Squares : Appear(o, n, s)
  <2>1. ASSUME NEW c \in Containers, NEW s \in Squares, Appear(c, 0, s)
        PROVE  Kept(world, world')
    BY <2>1, <1>5, <1>12
  <2>2. ASSUME NEW o \in Piles, NEW n \in 1 .. MaxUnits, NEW s \in Squares, Appear(o, n, s)
        PROVE  Kept(world, world')
    BY <2>2, <1>5, <1>12
  <2> QED BY <1>13, <2>1, <2>2
<1> QED BY <1>6, <1>7, <1>8, <1>9, <1>10, <1>11, <1>13 DEF Next

(* ... and what is picked up, unless by a count beyond an int              *)
LEMMA PickedKept ==
    ASSUME Sound(world), Numbered(world, {}), NEW p \in Players, NEW x \in Things,
           NEW n \in Counts, PickUp(p, x, n), NEW c \in Containers, Within(world, c)
    PROVE  Within(world', c) \/ (x \in Piles /\ CountWraps(p, x, n, c))
<1>0. PICK m \in Amounts(world, x) : \E h, o, u :
          /\ h \in Destinations(world, p, x, Asked(world, x, n))
          /\ h \in Holders /\ (h \in Containers => h \in world.applied /\ h # x)
          /\ TakenAs(world, world, x, m, o, u) /\ PutAs(u, o, h, world')
          /\ o \notin u.applied
          /\ HoldsAsked(world, x, n, m)
  BY PickUpSteps
<1>1. PICK h, o, u :
          /\ h \in Destinations(world, p, x, Asked(world, x, n))
          /\ h \in Holders /\ (h \in Containers => h \in world.applied /\ h # x)
          /\ TakenAs(world, world, x, m, o, u) /\ PutAs(u, o, h, world')
          /\ o \notin u.applied
          /\ HoldsAsked(world, x, n, m)
  BY <1>0
<1>2. Kept(world, u) /\ Within(u, c) BY <1>1, FitsTaken DEF Kept
<1>3. Sound(u) /\ o \in Things /\ u.env[o] = NULL BY <1>1 DEF TakenAs
<1>4. h \in Containers => h \in u.applied /\ h # o BY <1>1 DEF TakenAs
<1>5. CASE c # h
  <2>1. c \in Containers \ {h} BY <1>5
  <2> QED BY <1>1, <1>2, <1>3, <1>4, <2>1, FitsPut
<1>6. CASE c = h /\ BothMagical(x, h)
  <2>1. x \in Containers BY <1>6, ConstantsAssumption DEF BothMagical
  <2>2. o = x BY <1>1, <2>1, Kinds DEF TakenAs
  <2> QED BY <1>1, <1>2, <1>3, <1>4, <1>6, <2>2, FitsPut DEF Kept
<1>7. CASE c = h /\ CanHold(world, h, x, m)
  <2>1. Room(u, h, o) BY <1>1, <1>7, RoomTaken
  <2> QED BY <1>1, <1>2, <1>3, <1>4, <1>7, <2>1, FitsPut DEF Kept
<1>8. CASE c = h /\ ~BothMagical(x, h) /\ ~CanHold(world, h, x, m)
  <2>1. CanHold(world, h, x, Asked(world, x, n)) BY <1>1, <1>8, DestinationsHold
  <2>2. n > IntMax /\ x \in Piles /\ world.nrof[x] > 1 /\ Asked(world, x, n) = ToInt(n)
    BY <1>1, <1>8, <2>1 DEF HoldsAsked
  <2> QED BY <1>1, <1>8, <2>2 DEF CountWraps
<1> QED BY <1>5, <1>6, <1>7, <1>8

(* No step fills a container beyond its limit but with magical containers, *)
(* and only if it is one itself, whatever is taken from what is in it,     *)
(* split or merged while it is closed - except that a pile is picked up    *)
(* into it by a count that is negative as an int.                          *)
THEOREM LimitsKept == Spec => LimitKept
<1>1. ASSUME AllNumbered, [Next]_world, NEW c \in Containers, ~Within(world', c), Within(world, c)
      PROVE  \E p \in Players, x \in Piles, n \in Counts : CountWraps(p, x, n, c)
  <2>1. PICK p \in Players, x \in Things, n \in Counts : PickUp(p, x, n)
    BY <1>1, KeptNext DEF AllNumbered, Kept
  <2> QED BY <1>1, <2>1, PickedKept DEF AllNumbered
<1>2. AllNumbered /\ [Next]_world =>
          [\A c \in Containers :
               world'.carrying[c] > Limit[c] /\ ~Within(world', c) =>
                   \/ ~Within(world, c)
                   \/ \E p \in Players, x \in Piles, n \in Counts : CountWraps(p, x, n, c)]_world
  BY <1>1
<1> QED BY <1>2, AlwaysNumbered, PTL DEF Spec, LimitKept

=============================================================================
