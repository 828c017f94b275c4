-------------------------------- MODULE Sums --------------------------------
(***************************************************************************)
(* Lemmas about SumFunctionOnSet and SumFunction of the community modules: *)
(* what the ledgers of this project add up.  The induction theorems of the *)
(* library take an operator; here the induction over a finite set is done  *)
(* with the least counterexample instead (SmallestSubset).                 *)
(***************************************************************************)
EXTENDS FiniteSetTheorems, TLAPS

Pick(S) == CHOOSE x \in S : TRUE

\* h is the table by which the sum over S is computed: one entry per subset.
Iter(f, S, h) ==
    h = [s \in SUBSET S |-> IF s = {} THEN 0 ELSE f[Pick(s)] + h[s \ {Pick(s)}]]

\* A nonempty set of subsets of a finite set has a member none of whose proper
\* subsets is in it.
LEMMA SmallestSubset ==
    ASSUME NEW S, IsFiniteSet(S), NEW B, B \subseteq SUBSET S, B # {}
    PROVE  \E T \in B : \A U \in SUBSET T : U # T => U \notin B
<1> DEFINE R == StrictSubsetOrdering(S)
<1>1. IsWellFoundedOn(R, SUBSET S)
  BY FS_StrictSubsetOrderingWellFounded, FS_FiniteSubsetsOfFinite, Zenon
<1> HIDE DEF R
<1>2. \E T \in B : \A U \in B : ~ (<<U, T>> \in R)
  BY <1>1, WFMin, Zenon
<1>3. PICK T \in B : \A U \in B : ~ (<<U, T>> \in R)
  BY <1>2
<1>4. ASSUME NEW U \in SUBSET T, U # T, U \in B
      PROVE  FALSE
  <2>1. <<U, T>> \in R
    <3>1. U \in SUBSET S /\ T \in SUBSET S
      OBVIOUS
    <3>2. <<U, T>> \in (SUBSET S) \X (SUBSET S)
      BY <3>1
    <3>3. <<U, T>>[1] = U /\ <<U, T>>[2] = T
      OBVIOUS
    <3> QED BY <3>2, <3>3, <1>4 DEF R, StrictSubsetOrdering
  <2> QED BY <2>1, <1>3, <1>4
<1> QED BY <1>3, <1>4

LEMMA PickIn == ASSUME NEW S, S # {} PROVE Pick(S) \in S
BY DEF Pick

\* The table says what each subset of S sums to.
LEMMA IterAt ==
    ASSUME NEW f, NEW S, NEW h, Iter(f, S, h), NEW s \in SUBSET S
    PROVE  h[s] = IF s = {} THEN 0 ELSE f[Pick(s)] + h[s \ {Pick(s)}]
<1> DEFINE G == [t \in SUBSET S |-> IF t = {} THEN 0 ELSE f[Pick(t)] + h[t \ {Pick(t)}]]
<1>1. h = G
  BY Zenon DEF Iter
<1>2. G[s] = IF s = {} THEN 0 ELSE f[Pick(s)] + h[s \ {Pick(s)}]
  OBVIOUS
<1> HIDE DEF G
<1> QED BY <1>1, <1>2, Zenon

\* There is at most one table.
LEMMA IterUnique ==
    ASSUME NEW f, NEW S, IsFiniteSet(S),
           NEW T \in SUBSET S, NEW g, NEW h, Iter(f, S, g), Iter(f, T, h)
    PROVE  \A s \in SUBSET T : g[s] = h[s]
<1> DEFINE B == {s \in SUBSET T : g[s] # h[s]}
<1> SUFFICES ASSUME B # {} PROVE FALSE
  OBVIOUS
<1>1. PICK s \in B : \A U \in SUBSET s : U # s => U \notin B
  <2>1. B \subseteq SUBSET T /\ IsFiniteSet(T)
    BY FS_Subset
  <2> HIDE DEF B
  <2> QED BY <2>1, SmallestSubset, Zenon
<1>2. s \in SUBSET T /\ s \in SUBSET S /\ g[s] # h[s]
  OBVIOUS
<1> HIDE DEF B
<1>3a. g[s] = IF s = {} THEN 0 ELSE f[Pick(s)] + g[s \ {Pick(s)}]
  BY <1>2, IterAt
<1>3b. h[s] = IF s = {} THEN 0 ELSE f[Pick(s)] + h[s \ {Pick(s)}]
  BY <1>2, IterAt
<1> USE DEF B
<1>4. CASE s = {}
  BY <1>2, <1>3a, <1>3b, <1>4, Zenon
<1>5. CASE s # {}
  <2>1. Pick(s) \in s
    BY <1>5, PickIn
  <2>2. s \ {Pick(s)} \notin B
    BY <1>1, <2>1
  <2>3. s \ {Pick(s)} \in SUBSET T
    BY <1>2
  <2>4. g[s \ {Pick(s)}] = h[s \ {Pick(s)}]
    BY <2>2, <2>3, Zenon
  <2> QED BY <1>2, <1>3a, <1>3b, <1>5, <2>4, Zenon
<1> QED BY <1>4, <1>5

\* There is a table: take for every smaller subset the entry of its own table.
LEMMA IterExists ==
    ASSUME NEW f, NEW S, IsFiniteSet(S)
    PROVE  \E h : Iter(f, S, h)
<1> DEFINE B == {T \in SUBSET S : ~ \E h : Iter(f, T, h)}
<1> SUFFICES ASSUME B # {} PROVE FALSE
  <2>1. S \in SUBSET S
    OBVIOUS
  <2> QED BY <2>1, Zenon
<1>1. PICK T \in B : \A U \in SUBSET T : U # T => U \notin B
  <2>1. B \subseteq SUBSET S
    OBVIOUS
  <2> HIDE DEF B
  <2> QED BY <2>1, SmallestSubset, Zenon
<1>2. T \in SUBSET S /\ IsFiniteSet(T) /\ ~ \E h : Iter(f, T, h)
  BY FS_Subset
<1> DEFINE H(s) == CHOOSE h : Iter(f, s, h)
           g == [s \in SUBSET T |-> IF s = {} THEN 0
                                    ELSE f[Pick(s)] + H(s \ {Pick(s)})[s \ {Pick(s)}]]
<1>3. \A s \in SUBSET T : s # T => Iter(f, s, H(s))
  <2> SUFFICES ASSUME NEW s \in SUBSET T, s # T PROVE Iter(f, s, H(s))
    OBVIOUS
  <2>1. s \notin B /\ s \in SUBSET S
    BY <1>1, <1>2
  <2>2. \E h : Iter(f, s, h)
    BY <2>1, Zenon
  <2> QED BY <2>2, Zenon
<1>4. \A s \in SUBSET T : s # T => g[s] = H(s)[s]
  <2> SUFFICES ASSUME NEW s \in SUBSET T, s # T PROVE g[s] = H(s)[s]
    OBVIOUS
  <2>1. Iter(f, s, H(s)) /\ s \in SUBSET s /\ IsFiniteSet(s)
    BY <1>2, <1>3, FS_Subset
  <2>2. H(s)[s] = IF s = {} THEN 0 ELSE f[Pick(s)] + H(s)[s \ {Pick(s)}]
    <3> HIDE DEF H, g, B
    <3> QED BY <2>1, IterAt
  <2>3. g[s] = IF s = {} THEN 0 ELSE f[Pick(s)] + H(s \ {Pick(s)})[s \ {Pick(s)}]
    OBVIOUS
  <2>4. CASE s = {}
    BY <2>2, <2>3, <2>4
  <2>5. CASE s # {}
    <3> DEFINE r == s \ {Pick(s)}
    <3>1. r \in SUBSET s /\ r \in SUBSET T /\ r \in SUBSET r /\ r # T
      BY <2>5, PickIn
    <3>2. Iter(f, r, H(r))
      BY <1>3, <3>1
    <3> HIDE DEF r, H, g, B
    <3>3. H(s)[r] = H(r)[r]
      BY <2>1, <3>1, <3>2, IterUnique
    <3> QED BY <2>2, <2>3, <2>5, <3>3, Zenon DEF r
  <2> QED BY <2>4, <2>5
<1>5. Iter(f, T, g)
  <2>1. ASSUME NEW s \in SUBSET T
        PROVE  (IF s = {} THEN 0 ELSE f[Pick(s)] + H(s \ {Pick(s)})[s \ {Pick(s)}])
               = IF s = {} THEN 0 ELSE f[Pick(s)] + g[s \ {Pick(s)}]
    <3>1. CASE s = {}
      BY <3>1
    <3>2. CASE s # {}
      <4>1. s \ {Pick(s)} \in SUBSET T /\ s \ {Pick(s)} # T
        BY <3>2, PickIn
      <4>2. g[s \ {Pick(s)}] = H(s \ {Pick(s)})[s \ {Pick(s)}]
        BY <4>1, <1>4, Zenon
      <4> HIDE DEF g, H
      <4> QED BY <4>2, <3>2, Zenon
    <3> QED BY <3>1, <3>2
  <2>2. [s \in SUBSET T |-> IF s = {} THEN 0 ELSE f[Pick(s)] + H(s \ {Pick(s)})[s \ {Pick(s)}]]
        = [s \in SUBSET T |-> IF s = {} THEN 0 ELSE f[Pick(s)] + g[s \ {Pick(s)}]]
    <3> HIDE DEF g, H
    <3> QED BY <2>1, Zenon
  <2>3. g = [s \in SUBSET T |-> IF s = {} THEN 0 ELSE f[Pick(s)] + g[s \ {Pick(s)}]]
    BY <2>2, Zenon
  <2> QED BY <2>3, Zenon DEF Iter
<1> QED BY <1>2, <1>5, Zenon

-----------------------------------------------------------------------------
\* What the fold of the community modules computes is the entry of S in the table.
LEMMA SumIsEntry ==
    ASSUME NEW f, NEW S
    PROVE  SumFunctionOnSet(f, S) = (CHOOSE h : Iter(f, S, h))[S]
BY DEF SumFunctionOnSet, FoldFunctionOnSet, MapThenFoldSet, Iter, Pick

LEMMA SumOfTable ==
    ASSUME NEW f, NEW S, IsFiniteSet(S), NEW h, Iter(f, S, h), NEW T \in SUBSET S
    PROVE  SumFunctionOnSet(f, T) = h[T]
<1>1. IsFiniteSet(T) /\ T \in SUBSET T
  BY FS_Subset
<1> DEFINE k == CHOOSE g : Iter(f, T, g)
<1>2. Iter(f, T, k)
  BY <1>1, IterExists, Zenon
<1>3. SumFunctionOnSet(f, T) = k[T]
  BY SumIsEntry, Zenon
<1> HIDE DEF k
<1> QED BY <1>1, <1>2, <1>3, IterUnique

LEMMA SumEmpty == ASSUME NEW f PROVE SumFunctionOnSet(f, {}) = 0
<1>1. IsFiniteSet({}) /\ {} \in SUBSET {}
  BY FS_EmptySet
<1>2. PICK h : Iter(f, {}, h)
  BY <1>1, IterExists, Zenon
<1>3. h[{}] = 0
  BY <1>1, <1>2, IterAt
<1> QED BY <1>1, <1>2, <1>3, SumOfTable

\* The fold takes off one member at a time, the one CHOOSE picks.
LEMMA SumPicked ==
    ASSUME NEW f, NEW S, IsFiniteSet(S), S # {}
    PROVE  SumFunctionOnSet(f, S) = f[Pick(S)] + SumFunctionOnSet(f, S \ {Pick(S)})
<1>1. PICK h : Iter(f, S, h)
  BY IterExists, Zenon
<1>2. S \in SUBSET S /\ S \ {Pick(S)} \in SUBSET S
  OBVIOUS
<1>3. h[S] = f[Pick(S)] + h[S \ {Pick(S)}]
  BY <1>1, <1>2, IterAt
<1>4. SumFunctionOnSet(f, S) = h[S]
  BY <1>1, <1>2, SumOfTable
<1>5. SumFunctionOnSet(f, S \ {Pick(S)}) = h[S \ {Pick(S)}]
  BY <1>1, <1>2, SumOfTable
<1> QED BY <1>3, <1>4, <1>5, Zenon

LEMMA SumOnSetType ==
    ASSUME NEW f, NEW S, IsFiniteSet(S), \A x \in S : f[x] \in Int
    PROVE  SumFunctionOnSet(f, S) \in Int
<1> DEFINE B == {T \in SUBSET S : SumFunctionOnSet(f, T) \notin Int}
<1> SUFFICES ASSUME B # {} PROVE FALSE
  <2>1. S \in SUBSET S
    OBVIOUS
  <2> QED BY <2>1, Zenon
<1>1. PICK T \in B : \A U \in SUBSET T : U # T => U \notin B
  <2>1. B \subseteq SUBSET S
    OBVIOUS
  <2> HIDE DEF B
  <2> QED BY <2>1, SmallestSubset, Zenon
<1>2. T \in SUBSET S /\ IsFiniteSet(T) /\ SumFunctionOnSet(f, T) \notin Int
  BY FS_Subset
<1>3. T # {}
  BY <1>2, SumEmpty
<1> DEFINE x == Pick(T)
           U == T \ {x}
<1>4. x \in T
  BY <1>3, PickIn
<1>5. U \in SUBSET T /\ U # T /\ U \in SUBSET S
  BY <1>2, <1>4
<1>6. SumFunctionOnSet(f, U) \in Int
  BY <1>1, <1>5, Zenon
<1>7. SumFunctionOnSet(f, T) = f[x] + SumFunctionOnSet(f, U)
  BY <1>2, <1>3, SumPicked, Zenon
<1>8. f[x] \in Int
  BY <1>2, <1>4
<1> HIDE DEF x, U, B
<1> QED BY <1>2, <1>6, <1>7, <1>8

\* Any member may be taken off first: the order of the fold does not matter.
LEMMA SumRemove ==
    ASSUME NEW f, NEW S, IsFiniteSet(S), \A y \in S : f[y] \in Int, NEW x \in S
    PROVE  SumFunctionOnSet(f, S) = f[x] + SumFunctionOnSet(f, S \ {x})
<1> DEFINE Bad(T, z) == SumFunctionOnSet(f, T) # f[z] + SumFunctionOnSet(f, T \ {z})
           B == {T \in SUBSET S : \E z \in T : Bad(T, z)}
<1> SUFFICES ASSUME B # {} PROVE FALSE
  <2>1. S \in SUBSET S
    OBVIOUS
  <2> QED BY <2>1, Zenon
<1>1. PICK T \in B : \A U \in SUBSET T : U # T => U \notin B
  <2>1. B \subseteq SUBSET S
    OBVIOUS
  <2> HIDE DEF B
  <2> QED BY <2>1, SmallestSubset, Zenon
<1>2. PICK z \in T : Bad(T, z)
  OBVIOUS
<1>3. T \in SUBSET S /\ IsFiniteSet(T)
  BY FS_Subset
<1> DEFINE y == Pick(T)
<1>4. y \in T
  BY <1>2, PickIn
<1>5. SumFunctionOnSet(f, T) = f[y] + SumFunctionOnSet(f, T \ {y})
  BY <1>3, <1>4, SumPicked, Zenon
<1>6. y # z
  BY <1>2, <1>5
<1>7. SumFunctionOnSet(f, T \ {y}) = f[z] + SumFunctionOnSet(f, (T \ {y}) \ {z})
  <2>1. T \ {y} \in SUBSET T /\ T \ {y} # T /\ T \ {y} \in SUBSET S /\ z \in T \ {y}
    BY <1>2, <1>3, <1>4, <1>6
  <2> QED BY <2>1, <1>1, Zenon
<1>8. SumFunctionOnSet(f, T \ {z}) = f[y] + SumFunctionOnSet(f, (T \ {z}) \ {y})
  <2>1. T \ {z} \in SUBSET T /\ T \ {z} # T /\ T \ {z} \in SUBSET S /\ y \in T \ {z}
    BY <1>2, <1>3, <1>4, <1>6
  <2> QED BY <2>1, <1>1, Zenon
<1>9. (T \ {y}) \ {z} = (T \ {z}) \ {y}
  OBVIOUS
<1>10. SumFunctionOnSet(f, (T \ {z}) \ {y}) \in Int
  <2>1. IsFiniteSet((T \ {z}) \ {y}) /\ \A t \in (T \ {z}) \ {y} : f[t] \in Int
    BY <1>3, FS_Subset
  <2> QED BY <2>1, SumOnSetType
<1>11. f[y] \in Int /\ f[z] \in Int
  BY <1>2, <1>3, <1>4
<1>12. SumFunctionOnSet(f, T) # f[z] + SumFunctionOnSet(f, T \ {z})
  BY <1>2
<1> DEFINE rest == SumFunctionOnSet(f, (T \ {z}) \ {y})
<1>13. SumFunctionOnSet(f, T) = f[y] + (f[z] + rest)
  BY <1>5, <1>7, <1>9, Zenon
<1>14. f[z] + SumFunctionOnSet(f, T \ {z}) = f[z] + (f[y] + rest)
  BY <1>8, Zenon
<1>15. rest \in Int
  BY <1>10
<1> HIDE DEF y, B, Bad, rest
<1>16. f[y] + (f[z] + rest) = f[z] + (f[y] + rest)
  BY <1>11, <1>15
<1> QED BY <1>12, <1>13, <1>14, <1>16, Zenon

\* The sum depends on the values on S only.
LEMMA SumAgree ==
    ASSUME NEW f, NEW g, NEW S, IsFiniteSet(S), \A x \in S : f[x] = g[x]
    PROVE  SumFunctionOnSet(f, S) = SumFunctionOnSet(g, S)
<1>1. PICK h : Iter(f, S, h)
  BY IterExists, Zenon
<1>2. Iter(g, S, h)
  <2>1. ASSUME NEW s \in SUBSET S
        PROVE  (IF s = {} THEN 0 ELSE f[Pick(s)] + h[s \ {Pick(s)}])
               = IF s = {} THEN 0 ELSE g[Pick(s)] + h[s \ {Pick(s)}]
    <3>1. CASE s = {}
      BY <3>1
    <3>2. CASE s # {}
      <4>1. f[Pick(s)] = g[Pick(s)]
        BY <3>2, PickIn
      <4> QED BY <4>1
    <3> QED BY <3>1, <3>2
  <2>2. [s \in SUBSET S |-> IF s = {} THEN 0 ELSE f[Pick(s)] + h[s \ {Pick(s)}]]
        = [s \in SUBSET S |-> IF s = {} THEN 0 ELSE g[Pick(s)] + h[s \ {Pick(s)}]]
    BY <2>1, Zenon
  <2>3. h = [s \in SUBSET S |-> IF s = {} THEN 0 ELSE f[Pick(s)] + h[s \ {Pick(s)}]]
    BY <1>1, Zenon DEF Iter
  <2>4. h = [s \in SUBSET S |-> IF s = {} THEN 0 ELSE g[Pick(s)] + h[s \ {Pick(s)}]]
    BY <2>2, <2>3, Zenon
  <2> QED BY <2>4, Zenon DEF Iter
<1>3. S \in SUBSET S
  OBVIOUS
<1>4. SumFunctionOnSet(f, S) = h[S]
  BY <1>1, <1>3, SumOfTable
<1>5. SumFunctionOnSet(g, S) = h[S]
  BY <1>2, <1>3, SumOfTable
<1> QED BY <1>4, <1>5, Zenon
-----------------------------------------------------------------------------
\* The facts the proofs about ledgers cite: SumFunction adds up a whole function.
LEMMA SumType ==
    ASSUME NEW S, IsFiniteSet(S), NEW f \in [S -> Int]
    PROVE  SumFunction(f) \in Int
<1>1. DOMAIN f = S /\ \A x \in S : f[x] \in Int
  OBVIOUS
<1> QED BY <1>1, SumOnSetType DEF SumFunction

\* Where only one entry changes, the sum changes by as much.
LEMMA SumChange ==
    ASSUME NEW S, IsFiniteSet(S), NEW f \in [S -> Int], NEW g \in [S -> Int],
           NEW x \in S, \A y \in S : y # x => g[y] = f[y]
    PROVE  SumFunction(g) = SumFunction(f) + g[x] - f[x]
<1>1. DOMAIN f = S /\ DOMAIN g = S /\ \A y \in S : f[y] \in Int /\ g[y] \in Int
  OBVIOUS
<1>2. SumFunctionOnSet(f, S) = f[x] + SumFunctionOnSet(f, S \ {x})
  BY <1>1, SumRemove
<1>3. SumFunctionOnSet(g, S) = g[x] + SumFunctionOnSet(g, S \ {x})
  BY <1>1, SumRemove
<1>4. IsFiniteSet(S \ {x}) /\ \A y \in S \ {x} : f[y] = g[y] /\ f[y] \in Int
  BY <1>1, FS_Subset
<1>5. SumFunctionOnSet(f, S \ {x}) = SumFunctionOnSet(g, S \ {x})
  BY <1>4, SumAgree
<1>6. SumFunctionOnSet(f, S \ {x}) \in Int
  BY <1>4, SumOnSetType
<1>7. SumFunction(f) = SumFunctionOnSet(f, S) /\ SumFunction(g) = SumFunctionOnSet(g, S)
  BY <1>1, Zenon DEF SumFunction
<1>8. f[x] \in Int /\ g[x] \in Int
  BY <1>1
<1> QED BY <1>2, <1>3, <1>5, <1>6, <1>7, <1>8

\* A sum of amounts is an amount, and at least any of them.
LEMMA SumAmounts ==
    ASSUME NEW S, IsFiniteSet(S), NEW f \in [S -> Nat]
    PROVE  /\ SumFunction(f) \in Nat
           /\ \A x \in S : f[x] <= SumFunction(f)
<1>1. DOMAIN f = S /\ \A x \in S : f[x] \in Nat
  OBVIOUS
<1>2. \A T \in SUBSET S : SumFunctionOnSet(f, T) \in Nat
  <2> DEFINE B == {T \in SUBSET S : SumFunctionOnSet(f, T) \notin Nat}
  <2> SUFFICES ASSUME B # {} PROVE FALSE
    BY Zenon
  <2>1. PICK T \in B : \A U \in SUBSET T : U # T => U \notin B
    <3>1. B \subseteq SUBSET S
      OBVIOUS
    <3> HIDE DEF B
    <3> QED BY <3>1, SmallestSubset, Zenon
  <2>2. T \in SUBSET S /\ IsFiniteSet(T) /\ SumFunctionOnSet(f, T) \notin Nat
    BY FS_Subset
  <2>3. T # {}
    BY <2>2, SumEmpty
  <2> DEFINE x == Pick(T)
             U == T \ {x}
  <2>4. x \in T
    BY <2>3, PickIn
  <2>5. U \in SUBSET T /\ U # T /\ U \in SUBSET S
    BY <2>2, <2>4
  <2>6. SumFunctionOnSet(f, U) \in Nat
    BY <2>1, <2>5, Zenon
  <2>7. SumFunctionOnSet(f, T) = f[x] + SumFunctionOnSet(f, U)
    BY <2>2, <2>3, SumPicked, Zenon
  <2>8. f[x] \in Nat
    BY <1>1, <2>2, <2>4
  <2> HIDE DEF x, U, B
  <2> QED BY <2>2, <2>6, <2>7, <2>8
<1>3. SumFunction(f) = SumFunctionOnSet(f, S)
  BY <1>1, Zenon DEF SumFunction
<1>4. ASSUME NEW x \in S PROVE f[x] <= SumFunction(f)
  <2>1. SumFunctionOnSet(f, S) = f[x] + SumFunctionOnSet(f, S \ {x})
    <3>1. \A y \in S : f[y] \in Int
      BY <1>1
    <3> QED BY <3>1, SumRemove
  <2>2. SumFunctionOnSet(f, S \ {x}) \in Nat
    <3>1. S \ {x} \in SUBSET S
      OBVIOUS
    <3> QED BY <1>2, <3>1, Zenon
  <2> QED BY <1>1, <1>3, <2>1, <2>2
<1>5. S \in SUBSET S
  OBVIOUS
<1> QED BY <1>2, <1>3, <1>4, <1>5

\* A function that is zero everywhere sums to zero.
LEMMA SumZero ==
    ASSUME NEW S, IsFiniteSet(S), NEW f, DOMAIN f = S, \A x \in S : f[x] = 0
    PROVE  SumFunction(f) = 0
<1> DEFINE B == {T \in SUBSET S : SumFunctionOnSet(f, T) # 0}
<1> SUFFICES ASSUME B # {} PROVE FALSE
  <2>1. S \in SUBSET S
    OBVIOUS
  <2> QED BY <2>1, Zenon DEF SumFunction
<1>1. PICK T \in B : \A U \in SUBSET T : U # T => U \notin B
  <2>1. B \subseteq SUBSET S
    OBVIOUS
  <2> HIDE DEF B
  <2> QED BY <2>1, SmallestSubset, Zenon
<1>2. T \in SUBSET S /\ IsFiniteSet(T) /\ SumFunctionOnSet(f, T) # 0
  BY FS_Subset
<1>3. T # {}
  BY <1>2, SumEmpty
<1>4. Pick(T) \in T
  BY <1>3, PickIn
<1>5. T \ {Pick(T)} \notin B
  BY <1>1, <1>4
<1>6. SumFunctionOnSet(f, T \ {Pick(T)}) = 0
  BY <1>2, <1>5
<1>7. SumFunctionOnSet(f, T) = f[Pick(T)] + SumFunctionOnSet(f, T \ {Pick(T)})
  BY <1>2, <1>3, SumPicked
<1>8. f[Pick(T)] = 0
  BY <1>2, <1>4
<1> HIDE DEF B
<1> QED BY <1>2, <1>6, <1>7, <1>8

\* The sum of the differences is the difference of the sums.
LEMMA SumMinus ==
    ASSUME NEW S, IsFiniteSet(S), NEW f \in [S -> Int], NEW g \in [S -> Int],
           NEW h \in [S -> Int], \A x \in S : h[x] = g[x] - f[x]
    PROVE  SumFunction(h) = SumFunction(g) - SumFunction(f)
<1> DEFINE Bad(T) == SumFunctionOnSet(h, T) # SumFunctionOnSet(g, T) - SumFunctionOnSet(f, T)
           B == {T \in SUBSET S : Bad(T)}
<1>1. DOMAIN f = S /\ DOMAIN g = S /\ DOMAIN h = S
  OBVIOUS
<1>2. SUFFICES ASSUME B # {} PROVE FALSE
  <2>1. S \in SUBSET S
    OBVIOUS
  <2> QED BY <1>1, <2>1, Zenon DEF SumFunction
<1>3. PICK T \in B : \A U \in SUBSET T : U # T => U \notin B
  <2>1. B \subseteq SUBSET S
    OBVIOUS
  <2> HIDE DEF B
  <2> QED BY <1>2, <2>1, SmallestSubset, Zenon
<1>4. T \in SUBSET S /\ IsFiniteSet(T) /\ Bad(T)
  BY <1>3, FS_Subset, Zenon
<1>5. T # {}
  <2>1. ASSUME T = {} PROVE FALSE
    <3>1. SumFunctionOnSet(h, {}) = 0 /\ SumFunctionOnSet(g, {}) = 0
          /\ SumFunctionOnSet(f, {}) = 0
      BY SumEmpty, Zenon
    <3> QED BY <1>4, <2>1, <3>1
  <2> QED BY <2>1, Zenon
<1> DEFINE x == Pick(T)
           U == T \ {x}
<1>6. x \in T
  BY <1>5, PickIn
<1>7. U \in SUBSET T /\ U # T /\ U \in SUBSET S /\ IsFiniteSet(U)
  <2>1. U \in SUBSET T /\ U # T /\ U \in SUBSET S
    BY <1>4, <1>6
  <2> QED BY <1>4, <2>1, FS_Subset, Zenon
<1>8. ~Bad(U)
  BY <1>3, <1>7, Zenon
<1>9. /\ SumFunctionOnSet(h, T) = h[x] + SumFunctionOnSet(h, U)
      /\ SumFunctionOnSet(g, T) = g[x] + SumFunctionOnSet(g, U)
      /\ SumFunctionOnSet(f, T) = f[x] + SumFunctionOnSet(f, U)
  BY <1>4, <1>5, SumPicked, Zenon
<1>10. f[x] \in Int /\ g[x] \in Int /\ h[x] = g[x] - f[x]
  BY <1>4, <1>6
<1>11. /\ SumFunctionOnSet(f, U) \in Int /\ SumFunctionOnSet(g, U) \in Int
  <2>1. \A y \in U : f[y] \in Int /\ g[y] \in Int
    BY <1>7
  <2> HIDE DEF U
  <2> QED BY <1>7, <2>1, SumOnSetType
<1> HIDE DEF x, U, B
<1> QED BY <1>4, <1>8, <1>9, <1>10, <1>11

\* A larger table has a larger sum.
LEMMA SumAtMost ==
    ASSUME NEW S, IsFiniteSet(S), NEW f \in [S -> Int], NEW g \in [S -> Int],
           \A x \in S : f[x] <= g[x]
    PROVE  SumFunction(f) <= SumFunction(g)
<1> DEFINE h == [x \in S |-> g[x] - f[x]]
<1>1. \A x \in S : g[x] - f[x] \in Nat /\ g[x] - f[x] \in Int
  OBVIOUS
<1>2. h \in [S -> Nat] /\ h \in [S -> Int] /\ \A x \in S : h[x] = g[x] - f[x]
  BY <1>1
<1> HIDE DEF h
<1>3. SumFunction(h) \in Nat
  BY <1>2, SumAmounts
<1>4. SumFunction(h) = SumFunction(g) - SumFunction(f)
  BY <1>2, SumMinus
<1>5. SumFunction(f) \in Int /\ SumFunction(g) \in Int
  BY SumType
<1> QED BY <1>3, <1>4, <1>5
=============================================================================
