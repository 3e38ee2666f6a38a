------------------------- MODULE PortfolioSnapshotProofs -------------------------
(***************************************************************************)
(* The properties of PortfolioSnapshot, for any positions, chains and page *)
(* limit, however the jobs interleave, fail and the wallet moves.  The     *)
(* first half is about sums over finite sets and knows no wallet.  The     *)
(* second proves PInv: Paged says what the list has while it is read,      *)
(* Summed what Zerion's summary may say, Counted that an error is a job    *)
(* that ended; the rest holds of the answer when it is merged.             *)
(***************************************************************************)
EXTENDS PortfolioSnapshot, FiniteSetTheorems, WellFoundedInduction, TLAPS

LEMMA HasSmallest ==
  ASSUME NEW rest \in SUBSET Nat, rest # {}
  PROVE  Min(rest) \in rest /\ \A y \in rest : Min(rest) <= y
<1>1. PICK x \in rest : \A y \in rest : <<y, x>> \notin OpToRel(<, Nat)
  BY WFMin, NatLessThanWellFounded, Zenon
<1>2. \A y \in rest : ~(y < x)
  BY <1>1, Zenon DEF OpToRel
<1>3. \A y \in rest : x <= y
  BY <1>2
<1> QED BY <1>3 DEF Min

-----------------------------------------------------------------------------
(* Induction, over numbers and over finite sets, for a property that is a  *)
(* set: the library's theorems take an operator, which no prover here can  *)
(* instantiate.                                                            *)
LEMMA NatSetInduction ==
  ASSUME NEW P, 0 \in P, \A n \in Nat : n \in P => n + 1 \in P
  PROVE  \A n \in Nat : n \in P
<1> DEFINE bad == Nat \ P
<1>1. SUFFICES ASSUME bad # {} PROVE FALSE
  OBVIOUS
<1>2. Min(bad) \in bad /\ \A y \in bad : Min(bad) <= y
  BY <1>1, HasSmallest
<1> HIDE DEF bad
<1>3. Min(bad) # 0 /\ Min(bad) \in Nat
  BY <1>2 DEF bad
<1>4. Min(bad) - 1 \in Nat /\ Min(bad) - 1 \notin bad
  BY <1>2, <1>3
<1>5. (Min(bad) - 1) + 1 \in P
  BY <1>4 DEF bad
<1> QED BY <1>2, <1>3, <1>5 DEF bad

LEMMA SetInduction ==
  ASSUME NEW S, IsFiniteSet(S), NEW P, {} \in P,
         \A T \in SUBSET S : \A x \in S \ T : T \in P => T \cup {x} \in P
  PROVE  S \in P
<1> DEFINE Q == {n \in Nat : \A T \in SUBSET S : Cardinality(T) = n => T \in P}
<1>1. 0 \in Q
  BY FS_Subset, FS_EmptySet
<1>2. ASSUME NEW n \in Nat, n \in Q PROVE n + 1 \in Q
  <2> SUFFICES ASSUME NEW T \in SUBSET S, Cardinality(T) = n + 1 PROVE T \in P
    OBVIOUS
  <2>1. IsFiniteSet(T)
    BY FS_Subset
  <2>2. T # {}
    BY <1>2, FS_EmptySet
  <2>3. PICK x \in T : TRUE
    BY <2>2
  <2>4. Cardinality(T \ {x}) = n
    <3>1. Cardinality(T \ {x}) = Cardinality(T) - 1
      BY <2>1, <2>3, FS_RemoveElement
    <3> QED BY <1>2, <3>1
  <2>5. T \ {x} \in P
    BY <1>2, <2>4
  <2>6. T = (T \ {x}) \cup {x}
    BY <2>3
  <2>7. T \ {x} \in SUBSET S /\ x \in S \ (T \ {x})
    BY <2>3
  <2> QED BY <2>5, <2>6, <2>7
<1>3. Cardinality(S) \in Nat
  BY FS_CardinalityType
<1> HIDE DEF Q
<1>4. Cardinality(S) \in Q
  BY <1>1, <1>2, <1>3, NatSetInduction
<1> QED BY <1>4 DEF Q

-----------------------------------------------------------------------------
(* The community modules' sum over a set of indices, unfolded: the         *)
(* recursion exists, and every index may be the first.                     *)
Pick(s) == CHOOSE x \in s : TRUE

Step(f, g, s) == IF s = {} THEN 0 ELSE f[Pick(s)] + g[s \ {Pick(s)}]

IsSums(g, f, S) == g = [s \in SUBSET S |-> Step(f, g, s)]

LEMMA PickIn == ASSUME NEW s, s # {} PROVE Pick(s) \in s
BY DEF Pick

LEMMA SumsExist ==
  ASSUME NEW f, NEW S, IsFiniteSet(S)
  PROVE  \E g : g = [s \in SUBSET S |-> Step(f, g, s)]
<1> DEFINE upto(n) == {s \in SUBSET S : Cardinality(s) <= n}
           Q == {n \in Nat : \E g : g = [s \in upto(n) |-> Step(f, g, s)]}
<1>1. \A s \in SUBSET S : /\ IsFiniteSet(s) /\ Cardinality(s) \in Nat
                          /\ Cardinality(s) <= Cardinality(S)
                          /\ (Cardinality(s) = 0 <=> s = {})
  BY FS_Subset, FS_CardinalityType, FS_EmptySet
<1>2. \A s \in SUBSET S : s # {} =>
        s \ {Pick(s)} \in SUBSET S /\ Cardinality(s \ {Pick(s)}) = Cardinality(s) - 1
  BY <1>1, PickIn, FS_RemoveElement
<1>3. 0 \in Q
  <2> DEFINE g == [s \in upto(0) |-> 0]
  <2>1. \A s \in upto(0) : s = {}
    BY <1>1
  <2>2. g = [s \in upto(0) |-> Step(f, g, s)]
    BY <2>1 DEF Step
  <2> QED BY <2>2
<1>4. ASSUME NEW n \in Nat, n \in Q PROVE n + 1 \in Q
  <2>1. PICK g : g = [s \in upto(n) |-> Step(f, g, s)]
    BY <1>4
  <2> DEFINE h == [s \in upto(n + 1) |-> Step(f, g, s)]
  <2>2. \A s \in upto(n + 1) : s # {} => s \ {Pick(s)} \in upto(n) /\ s \ {Pick(s)} \in upto(n + 1)
    BY <1>1, <1>2
  <2>3. \A s \in upto(n) : h[s] = g[s]
    <3> SUFFICES ASSUME NEW s \in upto(n) PROVE h[s] = g[s]
      OBVIOUS
    <3>1. s \in upto(n + 1)
      BY <1>1
    <3>2. h[s] = Step(f, g, s)
      BY <3>1
    <3>3. g[s] = Step(f, g, s)
      BY <2>1
    <3> QED BY <3>2, <3>3
  <2>4. \A s \in upto(n + 1) : Step(f, g, s) = Step(f, h, s)
    BY <2>2, <2>3 DEF Step
  <2> HIDE DEF upto
  <2>5. h = [s \in upto(n + 1) |-> Step(f, h, s)]
    BY <2>4
  <2>6. n + 1 \in Nat
    BY <1>4
  <2> QED BY <2>5, <2>6, Zenon
<1>5. Cardinality(S) \in Nat
  BY <1>1
<1> HIDE DEF Q
<1>6. Cardinality(S) \in Q
  BY <1>3, <1>4, <1>5, NatSetInduction
<1>7. upto(Cardinality(S)) = SUBSET S
  BY <1>1
<1> QED BY <1>6, <1>7 DEF Q

LEMMA SumsAgree ==
  ASSUME NEW f, NEW S, IsFiniteSet(S), NEW T \in SUBSET S,
         NEW g, IsSums(g, f, S), NEW h, IsSums(h, f, T)
  PROVE  g[T] = h[T]
<1> DEFINE Q == {n \in Nat : \A s \in SUBSET T : Cardinality(s) = n => g[s] = h[s]}
<1>1. \A s \in SUBSET T : /\ IsFiniteSet(s) /\ Cardinality(s) \in Nat
                          /\ (Cardinality(s) = 0 <=> s = {})
                          /\ g[s] = Step(f, g, s) /\ h[s] = Step(f, h, s)
  BY FS_Subset, FS_CardinalityType, FS_EmptySet DEF IsSums
<1>2. 0 \in Q
  BY <1>1 DEF Step
<1>3. ASSUME NEW n \in Nat, n \in Q PROVE n + 1 \in Q
  <2>0. n + 1 \in Nat /\ n + 1 # 0 /\ (n + 1) - 1 = n
    BY <1>3
  <2> SUFFICES ASSUME NEW s \in SUBSET T, Cardinality(s) = n + 1 PROVE g[s] = h[s]
    BY <2>0, Zenon
  <2>1. s # {}
    BY <1>1, <2>0, Zenon
  <2>2. s \ {Pick(s)} \in SUBSET T /\ Cardinality(s \ {Pick(s)}) = n
    <3>1. Pick(s) \in s /\ IsFiniteSet(s)
      BY <1>1, <2>1, PickIn, Zenon
    <3>2. Cardinality(s \ {Pick(s)}) = Cardinality(s) - 1
      BY <3>1, FS_RemoveElement
    <3> QED BY <2>0, <3>2
  <2>3. g[s \ {Pick(s)}] = h[s \ {Pick(s)}]
    BY <1>3, <2>2
  <2> QED BY <1>1, <2>3 DEF Step
<1> HIDE DEF Q
<1>4. Cardinality(T) \in Q
  BY <1>1, <1>2, <1>3, NatSetInduction
<1> QED BY <1>4 DEF Q

LEMMA SumIsSums ==
  ASSUME NEW f, NEW S, IsFiniteSet(S)
  PROVE  \E g : IsSums(g, f, S) /\ SumFunctionOnSet(f, S) = g[S]
<1> DEFINE g == CHOOSE g : g = [s \in SUBSET S |-> Step(f, g, s)]
<1>1. SumFunctionOnSet(f, S) =
        (CHOOSE g1 : g1 = [s \in SUBSET S |->
           IF s = {} THEN 0 ELSE LET x == CHOOSE x \in s : TRUE IN f[x] + g1[s \ {x}]])[S]
  BY SMT DEF SumFunctionOnSet, FoldFunctionOnSet, MapThenFoldSet
<1>2. SumFunctionOnSet(f, S) = g[S]
  BY <1>1 DEF Step, Pick
<1>3. IsSums(g, f, S)
  BY SumsExist DEF IsSums
<1> HIDE DEF g
<1> QED BY <1>2, <1>3

LEMMA SumEmpty == \A f : SumFunctionOnSet(f, {}) = 0
<1> TAKE f
<1>1. PICK g : IsSums(g, f, {}) /\ SumFunctionOnSet(f, {}) = g[{}]
  BY SumIsSums, FS_EmptySet
<1>2. g[{}] = Step(f, g, {})
  BY <1>1 DEF IsSums
<1> QED BY <1>1, <1>2 DEF Step

LEMMA SumPick ==
  ASSUME NEW f, NEW S, IsFiniteSet(S), S # {}
  PROVE  SumFunctionOnSet(f, S) = f[Pick(S)] + SumFunctionOnSet(f, S \ {Pick(S)})
<1> DEFINE T == S \ {Pick(S)}
<1>1. IsFiniteSet(T) /\ T \in SUBSET S
  BY FS_Subset
<1>2. PICK g : IsSums(g, f, S) /\ SumFunctionOnSet(f, S) = g[S]
  BY SumIsSums
<1>3. PICK h : IsSums(h, f, T) /\ SumFunctionOnSet(f, T) = h[T]
  BY <1>1, SumIsSums
<1> HIDE DEF T
<1>4. g[T] = h[T]
  BY <1>1, <1>2, <1>3, SumsAgree
<1>5. g[S] = Step(f, g, S)
  BY <1>2 DEF IsSums
<1> QED BY <1>2, <1>3, <1>4, <1>5 DEF Step, T

LEMMA SumNat ==
  ASSUME NEW f, NEW S, IsFiniteSet(S), \A x \in S : f[x] \in Nat
  PROVE  SumFunctionOnSet(f, S) \in Nat
<1> DEFINE Q == {n \in Nat : \A T \in SUBSET S : Cardinality(T) = n => SumFunctionOnSet(f, T) \in Nat}
<1>1. \A T \in SUBSET S : IsFiniteSet(T) /\ Cardinality(T) \in Nat /\ (Cardinality(T) = 0 <=> T = {})
  BY FS_Subset, FS_CardinalityType, FS_EmptySet
<1>2. 0 \in Q
  BY <1>1, SumEmpty
<1>3. ASSUME NEW n \in Nat, n \in Q PROVE n + 1 \in Q
  <2>0. n + 1 \in Nat /\ n + 1 # 0 /\ (n + 1) - 1 = n
    BY <1>3
  <2> SUFFICES ASSUME NEW T \in SUBSET S, Cardinality(T) = n + 1 PROVE SumFunctionOnSet(f, T) \in Nat
    BY <2>0, Zenon
  <2>1. T # {}
    BY <1>1, <2>0, Zenon
  <2> DEFINE x == Pick(T)
  <2>2. x \in T /\ IsFiniteSet(T)
    BY <1>1, <2>1, PickIn, Zenon
  <2>3. Cardinality(T \ {x}) = Cardinality(T) - 1
    BY <2>2, FS_RemoveElement
  <2>4. T \ {x} \in SUBSET S /\ Cardinality(T \ {x}) = n
    BY <2>0, <2>3
  <2>5. SumFunctionOnSet(f, T \ {x}) \in Nat
    BY <1>3, <2>4
  <2>6. SumFunctionOnSet(f, T) = f[x] + SumFunctionOnSet(f, T \ {x})
    BY <2>1, <2>2, SumPick
  <2> QED BY <2>2, <2>5, <2>6
<1> HIDE DEF Q
<1>4. Cardinality(S) \in Q
  BY <1>1, <1>2, <1>3, NatSetInduction
<1> QED BY <1>4 DEF Q

LEMMA SumInt ==
  ASSUME NEW f, NEW S, IsFiniteSet(S), \A x \in S : f[x] \in Int
  PROVE  SumFunctionOnSet(f, S) \in Int
<1> DEFINE Q == {n \in Nat : \A T \in SUBSET S : Cardinality(T) = n => SumFunctionOnSet(f, T) \in Int}
<1>1. \A T \in SUBSET S : IsFiniteSet(T) /\ Cardinality(T) \in Nat /\ (Cardinality(T) = 0 <=> T = {})
  BY FS_Subset, FS_CardinalityType, FS_EmptySet
<1>2. 0 \in Q
  BY <1>1, SumEmpty
<1>3. ASSUME NEW n \in Nat, n \in Q PROVE n + 1 \in Q
  <2>0. n + 1 \in Nat /\ n + 1 # 0 /\ (n + 1) - 1 = n
    BY <1>3
  <2> SUFFICES ASSUME NEW T \in SUBSET S, Cardinality(T) = n + 1 PROVE SumFunctionOnSet(f, T) \in Int
    BY <2>0, Zenon
  <2>1. T # {}
    BY <1>1, <2>0, Zenon
  <2> DEFINE x == Pick(T)
  <2>2. x \in T /\ IsFiniteSet(T)
    BY <1>1, <2>1, PickIn, Zenon
  <2>3. Cardinality(T \ {x}) = Cardinality(T) - 1
    BY <2>2, FS_RemoveElement
  <2>4. T \ {x} \in SUBSET S /\ Cardinality(T \ {x}) = n
    BY <2>0, <2>3
  <2>5. SumFunctionOnSet(f, T \ {x}) \in Int
    BY <1>3, <2>4
  <2>6. SumFunctionOnSet(f, T) = f[x] + SumFunctionOnSet(f, T \ {x})
    BY <2>1, <2>2, SumPick
  <2> QED BY <2>2, <2>5, <2>6
<1> HIDE DEF Q
<1>4. Cardinality(S) \in Q
  BY <1>1, <1>2, <1>3, NatSetInduction
<1> QED BY <1>4 DEF Q

LEMMA SumRemove ==
  ASSUME NEW f, NEW S, IsFiniteSet(S), \A y \in S : f[y] \in Nat, NEW x \in S
  PROVE  SumFunctionOnSet(f, S) = f[x] + SumFunctionOnSet(f, S \ {x})
<1> DEFINE holds(T) == \A y \in T : SumFunctionOnSet(f, T) = f[y] + SumFunctionOnSet(f, T \ {y})
           Q == {n \in Nat : \A T \in SUBSET S : Cardinality(T) = n => holds(T)}
<1>1. \A T \in SUBSET S : /\ IsFiniteSet(T) /\ Cardinality(T) \in Nat /\ (Cardinality(T) = 0 <=> T = {})
                          /\ SumFunctionOnSet(f, T) \in Nat
  BY FS_Subset, FS_CardinalityType, FS_EmptySet, SumNat
<1>2. 0 \in Q
  BY <1>1
<1>3. ASSUME NEW n \in Nat, n \in Q PROVE n + 1 \in Q
  <2>0. n + 1 \in Nat /\ n + 1 # 0 /\ (n + 1) - 1 = n
    BY <1>3
  <2> HIDE DEF holds
  <2> SUFFICES ASSUME NEW T \in SUBSET S, Cardinality(T) = n + 1 PROVE holds(T)
    BY <2>0, Zenon
  <2> DEFINE p == Pick(T)
  <2>1. T # {} /\ p \in T /\ IsFiniteSet(T)
    BY <1>1, <2>0, PickIn, Zenon
  <2>2. \A y \in T : T \ {y} \in SUBSET S /\ Cardinality(T \ {y}) = n
    <3> TAKE y \in T
    <3>1. Cardinality(T \ {y}) = Cardinality(T) - 1
      BY <2>1, FS_RemoveElement
    <3> QED BY <2>0, <3>1
  <2>3. \A y \in T : holds(T \ {y})
    BY <1>3, <2>2
  <2>4. SumFunctionOnSet(f, T) = f[p] + SumFunctionOnSet(f, T \ {p})
    BY <2>1, SumPick
  <2> HIDE DEF p
  <2> SUFFICES ASSUME NEW y \in T, y # p
               PROVE  SumFunctionOnSet(f, T) = f[y] + SumFunctionOnSet(f, T \ {y})
    BY <2>4 DEF holds
  <2> DEFINE U == (T \ {p}) \ {y}
  <2>5. U = (T \ {y}) \ {p}
    OBVIOUS
  <2>6. SumFunctionOnSet(f, T \ {p}) = f[y] + SumFunctionOnSet(f, U)
    BY <2>1, <2>3 DEF holds
  <2>7. SumFunctionOnSet(f, T \ {y}) = f[p] + SumFunctionOnSet(f, U)
    BY <2>1, <2>3, <2>5 DEF holds
  <2>8. U \in SUBSET S /\ f[y] \in Nat /\ f[p] \in Nat
    BY <2>1
  <2> HIDE DEF U
  <2>9. SumFunctionOnSet(f, U) \in Nat
    BY <1>1, <2>8
  <2> QED BY <2>4, <2>6, <2>7, <2>8, <2>9
<1> HIDE DEF Q
<1>4. Cardinality(S) \in Q
  BY <1>1, <1>2, <1>3, NatSetInduction
<1> QED BY <1>4 DEF Q

-----------------------------------------------------------------------------
(* What sums of naturals do.                                               *)
LEMMA SumAdd ==
  ASSUME NEW f, NEW S, NEW x, IsFiniteSet(S), x \notin S, \A y \in S \cup {x} : f[y] \in Nat
  PROVE  SumFunctionOnSet(f, S \cup {x}) = f[x] + SumFunctionOnSet(f, S)
<1>1. IsFiniteSet(S \cup {x}) /\ (S \cup {x}) \ {x} = S
  BY FS_AddElement
<1> QED BY <1>1, SumRemove

LEMMA SumUnion ==
  ASSUME NEW f, NEW A, NEW B, IsFiniteSet(A), IsFiniteSet(B), A \cap B = {},
         \A y \in A \cup B : f[y] \in Nat
  PROVE  SumFunctionOnSet(f, A \cup B) = SumFunctionOnSet(f, A) + SumFunctionOnSet(f, B)
<1> DEFINE P == {T \in SUBSET B :
                   SumFunctionOnSet(f, A \cup T) = SumFunctionOnSet(f, A) + SumFunctionOnSet(f, T)}
<1>1. \A T \in SUBSET B : /\ IsFiniteSet(T) /\ IsFiniteSet(A \cup T)
                          /\ SumFunctionOnSet(f, T) \in Nat /\ SumFunctionOnSet(f, A) \in Nat
  BY FS_Subset, FS_Union, SumNat
<1>2. {} \in P
  BY <1>1, SumEmpty
<1>3. ASSUME NEW T \in SUBSET B, NEW x \in B \ T, T \in P PROVE T \cup {x} \in P
  <2>1. SumFunctionOnSet(f, T \cup {x}) = f[x] + SumFunctionOnSet(f, T)
    BY <1>1, <1>3, SumAdd
  <2>2. x \notin A \cup T /\ A \cup (T \cup {x}) = (A \cup T) \cup {x}
    BY <1>3
  <2>3. SumFunctionOnSet(f, (A \cup T) \cup {x}) = f[x] + SumFunctionOnSet(f, A \cup T)
    BY <1>1, <1>3, <2>2, SumAdd
  <2>4. SumFunctionOnSet(f, A \cup T) = SumFunctionOnSet(f, A) + SumFunctionOnSet(f, T)
    BY <1>3
  <2>5. f[x] \in Nat /\ T \cup {x} \in SUBSET B
    BY <1>3
  <2>6. SumFunctionOnSet(f, A \cup (T \cup {x}))
          = SumFunctionOnSet(f, A) + SumFunctionOnSet(f, T \cup {x})
    <3>1. SumFunctionOnSet(f, A \cup (T \cup {x})) = f[x] + SumFunctionOnSet(f, A \cup T)
      BY <2>2, <2>3
    <3>2. SumFunctionOnSet(f, T) \in Nat /\ SumFunctionOnSet(f, A) \in Nat
      BY <1>1
    <3> QED BY <2>1, <2>4, <2>5, <3>1, <3>2
  <2> QED BY <2>5, <2>6
<1> HIDE DEF P
<1>4. B \in P
  BY <1>2, <1>3, SetInduction
<1> QED BY <1>4 DEF P

LEMMA SumMonotone ==
  ASSUME NEW f, NEW S, IsFiniteSet(S), \A y \in S : f[y] \in Nat, NEW T \in SUBSET S
  PROVE  SumFunctionOnSet(f, T) <= SumFunctionOnSet(f, S)
<1>1. IsFiniteSet(T) /\ IsFiniteSet(S \ T) /\ T \cup (S \ T) = S /\ T \cap (S \ T) = {}
  BY FS_Subset
<1>2. SumFunctionOnSet(f, S) = SumFunctionOnSet(f, T) + SumFunctionOnSet(f, S \ T)
  BY <1>1, SumUnion
<1>3. SumFunctionOnSet(f, T) \in Nat /\ SumFunctionOnSet(f, S \ T) \in Nat
  BY <1>1, SumNat
<1> QED BY <1>2, <1>3

LEMMA SumEqual ==
  ASSUME NEW f, NEW g, NEW S, IsFiniteSet(S), \A y \in S : f[y] \in Nat /\ g[y] = f[y]
  PROVE  SumFunctionOnSet(f, S) = SumFunctionOnSet(g, S)
<1> DEFINE P == {T \in SUBSET S : SumFunctionOnSet(f, T) = SumFunctionOnSet(g, T)}
<1>1. {} \in P
  BY SumEmpty
<1>2. ASSUME NEW T \in SUBSET S, NEW x \in S \ T, T \in P PROVE T \cup {x} \in P
  <2>1. IsFiniteSet(T)
    BY FS_Subset
  <2>2. SumFunctionOnSet(f, T \cup {x}) = f[x] + SumFunctionOnSet(f, T)
    BY <1>2, <2>1, SumAdd
  <2>3. SumFunctionOnSet(g, T \cup {x}) = g[x] + SumFunctionOnSet(g, T)
    BY <1>2, <2>1, SumAdd
  <2> QED BY <1>2, <2>2, <2>3
<1> HIDE DEF P
<1>3. S \in P
  BY <1>1, <1>2, SetInduction
<1> QED BY <1>3 DEF P

LEMMA SumSingle == ASSUME NEW f, NEW x, f[x] \in Nat PROVE SumFunctionOnSet(f, {x}) = f[x]
<1>1. SumFunctionOnSet(f, {} \cup {x}) = f[x] + SumFunctionOnSet(f, {})
  BY FS_EmptySet, SumAdd
<1>2. {} \cup {x} = {x}
  OBVIOUS
<1> QED BY <1>1, <1>2, SumEmpty

(* No part of a sum is larger than it.                                     *)
LEMMA SumMember ==
  ASSUME NEW f, NEW S, IsFiniteSet(S), \A y \in S : f[y] \in Nat, NEW x \in S
  PROVE  f[x] <= SumFunctionOnSet(f, S)
<1>1. {x} \in SUBSET S /\ SumFunctionOnSet(f, {x}) = f[x]
  BY SumSingle
<1> QED BY <1>1, SumMonotone

LEMMA SumZero ==
  ASSUME NEW f, NEW S, IsFiniteSet(S), \A y \in S : f[y] = 0
  PROVE  SumFunctionOnSet(f, S) = 0
<1> DEFINE P == {T \in SUBSET S : SumFunctionOnSet(f, T) = 0}
<1>1. {} \in P
  BY SumEmpty
<1>2. ASSUME NEW T \in SUBSET S, NEW x \in S \ T, T \in P PROVE T \cup {x} \in P
  <2>1. IsFiniteSet(T)
    BY FS_Subset
  <2>2. \A y \in T \cup {x} : f[y] \in Nat /\ f[y] = 0
    BY <1>2
  <2>3. SumFunctionOnSet(f, T \cup {x}) = f[x] + SumFunctionOnSet(f, T)
    BY <1>2, <2>1, <2>2, SumAdd
  <2> QED BY <1>2, <2>2, <2>3
<1> HIDE DEF P
<1>3. S \in P
  BY <1>1, <1>2, SetInduction
<1> QED BY <1>3 DEF P

(* Summing by groups: g has, for each key, the sum over its group.         *)
Grouped(g, f, A, key, K) == \A k \in K : g[k] = SumFunctionOnSet(f, {a \in A : key[a] = k})

LEMMA SumGroups ==
  ASSUME NEW f, NEW A, IsFiniteSet(A), \A y \in A : f[y] \in Nat,
         NEW key, NEW K, IsFiniteSet(K), NEW g, Grouped(g, f, A, key, K)
  PROVE  SumFunctionOnSet(g, K) = SumFunctionOnSet(f, {a \in A : key[a] \in K})
<1> USE DEF Grouped
<1> DEFINE group(k) == {a \in A : key[a] = k}
           those(L) == {a \in A : key[a] \in L}
           P == {L \in SUBSET K : SumFunctionOnSet(g, L) = SumFunctionOnSet(f, those(L))}
<1>1. \A B \in SUBSET A : IsFiniteSet(B) /\ SumFunctionOnSet(f, B) \in Nat
  BY FS_Subset, SumNat
<1>2. \A k \in K : g[k] \in Nat /\ g[k] = SumFunctionOnSet(f, group(k))
  BY <1>1
<1>3. {} \in P
  <2>1. those({}) = {}
    OBVIOUS
  <2> QED BY <2>1, SumEmpty
<1>4. ASSUME NEW L \in SUBSET K, NEW k \in K \ L, L \in P PROVE L \cup {k} \in P
  <2>1. IsFiniteSet(L)
    BY FS_Subset
  <2>2. SumFunctionOnSet(g, L \cup {k}) = g[k] + SumFunctionOnSet(g, L)
    BY <1>2, <1>4, <2>1, SumAdd
  <2>3. those(L \cup {k}) = those(L) \cup group(k) /\ those(L) \cap group(k) = {}
    BY <1>4
  <2>4. those(L) \in SUBSET A /\ group(k) \in SUBSET A
    OBVIOUS
  <2>5. SumFunctionOnSet(g, L) = SumFunctionOnSet(f, those(L))
    BY <1>4
  <2> HIDE DEF those, group
  <2>6. SumFunctionOnSet(f, those(L) \cup group(k))
          = SumFunctionOnSet(f, those(L)) + SumFunctionOnSet(f, group(k))
    BY <1>1, <2>3, <2>4, SumUnion
  <2>7. SumFunctionOnSet(g, L \cup {k}) = SumFunctionOnSet(f, those(L \cup {k}))
    <3>1. SumFunctionOnSet(f, those(L \cup {k}))
            = SumFunctionOnSet(f, those(L)) + SumFunctionOnSet(f, group(k))
      BY <2>3, <2>6
    <3>2. SumFunctionOnSet(g, L \cup {k}) = SumFunctionOnSet(f, group(k)) + SumFunctionOnSet(f, those(L))
      BY <1>2, <1>4, <2>2, <2>5
    <3>3. SumFunctionOnSet(f, those(L)) \in Nat /\ SumFunctionOnSet(f, group(k)) \in Nat
      BY <1>1, <2>4
    <3> QED BY <3>1, <3>2, <3>3
  <2> QED BY <1>4, <2>7
<1> HIDE DEF P
<1>5. K \in P
  BY <1>3, <1>4, SetInduction
<1> QED BY <1>5 DEF P

-----------------------------------------------------------------------------
(* The state machine.                                                      *)
Usd == [i \in Ids |-> Priced(Position[i])]
Net == [i \in Ids |-> Position[i].usd]

Left(j) == IF jobs[j] = "runs" THEN 1 ELSE 0

Types ==
  /\ jobs \in [Jobs -> {"runs", "done", "failed"}]
  /\ held \subseteq Ids /\ kept \subseteq held
  /\ trades \in 0 .. MaxTrades
  /\ pages \in 0 .. MaxPages /\ cursor \in Ids \cup {0}
  /\ items \in Seq(Ids) /\ Len(items) <= pages
  /\ loops \in BOOLEAN /\ lost \in BOOLEAN /\ errors \in Nat

Counted ==
  /\ errors = 0 => \A j \in Jobs : jobs[j] # "failed"
  /\ errors + Left("portfolio") + Left("positions") + Left("chart") <= 3

(* No position is listed twice.                                            *)
Once == \A m, n \in DOMAIN items : items[m] = items[n] => m = n

(* The page last read ended at the cursor: all that stayed in the wallet   *)
(* up to there is listed, if nothing was passed over, and nothing past it. *)
Paged ==
  /\ jobs["positions"] = "runs" => pages < MaxPages
  /\ jobs["positions"] = "runs" /\ ~loops =>
       /\ ~lost => \A i \in Asked(kept) : i <= cursor => i \in ToSet(items)
       /\ \A n \in DOMAIN items : items[n] <= cursor
       /\ Once
  /\ WholeList => Asked(kept) \subseteq ToSet(items) /\ Once
  /\ trades = 0 => kept = held /\ ToSet(items) \subseteq Asked(held)

Summed ==
  /\ summary # None <=> jobs["portfolio"] = "done"
  /\ summary # None =>
       /\ summary.total \in Int /\ DOMAIN summary.chains \subseteq ZChains
       /\ \A z \in DOMAIN summary.chains : summary.chains[z] \in Int
       /\ trades = 0 => summary.total \in {Sum(Asked(held)), 0}

PInv ==
  /\ Types /\ Counted /\ Paged /\ Summed
  /\ Ready => /\ \A j \in Jobs : jobs[j] # "runs"
              /\ WellFormed(snapshot)
              /\ BarsWithinTotal /\ RowsAddUp /\ CompleteOrReported

LEMMA ConstantTypes ==
  /\ IsFiniteSet(Ids) /\ IsFiniteSet(ZChains) /\ IsFiniteSet(Slugs) /\ IsFiniteSet(Queried)
  /\ \A i \in Ids : /\ Usd[i] = Priced(Position[i]) /\ Usd[i] \in Nat
                    /\ Net[i] = Position[i].usd /\ Net[i] \in Int
                    /\ Net[i] >= 0 => Usd[i] = Net[i]
                    /\ Position[i].home \in ZChains
                    /\ Slug(Position[i]) \in Slugs \cup {NoChain}
<1>1. IsFiniteSet(Slugs)
  <2> DEFINE f == [z \in ZChains |-> SlugOf[z]]
  <2>1. f \in Surjection(ZChains, Slugs)
    BY DEF Surjection, Slugs
  <2> QED BY <2>1, ConstantsAssumption, FS_Surjection
<1>2. ASSUME NEW i \in Ids PROVE Slug(Position[i]) \in Slugs \cup {NoChain}
  <2> DEFINE p == Position[i]
  <2>1. p.chain # NoChain => p.chain \in ZChains
    BY ConstantsAssumption
  <2>2. ASSUME Cardinality(p.implementations) = 1
        PROVE  (CHOOSE z \in p.implementations : TRUE) \in ZChains
    <3>1. p.implementations # {}
      BY <2>2, FS_EmptySet
    <3> QED BY <3>1, ConstantsAssumption
  <2>3. \A z \in ZChains : SlugOf[z] \in Slugs
    BY DEF Slugs
  <2> QED BY <2>1, <2>2, <2>3 DEF Slug
<1>3. ASSUME NEW i \in Ids
      PROVE  /\ Usd[i] = Priced(Position[i]) /\ Usd[i] \in Nat
             /\ Net[i] = Position[i].usd /\ Net[i] \in Int
             /\ Net[i] >= 0 => Usd[i] = Net[i]
  <2>1. Position[i].usd \in Int
    BY ConstantsAssumption
  <2> QED BY <2>1 DEF Usd, Net, Priced
<1> QED BY <1>1, <1>2, <1>3, ConstantsAssumption

LEMMA AskedOf == ASSUME NEW ids PROVE Asked(ids) \subseteq ids
BY DEF Asked

(* What positions are worth, debts included and left out.                  *)
LEMMA Worth ==
  ASSUME NEW ids \in SUBSET Ids
  PROVE  /\ IsFiniteSet(ids) /\ Sum(ids) = SumFunctionOnSet(Net, ids) /\ Sum(ids) \in Int
         /\ (\A i \in ids : Position[i].usd >= 0) => Sum(ids) = SumFunctionOnSet(Usd, ids)
<1>1. IsFiniteSet(ids) /\ \A i \in ids : Net[i] \in Int /\ Usd[i] \in Nat
  BY ConstantTypes, FS_Subset
<1>2. Sum(ids) = SumFunctionOnSet(Net, ids)
  BY DEF Sum, Net
<1>3. ASSUME \A i \in ids : Position[i].usd >= 0
      PROVE  SumFunctionOnSet(Usd, ids) = SumFunctionOnSet(Net, ids)
  <2>1. \A i \in ids : Net[i] = Usd[i]
    BY <1>3, ConstantTypes
  <2> QED BY <1>1, <2>1, SumEqual
<1> QED BY <1>1, <1>2, <1>3, SumInt

LEMMA SumNothing == ASSUME NEW f, DOMAIN f = {} PROVE SumFunction(f) = 0
BY SumEmpty DEF SumFunction

LEMMA InitPInv == Init => PInv
<1> SUFFICES ASSUME Init PROVE PInv
  OBVIOUS
<1>1. MaxPages \in Nat \ {0} /\ Ids \subseteq Nat \ {0} /\ MaxTrades \in Nat
  BY ConstantsAssumption
<1>2. items = <<>> /\ items \in Seq(Ids) /\ Len(items) = 0 /\ ToSet(items) = {}
  BY DEF Init, ToSet
<1>3. \/ jobs = [j \in Jobs |-> "runs"] /\ errors = 0 /\ snapshot = None
      \/ jobs = [j \in Jobs |-> "failed"] /\ errors = 1 /\ snapshot = NoKeySnapshot
  BY DEF Init
<1>4. Types
  <2>1. jobs \in [Jobs -> {"runs", "done", "failed"}] /\ errors \in Nat
    <3>1. 0 \in Nat /\ 1 \in Nat
      OBVIOUS
    <3> QED BY <1>3, <3>1, Zenon
  <2>2. held \subseteq Ids /\ kept = held /\ trades = 0 /\ pages = 0 /\ cursor = 0 /\ loops \in BOOLEAN
    BY DEF Init
  <2>3. lost \in BOOLEAN
    BY Zenon DEF Init
  <2> QED BY <1>1, <1>2, <2>1, <2>2, <2>3 DEF Types
<1>5. Counted
  BY <1>3 DEF Counted, Left, Jobs
<1>6. Paged
  <2>1. Once /\ (\A n \in DOMAIN items : items[n] <= cursor)
    BY <1>2 DEF Once
  <2>2. \A i \in Asked(kept) : ~(i <= cursor)
    <3>1. Asked(kept) \subseteq Nat \ {0} /\ cursor = 0
      BY <1>1, <1>4, AskedOf DEF Init, Types
    <3> QED BY <3>1
  <2>3. pages < MaxPages /\ jobs["positions"] # "done"
    BY <1>1, <1>3 DEF Init, Jobs
  <2> QED BY <1>2, <2>1, <2>2, <2>3 DEF Paged, Init, WholeList
<1>7. Summed
  BY <1>3 DEF Summed, Init, Jobs
<1>8. CASE snapshot = None
  BY <1>4, <1>5, <1>6, <1>7, <1>8 DEF PInv, Ready
<1>9. CASE snapshot = NoKeySnapshot
  <2>1. /\ snapshot.total = 0 /\ DOMAIN snapshot.byChain = {} /\ DOMAIN snapshot.tokens = {}
        /\ DOMAIN snapshot.aggregated = {} /\ DOMAIN snapshot.defi = {} /\ snapshot.errors = 1
    BY <1>9 DEF NoKeySnapshot
  <2>2. \A j \in Jobs : jobs[j] = "failed"
    BY <1>3, <1>9 DEF None, NoKeySnapshot
  <2>3. WellFormed(snapshot)
    BY <2>1 DEF WellFormed
  <2>4. SumFunction(snapshot.byChain) = 0
    BY <2>1, SumNothing
  <2>5. RowsTotal = 0
    <3>1. SumFunction(snapshot.aggregated) = 0
      BY <2>1, SumNothing
    <3>2. SumFunction([n \in DOMAIN snapshot.defi |-> snapshot.defi[n].usd]) = 0
      BY <2>1, SumNothing
    <3> QED BY <3>1, <3>2 DEF RowsTotal
  <2>6. BarsWithinTotal
    BY <2>1, <2>4 DEF BarsWithinTotal
  <2>7. RowsAddUp
    BY <2>1, <2>2, <2>5 DEF RowsAddUp, WholeList, Jobs
  <2>8. CompleteOrReported
    BY <2>1 DEF CompleteOrReported
  <2> QED BY <1>4, <1>5, <1>6, <1>7, <2>2, <2>3, <2>6, <2>7, <2>8 DEF PInv
<1> QED BY <1>3, <1>8, <1>9

(* While the request is under way the answer has no part.                  *)
LEMMA Unanswered ==
  ASSUME PInv, snapshot = None, snapshot' = None, Types', Counted', Paged', Summed'
  PROVE  PInv'
BY DEF PInv, Ready

(* A job that runs says that the answer is not there yet.                  *)
LEMMA NotReady ==
  ASSUME PInv, NEW j \in Jobs, jobs[j] = "runs"
  PROVE  snapshot = None
BY DEF PInv, Ready

LEMMA TradePInv == PInv /\ Trade => PInv'
<1> SUFFICES ASSUME PInv, Trade PROVE PInv'
  OBVIOUS
<1>1. /\ kept' = kept \cap held' /\ held' \subseteq Ids /\ trades' = trades + 1 /\ trades < MaxTrades
      /\ UNCHANGED <<jobs, summary, pages, cursor, items, loops, lost, errors, snapshot>>
      /\ snapshot = None
  BY DEF Trade
<1>2. Types'
  BY <1>1, ConstantsAssumption DEF PInv, Types
<1>3. Counted'
  BY <1>1 DEF PInv, Counted, Left
<1>4. trades' # 0
  BY <1>1 DEF PInv, Types
<1>5. Paged'
  BY <1>1, <1>4 DEF PInv, Paged, Once, Asked, WholeList
<1>6. Summed'
  BY <1>1, <1>4 DEF PInv, Summed
<1> QED BY <1>1, <1>2, <1>3, <1>5, <1>6, Unanswered

LEMMA FailPInv == ASSUME PInv, NEW j \in Jobs, Fail(j) PROVE PInv'
<1>1. /\ jobs[j] = "runs" /\ jobs' = [jobs EXCEPT ![j] = "failed"] /\ errors' = errors + 1
      /\ UNCHANGED <<held, kept, trades, summary, pages, cursor, items, loops, lost, snapshot>>
  BY DEF Fail
<1>2. snapshot = None
  BY <1>1, NotReady
<1>3. Types'
  BY <1>1 DEF PInv, Types
<1>4. jobs \in [Jobs -> {"runs", "done", "failed"}] /\ errors \in Nat
  BY DEF PInv, Types
<1>5. Counted'
  <2>1. errors' # 0
    BY <1>1, <1>4
  <2>2. CASE j = "portfolio"
    BY <1>1, <1>4, <2>1, <2>2 DEF PInv, Counted, Left, Jobs
  <2>3. CASE j = "positions"
    BY <1>1, <1>4, <2>1, <2>3 DEF PInv, Counted, Left, Jobs
  <2>4. CASE j = "chart"
    BY <1>1, <1>4, <2>1, <2>4 DEF PInv, Counted, Left, Jobs
  <2> QED BY <2>2, <2>3, <2>4 DEF Jobs
<1>6. Paged'
  <2>1. \/ jobs'["positions"] = jobs["positions"]
        \/ jobs'["positions"] = "failed"
    BY <1>1, <1>4 DEF Jobs
  <2> QED BY <1>1, <2>1 DEF PInv, Paged, Once, Asked, WholeList
<1>7. Summed'
  <2>1. jobs'["portfolio"] = "done" <=> jobs["portfolio"] = "done"
    BY <1>1, <1>4 DEF Jobs
  <2> QED BY <1>1, <2>1 DEF PInv, Summed, Sum, Asked
<1> QED BY <1>1, <1>2, <1>3, <1>5, <1>6, <1>7, Unanswered

LEMMA FetchPortfolioPInv == PInv /\ FetchPortfolio => PInv'
<1> SUFFICES ASSUME PInv, FetchPortfolio PROVE PInv'
  OBVIOUS
<1>1. /\ jobs["portfolio"] = "runs" /\ jobs' = [jobs EXCEPT !["portfolio"] = "done"]
      /\ UNCHANGED <<held, kept, trades, pages, cursor, items, loops, lost, errors, snapshot>>
  BY DEF FetchPortfolio
<1>2. snapshot = None /\ "portfolio" \in Jobs /\ "positions" \in Jobs /\ "chart" \in Jobs
  BY <1>1, NotReady DEF Jobs
<1>3. jobs \in [Jobs -> {"runs", "done", "failed"}] /\ errors \in Nat /\ held \subseteq Ids
  BY DEF PInv, Types
<1>4. Types'
  BY <1>1 DEF PInv, Types
<1>5. Counted'
  BY <1>1, <1>2, <1>3 DEF PInv, Counted, Left
<1>6. Paged'
  BY <1>1, <1>2, <1>3 DEF PInv, Paged, Once, Asked, WholeList
<1>7. Summed'
  <2> DEFINE on(z) == Sum({i \in Asked(held) : Position[i].home = z})
  <2>1. PICK total \in {Sum(Asked(held)), 0},
            chains \in SUBSET {Position[i].home : i \in Asked(held)} :
          summary' = [is |-> "summary", total |-> total, chains |-> [z \in chains |-> on(z)]]
    BY DEF FetchPortfolio
  <2>2. Asked(held) \in SUBSET Ids /\ Sum(Asked(held)) \in Int
    <3>1. Asked(held) \in SUBSET Ids
      BY <1>3, AskedOf
    <3> QED BY <3>1, Worth
  <2>3. chains \subseteq ZChains
    BY <2>2, ConstantTypes
  <2>4. \A z \in chains : on(z) \in Int
    BY <2>2, Worth
  <2>5. summary' # None
    BY <2>1 DEF None
  <2>6. Sum(Asked(held))' = Sum(Asked(held))
    BY <1>1 DEF Sum, Asked
  <2> HIDE DEF on
  <2>7. /\ summary'.total = total /\ DOMAIN summary'.chains = chains
        /\ \A z \in chains : summary'.chains[z] = on(z)
    BY <2>1
  <2> QED BY <1>1, <1>2, <1>3, <2>2, <2>3, <2>4, <2>5, <2>6, <2>7 DEF Summed
<1> QED BY <1>1, <1>2, <1>4, <1>5, <1>6, <1>7, Unanswered

LEMMA FetchChartPInv == PInv /\ FetchChart => PInv'
<1> SUFFICES ASSUME PInv, FetchChart PROVE PInv'
  OBVIOUS
<1>1. /\ jobs["chart"] = "runs" /\ jobs' = [jobs EXCEPT !["chart"] = "done"]
      /\ UNCHANGED <<held, kept, trades, summary, pages, cursor, items, loops, lost, errors, snapshot>>
  BY DEF FetchChart
<1>2. snapshot = None /\ "portfolio" \in Jobs /\ "positions" \in Jobs /\ "chart" \in Jobs
  BY <1>1, NotReady DEF Jobs
<1>3. jobs \in [Jobs -> {"runs", "done", "failed"}] /\ errors \in Nat
  BY DEF PInv, Types
<1>4. Types'
  BY <1>1 DEF PInv, Types
<1>5. Counted'
  BY <1>1, <1>2, <1>3 DEF PInv, Counted, Left
<1>6. Paged'
  BY <1>1, <1>2, <1>3 DEF PInv, Paged, Once, Asked, WholeList
<1>7. Summed'
  BY <1>1, <1>2, <1>3 DEF PInv, Summed, Sum, Asked
<1> QED BY <1>1, <1>2, <1>4, <1>5, <1>6, <1>7, Unanswered

(* The next position is the smallest of the rest; a rest of at most one    *)
(* has no other.                                                           *)
LEMMA SmallestOfRest ==
  ASSUME NEW rest \in SUBSET Nat, IsFiniteSet(rest), NEW i \in rest
  PROVE  /\ Min(rest) \in rest /\ Min(rest) <= i
         /\ ~(Cardinality(rest) > 1) => i = Min(rest)
<1>1. Min(rest) \in rest /\ Min(rest) <= i
  BY HasSmallest
<1>2. Cardinality(rest) \in Nat
  BY FS_CardinalityType
<1>3. ASSUME ~(Cardinality(rest) > 1) PROVE i = Min(rest)
  <2>1. Cardinality(rest) = 1
    BY <1>2, <1>3, FS_EmptySet
  <2> QED BY <1>1, <2>1, FS_Singleton
<1> QED BY <1>1, <1>3

(* The next page goes on where the last one ended, past what is listed.    *)
LEMMA FetchPagePInv == PInv /\ FetchPage => PInv'
<1> SUFFICES ASSUME PInv, FetchPage PROVE PInv'
  OBVIOUS
<1>1. PICK readable \in BOOLEAN, own \in BOOLEAN :
        LET rest == {i \in Asked(held) : i > cursor}
            more == loops \/ Cardinality(rest) > 1
            page == IF rest = {} \/ ~readable THEN <<>> ELSE <<Min(rest)>>
        IN  /\ items' = IF pages <= MaxPages THEN items \o page ELSE items
            /\ lost' = (lost \/ ~readable \/ ~own)
            /\ jobs' = [jobs EXCEPT !["positions"] =
                 IF LastPage(pages + 1, more, own) THEN "done" ELSE @]
  BY DEF FetchPage
<1> DEFINE rest == {i \in Asked(held) : i > cursor}
           page == IF rest = {} \/ ~readable THEN <<>> ELSE <<Min(rest)>>
           more == loops \/ Cardinality(rest) > 1
<1>2. MaxPages \in Nat \ {0} /\ Ids \subseteq Nat \ {0} /\ IsFiniteSet(Ids)
  BY ConstantsAssumption
<1>3. /\ jobs["positions"] = "runs" /\ snapshot = None
      /\ pages \in Nat /\ pages < MaxPages /\ cursor \in Nat /\ cursor \in Ids \cup {0}
      /\ items \in Seq(Ids) /\ Len(items) <= pages
      /\ held \subseteq Ids /\ kept \subseteq held /\ lost \in BOOLEAN
      /\ "positions" \in Jobs /\ "portfolio" \in Jobs /\ "chart" \in Jobs
      /\ jobs \in [Jobs -> {"runs", "done", "failed"}] /\ errors \in Nat
  BY <1>2, NotReady DEF FetchPage, PInv, Types, Paged, Jobs
<1>4. Asked(held) \subseteq Ids /\ Asked(kept) \subseteq Asked(held)
  BY <1>3 DEF Asked
<1>5. /\ pages' = pages + 1 /\ items' = items \o page
      /\ cursor' = IF loops /\ Cardinality(rest) <= 1 THEN 0
                   ELSE IF rest = {} THEN cursor ELSE Min(rest)
      /\ jobs' = [jobs EXCEPT !["positions"] =
           IF ~(more /\ own) \/ pages + 1 = MaxPages THEN "done" ELSE @]
      /\ UNCHANGED <<held, kept, trades, summary, loops, errors, snapshot>>
  <2>1. /\ items' = IF pages <= MaxPages THEN items \o page ELSE items
        /\ jobs' = [jobs EXCEPT !["positions"] =
             IF LastPage(pages + 1, more, own) THEN "done" ELSE @]
    BY <1>1
  <2>2. /\ pages' = IF pages <= MaxPages THEN pages + 1 ELSE pages
        /\ cursor' = IF loops /\ Cardinality(rest) <= 1 THEN 0
                     ELSE IF rest = {} THEN cursor ELSE Min(rest)
        /\ UNCHANGED <<held, kept, trades, summary, loops, errors, snapshot>>
    BY DEF FetchPage
  <2>3. pages <= MaxPages
    BY <1>2, <1>3
  <2> HIDE DEF rest, page, more
  <2> QED BY <2>1, <2>2, <2>3 DEF LastPage
<1>6. lost' \in BOOLEAN /\ (~lost' => ~lost /\ readable /\ own)
  BY <1>1, Zenon
<1>7. rest \in SUBSET Ids /\ rest \in SUBSET Nat /\ IsFiniteSet(rest) /\ Cardinality(rest) \in Nat
  BY <1>2, <1>3, <1>4, FS_Subset, FS_CardinalityType
<1>8. rest # {} => Min(rest) \in rest /\ Min(rest) \in Asked(held) /\ Min(rest) > cursor
  BY <1>7, HasSmallest
<1>9. page \in Seq(Ids) /\ Len(page) <= 1 /\ page = IF rest = {} \/ ~readable THEN <<>> ELSE <<Min(rest)>>
  BY <1>7, <1>8
<1>10. /\ items' \in Seq(Ids) /\ Len(items') = Len(items) + Len(page)
       /\ \A n \in DOMAIN items : n \in DOMAIN items' /\ items'[n] = items[n]
       /\ \A n \in DOMAIN items' : n \in DOMAIN items \/ (n = Len(items) + 1 /\ rest # {} /\ readable)
       /\ rest # {} /\ readable =>
                       /\ Len(items) + 1 \in DOMAIN items' /\ Len(items) + 1 \notin DOMAIN items
                       /\ items'[Len(items) + 1] = Min(rest)
  BY <1>3, <1>5, <1>9
<1>11. ToSet(items) \subseteq ToSet(items') /\ (rest # {} /\ readable => Min(rest) \in ToSet(items'))
  BY <1>10 DEF ToSet
<1>12. ToSet(items') \subseteq ToSet(items) \cup Asked(held)
  BY <1>8, <1>10 DEF ToSet
<1>13. /\ \A i \in Asked(held) : i > cursor => i \in rest
       /\ more <=> loops \/ Cardinality(rest) > 1
  OBVIOUS
<1>14. ASSUME NEW i \in Asked(kept), ~(i <= cursor) PROVE i \in rest
  <2>1. i \in Asked(held) /\ i \in Ids
    BY <1>4
  <2>2. i \in Nat
    BY <1>2, <2>1
  <2>3. i > cursor
    BY <1>3, <1>14, <2>2
  <2> QED BY <1>13, <2>1, <2>3
<1> HIDE DEF page, rest, more
<1>15. Types'
  BY <1>6, <1>2, <1>3, <1>5, <1>7, <1>8, <1>9, <1>10 DEF PInv, Types
<1>16. /\ jobs'["positions"] = "done" <=> ~(more /\ own) \/ pages' = MaxPages
       /\ jobs'["positions"] \in {"runs", "done"}
       /\ jobs'["portfolio"] = jobs["portfolio"] /\ jobs'["chart"] = jobs["chart"]
  BY <1>3, <1>5
<1>17. Counted'
  BY <1>3, <1>5, <1>16 DEF PInv, Counted, Left, Jobs
<1>18. Summed'
  BY <1>5, <1>16 DEF PInv, Summed, Sum, Asked
<1>19. ASSUME ~loops PROVE Once'
  <2> SUFFICES ASSUME NEW m \in DOMAIN items', NEW n \in DOMAIN items', items'[m] = items'[n]
               PROVE  m = n
    BY DEF Once
  <2>1. Once /\ \A k \in DOMAIN items : items[k] <= cursor /\ items[k] \in Nat
    <3>1. \A k \in DOMAIN items : items[k] \in Nat
      <4>1. \A k \in DOMAIN items : items[k] \in Ids
        BY <1>3
      <4> QED BY <1>2, <4>1
    <3> QED BY <1>3, <1>19, <3>1 DEF PInv, Paged
  <2>2. \A k \in DOMAIN items : rest # {} => items[k] # Min(rest)
    BY <1>3, <1>7, <1>8, <2>1
  <2> QED BY <1>10, <2>1, <2>2 DEF Once
<1>20. ASSUME ~loops, ~lost', NEW i \in Asked(kept), i <= cursor PROVE i \in ToSet(items')
  BY <1>3, <1>6, <1>11, <1>20 DEF PInv, Paged
<1>21. ASSUME ~loops, jobs'["positions"] = "runs"
       PROVE  /\ ~lost' => \A i \in Asked(kept) : i <= cursor' => i \in ToSet(items')
              /\ \A n \in DOMAIN items' : items'[n] <= cursor'
  <2>1. rest # {} /\ cursor' = Min(rest)
    <3>1. more
      BY <1>16, <1>21
    <3>2. Cardinality(rest) > 1
      BY <1>21, <1>13, <3>1
    <3>3. rest # {} /\ ~(Cardinality(rest) <= 1)
      BY <1>7, <3>2, FS_EmptySet
    <3> QED BY <1>5, <3>3
  <2>2. ASSUME ~lost', NEW i \in Asked(kept), i <= cursor' PROVE i \in ToSet(items')
    <3>1. CASE i <= cursor
      BY <1>20, <1>21, <2>2, <3>1
    <3>2. CASE ~(i <= cursor)
      <4>1. i \in rest /\ rest \in SUBSET Nat /\ rest # {}
        BY <1>14, <1>7, <2>1, <2>2, <3>2
      <4>2. Min(rest) \in Nat /\ i \in Nat /\ Min(rest) <= i /\ i <= Min(rest)
        BY <2>1, <2>2, <4>1, HasSmallest
      <4>3. i = Min(rest)
        BY <4>2
      <4> QED BY <1>6, <1>11, <2>1, <2>2, <4>3
    <3> QED BY <3>1, <3>2
  <2>3. \A k \in DOMAIN items : items[k] <= cursor /\ items[k] \in Nat
    <3>1. \A k \in DOMAIN items : items[k] \in Nat
      <4>1. \A k \in DOMAIN items : items[k] \in Ids
        BY <1>3
      <4> QED BY <1>2, <4>1
    <3> QED BY <1>3, <1>21, <3>1 DEF PInv, Paged
  <2>4. ASSUME NEW n \in DOMAIN items' PROVE items'[n] <= cursor'
    <3>1. Min(rest) \in Nat /\ Min(rest) > cursor /\ cursor' = Min(rest)
      BY <1>7, <1>8, <2>1
    <3>2. CASE n \in DOMAIN items
      BY <1>3, <1>10, <2>3, <3>1, <3>2
    <3>3. CASE n \notin DOMAIN items
      <4>1. items'[n] = Min(rest)
        BY <1>10, <3>3
      <4> QED BY <3>1, <4>1
    <3> QED BY <3>2, <3>3
  <2> QED BY <2>2, <2>4
<1>22. ASSUME jobs'["positions"] = "done", pages' < MaxPages, ~lost'
       PROVE  Asked(kept) \subseteq ToSet(items') /\ ~loops
  <2>1. ~loops /\ ~(Cardinality(rest) > 1)
    BY <1>2, <1>3, <1>5, <1>7, <1>16, <1>22, <1>13, <1>6
  <2> SUFFICES ASSUME NEW i \in Asked(kept) PROVE i \in ToSet(items')
    BY <2>1
  <2>2. CASE i <= cursor
    BY <1>20, <1>22, <2>1, <2>2
  <2>3. CASE ~(i <= cursor)
    <3>1. i \in rest
      BY <1>14, <2>3
    <3>2. i = Min(rest)
      BY <1>7, <2>1, <3>1, SmallestOfRest
    <3> QED BY <1>6, <1>11, <1>22, <3>1, <3>2
  <2> QED BY <2>2, <2>3
<1>23. Paged'
  <2>1. jobs'["positions"] = "runs" => pages' < MaxPages
    BY <1>2, <1>3, <1>5, <1>16
  <2>2. trades' = 0 => kept' = held' /\ ToSet(items') \subseteq Asked(held)'
    BY <1>5, <1>12 DEF PInv, Paged, Asked
  <2>3. Asked(kept)' = Asked(kept)
    BY <1>5 DEF Asked
  <2> QED BY <1>5, <1>19, <1>21, <1>22, <2>1, <2>2, <2>3 DEF Paged, WholeList
<1> QED BY <1>3, <1>5, <1>15, <1>17, <1>18, <1>23, Unanswered

-----------------------------------------------------------------------------
(* What the merge adds up.                                                 *)
(* Zerion's own bars, per chain id and then per slug: they are at most its *)
(* total, and none are only if the total is none.                          *)
LEMMA SummaryBars ==
  ASSUME PInv, summary # None
  PROVE  /\ IsFiniteSet(DOMAIN PortfolioByChain) /\ DOMAIN PortfolioByChain \subseteq Slugs
         /\ \A s \in DOMAIN PortfolioByChain : PortfolioByChain[s] \in Nat
         /\ SummaryAgrees =>
              /\ SumFunctionOnSet(PortfolioByChain, DOMAIN PortfolioByChain) <= summary.total
              /\ PortfolioByChain = <<>> => summary.total = 0
<1> DEFINE D == DOMAIN summary.chains
           chains == summary.chains
           C == {z \in D : chains[z] > 0}
           K == {SlugOf[z] : z \in C}
           bars == [s \in K |-> SumFunctionOnSet(chains, {z \in C : SlugOf[z] = s})]
<1>1. PortfolioByChain = bars /\ DOMAIN PortfolioByChain = K
  BY DEF PortfolioByChain
<1>2. D \subseteq ZChains /\ \A z \in D : chains[z] \in Int
  BY DEF PInv, Summed
<1>3. /\ IsFiniteSet(D) /\ IsFiniteSet(C) /\ K \in SUBSET Slugs /\ IsFiniteSet(K)
      /\ \A z \in C : chains[z] \in Nat
  <2>1. \A z \in C : chains[z] \in Nat
    BY <1>2
  <2>2. IsFiniteSet(D) /\ IsFiniteSet(C)
    BY <1>2, ConstantTypes, FS_Subset
  <2>3. K \in SUBSET Slugs
    BY <1>2 DEF Slugs
  <2> QED BY <2>1, <2>2, <2>3, ConstantTypes, FS_Subset
<1>4. \A s \in K : bars[s] \in Nat
  <2> TAKE s \in K
  <2>1. IsFiniteSet({z \in C : SlugOf[z] = s})
    BY <1>3, FS_Subset
  <2>2. SumFunctionOnSet(chains, {z \in C : SlugOf[z] = s}) \in Nat
    <3> HIDE DEF C, chains
    <3> QED BY <1>3, <2>1, SumNat
  <2> QED BY <2>2
<1>5. SumFunctionOnSet(bars, K) = SumFunctionOnSet(chains, C)
  <2>1. Grouped(bars, chains, C, SlugOf, K)
    BY DEF Grouped
  <2>2. {z \in C : SlugOf[z] \in K} = C
    OBVIOUS
  <2> HIDE DEF C, chains, K, bars
  <2>3. SumFunctionOnSet(bars, K) = SumFunctionOnSet(chains, {z \in C : SlugOf[z] \in K})
    BY <1>3, <2>1, SumGroups
  <2> QED BY <2>2, <2>3
<1>6. ASSUME SummaryAgrees
      PROVE  SumFunctionOnSet(bars, K) <= summary.total /\ (bars = <<>> => summary.total = 0)
  <2>1. SumFunctionOnSet(chains, D) = summary.total /\ \A z \in D : chains[z] \in Nat
    BY <1>2, <1>6 DEF SummaryAgrees, SumFunction
  <2>2. C \in SUBSET D
    OBVIOUS
  <2>3. SumFunctionOnSet(chains, C) <= summary.total
    <3> HIDE DEF C, chains, D
    <3> QED BY <1>3, <2>1, <2>2, SumMonotone
  <2>4. ASSUME bars = <<>> PROVE summary.total = 0
    <3>1. DOMAIN bars = K /\ DOMAIN <<>> = {}
      OBVIOUS
    <3>2. K = {}
      <4> HIDE DEF bars, K
      <4> QED BY <2>4, <3>1
    <3>3. C = {}
      BY <3>2
    <3>4. \A z \in D : chains[z] = 0
      BY <2>1, <3>3
    <3> HIDE DEF C, chains, D, bars
    <3> QED BY <1>3, <2>1, <3>4, SumZero
  <2> QED BY <1>5, <2>3, <2>4
<1> HIDE DEF bars, K
<1> QED BY <1>1, <1>3, <1>4, <1>6

(* The rows' dollars, by their places in the list.                         *)
Val == [n \in DOMAIN Received |-> Priced(Position[Received[n]])]

LEMMA ReceivedPlaces ==
  ASSUME PInv
  PROVE  /\ Received \in Seq(Ids) /\ IsFiniteSet(DOMAIN Received)
         /\ \A n \in DOMAIN Received : Received[n] \in Ids /\ Val[n] = Usd[Received[n]] /\ Val[n] \in Nat
         /\ \A places \in SUBSET DOMAIN Received :
              SumRows(places) = SumFunctionOnSet(Val, places) /\ SumRows(places) \in Nat
         /\ SumRows(Wallet) + SumRows(DeFi) = SumRows(DOMAIN Received)
<1>1. Received \in Seq(Ids)
  BY DEF Received, PInv, Types
<1>2. IsFiniteSet(DOMAIN Received) /\ \A n \in DOMAIN Received : Received[n] \in Ids
  <2>1. DOMAIN Received = 1 .. Len(Received) /\ Len(Received) \in Nat
    BY <1>1
  <2> QED BY <1>1, <2>1, FS_Interval
<1>3. \A n \in DOMAIN Received : Val[n] = Usd[Received[n]] /\ Val[n] \in Nat
  BY <1>2, ConstantTypes DEF Val
<1>4. ASSUME NEW places \in SUBSET DOMAIN Received
      PROVE  SumRows(places) = SumFunctionOnSet(Val, places) /\ SumRows(places) \in Nat
  <2>1. IsFiniteSet(places)
    BY <1>2, FS_Subset
  <2>2. SumFunctionOnSet(Val, places) \in Nat
    BY <1>3, <2>1, SumNat
  <2> QED BY <2>2 DEF SumRows, Val
<1>5. SumRows(Wallet) + SumRows(DeFi) = SumRows(DOMAIN Received)
  <2>1. /\ Wallet \in SUBSET DOMAIN Received /\ DeFi \in SUBSET DOMAIN Received
        /\ Wallet \cup DeFi = DOMAIN Received /\ Wallet \cap DeFi = {}
    BY DEF Wallet, DeFi
  <2>2. IsFiniteSet(Wallet) /\ IsFiniteSet(DeFi)
    BY <1>2, <2>1, FS_Subset
  <2>3. SumFunctionOnSet(Val, DOMAIN Received)
          = SumFunctionOnSet(Val, Wallet) + SumFunctionOnSet(Val, DeFi)
    BY <1>3, <2>1, <2>2, SumUnion
  <2> QED BY <1>4, <2>1, <2>3
<1> QED BY <1>1, <1>2, <1>3, <1>4, <1>5

(* The bars rolled up from the positions.                                  *)
LEMMA PositionBars ==
  ASSUME PInv
  PROVE  /\ IsFiniteSet(DOMAIN PositionByChain) /\ DOMAIN PositionByChain \subseteq Slugs
         /\ \A s \in DOMAIN PositionByChain : PositionByChain[s] \in Nat
         /\ SumFunctionOnSet(PositionByChain, DOMAIN PositionByChain) <= SumRows(DOMAIN Received)
<1> DEFINE D == DOMAIN Received
           K == DOMAIN PositionByChain
           slug == [n \in D |-> Slug(Position[Received[n]])]
           those == {n \in D : slug[n] \in K}
<1>1. K \in SUBSET Slugs /\ IsFiniteSet(K)
  <2>1. K \in SUBSET Slugs
    BY ReceivedPlaces, ConstantTypes DEF PositionByChain, ToSet
  <2> QED BY <2>1, ConstantTypes, FS_Subset
<1>2. \A s \in K : /\ PositionByChain[s] = SumFunctionOnSet(Val, {n \in D : slug[n] = s})
                   /\ PositionByChain[s] \in Nat
  <2> TAKE s \in K
  <2>1. PositionByChain[s] = SumRows(On(s))
    BY DEF PositionByChain
  <2>2. On(s) = {n \in D : slug[n] = s} /\ On(s) \in SUBSET D
    BY DEF On
  <2> QED BY <2>1, <2>2, ReceivedPlaces
<1>3. IsFiniteSet(D) /\ (\A n \in D : Val[n] \in Nat) /\ SumRows(D) = SumFunctionOnSet(Val, D)
  BY ReceivedPlaces
<1>4. SumFunctionOnSet(PositionByChain, K) = SumFunctionOnSet(Val, those)
  <2>1. Grouped(PositionByChain, Val, D, slug, K)
    BY <1>2 DEF Grouped
  <2> HIDE DEF D, K, slug
  <2> QED BY <1>1, <1>3, <2>1, SumGroups
<1>5. SumFunctionOnSet(Val, those) <= SumFunctionOnSet(Val, D)
  <2>1. those \in SUBSET D
    OBVIOUS
  <2> HIDE DEF D, K, slug, those
  <2> QED BY <1>3, <2>1, SumMonotone
<1> QED BY <1>1, <1>2, <1>3, <1>4, <1>5

(* Chains shown without a bar add nothing.                                 *)
LEMMA Filled ==
  ASSUME NEW u, IsFiniteSet(DOMAIN u), \A s \in DOMAIN u : u[s] \in Nat,
         NEW B, IsFiniteSet(B), DOMAIN u \subseteq B
  PROVE  SumFunction([s \in B |-> IF s \in DOMAIN u THEN u[s] ELSE 0])
           = SumFunctionOnSet(u, DOMAIN u)
<1> DEFINE bars == [s \in B |-> IF s \in DOMAIN u THEN u[s] ELSE 0]
           K == DOMAIN u
<1>1. /\ IsFiniteSet(B \ K) /\ K \cup (B \ K) = B /\ K \cap (B \ K) = {}
      /\ \A s \in B : bars[s] \in Nat
      /\ \A s \in K : bars[s] \in Nat /\ u[s] = bars[s]
      /\ \A s \in B \ K : bars[s] = 0
      /\ DOMAIN bars = B
  BY FS_Subset
<1>2. SumFunction(bars) = SumFunctionOnSet(bars, B)
  BY <1>1 DEF SumFunction
<1> HIDE DEF bars, K
<1>3. IsFiniteSet(K)
  BY DEF K
<1>4. SumFunctionOnSet(bars, B) = SumFunctionOnSet(bars, K) + SumFunctionOnSet(bars, B \ K)
  BY <1>1, <1>3, SumUnion
<1>5. SumFunctionOnSet(bars, B \ K) = 0
  BY <1>1, SumZero
<1>6. SumFunctionOnSet(bars, K) = SumFunctionOnSet(u, K)
  BY <1>1, <1>3, SumEqual
<1>7. SumFunctionOnSet(bars, K) \in Nat
  BY <1>1, <1>3, SumNat
<1> QED BY <1>2, <1>4, <1>5, <1>6, <1>7 DEF bars, K

(* While the wallet rests, a whole list has every position once.           *)
LEMMA ListIsWallet ==
  ASSUME PInv, trades = 0, WholeList
  PROVE  SumRows(DOMAIN Received) = SumFunctionOnSet(Usd, Asked(held))
<1> DEFINE D == DOMAIN Received
           A == Asked(held)
<1>1. Received = items /\ ToSet(items) = A /\ Once /\ A \in SUBSET Ids
  <2>1. Asked(kept) = A /\ A \in SUBSET Ids
    BY AskedOf DEF PInv, Paged, Types
  <2> QED BY <2>1 DEF Received, PInv, Paged, WholeList
<1>2. IsFiniteSet(D) /\ \A n \in D : Received[n] \in A /\ Val[n] = Usd[Received[n]] /\ Val[n] \in Nat
  BY <1>1, ReceivedPlaces DEF ToSet
<1> HIDE DEF A
<1>3. Grouped(Usd, Val, D, Received, A)
  <2> SUFFICES ASSUME NEW i \in A
               PROVE  Usd[i] = SumFunctionOnSet(Val, {n \in D : Received[n] = i})
    BY DEF Grouped
  <2>1. PICK n \in D : Received[n] = i
    BY <1>1 DEF ToSet
  <2>2. {m \in D : Received[m] = i} = {n}
    BY <1>1, <2>1 DEF Once
  <2> QED BY <1>2, <2>1, <2>2, SumSingle
<1>4. {n \in D : Received[n] \in A} = D
  BY <1>2
<1>5. IsFiniteSet(A)
  BY <1>1, Worth
<1>6. SumRows(D) = SumFunctionOnSet(Val, D)
  BY ReceivedPlaces
<1> HIDE DEF D
<1>7. SumFunctionOnSet(Usd, A) = SumFunctionOnSet(Val, {n \in D : Received[n] \in A})
  BY <1>2, <1>3, <1>5, SumGroups
<1> QED BY <1>4, <1>6, <1>7 DEF D, A

-----------------------------------------------------------------------------
(* The total is a number; it covers the bars of whichever source they are  *)
(* from, and is the rows' where Zerion gives none.                         *)
LEMMA TotalCovers ==
  ASSUME PInv
  PROVE  /\ Total \in Nat
         /\ IsFiniteSet(DOMAIN UsdByChain) /\ DOMAIN UsdByChain \subseteq Slugs
         /\ \A s \in DOMAIN UsdByChain : UsdByChain[s] \in Nat
         /\ SummaryAgrees => SumFunctionOnSet(UsdByChain, DOMAIN UsdByChain) <= Total
         /\ summary = None \/ summary.total <= 0 => Total = SumRows(DOMAIN Received)
<1> DEFINE rows == SumRows(DOMAIN Received)
<1>1. rows \in Nat /\ Total = IF summary # None /\ summary.total > 0 THEN summary.total ELSE rows
  BY ReceivedPlaces DEF Total
<1>2. CASE summary = None
  <2>1. PortfolioByChain = <<>> /\ UsdByChain = PositionByChain /\ Total = rows
    BY <1>1, <1>2 DEF PortfolioByChain, UsdByChain
  <2> QED BY <1>1, <2>1, PositionBars
<1>3. CASE summary # None
  <2>1. summary.total \in Int
    BY <1>3 DEF PInv, Summed
  <2>2. Total \in Nat /\ (summary.total <= 0 => Total = rows) /\ summary.total <= Total
    BY <1>1, <1>3, <2>1
  <2>3. CASE PortfolioByChain = <<>>
    <3>1. UsdByChain = PositionByChain
      BY <2>3 DEF UsdByChain
    <3>2. SummaryAgrees => Total = rows
      BY <1>3, <2>2, <2>3, SummaryBars
    <3> QED BY <2>2, <3>1, <3>2, PositionBars, <1>3
  <2>4. CASE PortfolioByChain # <<>>
    <3>1. UsdByChain = PortfolioByChain
      BY <2>4 DEF UsdByChain
    <3>2. /\ IsFiniteSet(DOMAIN PortfolioByChain) /\ DOMAIN PortfolioByChain \subseteq Slugs
          /\ \A s \in DOMAIN PortfolioByChain : PortfolioByChain[s] \in Nat
          /\ SummaryAgrees => SumFunctionOnSet(PortfolioByChain, DOMAIN PortfolioByChain) <= summary.total
      BY <1>3, SummaryBars
    <3>3. SumFunctionOnSet(PortfolioByChain, DOMAIN PortfolioByChain) \in Nat
      BY <3>2, SumNat
    <3>4. SummaryAgrees => SumFunctionOnSet(PortfolioByChain, DOMAIN PortfolioByChain) <= Total
      BY <2>1, <2>2, <3>2, <3>3
    <3> QED BY <1>3, <2>2, <3>1, <3>2, <3>4
  <2> QED BY <2>3, <2>4
<1> QED BY <1>2, <1>3

(* Of a resting wallet without debts, the total and a whole list's rows    *)
(* are the wallet's worth.                                                 *)
LEMMA TotalOfRest ==
  ASSUME PInv, \A j \in Jobs : jobs[j] # "runs", trades = 0, WholeList,
         \A i \in Asked(held) : Position[i].usd >= 0
  PROVE  Total = SumRows(DOMAIN Received) /\ SumRows(DOMAIN Received) = Sum(Asked(held))
<1>1. Asked(held) \in SUBSET Ids
  BY AskedOf DEF PInv, Types
<1>2. SumRows(DOMAIN Received) = Sum(Asked(held))
  BY <1>1, Worth, ListIsWallet
<1>3. CASE summary = None \/ summary.total <= 0
  BY <1>2, <1>3, TotalCovers
<1>4. CASE ~(summary = None \/ summary.total <= 0)
  <2>1. summary # None /\ summary.total \in Int /\ summary.total \in {Sum(Asked(held)), 0}
    BY <1>4 DEF PInv, Summed
  <2>2. summary.total > 0 /\ summary.total = Sum(Asked(held))
    BY <1>4, <2>1
  <2> QED BY <1>2, <2>1, <2>2 DEF Total
<1> QED BY <1>3, <1>4

(* Summed by asset and over the DeFi rows, the list adds up to itself.     *)
LEMMA RowsAreList ==
  ASSUME PInv, NEW rows, rows = [n \in Wallet |-> Row(Received[n])],
         NEW defi, defi = [n \in DeFi |-> Row(Received[n])]
  PROVE  /\ \A a \in DOMAIN Aggregated(rows) : Aggregated(rows)[a] \in Nat
         /\ SumFunction(Aggregated(rows)) + SumFunction([n \in DOMAIN defi |-> defi[n].usd])
              = SumRows(DOMAIN Received)
<1> DEFINE f == [n \in DOMAIN rows |-> rows[n].usd]
           g == [n \in DOMAIN defi |-> defi[n].usd]
           key == [n \in DOMAIN rows |-> rows[n].symbol]
           K == {rows[n].symbol : n \in DOMAIN rows}
           sums == Aggregated(rows)
<1>1. /\ DOMAIN rows = Wallet /\ DOMAIN defi = DeFi
      /\ Wallet \in SUBSET DOMAIN Received /\ DeFi \in SUBSET DOMAIN Received
      /\ IsFiniteSet(Wallet) /\ IsFiniteSet(DeFi)
  <2>1. Wallet \in SUBSET DOMAIN Received /\ DeFi \in SUBSET DOMAIN Received
    BY DEF Wallet, DeFi
  <2> QED BY <2>1, ReceivedPlaces, FS_Subset
<1>2. /\ \A n \in Wallet : f[n] = Val[n] /\ f[n] \in Nat
      /\ \A n \in DeFi : g[n] = Val[n] /\ g[n] \in Nat
  BY <1>1, ReceivedPlaces DEF Row, Val
<1>3. IsFiniteSet(K)
  <2>1. key \in Surjection(DOMAIN rows, K)
    BY DEF Surjection
  <2> HIDE DEF key, K
  <2> QED BY <1>1, <2>1, FS_Surjection
<1>4. DOMAIN sums = K /\ \A s \in K : sums[s] = SumFunctionOnSet(f, {n \in Wallet : key[n] = s})
  <2>1. \A s : Legs(rows, s) = {n \in Wallet : key[n] = s}
    BY <1>1 DEF Legs
  <2> QED BY <2>1 DEF Aggregated
<1>5. Grouped(sums, f, Wallet, key, K)
  BY <1>4 DEF Grouped
<1>6. {n \in Wallet : key[n] \in K} = Wallet
  BY <1>1
<1> HIDE DEF f, g, key, K, sums
<1>7. \A s \in K : sums[s] \in Nat
  <2> TAKE s \in K
  <2>1. IsFiniteSet({n \in Wallet : key[n] = s})
    BY <1>1, FS_Subset
  <2>2. SumFunctionOnSet(f, {n \in Wallet : key[n] = s}) \in Nat
    BY <1>2, <2>1, SumNat
  <2> QED BY <1>4, <2>2
<1>8. SumFunctionOnSet(sums, K) = SumFunctionOnSet(f, Wallet)
  BY <1>1, <1>2, <1>3, <1>5, <1>6, SumGroups
<1>9. SumFunctionOnSet(f, Wallet) = SumRows(Wallet)
  <2>1. \A n \in Wallet : f[n] \in Nat /\ Val[n] = f[n]
    BY <1>2
  <2>2. SumFunctionOnSet(f, Wallet) = SumFunctionOnSet(Val, Wallet)
    BY <1>1, <2>1, SumEqual
  <2> QED BY <1>1, <2>2, ReceivedPlaces
<1>10. SumFunctionOnSet(g, DeFi) = SumRows(DeFi)
  <2>1. \A n \in DeFi : g[n] \in Nat /\ Val[n] = g[n]
    BY <1>2
  <2>2. SumFunctionOnSet(g, DeFi) = SumFunctionOnSet(Val, DeFi)
    BY <1>1, <2>1, SumEqual
  <2> QED BY <1>1, <2>2, ReceivedPlaces
<1>11. SumFunction(sums) = SumFunctionOnSet(sums, K) /\ SumFunction(g) = SumFunctionOnSet(g, DeFi)
  BY <1>1, <1>4 DEF SumFunction, g
<1>12. SumFunction(sums) + SumFunction(g) = SumRows(DOMAIN Received)
  BY <1>8, <1>9, <1>10, <1>11, ReceivedPlaces
<1> QED BY <1>4, <1>7, <1>12 DEF sums, g

(* The answer shows every entry of the list; a row is a leg of its symbol. *)
LEMMA MergePInv == PInv /\ Merge => PInv'
<1> SUFFICES ASSUME PInv, Merge PROVE PInv'
  OBVIOUS
<1> DEFINE rows == [n \in Wallet |-> Row(Received[n])]
           defi == [n \in DeFi |-> Row(Received[n])]
           usd == UsdByChain
           available == {Slug(Position[i]) : i \in ToSet(Received)} \ {NoChain}
           shown == Queried \cup DOMAIN usd \cup available
           bars == [s \in shown |-> IF s \in DOMAIN usd THEN usd[s] ELSE 0]
<1>1. /\ snapshot'.total = Total /\ snapshot'.byChain = bars
      /\ snapshot'.tokens = rows /\ snapshot'.aggregated = Aggregated(rows)
      /\ snapshot'.defi = defi
      /\ snapshot'.errors = errors
      /\ UNCHANGED <<held, kept, trades, jobs, summary, pages, cursor, items, loops, lost, errors>>
      /\ \A j \in Jobs : jobs[j] # "runs"
  BY DEF Merge
<1>2. Types' /\ Counted' /\ Paged' /\ Summed'
  BY <1>1 DEF PInv, Types, Counted, Left, Paged, Once, Summed, Asked, Sum, WholeList
<1>3. /\ Wallet \subseteq DOMAIN Received /\ DeFi \subseteq DOMAIN Received
      /\ Wallet \cup DeFi = DOMAIN Received
      /\ \A n \in DOMAIN Received : Received[n] \in Ids
  BY ReceivedPlaces DEF Wallet, DeFi
<1>4. /\ \A n \in DOMAIN rows : /\ rows[n].id = Received[n]
                                /\ rows[n].chain = Slug(Position[Received[n]])
      /\ \A n \in DOMAIN defi : defi[n].id = Received[n]
  BY DEF Row
<1>5. CompleteOrReported'
  <2> SUFFICES ASSUME errors = 0, pages < MaxPages, ~lost, NEW i \in Asked(kept)
               PROVE  \/ \E n \in DOMAIN rows : rows[n].id = i
                      \/ \E n \in DOMAIN defi : defi[n].id = i
    BY <1>1 DEF CompleteOrReported, Asked
  <2>1. jobs["positions"] = "done"
    BY <1>1 DEF PInv, Types, Counted, Jobs
  <2>2. PICK n \in DOMAIN items : items[n] = i
    BY <2>1 DEF PInv, Paged, ToSet, WholeList
  <2>3. Received = items
    BY <2>1 DEF Received
  <2>4. CASE n \in Wallet
    BY <1>4, <2>2, <2>3, <2>4
  <2>5. CASE n \notin Wallet
    <3>1. n \in DeFi
      BY <1>3, <2>2, <2>3, <2>5
    <3> QED BY <1>4, <2>2, <2>3, <3>1
  <2> QED BY <2>4, <2>5
<1>6. /\ \A a \in DOMAIN Aggregated(rows) : Aggregated(rows)[a] \in Nat
      /\ RowsTotal' = SumRows(DOMAIN Received)
  <2>1. /\ \A a \in DOMAIN Aggregated(rows) : Aggregated(rows)[a] \in Nat
        /\ SumFunction(Aggregated(rows)) + SumFunction([n \in DOMAIN defi |-> defi[n].usd])
             = SumRows(DOMAIN Received)
    <3>1. rows = [n \in Wallet |-> Row(Received[n])] /\ defi = [n \in DeFi |-> Row(Received[n])]
      OBVIOUS
    <3> HIDE DEF rows, defi
    <3> QED BY <3>1, RowsAreList
  <2> HIDE DEF rows, defi
  <2> QED BY <1>1, <2>1 DEF RowsTotal
<1>7. available \in SUBSET Slugs /\ IsFiniteSet(shown) /\ DOMAIN usd \subseteq Slugs /\ DOMAIN bars = shown
  <2>1. available \in SUBSET Slugs
    BY <1>3, ConstantTypes DEF ToSet
  <2>2. IsFiniteSet(available) /\ IsFiniteSet(DOMAIN usd) /\ DOMAIN usd \subseteq Slugs
    BY <2>1, ConstantTypes, FS_Subset, TotalCovers
  <2>3. IsFiniteSet(shown)
    BY <2>2, ConstantTypes, FS_Union
  <2> QED BY <2>1, <2>2, <2>3
<1>8. BarsWithinTotal'
  <2>1. SumFunction(bars) = SumFunctionOnSet(usd, DOMAIN usd)
    <3>1. /\ IsFiniteSet(DOMAIN usd) /\ \A s \in DOMAIN usd : usd[s] \in Nat
          /\ DOMAIN usd \subseteq shown
      BY TotalCovers
    <3> HIDE DEF usd, shown
    <3> QED BY <1>7, <3>1, Filled
  <2>2. SummaryAgrees => SumFunction(bars) <= Total
    BY <2>1, TotalCovers
  <2>3. SummaryAgrees' = SummaryAgrees
    BY <1>1 DEF SummaryAgrees
  <2> HIDE DEF bars
  <2> QED BY <1>1, <2>2, <2>3 DEF BarsWithinTotal
<1>9. RowsAddUp'
  <2>1. summary = None \/ summary.total <= 0 => Total = SumRows(DOMAIN Received)
    BY TotalCovers
  <2>2. ASSUME trades = 0, WholeList, \A i \in Asked(held) : Position[i].usd >= 0
        PROVE  Total = SumRows(DOMAIN Received) /\ SumRows(DOMAIN Received) = Sum(Asked(held))
    BY <1>1, <2>2, TotalOfRest
  <2>3. WholeList' = WholeList /\ Asked(held)' = Asked(held) /\ Sum(Asked(held))' = Sum(Asked(held))
    BY <1>1 DEF WholeList, Asked, Sum
  <2> QED BY <1>1, <1>6, <2>1, <2>2, <2>3 DEF RowsAddUp
<1>10. WellFormed(snapshot')
  <2>1. \A s \in DOMAIN bars : bars[s] \in Nat
    BY TotalCovers
  <2>2. \A n \in DOMAIN rows : rows[n].chain \in Slugs \cup {NoChain}
    BY <1>3, <1>4, ConstantTypes
  <2>3. \A n \in DOMAIN rows : rows[n].symbol \in DOMAIN Aggregated(rows)
    BY DEF Aggregated
  <2>4. \A n \in DOMAIN defi : defi[n].id \in Ids
    BY <1>3, <1>4
  <2>5. errors \in 0 .. 3
    BY DEF PInv, Types, Counted, Left
  <2>6. Total \in Nat
    BY TotalCovers
  <2> HIDE DEF rows, defi, bars
  <2> QED BY <1>1, <1>6, <1>7, <2>1, <2>2, <2>3, <2>4, <2>5, <2>6 DEF WellFormed, shown, bars
<1> QED BY <1>1, <1>2, <1>5, <1>8, <1>9, <1>10 DEF PInv

LEMMA NextPInv == PInv /\ [Next]_vars => PInv'
<1> SUFFICES ASSUME PInv, [Next]_vars PROVE PInv'
  OBVIOUS
<1>1. CASE Trade
  BY <1>1, TradePInv
<1>2. CASE FetchPortfolio
  BY <1>2, FetchPortfolioPInv
<1>3. CASE FetchPage
  BY <1>3, FetchPagePInv
<1>4. CASE FetchChart
  BY <1>4, FetchChartPInv
<1>5. CASE Merge
  BY <1>5, MergePInv
<1>6. ASSUME NEW j \in Jobs, Fail(j) PROVE PInv'
  BY <1>6, FailPInv
<1>7. CASE UNCHANGED vars
  BY <1>7 DEF vars, PInv, Types, Counted, Left, Paged, Once, Summed, Ready, Asked, Sum,
              WholeList, SummaryAgrees, RowsTotal, BarsWithinTotal, RowsAddUp, CompleteOrReported
<1> QED BY <1>1, <1>2, <1>3, <1>4, <1>5, <1>6, <1>7 DEF Next, Progress

LEMMA InvariantPInv == Spec => []PInv
BY InitPInv, NextPInv, PTL DEF Spec

(* Every variable has its type; no list of positions passes the page       *)
(* limit, and the answer is what its schema says.                          *)
THEOREM TypeCorrect == Spec => []TypeOK
<1>1. PInv => TypeOK
  <2> SUFFICES ASSUME PInv PROVE TypeOK
    OBVIOUS
  <2>1. MaxPages \in Nat
    BY ConstantsAssumption
  <2>2. items \in Seq(Ids) /\ Len(items) <= MaxPages
    BY <2>1 DEF PInv, Types
  <2>3. errors \in 0 .. 3
    BY DEF PInv, Types, Counted, Left
  <2> QED BY <2>2, <2>3 DEF PInv, Types, Ready, TypeOK
<1> QED BY <1>1, InvariantPInv, PTL

(* The chains' dollars never add up to more than the total, whichever of   *)
(* the parts arrived and however the wallet moved between them             *)
(* (portfolio.py:268), unless Zerion's summary contradicts itself.         *)
THEOREM BarsCovered == Spec => []BarsWithinTotal
<1>1. PInv => BarsWithinTotal
  BY DEF PInv, BarsWithinTotal
<1> QED BY <1>1, InvariantPInv, PTL

(* The assets and the DeFi rows add up to a total that is theirs, and with *)
(* a whole list of a resting wallet without debts to Zerion's as well      *)
(* (schemas.py:25).                                                        *)
THEOREM RowsCovered == Spec => []RowsAddUp
<1>1. PInv => RowsAddUp
  BY DEF PInv, RowsAddUp
<1> QED BY <1>1, InvariantPInv, PTL

(* A snapshot without errors shows every position that the wallet held     *)
(* all along, unless the page limit, a refused link or an unreadable item  *)
(* cut the list (portfolio.py:156-170).                                    *)
THEOREM CompleteIfNoError == Spec => []CompleteOrReported
<1>1. PInv => CompleteOrReported
  BY DEF PInv, CompleteOrReported
<1> QED BY <1>1, InvariantPInv, PTL
=============================================================================
