------------------------- MODULE ConstructionProofs -------------------------
(***************************************************************************)
(* Proofs about Construction, for all accounts, outputs and transfers:     *)
(* what a client is shown of a transaction before and after it is signed,  *)
(* which inputs metadata names and what change it announces, what an       *)
(* accepted transaction pays the miner, and why one is refused.            *)
(***************************************************************************)
EXTENDS Construction, FiniteSetTheorems, SequenceTheorems, WellFoundedInduction, TLAPS

-----------------------------------------------------------------------------
(* Induction, as the existence of a least counterexample.                  *)

LEMMA LeastNatural ==
  ASSUME NEW T \in SUBSET Nat, T # {}
  PROVE  \E m \in T : \A n \in T : m <= n
  <1> DEFINE R == OpToRel(<, Nat)
  <1>1. IsWellFoundedOn(R, Nat)
    BY NatLessThanWellFounded
  <1>2. PICK m \in T : \A n \in T : ~ (<<n, m>> \in R)
    BY <1>1, WFMin
  <1>3. \A n \in T : ~ (n < m)
    BY <1>2 DEF OpToRel
  <1> QED
    BY <1>3

LEMMA SmallestSet ==
  ASSUME NEW S, IsFiniteSet(S), NEW Bad \in SUBSET (SUBSET S), Bad # {}
  PROVE  \E A \in Bad : /\ IsFiniteSet(A)
                        /\ \A B \in SUBSET A : B # A => B \notin Bad
  <1> DEFINE T == {Cardinality(A) : A \in Bad}
  <1>1. \A A \in Bad : IsFiniteSet(A) /\ Cardinality(A) \in Nat
    BY FS_Subset, FS_CardinalityType
  <1>2. T \in SUBSET Nat /\ T # {}
    BY <1>1
  <1>3. PICK m \in T : \A n \in T : m <= n
    BY <1>2, LeastNatural
  <1>4. PICK A \in Bad : m = Cardinality(A)
    BY <1>3
  <1>5. ASSUME NEW B \in SUBSET A, B # A, B \in Bad
        PROVE  FALSE
    <2>1. Cardinality(B) <= Cardinality(A) /\ Cardinality(B) # Cardinality(A)
      BY <1>1, <1>4, <1>5, FS_Subset
    <2>2. Cardinality(A) <= Cardinality(B)
      BY <1>3, <1>4, <1>5
    <2>3. Cardinality(A) \in Nat /\ Cardinality(B) \in Nat
      BY <1>1, <1>4, <1>5
    <2> QED
      BY <2>1, <2>2, <2>3
  <1> QED
    BY <1>1, <1>4, <1>5

-----------------------------------------------------------------------------
(* What Total computes.                                                    *)

Chosen(s) == CHOOSE x \in s : TRUE

Sums(f, S, h) ==
  h = [s \in SUBSET S |-> IF s = {} THEN 0 ELSE f[Chosen(s)] + h[s \ {Chosen(s)}]]

Summing(f, S) == CHOOSE h : Sums(f, S, h)

(* The part of a sum that some of the arguments make up.                   *)
Part(f, A) == Total([i \in A |-> f[i]])

LEMMA ChosenIn ==
  ASSUME NEW s, s # {}
  PROVE  /\ Chosen(s) \in s
         /\ s \ {Chosen(s)} \in SUBSET s
         /\ s \ {Chosen(s)} # s
  BY DEF Chosen

LEMMA SumsAt ==
  ASSUME NEW f, NEW S, NEW h, Sums(f, S, h), NEW s \in SUBSET S
  PROVE  h[s] = IF s = {} THEN 0 ELSE f[Chosen(s)] + h[s \ {Chosen(s)}]
  BY Zenon DEF Sums

LEMMA SumsAgree ==
  ASSUME NEW f, NEW S, IsFiniteSet(S), NEW g, NEW T, NEW h, Sums(f, S, g), Sums(f, T, h)
  PROVE  \A s \in (SUBSET S) \cap (SUBSET T) : g[s] = h[s]
  <1> DEFINE Bad == {s \in (SUBSET S) \cap (SUBSET T) : g[s] # h[s]}
  <1> SUFFICES ASSUME Bad # {}
               PROVE  FALSE
    OBVIOUS
  <1>1. Bad \in SUBSET (SUBSET S)
    OBVIOUS
  <1>2. PICK s \in Bad : \A r \in SUBSET s : r # s => r \notin Bad
    <2> HIDE DEF Bad
    <2> QED
      BY <1>1, SmallestSet
  <1>3. s \in SUBSET S /\ s \in SUBSET T /\ g[s] # h[s]
    BY <1>2
  <1>4. s # {}
    <2> SUFFICES ASSUME s = {}
                 PROVE  FALSE
      OBVIOUS
    <2>1. g[s] = 0
      BY <1>3, SumsAt
    <2>2. h[s] = 0
      BY <1>3, SumsAt
    <2> QED
      BY <1>3, <2>1, <2>2
  <1> DEFINE r == s \ {Chosen(s)}
  <1>5. r \in SUBSET s /\ r # s /\ r \in (SUBSET S) \cap (SUBSET T)
    BY <1>3, <1>4, ChosenIn
  <1>6. g[r] = h[r]
    BY <1>2, <1>5
  <1>7. g[s] = f[Chosen(s)] + g[r]
    BY <1>3, <1>4, SumsAt
  <1>8. h[s] = f[Chosen(s)] + h[r]
    BY <1>3, <1>4, SumsAt
  <1> QED
    BY <1>3, <1>6, <1>7, <1>8

LEMMA SumsExist ==
  ASSUME NEW f, NEW S, IsFiniteSet(S)
  PROVE  \E h : Sums(f, S, h)
  <1> DEFINE Bad == {A \in SUBSET S : ~ \E h : Sums(f, A, h)}
  <1> SUFFICES ASSUME Bad # {}
               PROVE  FALSE
    OBVIOUS
  <1>1. Bad \in SUBSET (SUBSET S)
    OBVIOUS
  <1>2. PICK A \in Bad : IsFiniteSet(A) /\ \A B \in SUBSET A : B # A => B \notin Bad
    <2> HIDE DEF Bad
    <2> QED
      BY <1>1, SmallestSet
  <1>3. A \in SUBSET S /\ ~ \E h : Sums(f, A, h)
    BY <1>2
  <1>4. \A B \in SUBSET A : B # A => IsFiniteSet(B) /\ Sums(f, B, Summing(f, B))
    <2> SUFFICES ASSUME NEW B \in SUBSET A, B # A
                 PROVE  IsFiniteSet(B) /\ Sums(f, B, Summing(f, B))
      OBVIOUS
    <2>1. \E h : Sums(f, B, h)
      BY <1>2, <1>3
    <2>2. Sums(f, B, Summing(f, B))
      <3> HIDE DEF Sums
      <3> QED
        BY <2>1 DEF Summing
    <2> QED
      BY <1>2, <2>2, FS_Subset
  <1> DEFINE Of(B) == Summing(f, B)[B]
             new == [s \in SUBSET A |-> IF s = {} THEN 0
                                        ELSE f[Chosen(s)] + Of(s \ {Chosen(s)})]
  <1>5. ASSUME NEW s \in SUBSET A, s # A
        PROVE  new[s] = Of(s)
    <2>1. Sums(f, s, Summing(f, s)) /\ IsFiniteSet(s) /\ s \in SUBSET s
      BY <1>4, <1>5
    <2>2. Of(s) = IF s = {} THEN 0 ELSE f[Chosen(s)] + Summing(f, s)[s \ {Chosen(s)}]
      <3> DEFINE h == Summing(f, s)
      <3> HIDE DEF h
      <3>1. h[s] = IF s = {} THEN 0 ELSE f[Chosen(s)] + h[s \ {Chosen(s)}]
        BY <2>1, SumsAt DEF h
      <3> QED
        BY <3>1 DEF h
    <2>3. CASE s = {}
      BY <2>2, <2>3
    <2>4. CASE s # {}
      <3> DEFINE r == s \ {Chosen(s)}
      <3>1. r \in SUBSET s /\ r \in SUBSET A /\ r # A
        BY <2>4, <1>5, ChosenIn
      <3>2. Sums(f, r, Summing(f, r))
        BY <1>4, <3>1
      <3>3. Summing(f, s)[r] = Summing(f, r)[r]
        <4> DEFINE g == Summing(f, s)
                   h == Summing(f, r)
        <4>1. Sums(f, s, g) /\ Sums(f, r, h) /\ r \in (SUBSET s) \cap (SUBSET r)
          BY <2>1, <3>1, <3>2
        <4> HIDE DEF g, h, r
        <4>2. g[r] = h[r]
          BY <2>1, <4>1, SumsAgree
        <4> QED
          BY <4>2 DEF g, h
      <3> QED
        BY <2>2, <2>4, <3>3
    <2> QED
      BY <2>3, <2>4
  <1>6. \A s \in SUBSET A : s # {} => new[s \ {Chosen(s)}] = Of(s \ {Chosen(s)})
    <2> SUFFICES ASSUME NEW s \in SUBSET A, s # {}
                 PROVE  new[s \ {Chosen(s)}] = Of(s \ {Chosen(s)})
      BY Zenon
    <2>1. s \ {Chosen(s)} \in SUBSET A /\ s \ {Chosen(s)} # A
      BY ChosenIn
    <2> QED
      BY <1>5, <2>1, Zenon
  <1>7. Sums(f, A, new)
    <2> DEFINE again == [s \in SUBSET A |-> IF s = {} THEN 0
                                            ELSE f[Chosen(s)] + new[s \ {Chosen(s)}]]
    <2>1. ASSUME NEW s \in SUBSET A
          PROVE  new[s] = again[s]
      <3> HIDE DEF Of
      <3>1. s # {} => new[s \ {Chosen(s)}] = Of(s \ {Chosen(s)})
        BY <1>6
      <3>2. /\ s = {} => new[s] = 0 /\ again[s] = 0
            /\ s # {} => /\ new[s] = f[Chosen(s)] + Of(s \ {Chosen(s)})
                         /\ again[s] = f[Chosen(s)] + new[s \ {Chosen(s)}]
        OBVIOUS
      <3> HIDE DEF new, again
      <3> QED
        BY <3>1, <3>2
    <2>2. new = again
      <3>1. new = [s \in SUBSET A |-> new[s]] /\ again = [s \in SUBSET A |-> again[s]]
        OBVIOUS
      <3> HIDE DEF new, again
      <3> QED
        BY <2>1, <3>1
    <2> QED
      BY <2>2, Zenon DEF Sums
  <1> HIDE DEF new
  <1> QED
    BY <1>3, <1>7

LEMMA TotalIsSum ==
  ASSUME NEW f
  PROVE  Total(f) = Summing(f, DOMAIN f)[DOMAIN f]
  BY DEF Total, MapThenSumSet, MapThenFoldSet, Summing, Sums, Chosen

LEMMA SameSummands ==
  ASSUME NEW f, NEW g, NEW S, \A i \in S : f[i] = g[i], NEW h
  PROVE  Sums(f, S, h) <=> Sums(g, S, h)
  <1> DEFINE F == [s \in SUBSET S |-> IF s = {} THEN 0 ELSE f[Chosen(s)] + h[s \ {Chosen(s)}]]
             G == [s \in SUBSET S |-> IF s = {} THEN 0 ELSE g[Chosen(s)] + h[s \ {Chosen(s)}]]
  <1>1. F = G
    <2>1. \A s \in SUBSET S : s # {} => f[Chosen(s)] = g[Chosen(s)]
      BY ChosenIn
    <2> QED
      BY <2>1
  <1>2. (Sums(f, S, h) <=> h = F) /\ (Sums(g, S, h) <=> h = G)
    BY Zenon DEF Sums
  <1> HIDE DEF F, G
  <1> QED
    BY <1>1, <1>2

LEMMA PartIsSum ==
  ASSUME NEW f, NEW A, IsFiniteSet(A)
  PROVE  Part(f, A) = Summing(f, A)[A] /\ Sums(f, A, Summing(f, A))
  <1> DEFINE g == [i \in A |-> f[i]]
  <1>1. Part(f, A) = Summing(g, A)[A]
    BY TotalIsSum DEF Part
  <1>2. \A i \in A : f[i] = g[i]
    OBVIOUS
  <1> HIDE DEF g
  <1>3. Sums(f, A, Summing(f, A))
    <2>1. \E h : Sums(f, A, h)
      BY SumsExist
    <2> QED
      BY <2>1 DEF Summing
  <1>4. Sums(g, A, Summing(g, A))
    <2>1. \E h : Sums(g, A, h)
      BY SumsExist
    <2> QED
      BY <2>1 DEF Summing
  <1>5. Sums(f, A, Summing(g, A))
    BY <1>2, <1>4, SameSummands
  <1>6. A \in (SUBSET A) \cap (SUBSET A)
    OBVIOUS
  <1>7. Summing(f, A)[A] = Summing(g, A)[A]
    BY <1>3, <1>5, <1>6, SumsAgree
  <1> QED
    BY <1>1, <1>3, <1>7

LEMMA PartUnfolds ==
  ASSUME NEW f, NEW A, IsFiniteSet(A)
  PROVE  /\ A = {} => Part(f, A) = 0
         /\ A # {} => Part(f, A) = f[Chosen(A)] + Part(f, A \ {Chosen(A)})
  <1> DEFINE h == Summing(f, A)
             B == A \ {Chosen(A)}
             k == Summing(f, B)
  <1>1. Part(f, A) = h[A] /\ Sums(f, A, h)
    BY PartIsSum
  <1>2. IsFiniteSet(B) /\ B \in SUBSET A
    BY FS_Subset
  <1>3. Part(f, B) = k[B] /\ Sums(f, B, k)
    BY <1>2, PartIsSum
  <1>4. A \in SUBSET A /\ B \in (SUBSET A) \cap (SUBSET B)
    BY <1>2
  <1> HIDE DEF h, k, B
  <1>5. h[B] = k[B]
    BY <1>1, <1>3, <1>4, SumsAgree
  <1>6. h[A] = IF A = {} THEN 0 ELSE f[Chosen(A)] + h[A \ {Chosen(A)}]
    BY <1>1, <1>4, SumsAt
  <1>7. CASE A = {}
    BY <1>1, <1>6, <1>7
  <1>8. CASE A # {}
    BY <1>1, <1>3, <1>5, <1>6, <1>8 DEF B
  <1> QED
    BY <1>7, <1>8

LEMMA PartType ==
  ASSUME NEW f, NEW A, IsFiniteSet(A), \A i \in A : f[i] \in Int
  PROVE  Part(f, A) \in Int
  <1> DEFINE Bad == {B \in SUBSET A : Part(f, B) \notin Int}
  <1> SUFFICES ASSUME Bad # {}
               PROVE  FALSE
    <2>1. A \in SUBSET A
      OBVIOUS
    <2> QED
      BY <2>1
  <1>1. Bad \in SUBSET (SUBSET A)
    OBVIOUS
  <1>2. PICK B \in Bad : IsFiniteSet(B) /\ \A C \in SUBSET B : C # B => C \notin Bad
    <2> HIDE DEF Bad
    <2> QED
      BY <1>1, SmallestSet
  <1>3. B \in SUBSET A /\ Part(f, B) \notin Int
    BY <1>2
  <1>4. B # {}
    <2>1. B = {} => Part(f, B) = 0
      BY <1>2, PartUnfolds
    <2> HIDE DEF Bad
    <2> QED
      BY <1>3, <2>1
  <1> DEFINE C == B \ {Chosen(B)}
  <1>5. C \in SUBSET B /\ C # B /\ C \in SUBSET A /\ Chosen(B) \in A
    BY <1>3, <1>4, ChosenIn
  <1>6. Part(f, C) \in Int
    BY <1>2, <1>5
  <1>7. Part(f, B) = f[Chosen(B)] + Part(f, C)
    BY <1>2, <1>4, PartUnfolds
  <1> QED
    BY <1>3, <1>5, <1>6, <1>7

(* A sum may be taken from any of its summands on.                         *)
LEMMA PartTakes ==
  ASSUME NEW f, NEW A, IsFiniteSet(A), \A i \in A : f[i] \in Int, NEW x \in A
  PROVE  Part(f, A) = f[x] + Part(f, A \ {x})
  <1> DEFINE Fine(B) == \A y \in B : Part(f, B) = f[y] + Part(f, B \ {y})
             Bad == {B \in SUBSET A : ~ Fine(B)}
  <1> SUFFICES ASSUME Bad # {}
               PROVE  FALSE
    <2>1. A \in SUBSET A
      OBVIOUS
    <2> QED
      BY <2>1
  <1>1. Bad \in SUBSET (SUBSET A)
    OBVIOUS
  <1>2. PICK B \in Bad : IsFiniteSet(B) /\ \A C \in SUBSET B : C # B => C \notin Bad
    <2> HIDE DEF Bad
    <2> QED
      BY <1>1, SmallestSet
  <1>3. B \in SUBSET A /\ ~ Fine(B)
    BY <1>2
  <1>4. PICK y \in B : Part(f, B) # f[y] + Part(f, B \ {y})
    BY <1>3
  <1> DEFINE c == Chosen(B)
             C == B \ {c}
             D == B \ {y}
             E == C \ {y}
  <1>5. c \in B /\ B # {}
    BY <1>4, ChosenIn
  <1>6. Part(f, B) = f[c] + Part(f, C)
    BY <1>2, <1>5, PartUnfolds
  <1>7. y # c
    BY <1>4, <1>6
  <1> HIDE DEF c
  <1>8. /\ C \in SUBSET B /\ C # B /\ y \in C /\ C \in SUBSET A
        /\ D \in SUBSET B /\ D # B /\ c \in D /\ D \in SUBSET A
        /\ E = D \ {c}
    BY <1>3, <1>4, <1>5, <1>7
  <1>9. Fine(C) /\ Fine(D)
    BY <1>2, <1>8
  <1> HIDE DEF C, D, E
  <1>10. Part(f, C) = f[y] + Part(f, E)
    BY <1>8, <1>9 DEF E
  <1>11. Part(f, D) = f[c] + Part(f, E)
    BY <1>8, <1>9
  <1>12. f[c] \in Int /\ f[y] \in Int /\ Part(f, E) \in Int
    <2>1. IsFiniteSet(E) /\ \A i \in E : f[i] \in Int
      BY <1>2, <1>8, FS_Subset DEF E
    <2> QED
      BY <1>8, <2>1, PartType
  <1>13. Part(f, B) = f[y] + Part(f, D)
    BY <1>6, <1>10, <1>11, <1>12
  <1> QED
    BY <1>4, <1>13 DEF D

LEMMA EqualParts ==
  ASSUME NEW f, NEW g, NEW A, \A i \in A : f[i] = g[i]
  PROVE  Part(f, A) = Part(g, A)
  <1>1. [i \in A |-> f[i]] = [i \in A |-> g[i]]
    OBVIOUS
  <1> QED
    BY <1>1 DEF Part

LEMMA EmptyPart ==
  ASSUME NEW f
  PROVE  Part(f, {}) = 0
  BY PartUnfolds, FS_EmptySet

LEMMA TotalIsPart ==
  ASSUME NEW A, NEW f, f = [i \in A |-> f[i]]
  PROVE  Total(f) = Part(f, A)
  BY DEF Part

(* One more summand.                                                        *)
LEMMA PartAdds ==
  ASSUME NEW f, NEW A, IsFiniteSet(A), NEW x, x \notin A, \A i \in A \cup {x} : f[i] \in Int
  PROVE  Part(f, A \cup {x}) = Part(f, A) + f[x]
  <1>1. IsFiniteSet(A \cup {x})
    BY FS_AddElement
  <1>2. (A \cup {x}) \ {x} = A /\ x \in A \cup {x}
    OBVIOUS
  <1>3. Part(f, A \cup {x}) = f[x] + Part(f, A)
    <2> DEFINE B == A \cup {x}
    <2>1. Part(f, B) = f[x] + Part(f, B \ {x})
      <3>1. x \in B /\ IsFiniteSet(B) /\ \A i \in B : f[i] \in Int
        BY <1>1, <1>2
      <3> HIDE DEF B
      <3> QED
        BY <3>1, PartTakes
    <2> QED
      BY <1>2, <2>1
  <1>4. Part(f, A) \in Int /\ f[x] \in Int
    <2>1. \A i \in A : f[i] \in Int
      OBVIOUS
    <2> QED
      BY <2>1, PartType
  <1> QED
    BY <1>3, <1>4

LEMMA PartsJoin ==
  ASSUME NEW f, NEW A, IsFiniteSet(A), NEW B, IsFiniteSet(B), A \cap B = {},
         \A i \in A \cup B : f[i] \in Int
  PROVE  Part(f, A \cup B) = Part(f, A) + Part(f, B)
  <1> DEFINE Bad == {C \in SUBSET B : Part(f, A \cup C) # Part(f, A) + Part(f, C)}
  <1> SUFFICES ASSUME Bad # {}
               PROVE  FALSE
    <2>1. B \in SUBSET B
      OBVIOUS
    <2> QED
      BY <2>1
  <1>1. Bad \in SUBSET (SUBSET B)
    OBVIOUS
  <1>2. PICK C \in Bad : IsFiniteSet(C) /\ \A D \in SUBSET C : D # C => D \notin Bad
    <2> HIDE DEF Bad
    <2> QED
      BY <1>1, SmallestSet
  <1>3. C \in SUBSET B /\ Part(f, A \cup C) # Part(f, A) + Part(f, C)
    BY <1>2
  <1>4. Part(f, A) \in Int
    BY PartType
  <1>5. C # {}
    <2> SUFFICES ASSUME C = {}
                 PROVE  FALSE
      OBVIOUS
    <2>1. A \cup C = A /\ Part(f, C) = 0
      BY EmptyPart
    <2> HIDE DEF Bad
    <2> QED
      BY <1>3, <1>4, <2>1
  <1>6. PICK x : x \in C
    BY <1>5
  <1> DEFINE D == C \ {x}
  <1>7. /\ D \in SUBSET C /\ D # C /\ D \in SUBSET B /\ x \notin D /\ C = D \cup {x}
        /\ x \notin A \cup D /\ A \cup C = (A \cup D) \cup {x}
    BY <1>3, <1>6
  <1>8. Part(f, A \cup D) = Part(f, A) + Part(f, D)
    BY <1>2, <1>7
  <1>9. IsFiniteSet(D) /\ IsFiniteSet(A \cup D)
    BY <1>7, FS_Subset, FS_Union
  <1> HIDE DEF D, Bad
  <1>10. Part(f, C) = Part(f, D) + f[x]
    <2>1. \A i \in D \cup {x} : f[i] \in Int
      BY <1>3, <1>7
    <2> QED
      BY <1>7, <1>9, <2>1, PartAdds
  <1>11. Part(f, A \cup C) = Part(f, A \cup D) + f[x]
    <2>1. \A i \in (A \cup D) \cup {x} : f[i] \in Int
      BY <1>3, <1>7
    <2> QED
      BY <1>7, <1>9, <2>1, PartAdds
  <1>12. Part(f, D) \in Int /\ f[x] \in Int
    BY <1>3, <1>6, <1>7, <1>9, PartType
  <1> QED
    BY <1>3, <1>4, <1>8, <1>10, <1>11, <1>12

LEMMA PartPositive ==
  ASSUME NEW f, NEW A, IsFiniteSet(A), \A i \in A : f[i] \in Nat
  PROVE  Part(f, A) \in Nat
  <1> DEFINE Bad == {B \in SUBSET A : Part(f, B) \notin Nat}
  <1> SUFFICES ASSUME Bad # {}
               PROVE  FALSE
    <2>1. A \in SUBSET A
      OBVIOUS
    <2> QED
      BY <2>1
  <1>1. Bad \in SUBSET (SUBSET A)
    OBVIOUS
  <1>2. PICK B \in Bad : IsFiniteSet(B) /\ \A C \in SUBSET B : C # B => C \notin Bad
    <2> HIDE DEF Bad
    <2> QED
      BY <1>1, SmallestSet
  <1>3. B \in SUBSET A /\ Part(f, B) \notin Nat
    BY <1>2
  <1>4. B # {}
    BY <1>3, EmptyPart
  <1> DEFINE C == B \ {Chosen(B)}
  <1>5. C \in SUBSET B /\ C # B /\ C \in SUBSET A /\ Chosen(B) \in A
    BY <1>3, <1>4, ChosenIn
  <1>6. Part(f, C) \in Nat
    BY <1>2, <1>5
  <1>7. Part(f, B) = f[Chosen(B)] + Part(f, C)
    BY <1>2, <1>4, PartUnfolds
  <1> HIDE DEF Bad
  <1> QED
    BY <1>3, <1>5, <1>6, <1>7

(* The summands may be renamed, ...                                         *)
LEMMA PartRenamed ==
  ASSUME NEW A, IsFiniteSet(A), NEW f, NEW g, NEW name,
         \A i \in A : f[i] = g[name[i]] /\ f[i] \in Int,
         \A i, j \in A : name[i] = name[j] => i = j, IsFiniteSet({name[i] : i \in A})
  PROVE  Part(f, A) = Part(g, {name[i] : i \in A})
  <1> DEFINE Image(B) == {name[i] : i \in B}
             Bad == {B \in SUBSET A : Part(f, B) # Part(g, Image(B))}
  <1> SUFFICES ASSUME Bad # {}
               PROVE  FALSE
    <2>1. A \in SUBSET A
      OBVIOUS
    <2> QED
      BY <2>1
  <1>1. Bad \in SUBSET (SUBSET A)
    OBVIOUS
  <1>2. PICK B \in Bad : IsFiniteSet(B) /\ \A C \in SUBSET B : C # B => C \notin Bad
    <2> HIDE DEF Bad
    <2> QED
      BY <1>1, SmallestSet
  <1>3. B \in SUBSET A /\ Part(f, B) # Part(g, Image(B))
    BY <1>2
  <1>4. B # {}
    <2> SUFFICES ASSUME B = {}
                 PROVE  FALSE
      OBVIOUS
    <2>1. Image(B) = {}
      OBVIOUS
    <2> HIDE DEF Bad, Image
    <2> QED
      BY <1>3, <2>1, EmptyPart
  <1>5. PICK x : x \in B
    BY <1>4
  <1> DEFINE C == B \ {x}
  <1>6. C \in SUBSET B /\ C # B /\ C \in SUBSET A /\ x \notin C /\ B = C \cup {x} /\ x \in A
    BY <1>3, <1>5
  <1>7. Part(f, C) = Part(g, Image(C))
    BY <1>2, <1>6
  <1>8. Image(B) = Image(C) \cup {name[x]} /\ name[x] \notin Image(C)
    BY <1>6
  <1>9. IsFiniteSet(C) /\ IsFiniteSet(Image(C))
    <2>1. IsFiniteSet(C)
      BY <1>6, FS_Subset
    <2>2. Image(C) \in SUBSET {name[i] : i \in A}
      BY <1>6
    <2> QED
      BY <2>1, <2>2, FS_Subset
  <1> HIDE DEF Bad, C
  <1>10. Part(f, B) = Part(f, C) + f[x]
    BY <1>6, <1>9, PartAdds
  <1>11. Part(g, Image(B)) = Part(g, Image(C)) + g[name[x]]
    <2>1. \A k \in Image(C) \cup {name[x]} : g[k] \in Int
      BY <1>6
    <2> HIDE DEF Image
    <2> QED
      BY <1>8, <1>9, <2>1, PartAdds
  <1>12. f[x] = g[name[x]]
    BY <1>6
  <1> HIDE DEF Image
  <1> QED
    BY <1>3, <1>7, <1>10, <1>11, <1>12

(* ... and a sum of differences is the difference of the sums.              *)
LEMMA PartsSubtract ==
  ASSUME NEW A, IsFiniteSet(A), NEW f, NEW g, NEW h,
         \A i \in A : f[i] = g[i] - h[i] /\ g[i] \in Int /\ h[i] \in Int
  PROVE  Part(f, A) = Part(g, A) - Part(h, A)
  <1> DEFINE Bad == {B \in SUBSET A : Part(f, B) # Part(g, B) - Part(h, B)}
  <1> SUFFICES ASSUME Bad # {}
               PROVE  FALSE
    <2>1. A \in SUBSET A
      OBVIOUS
    <2> QED
      BY <2>1
  <1>1. Bad \in SUBSET (SUBSET A)
    OBVIOUS
  <1>2. PICK B \in Bad : IsFiniteSet(B) /\ \A C \in SUBSET B : C # B => C \notin Bad
    <2> HIDE DEF Bad
    <2> QED
      BY <1>1, SmallestSet
  <1>3. B \in SUBSET A /\ Part(f, B) # Part(g, B) - Part(h, B)
    BY <1>2
  <1>4. B # {}
    <2>1. 0 = 0 - 0 /\ Part(f, {}) = 0 /\ Part(g, {}) = 0 /\ Part(h, {}) = 0
      BY EmptyPart
    <2> HIDE DEF Bad
    <2> QED
      BY <1>3, <2>1
  <1> DEFINE C == B \ {Chosen(B)}
  <1>5. C \in SUBSET B /\ C # B /\ C \in SUBSET A /\ Chosen(B) \in A
    BY <1>3, <1>4, ChosenIn
  <1>6. Part(f, C) = Part(g, C) - Part(h, C)
    BY <1>2, <1>5
  <1>7. /\ Part(f, B) = f[Chosen(B)] + Part(f, C)
        /\ Part(g, B) = g[Chosen(B)] + Part(g, C)
        /\ Part(h, B) = h[Chosen(B)] + Part(h, C)
    BY <1>2, <1>4, PartUnfolds
  <1>8. Part(g, C) \in Int /\ Part(h, C) \in Int
    BY <1>2, <1>5, FS_Subset, PartType
  <1>9. /\ f[Chosen(B)] = g[Chosen(B)] - h[Chosen(B)]
        /\ g[Chosen(B)] \in Int /\ h[Chosen(B)] \in Int
    BY <1>5
  <1> HIDE DEF Bad, C
  <1> QED
    BY <1>3, <1>6, <1>7, <1>8, <1>9

-----------------------------------------------------------------------------
(* Numbers, and operations in their order.                                 *)

LEMMA MinIsLeast ==
  ASSUME NEW T \in SUBSET Nat, T # {}
  PROVE  Min(T) \in T
  BY LeastNatural DEF Min

(* The least number up to which S has n elements is the n-th of them.      *)
LEMMA Positions ==
  ASSUME NEW m \in Nat, NEW S \in SUBSET (1 .. m), NEW n \in 1 .. Cardinality(S)
  PROVE  \E i \in S : Cardinality({j \in S : j <= i}) = n
  <1> DEFINE UpTo(k) == {j \in S : j <= k}
             T == {k \in Nat : Cardinality(UpTo(k)) >= n}
  <1>1. IsFiniteSet(S)
    <2>1. IsFiniteSet(1 .. m)
      BY FS_Interval
    <2> QED
      BY <2>1, FS_Subset
  <1>2. \A k \in Nat : IsFiniteSet(UpTo(k)) /\ Cardinality(UpTo(k)) \in Nat
    BY <1>1, FS_Subset, FS_CardinalityType
  <1>3. Cardinality(S) \in Nat /\ n \in Nat /\ n > 0
    BY <1>1, FS_CardinalityType
  <1>4. UpTo(m) = S
    <2>1. \A j \in S : j <= m
      OBVIOUS
    <2> QED
      BY <2>1
  <1>5. m \in T
    BY <1>3, <1>4
  <1>6. PICK i \in T : \A k \in T : i <= k
    BY <1>5, LeastNatural
  <1>7. i \in Nat /\ Cardinality(UpTo(i)) >= n
    BY <1>6
  <1>8. i # 0
    <2>1. UpTo(0) = {}
      <3>1. \A j \in S : ~ (j <= 0)
        OBVIOUS
      <3> QED
        BY <3>1
    <2>2. ~ (Cardinality(UpTo(0)) >= n)
      BY <1>3, <2>1, FS_EmptySet
    <2> QED
      BY <1>7, <2>2
  <1>9. i - 1 \in Nat /\ Cardinality(UpTo(i - 1)) < n
    <2>1. i - 1 \in Nat /\ ~ (i <= i - 1)
      BY <1>7, <1>8
    <2>2. i - 1 \notin T
      <3> HIDE DEF T
      <3> QED
        BY <1>6, <2>1
    <2>3. ~ (Cardinality(UpTo(i - 1)) >= n)
      BY <2>1, <2>2
    <2> HIDE DEF UpTo
    <2> QED
      BY <1>2, <1>3, <2>1, <2>3
  <1>10. \A j \in S : j <= i <=> j <= i - 1 \/ j = i
    BY <1>7
  <1>11. i \in S
    <2>1. i \notin S => UpTo(i) = UpTo(i - 1)
      BY <1>10
    <2> HIDE DEF UpTo
    <2> QED
      BY <1>2, <1>3, <1>7, <1>9, <2>1
  <1>12. UpTo(i) = UpTo(i - 1) \cup {i}
    BY <1>10, <1>11
  <1>13. i \notin UpTo(i - 1)
    BY <1>7
  <1>14. Cardinality(UpTo(i)) = Cardinality(UpTo(i - 1)) + 1
    BY <1>2, <1>9, <1>12, <1>13, FS_AddElement
  <1>15. Cardinality(UpTo(i)) = n
    <2> HIDE DEF UpTo
    <2> QED
      BY <1>2, <1>3, <1>7, <1>9, <1>14
  <1> QED
    BY <1>11, <1>15

LEMMA InOrderSelects ==
  ASSUME NEW m \in Nat, NEW S \in SUBSET (1 .. m)
  PROVE  InOrder(S) \in Seq(S)
  <1> DEFINE c == Cardinality(S)
             nth(n) == CHOOSE i \in S : Cardinality({j \in S : j <= i}) = n
  <1>1. c \in Nat
    <2>1. IsFiniteSet(1 .. m)
      BY FS_Interval
    <2> QED
      BY <2>1, FS_Subset, FS_CardinalityType
  <1>2. \A n \in 1 .. c : nth(n) \in S
    BY Positions
  <1>3. InOrder(S) = [n \in 1 .. c |-> nth(n)]
    BY DEF InOrder
  <1> HIDE DEF c, nth
  <1>4. [n \in 1 .. c |-> nth(n)] \in Seq(S)
    BY <1>1, <1>2
  <1> QED
    BY <1>3, <1>4

LEMMA SelectionIsSequence ==
  ASSUME NEW m \in Nat, NEW S \in SUBSET (1 .. m), NEW R, NEW f, \A i \in S : f[i] \in R
  PROVE  [n \in DOMAIN InOrder(S) |-> f[InOrder(S)[n]]] \in Seq(R)
  <1> DEFINE order == InOrder(S)
  <1>1. order \in Seq(S)
    BY InOrderSelects
  <1> HIDE DEF order
  <1>2. Len(order) \in Nat /\ DOMAIN order = 1 .. Len(order)
        /\ \A n \in DOMAIN order : order[n] \in S
    BY <1>1
  <1>3. \A n \in 1 .. Len(order) : f[order[n]] \in R
    BY <1>2
  <1>4. [n \in 1 .. Len(order) |-> f[order[n]]] \in Seq(R)
    BY <1>2, <1>3
  <1> QED
    BY <1>2, <1>4 DEF order

LEMMA CreditsAreOperations ==
  ASSUME NEW ops \in Seq(Posted)
  PROVE  Credits(ops) \in Seq(Posted)
  <1> DEFINE S == DOMAIN ops \ Debits(ops)
  <1>1. Len(ops) \in Nat /\ S \in SUBSET (1 .. Len(ops)) /\ \A i \in S : ops[i] \in Posted
    OBVIOUS
  <1>2. Credits(ops) = [n \in DOMAIN InOrder(S) |-> ops[InOrder(S)[n]]]
    BY DEF Credits
  <1> HIDE DEF S
  <1>3. [n \in DOMAIN InOrder(S) |-> ops[InOrder(S)[n]]] \in Seq(Posted)
    BY <1>1, SelectionIsSequence
  <1> QED
    BY <1>2, <1>3

LEMMA ReversedIsSequence ==
  ASSUME NEW S, NEW s \in Seq(S)
  PROVE  /\ Reversed(s) \in Seq(S)
         /\ \A i \in DOMAIN Reversed(s) : \E j \in DOMAIN s : Reversed(s)[i] = s[j]
  <1>1. Len(s) \in Nat /\ DOMAIN s = 1 .. Len(s) /\ \A i \in 1 .. Len(s) : s[i] \in S
    OBVIOUS
  <1>2. \A i \in 1 .. Len(s) : Len(s) + 1 - i \in 1 .. Len(s)
    BY <1>1
  <1>3. Reversed(s) = [i \in 1 .. Len(s) |-> s[Len(s) + 1 - i]]
    BY <1>1 DEF Reversed
  <1> QED
    BY <1>1, <1>2, <1>3

(* The first entries of a list are some of them.                           *)
LEMMA Beginning ==
  ASSUME NEW S, NEW s \in Seq(S), NEW n \in 0 .. Len(s)
  PROVE  /\ SubSeq(s, 1, n) \in Seq(S) /\ Len(SubSeq(s, 1, n)) = n
         /\ \A i \in 1 .. n : i \in DOMAIN s /\ SubSeq(s, 1, n)[i] = s[i]
  <1>1. Len(s) \in Nat /\ DOMAIN s = 1 .. Len(s) /\ \A i \in 1 .. Len(s) : s[i] \in S
    OBVIOUS
  <1>2. n \in Nat /\ \A i \in 1 .. n : i \in 1 .. Len(s)
    BY <1>1
  <1>3. SubSeq(s, 1, n) = [i \in 1 .. n |-> s[i]]
    BY <1>1, <1>2
  <1>4. [i \in 1 .. n |-> s[i]] \in Seq(S) /\ Len([i \in 1 .. n |-> s[i]]) = n
    BY <1>1, <1>2
  <1> QED
    BY <1>1, <1>2, <1>3, <1>4

(* What an account has to give.                                            *)
Due(ops) == {[account |-> a, sats |-> DebitOf(ops, a)] : a \in Account}

LEMMA RequiredAreDue ==
  ASSUME NEW ops \in Seq(Posted)
  PROVE  RequiredBalances(ops) \in Seq(Due(ops))
  <1> DEFINE S == FirstDebits(ops)
             needs == [i \in S |-> Needs(ops, i)]
  <1>1. Len(ops) \in Nat /\ S \in SUBSET (1 .. Len(ops))
    BY DEF FirstDebits, Debits
  <1>2. \A i \in S : ops[i].account \in Account
    <2>1. \A i \in 1 .. Len(ops) : ops[i] \in Posted
      OBVIOUS
    <2> QED
      BY <1>1, <2>1 DEF Posted
  <1>3. \A i \in S : needs[i] \in Due(ops)
    BY <1>2 DEF Needs, Due
  <1>4. InOrder(S) \in Seq(S)
    <2> HIDE DEF S
    <2> QED
      BY <1>1, InOrderSelects
  <1>5. RequiredBalances(ops) = [n \in DOMAIN InOrder(S) |-> needs[InOrder(S)[n]]]
    <2>1. \A n \in DOMAIN InOrder(S) : InOrder(S)[n] \in S
      BY <1>4
    <2> QED
      BY <2>1 DEF RequiredBalances
  <1> HIDE DEF S, needs
  <1>6. [n \in DOMAIN InOrder(S) |-> needs[InOrder(S)[n]]] \in Seq(Due(ops))
    BY <1>1, <1>3, SelectionIsSequence
  <1> QED
    BY <1>5, <1>6

-----------------------------------------------------------------------------
(* The inductive invariant.                                                *)

(* The index lists every output with its owner, ...                        *)
ListedInv ==
  /\ listed \in [Account -> Seq(Output)]
  /\ \A a \in Account : \A i \in DOMAIN listed[a] : Owner[listed[a][i]] = a

(* ... and so does what a client has been told to spend.                   *)
TrueInput == {[output |-> o, address |-> Owner[o], satoshis |-> Sats[o]] : o \in Output}

CollectedInv ==
  /\ operations \in Seq(Posted)
  /\ required \in Seq(Due(operations))
  /\ metadata.relevant_inputs \in Seq(TrueInput)
  /\ metadata.collected \in Nat
  /\ at = "preprocess" => metadata.collected = 0
  /\ at = "metadata" /\ required # <<>> => metadata.collected < Len(required)

(* What comes later is there only once what comes before is settled.       *)
StagesInv ==
  /\ at \in {"preprocess", "metadata", "payloads", "sign", "combine", "submit"} \cup Ended
  /\ at \in {"preprocess", "metadata", "payloads"} => payloads = <<>>
  /\ at \in {"sign", "combine"} => payloads # <<>>
  /\ at \notin {"submit"} \cup Ended => signed = NotSigned

(* The transaction, its payloads and signatures are of what was collected. *)
TransactionInv ==
  /\ payloads # <<>> =>
       /\ unsigned = UnsignedTransaction(metadata.relevant_inputs, Credits(operations))
       /\ payloads = Payloads(metadata.relevant_inputs, Credits(operations))
  /\ at = "combine" =>
       signatures \in Seq([hash : {payloads[i].hash : i \in DOMAIN payloads}, key : Account])
  /\ signed # NotSigned =>
       /\ payloads # <<>>
       /\ DOMAIN signatures = DOMAIN payloads
       /\ signed = [ins |-> unsigned.ins, outs |-> unsigned.outs,
                    input_amounts |-> unsigned.input_amounts, scripts |-> Scripts(signatures)]

TransferInv == ListedInv /\ CollectedInv /\ StagesInv /\ TransactionInv

-----------------------------------------------------------------------------
(* What changes which part of the state.                                   *)

LEMMA ListedStep ==
  ASSUME ListedInv, [Next]_vars
  PROVE  ListedInv'
  <1>1. CASE \E o \in Output : OthersPay(o)
    <2>1. PICK o \in Output : OthersPay(o)
      BY <1>1
    <2>2. Owner[o] \in Account
      BY OutputTypes
    <2>3. /\ listed' \in [Account -> Seq(Output)]
          /\ \A a \in Account : a # Owner[o] => listed'[a] = listed[a]
          /\ listed'[Owner[o]] = Append(listed[Owner[o]], o)
      BY <2>1, <2>2 DEF OthersPay, ListedInv
    <2>4. \A i \in DOMAIN listed'[Owner[o]] : Owner[listed'[Owner[o]][i]] = Owner[o]
      <3>1. listed[Owner[o]] \in Seq(Output)
            /\ \A i \in DOMAIN listed[Owner[o]] : Owner[listed[Owner[o]][i]] = Owner[o]
        BY <2>2 DEF ListedInv
      <3> QED
        BY <2>3, <3>1
    <2> QED
      BY <2>3, <2>4 DEF ListedInv
  <1>2. UNCHANGED listed => ListedInv'
    BY DEF ListedInv
  <1>3. ASSUME NEW o \in Output, Unpaid(o)
        PROVE  ListedInv'
    <2> DEFINE b == Owner[o]
               l == listed[b]
               n == Len(l)
    <2>1. b \in Account
      BY OutputTypes
    <2>2. l \in Seq(Output) /\ l # <<>> /\ \A i \in DOMAIN l : Owner[l[i]] = b
      BY <1>3, <2>1 DEF Unpaid, ListedInv
    <2>3. /\ listed' \in [Account -> Seq(Output)] \/ ~ (Front(l) \in Seq(Output))
          /\ \A a \in Account : a # b => listed'[a] = listed[a]
          /\ listed'[b] = Front(l)
      BY <1>3, <2>1 DEF Unpaid, ListedInv
    <2> HIDE DEF l, b
    <2>4. n \in Nat \ {0}
      BY <2>2, EmptySeq
    <2>5. n - 1 \in 0 .. n
      BY <2>4
    <2>6. Front(l) \in Seq(Output) /\ \A i \in DOMAIN Front(l) : i \in DOMAIN l /\ Front(l)[i] = l[i]
      BY <2>2, <2>5, Beginning DEF Front
    <2>7. \A i \in DOMAIN Front(l) : Owner[Front(l)[i]] = b
      BY <2>2, <2>6
    <2> QED
      BY <2>3, <2>6, <2>7 DEF ListedInv
  <1>4. CASE ~ \E o \in Output : OthersPay(o) \/ Unpaid(o)
    <2>1. UNCHANGED listed
      BY <1>4 DEF Next, vars, chain, OthersSpend, Begin, Preprocess, ExpectsAccounts, CollectInputs,
                  Collect, InsufficientBalance, ExpectsInputs, MakePayloads, Sign, Mismatch,
                  Combine, Submit, Fails
    <2> QED
      BY <1>2, <2>1
  <1> QED
    BY <1>1, <1>3, <1>4

(* A step that leaves all but the chain alone, or only ends the transfer.  *)
OfOthers ==
  UNCHANGED <<at, operations, required, metadata, unsigned, payloads, signatures, signed>>

Ending ==
  /\ at' \in Ended
  /\ UNCHANGED <<operations, required, metadata, unsigned, payloads, signatures, signed>>

LEMMA StepKinds ==
  ASSUME [Next]_vars
  PROVE  \/ OfOthers \/ Ending
         \/ \E ops \in Transfers : Begin(ops)
         \/ Preprocess \/ CollectInputs \/ MakePayloads
         \/ \E n \in 0 .. Len(payloads), key \in [Account -> Account] : Sign(n, key)
         \/ Combine
  BY DEF Next, vars, OfOthers, Ending, Ended, OthersPay, Unpaid, OthersSpend,
         ExpectsAccounts, InsufficientBalance, ExpectsInputs, Mismatch, Submit, Fails

LEMMA KindsKeep ==
  ASSUME CollectedInv, StagesInv, TransactionInv, OfOthers \/ Ending
  PROVE  CollectedInv' /\ StagesInv' /\ TransactionInv'
  <1>1. UNCHANGED <<operations, required, metadata, unsigned, payloads, signatures, signed>>
    BY DEF OfOthers, Ending
  <1>2. at' = at \/ at' \in Ended
    BY DEF OfOthers, Ending
  <1>3. CollectedInv'
    BY <1>1, <1>2 DEF CollectedInv, Ended
  <1>4. StagesInv'
    BY <1>1, <1>2 DEF StagesInv, Ended
  <1>5. TransactionInv'
    BY <1>1, <1>2 DEF TransactionInv, Ended
  <1> QED
    BY <1>3, <1>4, <1>5

LEMMA BeginStep ==
  ASSUME NEW ops \in Transfers, Begin(ops)
  PROVE  CollectedInv' /\ StagesInv' /\ TransactionInv'
  <1>1. /\ at' = "preprocess" /\ operations' = ops /\ required' = <<>>
        /\ metadata' = NoMetadata /\ payloads' = <<>> /\ signed' = NotSigned
    BY DEF Begin
  <1>2. ops \in Seq(Posted)
    BY TransferTypes DEF Posted
  <1>3. CollectedInv'
    BY <1>1, <1>2 DEF CollectedInv, NoMetadata
  <1>4. StagesInv'
    BY <1>1 DEF StagesInv, Ended
  <1>5. TransactionInv'
    BY <1>1 DEF TransactionInv
  <1> QED
    BY <1>3, <1>4, <1>5

LEMMA PreprocessStep ==
  ASSUME CollectedInv, StagesInv, TransactionInv, Preprocess
  PROVE  CollectedInv' /\ StagesInv' /\ TransactionInv'
  <1>1. /\ at = "preprocess" /\ at' \in {"metadata", "payloads"}
        /\ required' = RequiredBalances(operations)
        /\ UNCHANGED <<operations, metadata, unsigned, payloads, signatures, signed>>
    BY DEF Preprocess
  <1>2. CollectedInv'
    <2>1. RequiredBalances(operations) \in Seq(Due(operations))
      BY RequiredAreDue DEF CollectedInv
    <2>2. required' # <<>> => 0 < Len(required')
      BY <1>1, <2>1
    <2> QED
      BY <1>1, <2>1, <2>2 DEF CollectedInv
  <1>3. StagesInv'
    BY <1>1 DEF StagesInv, Ended
  <1>4. TransactionInv'
    BY <1>1 DEF TransactionInv, StagesInv, Ended
  <1> QED
    BY <1>2, <1>3, <1>4

LEMMA UtxosOfAccount ==
  ASSUME ListedInv, NEW account \in Account, NEW outputs \in AccountUtxos(account)
  PROVE  outputs \in Seq(Output) /\ \A i \in 1 .. Len(outputs) : Owner[outputs[i]] = account
  <1>1. /\ listed[account] \in Seq(Output)
        /\ \A i \in DOMAIN listed[account] : Owner[listed[account][i]] = account
    BY DEF ListedInv
  <1>2. PICK n \in 0 .. Len(listed[account]) : outputs = Reversed(SubSeq(listed[account], 1, n))
    BY DEF AccountUtxos
  <1> DEFINE s == SubSeq(listed[account], 1, n)
  <1>3. s \in Seq(Output) /\ \A i \in DOMAIN s : Owner[s[i]] = account
    <2>1. s \in Seq(Output) /\ DOMAIN s = 1 .. n
          /\ \A i \in 1 .. n : i \in DOMAIN listed[account] /\ s[i] = listed[account][i]
      BY <1>1, Beginning
    <2> QED
      BY <1>1, <2>1
  <1> HIDE DEF s
  <1>4. outputs \in Seq(Output) /\ \A i \in DOMAIN outputs : \E j \in DOMAIN s : outputs[i] = s[j]
    BY <1>2, <1>3, ReversedIsSequence DEF s
  <1> QED
    BY <1>3, <1>4

LEMMA CollectStep ==
  ASSUME ListedInv, CollectedInv, StagesInv, TransactionInv, CollectInputs
  PROVE  CollectedInv' /\ StagesInv' /\ TransactionInv'
  <1>0. PICK outputs \in AccountUtxos(Need.account) : Collect(outputs)
    BY DEF CollectInputs
  <1> DEFINE account == Need.account
             n == Min(Wanted(outputs))
             inputs == RelevantInputs(outputs, n, account)
  <1>1. /\ at = "metadata" /\ required # <<>>
        /\ metadata.collected < Len(required) /\ metadata.collected \in Nat
    BY DEF CollectInputs, CollectedInv
  <1>2. account \in Account
    <2>1. Need \in Due(operations)
      BY <1>1 DEF Need, CollectedInv
    <2> QED
      BY <2>1 DEF Due
  <1>3. /\ outputs \in Seq(Output)
        /\ \A i \in 1 .. Len(outputs) : Owner[outputs[i]] = account
    BY <1>2, UtxosOfAccount
  <1>4. n \in 0 .. Len(outputs)
    <2>1. Wanted(outputs) # {}
      BY <1>0 DEF Collect
    <2>2. Wanted(outputs) \subseteq 0 .. Len(outputs)
      BY DEF Wanted
    <2>3. Wanted(outputs) \in SUBSET Nat
      BY <2>2
    <2>4. n \in Wanted(outputs)
      BY <2>1, <2>3, MinIsLeast
    <2> QED
      BY <2>2, <2>4
  <1> HIDE DEF n, account
  <1>5. inputs \in Seq(TrueInput)
    <2>1. n \in Nat /\ \A i \in 1 .. n : outputs[i] \in Output /\ Owner[outputs[i]] = account
      BY <1>3, <1>4
    <2>2. \A i \in 1 .. n :
            [output |-> outputs[i], address |-> account, satoshis |-> Sats[outputs[i]]]
              \in TrueInput
      BY <2>1 DEF TrueInput
    <2> QED
      BY <2>1, <2>2 DEF RelevantInputs
  <1>6. /\ metadata'.relevant_inputs = metadata.relevant_inputs \o inputs
        /\ metadata'.collected = metadata.collected + 1
        /\ at' = IF metadata'.collected = Len(required) THEN "payloads" ELSE "metadata"
        /\ UNCHANGED <<operations, required, unsigned, payloads, signatures, signed>>
    BY <1>0 DEF Collect, n, account
  <1> HIDE DEF inputs
  <1>7. metadata'.relevant_inputs \in Seq(TrueInput)
    BY <1>5, <1>6, ConcatProperties DEF CollectedInv
  <1>8. CollectedInv'
    <2>1. Len(required) \in Nat
      BY DEF CollectedInv
    <2> QED
      BY <1>1, <1>6, <1>7, <2>1 DEF CollectedInv
  <1>9. StagesInv'
    BY <1>1, <1>6 DEF StagesInv, Ended
  <1>10. TransactionInv'
    BY <1>1, <1>6 DEF TransactionInv, StagesInv, Ended
  <1> QED
    BY <1>8, <1>9, <1>10

LEMMA PayloadsStep ==
  ASSUME CollectedInv, StagesInv, TransactionInv, MakePayloads
  PROVE  CollectedInv' /\ StagesInv' /\ TransactionInv'
  <1> DEFINE inputs == metadata.relevant_inputs
  <1>1. /\ at = "payloads" /\ at' = "sign" /\ inputs # <<>>
        /\ unsigned' = UnsignedTransaction(inputs, Credits(operations))
        /\ payloads' = Payloads(inputs, Credits(operations))
        /\ UNCHANGED <<operations, required, metadata, signatures, signed>>
    BY DEF MakePayloads
  <1>2. payloads' # <<>>
    <2>1. 1 \in DOMAIN inputs
      BY <1>1 DEF CollectedInv
    <2> QED
      BY <1>1, <2>1 DEF Payloads
  <1>3. CollectedInv'
    BY <1>1 DEF CollectedInv
  <1>4. StagesInv'
    BY <1>1, <1>2 DEF StagesInv, Ended
  <1>5. TransactionInv'
    BY <1>1, <1>2 DEF TransactionInv, StagesInv, Ended
  <1> QED
    BY <1>3, <1>4, <1>5

(* As many payloads as inputs, each for the address of its input.          *)
LEMMA PayloadsOfInputs ==
  ASSUME CollectedInv, TransactionInv, payloads # <<>>
  PROVE  /\ Len(metadata.relevant_inputs) \in Nat
         /\ Len(payloads) = Len(metadata.relevant_inputs)
         /\ DOMAIN payloads = 1 .. Len(payloads)
         /\ \A i \in DOMAIN payloads : payloads[i].address = metadata.relevant_inputs[i].address
         /\ \A i \in DOMAIN payloads : payloads[i].address \in Account
  <1> DEFINE inputs == metadata.relevant_inputs
  <1>1. inputs \in Seq(TrueInput)
    BY DEF CollectedInv
  <1>2. \A i \in 1 .. Len(inputs) : inputs[i].address \in Account
    <2>1. \A i \in 1 .. Len(inputs) : inputs[i] \in TrueInput
      BY <1>1
    <2> QED
      BY <2>1, OutputTypes DEF TrueInput
  <1>3. payloads = Payloads(inputs, Credits(operations))
    BY DEF TransactionInv
  <1>4. Len(inputs) \in Nat /\ DOMAIN inputs = 1 .. Len(inputs)
    BY <1>1
  <1> HIDE DEF inputs
  <1>5. /\ DOMAIN payloads = 1 .. Len(inputs)
        /\ \A i \in 1 .. Len(inputs) : payloads[i].address = inputs[i].address
    BY <1>3, <1>4 DEF Payloads
  <1>6. Len(payloads) = Len(inputs)
    BY <1>3, <1>4 DEF Payloads
  <1> QED
    BY <1>2, <1>4, <1>5, <1>6 DEF inputs

LEMMA SignStep ==
  ASSUME CollectedInv, StagesInv, TransactionInv,
         NEW n \in 0 .. Len(payloads), NEW key \in [Account -> Account], Sign(n, key)
  PROVE  CollectedInv' /\ StagesInv' /\ TransactionInv'
  <1>1. /\ at = "sign" /\ at' = "combine"
        /\ signatures' = [i \in 1 .. n |->
                            [hash |-> payloads[i].hash, key |-> key[payloads[i].address]]]
        /\ UNCHANGED <<operations, required, metadata, unsigned, payloads, signed>>
    BY DEF Sign
  <1>2. signatures' \in Seq([hash : {payloads[i].hash : i \in DOMAIN payloads}, key : Account])
    <2>1. n \in Nat /\ 1 .. n \subseteq DOMAIN payloads
          /\ \A i \in DOMAIN payloads : payloads[i].address \in Account
      BY <1>1, PayloadsOfInputs DEF StagesInv
    <2>2. \A i \in 1 .. n : [hash |-> payloads[i].hash, key |-> key[payloads[i].address]]
            \in [hash : {payloads[j].hash : j \in DOMAIN payloads}, key : Account]
      BY <2>1
    <2> QED
      BY <1>1, <2>1, <2>2
  <1>3. CollectedInv'
    BY <1>1 DEF CollectedInv
  <1>4. StagesInv'
    BY <1>1 DEF StagesInv, Ended
  <1>5. TransactionInv'
    BY <1>1, <1>2 DEF TransactionInv, StagesInv, Ended
  <1> QED
    BY <1>3, <1>4, <1>5

LEMMA CombineStep ==
  ASSUME CollectedInv, StagesInv, TransactionInv, Combine
  PROVE  CollectedInv' /\ StagesInv' /\ TransactionInv'
  <1>1. /\ at = "combine" /\ at' = "submit" /\ Len(signatures) = Len(unsigned.ins)
        /\ signed' = [ins |-> unsigned.ins, outs |-> unsigned.outs,
                      input_amounts |-> unsigned.input_amounts, scripts |-> Scripts(signatures)]
        /\ UNCHANGED <<operations, required, metadata, unsigned, payloads, signatures>>
    BY DEF Combine
  <1>2. Len(unsigned.ins) = Len(payloads)
    <2>1. payloads # <<>>
      BY <1>1 DEF StagesInv
    <2>2. unsigned.ins = Spends(metadata.relevant_inputs)
      BY <2>1 DEF TransactionInv, UnsignedTransaction
    <2>3. Len(Spends(metadata.relevant_inputs)) = Len(metadata.relevant_inputs)
      BY DEF Spends, CollectedInv
    <2> QED
      BY <2>1, <2>2, <2>3, PayloadsOfInputs
  <1>3. DOMAIN signatures = DOMAIN payloads
    <2>1. signatures \in Seq([hash : {payloads[i].hash : i \in DOMAIN payloads}, key : Account])
      BY <1>1 DEF TransactionInv
    <2>2. DOMAIN payloads = 1 .. Len(payloads)
      BY <1>1, PayloadsOfInputs DEF StagesInv
    <2> QED
      BY <1>1, <1>2, <2>1, <2>2
  <1>4. CollectedInv'
    BY <1>1 DEF CollectedInv
  <1>5. StagesInv'
    BY <1>1 DEF StagesInv, Ended
  <1>6. TransactionInv'
    BY <1>1, <1>3 DEF TransactionInv, StagesInv, Ended
  <1> QED
    BY <1>4, <1>5, <1>6

LEMMA InitTransfer == Init => TransferInv
  BY DEF Init, TransferInv, ListedInv, CollectedInv, StagesInv, TransactionInv, Ended, NoMetadata

LEMMA TransferInductive == Spec => []TransferInv
  <1>1. ASSUME TransferInv, [Next]_vars
        PROVE  TransferInv'
    <2>1. ListedInv'
      BY <1>1, ListedStep DEF TransferInv
    <2>2. CollectedInv' /\ StagesInv' /\ TransactionInv'
      BY <1>1, StepKinds, KindsKeep, BeginStep, PreprocessStep, CollectStep, PayloadsStep, SignStep,
         CombineStep DEF TransferInv
    <2> QED
      BY <2>1, <2>2 DEF TransferInv
  <1> QED
    BY <1>1, InitTransfer, PTL DEF Spec

-----------------------------------------------------------------------------
(* What a client is shown.                                                 *)

LEMMA UnsignedIsTrue ==
  ASSUME TransferInv
  PROVE  UnsignedShowsTheTransfer
  <1> DEFINE inputs == metadata.relevant_inputs
             outs == Credits(operations)
  <1>1. SUFFICES ASSUME payloads # <<>>
                 PROVE  ParseUnsigned(unsigned) =
                          [i \in DOMAIN unsigned.ins |->
                             Shown(Owner[unsigned.ins[i]], -Sats[unsigned.ins[i]])] \o outs
    BY DEF UnsignedShowsTheTransfer
  <1>2. unsigned = UnsignedTransaction(inputs, outs)
    BY <1>1 DEF TransferInv, TransactionInv
  <1>3. inputs \in Seq(TrueInput)
    BY DEF TransferInv, CollectedInv
  <1>4. \A i \in DOMAIN inputs : /\ inputs[i].address = Owner[inputs[i].output]
                                /\ inputs[i].satoshis = Sats[inputs[i].output]
    <2>1. \A i \in DOMAIN inputs : inputs[i] \in TrueInput
      BY <1>3
    <2> QED
      BY <2>1 DEF TrueInput
  <1> HIDE DEF inputs, outs
  <1>5. [i \in DOMAIN unsigned.ins |->
           Shown(unsigned.input_addresses[i], -unsigned.input_amounts[i])]
        = [i \in DOMAIN unsigned.ins |->
             Shown(Owner[unsigned.ins[i]], -Sats[unsigned.ins[i]])]
    BY <1>2, <1>4 DEF UnsignedTransaction, Spends, Shown
  <1>6. unsigned.outs = outs
    BY <1>2 DEF UnsignedTransaction
  <1> QED
    BY <1>5, <1>6 DEF ParseUnsigned

(* Sequences with a common end are equal if and only if what is before it  *)
(* is.                                                                     *)
LEMMA CommonEnd ==
  ASSUME NEW S, NEW s \in Seq(S), NEW t \in Seq(S), NEW u \in Seq(S)
  PROVE  s \o u = t \o u <=> s = t
  BY ConcatSimplifications

LEMMA SignedIsTrue ==
  ASSUME TransferInv
  PROVE  SignedShowsTheSigners
  <1> DEFINE inputs == metadata.relevant_inputs
             outs == Credits(operations)
             n == Len(inputs)
             before == [i \in 1 .. n |-> Shown(inputs[i].address, -inputs[i].satoshis)]
             after  == [i \in 1 .. n |-> Shown(signatures[i].key, -inputs[i].satoshis)]
  <1>1. SUFFICES ASSUME signed # NotSigned
                 PROVE  ParseSigned(signed) = ParseUnsigned(unsigned)
                          <=> \A i \in DOMAIN payloads : signatures[i].key = payloads[i].address
    BY DEF SignedShowsTheSigners
  <1>2. /\ payloads # <<>> /\ DOMAIN signatures = DOMAIN payloads
        /\ unsigned = UnsignedTransaction(inputs, outs)
        /\ signed = [ins |-> unsigned.ins, outs |-> unsigned.outs,
                     input_amounts |-> unsigned.input_amounts, scripts |-> Scripts(signatures)]
    BY <1>1 DEF TransferInv, TransactionInv
  <1>3. /\ n \in Nat /\ DOMAIN inputs = 1 .. n /\ DOMAIN payloads = 1 .. n
        /\ \A i \in 1 .. n : payloads[i].address = inputs[i].address
    <2>1. inputs \in Seq(TrueInput)
      BY DEF TransferInv, CollectedInv
    <2> QED
      BY <1>2, <2>1, PayloadsOfInputs DEF TransferInv
  <1>4. outs \in Seq(Posted)
    BY CreditsAreOperations DEF TransferInv, CollectedInv
  <1> HIDE DEF inputs, outs, n
  <1>5. ParseUnsigned(unsigned) = before \o outs
    BY <1>2, <1>3 DEF ParseUnsigned, UnsignedTransaction, Spends
  <1>6. ParseSigned(signed) = after \o outs
    <2>1. \A i \in 1 .. n : signed.scripts[i].key = signatures[i].key
      BY <1>2, <1>3 DEF Scripts
    <2> QED
      BY <1>2, <1>3, <2>1 DEF ParseSigned, UnsignedTransaction, Spends
  <1>7. after \o outs = before \o outs <=> after = before
    <2> DEFINE S == {before[i] : i \in 1 .. n} \cup {after[i] : i \in 1 .. n} \cup Posted
    <2>1. before \in Seq(S) /\ after \in Seq(S)
      BY <1>3
    <2>2. outs \in Seq(S)
      BY <1>4
    <2> HIDE DEF S, before, after
    <2> QED
      BY <2>1, <2>2, CommonEnd
  <1>8. after = before <=> \A i \in 1 .. n : signatures[i].key = inputs[i].address
    <2>1. \A i \in 1 .. n : after[i] = before[i] <=> signatures[i].key = inputs[i].address
      BY DEF Shown
    <2>2. after = before <=> \A i \in 1 .. n : after[i] = before[i]
      OBVIOUS
    <2> QED
      BY <2>1, <2>2
  <1> QED
    BY <1>3, <1>5, <1>6, <1>7, <1>8

(* What /construction/payloads returns, parsed, shows what is really spent, *)
(* each output with its owner and its worth, and what the operations       *)
(* credit: whatever was paid and spent since, and whoever calls.           *)
THEOREM UnsignedIsShown == Spec => []UnsignedShowsTheTransfer
  BY TransferInductive, UnsignedIsTrue, PTL

(* Parsed before and after signing, a transaction reads the same if and     *)
(* only if every input was signed by the owner of what it spends.          *)
THEOREM SignedIsShown == Spec => []SignedShowsTheSigners
  BY TransferInductive, SignedIsTrue, PTL

-----------------------------------------------------------------------------
(* Operations listed in their order: each of them, and each once.          *)

LEMMA InOrderLists ==
  ASSUME NEW m \in Nat, NEW S \in SUBSET (1 .. m)
  PROVE  LET order == InOrder(S) IN
         /\ order \in Seq(S) /\ Len(order) = Cardinality(S) /\ Cardinality(S) \in Nat
         /\ \A n, l \in DOMAIN order : order[n] = order[l] => n = l
         /\ \A i \in S : \E n \in DOMAIN order : order[n] = i
  <1> DEFINE UpTo(i) == Cardinality({j \in S : j <= i})
             c == Cardinality(S)
             nth(n) == CHOOSE i \in S : UpTo(i) = n
             order == InOrder(S)
  <1>1. IsFiniteSet(S) /\ c \in Nat
    <2>1. IsFiniteSet(1 .. m)
      BY FS_Interval
    <2> QED
      BY <2>1, FS_Subset, FS_CardinalityType
  <1>2. \A n \in 1 .. c : \E i \in S : UpTo(i) = n
    BY Positions
  <1>3. order = [n \in 1 .. c |-> nth(n)] /\ order \in Seq(S)
    BY InOrderSelects DEF InOrder
  <1>4. \A i \in S : /\ IsFiniteSet({j \in S : j <= i})
                    /\ UpTo(i) \in Nat /\ UpTo(i) <= c /\ UpTo(i) > 0
    <2> SUFFICES ASSUME NEW i \in S
                 PROVE  /\ IsFiniteSet({j \in S : j <= i})
                        /\ UpTo(i) \in Nat /\ UpTo(i) <= c /\ UpTo(i) > 0
      OBVIOUS
    <2> DEFINE T == {j \in S : j <= i}
    <2>1. T \in SUBSET S /\ i \in T
      OBVIOUS
    <2> HIDE DEF T
    <2>2. IsFiniteSet(T) /\ Cardinality(T) \in Nat /\ Cardinality(T) <= c /\ Cardinality(T) # 0
      BY <1>1, <2>1, FS_Subset, FS_CardinalityType, FS_EmptySet
    <2> QED
      BY <2>2 DEF T
  <1>5. ASSUME NEW i \in S, NEW k \in S, i < k
        PROVE  UpTo(i) < UpTo(k)
    <2> DEFINE T == {j \in S : j <= i}
               U == {j \in S : j <= k}
    <2>1. T \in SUBSET U /\ k \in U /\ k \notin T
      <3>1. i \in Nat /\ k \in Nat
        OBVIOUS
      <3>2. ASSUME NEW j \in S, j <= i
            PROVE  j <= k
        <4>1. j \in Nat
          OBVIOUS
        <4> QED
          BY <1>5, <3>1, <3>2, <4>1
      <3>3. ~ (k <= i)
        BY <1>5, <3>1
      <3>4. k <= k
        BY <3>1
      <3>5. T \in SUBSET U
        BY <3>2, Zenon
      <3> QED
        BY <3>3, <3>4, <3>5, Zenon
    <2>2. IsFiniteSet(U)
      BY <1>4
    <2> HIDE DEF T, U
    <2>3. Cardinality(T) <= Cardinality(U) /\ Cardinality(T) # Cardinality(U)
      BY <2>1, <2>2, FS_Subset
    <2>4. UpTo(i) = Cardinality(T) /\ UpTo(k) = Cardinality(U)
      BY DEF T, U
    <2>5. UpTo(i) \in Nat /\ UpTo(k) \in Nat
      BY <1>4
    <2> HIDE DEF UpTo
    <2> QED
      BY <2>3, <2>4, <2>5
  <1> HIDE DEF UpTo, c
  <1>6. \A i, k \in S : UpTo(i) = UpTo(k) => i = k
    <2> SUFFICES ASSUME NEW i \in S, NEW k \in S, UpTo(i) = UpTo(k), i # k
                 PROVE  FALSE
      OBVIOUS
    <2>1. i < k \/ k < i
      <3>1. i \in Nat /\ k \in Nat
        OBVIOUS
      <3> QED
        BY <3>1
    <2>2. UpTo(i) < UpTo(k) \/ UpTo(k) < UpTo(i)
      BY <1>5, <2>1
    <2>3. UpTo(i) \in Nat /\ UpTo(k) \in Nat
      BY <1>4
    <2> QED
      BY <2>2, <2>3
  <1>7. \A n \in 1 .. c : nth(n) \in S /\ UpTo(nth(n)) = n
    BY <1>2
  <1>8. \A i \in S : UpTo(i) \in 1 .. c /\ nth(UpTo(i)) = i
    <2>1. ASSUME NEW i \in S
          PROVE  UpTo(i) \in 1 .. c
      <3>1. UpTo(i) \in Nat /\ UpTo(i) <= c /\ UpTo(i) > 0
        BY <1>4
      <3>2. c \in Nat
        BY <1>1
      <3> QED
        BY <3>1, <3>2
    <2> QED
      BY <1>6, <1>7, <2>1
  <1> HIDE DEF nth
  <1>9. /\ DOMAIN order = 1 .. c /\ Len(order) = c
        /\ \A n, l \in DOMAIN order : order[n] = order[l] => n = l
        /\ \A i \in S : \E n \in DOMAIN order : order[n] = i
    <2>1. DOMAIN order = 1 .. c /\ Len(order) = c /\ \A n \in 1 .. c : order[n] = nth(n)
      BY <1>1, <1>3
    <2> HIDE DEF order
    <2> QED
      BY <1>7, <1>8, <2>1
  <1> QED
    BY <1>1, <1>3, <1>9 DEF c

(* What is listed in order adds up to the same.                            *)
LEMMA TotalInOrder ==
  ASSUME NEW m \in Nat, NEW S \in SUBSET (1 .. m), NEW g, \A i \in S : g[i] \in Int
  PROVE  Total([n \in DOMAIN InOrder(S) |-> g[InOrder(S)[n]]]) = Part(g, S)
  <1> DEFINE order == InOrder(S)
             f == [n \in DOMAIN order |-> g[order[n]]]
  <1>1. /\ order \in Seq(S) /\ Len(order) \in Nat
        /\ \A n, l \in DOMAIN order : order[n] = order[l] => n = l
        /\ \A i \in S : \E n \in DOMAIN order : order[n] = i
    BY InOrderLists
  <1>2. DOMAIN order = 1 .. Len(order) /\ \A n \in DOMAIN order : order[n] \in S
    BY <1>1
  <1>3. IsFiniteSet(DOMAIN order) /\ IsFiniteSet(S)
    <2>1. IsFiniteSet(1 .. Len(order)) /\ IsFiniteSet(1 .. m)
      BY <1>1, FS_Interval
    <2> QED
      BY <1>2, <2>1, FS_Subset
  <1>4. {order[n] : n \in DOMAIN order} = S
    <2>1. \A n \in DOMAIN order : order[n] \in S
      BY <1>2
    <2>2. \A i \in S : \E n \in DOMAIN order : order[n] = i
      BY <1>1
    <2> HIDE DEF order
    <2> QED
      BY <2>1, <2>2
  <1>5. Total(f) = Part(f, DOMAIN order)
    <2>1. f = [n \in DOMAIN order |-> f[n]]
      OBVIOUS
    <2> HIDE DEF f
    <2> QED
      BY <2>1, TotalIsPart
  <1>6. \A n \in DOMAIN order : f[n] = g[order[n]] /\ f[n] \in Int
    BY <1>2
  <1> HIDE DEF f, order
  <1>7. Part(f, DOMAIN order) = Part(g, {order[n] : n \in DOMAIN order})
    <2> DEFINE A == DOMAIN order
    <2>1. /\ IsFiniteSet({order[n] : n \in A}) /\ IsFiniteSet(A)
          /\ \A n \in A : f[n] = g[order[n]] /\ f[n] \in Int
          /\ \A n, l \in A : order[n] = order[l] => n = l
      BY <1>1, <1>3, <1>4, <1>6
    <2> HIDE DEF A
    <2>2. Part(f, A) = Part(g, {order[n] : n \in A})
      BY <2>1, PartRenamed
    <2> QED
      BY <2>2 DEF A
  <1> QED
    BY <1>4, <1>5, <1>7 DEF f, order

-----------------------------------------------------------------------------
(* What the operations debit and credit.                                   *)

Amounts(ops) == [i \in DOMAIN ops |-> ops[i].amount]
Taken(ops)   == [i \in DOMAIN ops |-> -ops[i].amount]
DebitsOf(ops, a) == {i \in Debits(ops) : ops[i].account = a}
AllDebits(ops)   == Part(Taken(ops), Debits(ops))

LEMMA OperationFacts ==
  ASSUME NEW ops \in Seq(Posted)
  PROVE  /\ DOMAIN ops = 1 .. Len(ops) /\ Len(ops) \in Nat /\ IsFiniteSet(DOMAIN ops)
         /\ Debits(ops) \in SUBSET (DOMAIN ops) /\ IsFiniteSet(Debits(ops))
         /\ \A i \in DOMAIN ops : /\ ops[i].account \in Account /\ ops[i].amount \in Int
                                  /\ Amounts(ops)[i] = ops[i].amount
                                  /\ Taken(ops)[i] = -ops[i].amount
         /\ \A i \in Debits(ops) : Taken(ops)[i] \in Nat \ {0}
  <1>1. DOMAIN ops = 1 .. Len(ops) /\ Len(ops) \in Nat /\ \A i \in DOMAIN ops : ops[i] \in Posted
    OBVIOUS
  <1>2. IsFiniteSet(DOMAIN ops)
    BY <1>1, FS_Interval
  <1>3. \A i \in DOMAIN ops : ops[i].account \in Account /\ ops[i].amount \in Int
    BY <1>1 DEF Posted
  <1>4. Debits(ops) \in SUBSET (DOMAIN ops) /\ \A i \in Debits(ops) : ops[i].amount < 0
    BY DEF Debits
  <1>5. IsFiniteSet(Debits(ops))
    BY <1>2, <1>4, FS_Subset
  <1> QED
    BY <1>1, <1>2, <1>3, <1>4, <1>5 DEF Amounts, Taken

LEMMA DebitIsPart ==
  ASSUME NEW ops \in Seq(Posted), NEW a
  PROVE  /\ DebitOf(ops, a) = Part(Taken(ops), DebitsOf(ops, a))
         /\ IsFiniteSet(DebitsOf(ops, a)) /\ DebitsOf(ops, a) \in SUBSET Debits(ops)
         /\ DebitOf(ops, a) \in Nat
         /\ DebitsOf(ops, a) # {} <=> DebitOf(ops, a) > 0
  <1> DEFINE D == DebitsOf(ops, a)
             f == [i \in D |-> -ops[i].amount]
  <1>1. D \in SUBSET Debits(ops) /\ IsFiniteSet(D)
    BY OperationFacts, FS_Subset DEF DebitsOf
  <1>2. \A i \in D : f[i] = Taken(ops)[i] /\ Taken(ops)[i] \in Nat \ {0}
    BY <1>1, OperationFacts
  <1>3. DebitOf(ops, a) = Total(f)
    BY DEF DebitOf, DebitsOf
  <1>4. Total(f) = Part(f, D)
    BY TotalIsPart
  <1> HIDE DEF D, f
  <1>5. Part(f, D) = Part(Taken(ops), D)
    BY <1>2, EqualParts
  <1>6. Part(Taken(ops), D) \in Nat
    <2>1. \A i \in D : Taken(ops)[i] \in Nat
      BY <1>2
    <2> QED
      BY <1>1, <2>1, PartPositive
  <1>7. D = {} => Part(Taken(ops), D) = 0
    BY EmptyPart
  <1>8. ASSUME NEW i \in D
        PROVE  Part(Taken(ops), D) > 0
    <2>1. \A j \in D : Taken(ops)[j] \in Int /\ Taken(ops)[j] \in Nat
      BY <1>2
    <2>2. Part(Taken(ops), D) = Taken(ops)[i] + Part(Taken(ops), D \ {i})
      BY <1>1, <2>1, PartTakes
    <2>3. Part(Taken(ops), D \ {i}) \in Nat
      <3>1. IsFiniteSet(D \ {i})
        BY <1>1, FS_RemoveElement
      <3>2. \A j \in D \ {i} : Taken(ops)[j] \in Nat
        BY <2>1
      <3> QED
        BY <3>1, <3>2, PartPositive
    <2>4. Taken(ops)[i] \in Nat \ {0}
      BY <1>2
    <2> QED
      BY <2>2, <2>3, <2>4
  <1> QED
    BY <1>1, <1>3, <1>4, <1>5, <1>6, <1>7, <1>8 DEF D

(* Each debited account has one first debit.                               *)
LEMMA FirstDebitFacts ==
  ASSUME NEW ops \in Seq(Posted)
  PROVE  /\ FirstDebits(ops) \in SUBSET Debits(ops) /\ IsFiniteSet(FirstDebits(ops))
         /\ \A i, j \in FirstDebits(ops) : ops[i].account = ops[j].account => i = j
         /\ \A j \in Debits(ops) : \E i \in FirstDebits(ops) : ops[i].account = ops[j].account
  <1>1. FirstDebits(ops) \in SUBSET Debits(ops) /\ Debits(ops) \in SUBSET Nat
    BY OperationFacts DEF FirstDebits
  <1>2. IsFiniteSet(FirstDebits(ops))
    BY <1>1, OperationFacts, FS_Subset
  <1>3. \A i, j \in FirstDebits(ops) : ops[i].account = ops[j].account => i = j
    <2> SUFFICES ASSUME NEW i \in FirstDebits(ops), NEW j \in FirstDebits(ops),
                        ops[i].account = ops[j].account
                 PROVE  i = j
      OBVIOUS
    <2>1. i <= j /\ j <= i /\ i \in Nat /\ j \in Nat
      BY <1>1 DEF FirstDebits
    <2> QED
      BY <2>1
  <1>4. ASSUME NEW j \in Debits(ops)
        PROVE  \E i \in FirstDebits(ops) : ops[i].account = ops[j].account
    <2> DEFINE T == {k \in Debits(ops) : ops[k].account = ops[j].account}
    <2>1. T \in SUBSET Nat /\ T # {}
      BY <1>1
    <2>2. PICK i \in T : \A k \in T : i <= k
      BY <2>1, LeastNatural
    <2>3. i \in FirstDebits(ops)
      BY <2>2 DEF FirstDebits
    <2> QED
      BY <2>2, <2>3
  <1> QED
    BY <1>1, <1>2, <1>3, <1>4

(* The debits of the accounts add up to all debits.                         *)
LEMMA DebitsByAccount ==
  ASSUME NEW ops \in Seq(Posted), NEW owed,
         \A i \in FirstDebits(ops) : owed[i] = DebitOf(ops, ops[i].account)
  PROVE  Part(owed, FirstDebits(ops)) = AllDebits(ops)
  <1> DEFINE F == FirstDebits(ops)
             Of(B) == {j \in Debits(ops) : \E i \in B : ops[i].account = ops[j].account}
             Bad == {B \in SUBSET F : Part(owed, B) # Part(Taken(ops), Of(B))}
  <1>1. /\ F \in SUBSET Debits(ops) /\ IsFiniteSet(F)
        /\ \A i, j \in F : ops[i].account = ops[j].account => i = j
        /\ \A j \in Debits(ops) : \E i \in F : ops[i].account = ops[j].account
    BY FirstDebitFacts
  <1>2. Of(F) = Debits(ops)
    BY <1>1
  <1> SUFFICES ASSUME Bad # {}
               PROVE  FALSE
    <2>1. F \in SUBSET F /\ F \notin Bad
      OBVIOUS
    <2>2. Part(owed, F) = Part(Taken(ops), Of(F))
      BY <2>1
    <2> QED
      BY <1>2, <2>2 DEF AllDebits
  <1> HIDE DEF F
  <1>3. Bad \in SUBSET (SUBSET F)
    OBVIOUS
  <1>4. PICK B \in Bad : IsFiniteSet(B) /\ \A C \in SUBSET B : C # B => C \notin Bad
    <2> HIDE DEF Bad
    <2> QED
      BY <1>1, <1>3, SmallestSet
  <1>5. B \in SUBSET F /\ Part(owed, B) # Part(Taken(ops), Of(B))
    BY <1>4
  <1>6. B # {}
    <2> SUFFICES ASSUME B = {}
                 PROVE  FALSE
      OBVIOUS
    <2>1. Of(B) = {}
      OBVIOUS
    <2> HIDE DEF Bad, Of
    <2> QED
      BY <1>5, <2>1, EmptyPart
  <1>7. PICK x : x \in B
    BY <1>6
  <1> DEFINE C == B \ {x}
             D == DebitsOf(ops, ops[x].account)
  <1>8. C \in SUBSET B /\ C # B /\ C \in SUBSET F /\ x \notin C /\ B = C \cup {x} /\ x \in F
    BY <1>5, <1>7
  <1>9. Part(owed, C) = Part(Taken(ops), Of(C))
    BY <1>4, <1>8
  <1>10. Of(B) = Of(C) \cup D
    BY <1>8 DEF DebitsOf
  <1>11. Of(C) \cap D = {}
    BY <1>1, <1>8 DEF DebitsOf
  <1>12. /\ IsFiniteSet(C) /\ IsFiniteSet(D) /\ DebitOf(ops, ops[x].account) = Part(Taken(ops), D)
         /\ DebitOf(ops, ops[x].account) \in Nat
         /\ \A i \in F : owed[i] \in Int
    <2>1. \A i \in F : owed[i] = DebitOf(ops, ops[i].account) /\ DebitOf(ops, ops[i].account) \in Nat
      BY DebitIsPart DEF F
    <2> QED
      BY <1>4, <1>8, <2>1, FS_Subset, DebitIsPart
  <1>13. IsFiniteSet(Of(C)) /\ Of(C) \in SUBSET Debits(ops) /\ D \in SUBSET Debits(ops)
    <2>1. IsFiniteSet(Debits(ops)) /\ Of(C) \in SUBSET Debits(ops) /\ D \in SUBSET Debits(ops)
      BY OperationFacts DEF DebitsOf
    <2> HIDE DEF Of, C
    <2> QED
      BY <2>1, FS_Subset
  <1>14. \A i \in Debits(ops) : Taken(ops)[i] \in Int
    BY OperationFacts
  <1> HIDE DEF Of, C, D, Bad
  <1>15. Part(Taken(ops), Of(B)) = Part(Taken(ops), Of(C)) + Part(Taken(ops), D)
    <2>1. \A i \in Of(C) \cup D : Taken(ops)[i] \in Int
      BY <1>13, <1>14
    <2> QED
      BY <1>10, <1>11, <1>12, <1>13, <2>1, PartsJoin
  <1>16. Part(owed, B) = Part(owed, C) + owed[x]
    BY <1>8, <1>12, PartAdds
  <1>17. owed[x] = Part(Taken(ops), D)
    <2>1. owed[x] = DebitOf(ops, ops[x].account)
      BY <1>8 DEF F
    <2> QED
      BY <1>12, <2>1
  <1> QED
    BY <1>5, <1>9, <1>15, <1>16, <1>17

(* What is owed is what the operations debit, account by account.           *)
LEMMA RequiredFacts ==
  ASSUME NEW ops \in Seq(Posted)
  PROVE  LET R == RequiredBalances(ops) IN
         /\ \A n \in DOMAIN R : /\ R[n].account \in Account
                                /\ R[n].sats = DebitOf(ops, R[n].account) /\ R[n].sats \in Nat \ {0}
         /\ \A n, l \in DOMAIN R : R[n].account = R[l].account => n = l
         /\ \A a \in Account : DebitOf(ops, a) > 0 => \E n \in DOMAIN R : R[n].account = a
         /\ Part([n \in DOMAIN R |-> R[n].sats], DOMAIN R) = AllDebits(ops)
  <1> DEFINE F == FirstDebits(ops)
             order == InOrder(F)
             R == RequiredBalances(ops)
             owed == [i \in F |-> DebitOf(ops, ops[i].account)]
  <1>1. /\ F \in SUBSET Debits(ops)
        /\ \A i, j \in F : ops[i].account = ops[j].account => i = j
        /\ \A j \in Debits(ops) : \E i \in F : ops[i].account = ops[j].account
    BY FirstDebitFacts
  <1>2. Len(ops) \in Nat /\ F \in SUBSET (1 .. Len(ops))
        /\ \A i \in F : ops[i].account \in Account
    BY <1>1, OperationFacts
  <1> HIDE DEF F
  <1>3. /\ order \in Seq(F)
        /\ \A n, l \in DOMAIN order : order[n] = order[l] => n = l
        /\ \A i \in F : \E n \in DOMAIN order : order[n] = i
    BY <1>2, InOrderLists
  <1>4. DOMAIN R = DOMAIN order /\ \A n \in DOMAIN order : R[n] = Needs(ops, order[n])
    BY DEF RequiredBalances, F
  <1>5. \A n \in DOMAIN order : order[n] \in F
    BY <1>3
  <1> HIDE DEF order, R
  <1>6. \A n \in DOMAIN R : /\ order[n] \in F /\ R[n].account = ops[order[n]].account
                            /\ R[n].sats = DebitOf(ops, ops[order[n]].account)
    BY <1>4, <1>5 DEF Needs
  <1>7. \A i \in F : DebitOf(ops, ops[i].account) \in Nat \ {0}
    <2> SUFFICES ASSUME NEW i \in F
                 PROVE  DebitOf(ops, ops[i].account) \in Nat \ {0}
      OBVIOUS
    <2>1. i \in DebitsOf(ops, ops[i].account)
      BY <1>1 DEF DebitsOf
    <2>2. DebitsOf(ops, ops[i].account) # {}
      BY <2>1
    <2>3. DebitOf(ops, ops[i].account) \in Nat /\ DebitOf(ops, ops[i].account) > 0
      BY <2>2, DebitIsPart
    <2> QED
      BY <2>3
  <1>8. ASSUME NEW a \in Account, DebitOf(ops, a) > 0
        PROVE  \E n \in DOMAIN R : R[n].account = a
    <2>1. PICK j \in DebitsOf(ops, a) : TRUE
      BY <1>8, DebitIsPart
    <2>2. j \in Debits(ops) /\ ops[j].account = a
      BY <2>1 DEF DebitsOf
    <2>3. PICK i \in F : ops[i].account = a
      BY <1>1, <2>2
    <2> QED
      BY <1>3, <1>4, <1>6, <2>3
  <1>9. Part([n \in DOMAIN R |-> R[n].sats], DOMAIN R) = AllDebits(ops)
    <2> DEFINE f == [n \in DOMAIN order |-> owed[order[n]]]
    <2>1. \A i \in F : owed[i] = DebitOf(ops, ops[i].account) /\ owed[i] \in Int
      BY <1>7
    <2>2. [n \in DOMAIN R |-> R[n].sats] = f
      BY <1>4, <1>6, <2>1
    <2> HIDE DEF owed
    <2>3. Total(f) = Part(owed, F)
      BY <1>2, <2>1, TotalInOrder DEF order
    <2>4. Part(owed, F) = AllDebits(ops)
      BY <2>1, DebitsByAccount DEF F
    <2>5. Total(f) = Part(f, DOMAIN order)
      <3>1. f = [n \in DOMAIN order |-> f[n]]
        OBVIOUS
      <3> HIDE DEF f
      <3> QED
        BY <3>1, TotalIsPart
    <2> HIDE DEF f
    <2> QED
      BY <1>4, <2>2, <2>3, <2>4, <2>5
  <1>10. \A n, l \in DOMAIN R : R[n].account = R[l].account => n = l
    BY <1>1, <1>3, <1>4, <1>6
  <1>11. \A n \in DOMAIN R : /\ R[n].account \in Account
                             /\ R[n].sats = DebitOf(ops, R[n].account) /\ R[n].sats \in Nat \ {0}
    BY <1>2, <1>6, <1>7
  <1> QED
    BY <1>8, <1>9, <1>10, <1>11 DEF R

(* What the operations add up to is what they credit beyond their debits.   *)
LEMMA CreditsAndDebits ==
  ASSUME NEW ops \in Seq(Posted)
  PROVE  /\ Total([i \in DOMAIN ops |-> ops[i].amount])
              = Total([i \in DOMAIN Credits(ops) |-> Credits(ops)[i].amount]) - AllDebits(ops)
         /\ Total([i \in DOMAIN Credits(ops) |-> Credits(ops)[i].amount]) \in Int
         /\ AllDebits(ops) \in Int
  <1> DEFINE S == DOMAIN ops \ Debits(ops)
             D == Debits(ops)
             am == Amounts(ops)
             tk == Taken(ops)
  <1>1. /\ Len(ops) \in Nat /\ S \in SUBSET (1 .. Len(ops)) /\ DOMAIN ops = S \cup D
        /\ S \cap D = {} /\ IsFiniteSet(S) /\ IsFiniteSet(D)
        /\ D \in SUBSET DOMAIN ops /\ S \in SUBSET DOMAIN ops
    BY OperationFacts, FS_Subset
  <1>2. \A i \in DOMAIN ops : /\ am[i] \in Int /\ tk[i] \in Int /\ tk[i] = -am[i]
                              /\ am[i] = ops[i].amount
    BY OperationFacts
  <1>3. Total([i \in DOMAIN ops |-> ops[i].amount]) = Part(am, DOMAIN ops)
    BY TotalIsPart DEF Amounts
  <1>4. Part(am, DOMAIN ops) = Part(am, S) + Part(am, D)
    <2>1. \A i \in S \cup D : am[i] \in Int
      BY <1>1, <1>2
    <2> HIDE DEF S, D, am
    <2> QED
      BY <1>1, <2>1, PartsJoin
  <1>5. Part(am, D) = -Part(tk, D) /\ Part(tk, D) \in Int /\ Part(am, S) \in Int
    <2> DEFINE none == [i \in D |-> 0]
    <2>1. \A i \in D : am[i] = none[i] - tk[i] /\ none[i] \in Int /\ tk[i] \in Int
      BY <1>1, <1>2
    <2>2. \A i \in D : none[i] = tk[i] - tk[i] /\ tk[i] \in Int
      BY <1>1, <1>2
    <2>3. \A i \in S : am[i] \in Int
      BY <1>1, <1>2
    <2> HIDE DEF none, D, am, tk, S
    <2>4. Part(am, D) = Part(none, D) - Part(tk, D)
      BY <1>1, <2>1, PartsSubtract
    <2>5. Part(none, D) = Part(tk, D) - Part(tk, D)
      BY <1>1, <2>2, PartsSubtract
    <2>6. Part(tk, D) \in Int /\ Part(am, S) \in Int
      BY <1>1, <2>2, <2>3, PartType
    <2> QED
      BY <2>4, <2>5, <2>6
  <1>6. Total([i \in DOMAIN Credits(ops) |-> Credits(ops)[i].amount]) = Part(am, S)
    <2> DEFINE order == InOrder(S)
    <2>1. \A n \in DOMAIN order : order[n] \in S
      <3>1. order \in Seq(S)
        BY <1>1, InOrderSelects
      <3> HIDE DEF order, S
      <3> QED
        BY <3>1
    <2>2. DOMAIN Credits(ops) = DOMAIN order /\ \A n \in DOMAIN order : Credits(ops)[n] = ops[order[n]]
      BY DEF Credits
    <2>3. [i \in DOMAIN Credits(ops) |-> Credits(ops)[i].amount] = [n \in DOMAIN order |-> am[order[n]]]
      <3>1. \A n \in DOMAIN order : Credits(ops)[n].amount = am[order[n]]
        BY <1>1, <1>2, <2>1, <2>2
      <3> HIDE DEF order, am
      <3> QED
        BY <2>2, <3>1
    <2>4. \A i \in S : am[i] \in Int
      BY <1>1, <1>2
    <2> HIDE DEF S, am
    <2>5. Total([n \in DOMAIN InOrder(S) |-> am[InOrder(S)[n]]]) = Part(am, S)
      BY <1>1, <2>4, TotalInOrder
    <2> QED
      BY <2>3, <2>5
  <1> QED
    BY <1>3, <1>4, <1>5, <1>6 DEF AllDebits

-----------------------------------------------------------------------------
(* Every variable keeps its type.                                           *)

TypeInv ==
  /\ spent \subseteq Output
  /\ metadata = [relevant_inputs |-> metadata.relevant_inputs, change |-> metadata.change,
                 collected |-> metadata.collected]
  /\ metadata.change \in Int /\ metadata.collected \in 0 .. Len(required)
  /\ unsigned \in [ins : Seq(Output), outs : Seq(Posted),
                   input_amounts : Seq(Nat \ {0}), input_addresses : Seq(Account)]
  /\ payloads \in Seq([address : Account, hash : Hash])
  /\ signatures \in Seq(Signature)
  /\ signed \in [ins : Seq(Output), outs : Seq(Posted),
                 input_amounts : Seq(Nat \ {0}), scripts : Seq(Signature)]
  /\ Len(unsigned.ins) = Len(unsigned.input_addresses)
  /\ Len(signed.ins) = Len(signed.scripts)

LEMMA SeqOfMore ==
  ASSUME NEW S, NEW T, S \subseteq T, NEW s \in Seq(S)
  PROVE  s \in Seq(T)
  OBVIOUS

LEMMA Listing ==
  ASSUME NEW S, NEW n \in Nat, NEW f, \A i \in 1 .. n : f[i] \in S
  PROVE  [i \in 1 .. n |-> f[i]] \in Seq(S) /\ Len([i \in 1 .. n |-> f[i]]) = n
  OBVIOUS

LEMMA DueTypes ==
  ASSUME NEW ops \in Seq(Posted)
  PROVE  Due(ops) \subseteq [account : Account, sats : Nat]
  <1>1. \A a \in Account : DebitOf(ops, a) \in Nat
    BY DebitIsPart
  <1> QED
    BY <1>1 DEF Due

LEMMA WorthType ==
  ASSUME NEW outputs \in Seq(Output), NEW n \in 0 .. Len(outputs)
  PROVE  /\ Worth(outputs, n) = Part([i \in 1 .. n |-> Sats[outputs[i]]], 1 .. n)
         /\ Worth(outputs, n) \in Nat
  <1> DEFINE f == [i \in 1 .. n |-> Sats[outputs[i]]]
  <1>1. \A i \in 1 .. n : outputs[i] \in Output
    OBVIOUS
  <1>2. \A i \in 1 .. n : f[i] \in Nat
    BY <1>1, OutputTypes
  <1>3. n \in Nat /\ IsFiniteSet(1 .. n)
    BY FS_Interval
  <1>4. Worth(outputs, n) = Total(f)
    BY DEF Worth
  <1>5. Total(f) = Part(f, 1 .. n)
    <2>1. f = [i \in 1 .. n |-> f[i]]
      OBVIOUS
    <2> HIDE DEF f
    <2> QED
      BY <2>1, TotalIsPart
  <1> HIDE DEF f
  <1>6. Part(f, 1 .. n) \in Nat
    BY <1>2, <1>3, PartPositive
  <1> QED
    BY <1>4, <1>5, <1>6 DEF f

(* What CollectInputs adds, named.                                          *)
LEMMA CollectFacts ==
  ASSUME ListedInv, CollectedInv, CollectInputs,
         NEW outputs \in AccountUtxos(Need.account), Collect(outputs)
  PROVE  LET account == Need.account
             n == Min(Wanted(outputs)) IN
         /\ metadata.collected + 1 \in DOMAIN required /\ metadata.collected \in Nat
         /\ Need = required[metadata.collected + 1]
         /\ account \in Account /\ Need.sats = DebitOf(operations, account)
         /\ outputs \in Seq(Output) /\ n \in 0 .. Len(outputs)
         /\ \A i \in 1 .. Len(outputs) : Owner[outputs[i]] = account
         /\ Worth(outputs, n) >= Need.sats
         /\ \A k \in 0 .. n - 1 : ~ (Worth(outputs, k) >= Need.sats)
  <1> DEFINE account == Need.account
             n == Min(Wanted(outputs))
  <1>1. /\ at = "metadata" /\ required # <<>> /\ Wanted(outputs) # {}
        /\ metadata.collected < Len(required) /\ metadata.collected \in Nat
        /\ Len(required) \in Nat /\ DOMAIN required = 1 .. Len(required)
    BY DEF CollectInputs, Collect, CollectedInv
  <1>2. metadata.collected + 1 \in DOMAIN required
    BY <1>1
  <1>3. Need \in Due(operations)
    BY <1>2 DEF Need, CollectedInv
  <1>4. account \in Account /\ Need.sats = DebitOf(operations, account)
    BY <1>3 DEF Due
  <1>5. outputs \in Seq(Output) /\ \A i \in 1 .. Len(outputs) : Owner[outputs[i]] = account
    BY <1>4, UtxosOfAccount
  <1> DEFINE T == Wanted(outputs)
  <1>6. T \in SUBSET Nat /\ T \in SUBSET (0 .. Len(outputs)) /\ T # {}
    BY <1>1 DEF Wanted
  <1>7. n \in T /\ \A k \in T : n <= k
    <2>1. \E m \in T : \A k \in T : m <= k
      <3> HIDE DEF T
      <3> QED
        BY <1>6, LeastNatural
    <2> HIDE DEF T
    <2> QED
      BY <2>1 DEF Min, T
  <1>8. n \in 0 .. Len(outputs) /\ Worth(outputs, n) >= Need.sats
    BY <1>6, <1>7 DEF Wanted, Enough
  <1>9. ASSUME NEW k \in 0 .. n - 1, Worth(outputs, k) >= Need.sats
        PROVE  FALSE
    <2>1. n \in Nat /\ k \in 0 .. Len(outputs) /\ ~ (n <= k)
      <3> HIDE DEF n
      <3> QED
        BY <1>5, <1>8
    <2>2. k \in T
      BY <1>9, <2>1 DEF Wanted, Enough
    <2> QED
      BY <1>7, <2>1, <2>2
  <1> QED
    BY <1>1, <1>2, <1>4, <1>5, <1>8, <1>9 DEF Need

LEMMA InitTypes == Init => TypeInv
  BY DEF Init, TypeInv, NoMetadata, NoTransaction, NotSigned

LEMMA TypeStep ==
  ASSUME TransferInv, TypeInv, [Next]_vars
  PROVE  TypeInv'
  <1> USE DEF TransferInv
  <1>1. spent' \subseteq Output
    <2>1. CASE Submit
      <3>1. signed.ins \in Seq(Output)
        BY DEF TypeInv
      <3>2. spent' = spent \/ spent' = spent \cup {signed.ins[i] : i \in DOMAIN signed.ins}
        BY <2>1 DEF Submit
      <3> QED
        BY <3>1, <3>2 DEF TypeInv
    <2>2. CASE \E o \in Output : OthersSpend(o)
      BY <2>2 DEF OthersSpend, TypeInv
    <2>3. CASE \E o \in Output : Unpaid(o)
      BY <2>3 DEF Unpaid, TypeInv
    <2>4. CASE ~Submit /\ ~ \E o \in Output : OthersSpend(o) \/ Unpaid(o)
      <3>1. UNCHANGED spent
        BY <2>4 DEF Next, vars, chain, OthersPay, Begin, Preprocess, ExpectsAccounts, CollectInputs,
                    Collect, InsufficientBalance, ExpectsInputs, MakePayloads, Sign, Mismatch,
                    Combine, Fails
      <3> QED
        BY <3>1 DEF TypeInv
    <2> QED
      BY <2>1, <2>2, <2>3, <2>4
  <1> USE <1>1
  <1>2. CASE OfOthers \/ Ending
    <2>1. UNCHANGED <<required, metadata, unsigned, payloads, signatures, signed>>
      BY <1>2 DEF OfOthers, Ending
    <2> QED
      BY <2>1 DEF TypeInv
  <1>3. ASSUME NEW ops \in Transfers, Begin(ops)
        PROVE  TypeInv'
    BY <1>3 DEF Begin, TypeInv, NoMetadata, NoTransaction, NotSigned
  <1>4. CASE Preprocess
    <2>1. /\ UNCHANGED <<metadata, unsigned, payloads, signatures, signed>>
          /\ required' = RequiredBalances(operations) /\ metadata.collected = 0
      BY <1>4 DEF Preprocess, CollectedInv
    <2>2. Len(RequiredBalances(operations)) \in Nat
      BY RequiredAreDue DEF CollectedInv
    <2>3. metadata'.collected \in 0 .. Len(required')
      BY <2>1, <2>2
    <2> QED
      BY <2>1, <2>3 DEF TypeInv
  <1>5. CASE CollectInputs
    <2>0. PICK outputs \in AccountUtxos(Need.account) : Collect(outputs)
      BY <1>5 DEF CollectInputs
    <2> DEFINE n == Min(Wanted(outputs))
    <2>1. /\ metadata.collected + 1 \in DOMAIN required /\ metadata.collected \in Nat
          /\ outputs \in Seq(Output) /\ n \in 0 .. Len(outputs)
          /\ Need.account \in Account /\ Need.sats = DebitOf(operations, Need.account)
      BY <1>5, <2>0, CollectFacts
    <2> HIDE DEF n
    <2>2. Worth(outputs, n) \in Nat
      BY <2>1, WorthType
    <2>3. Need.sats \in Nat
      BY <2>1, DebitIsPart DEF CollectedInv
    <2>4. /\ metadata' = [relevant_inputs |-> metadata'.relevant_inputs,
                          change |-> metadata'.change, collected |-> metadata'.collected]
          /\ metadata'.change = metadata.change + Worth(outputs, n) - Need.sats
          /\ metadata'.collected = metadata.collected + 1
          /\ UNCHANGED <<required, unsigned, payloads, signatures, signed>>
      BY <2>0 DEF Collect, n
    <2>5. metadata'.collected \in 0 .. Len(required')
      <3>1. Len(required) \in Nat /\ DOMAIN required = 1 .. Len(required)
        BY DEF CollectedInv
      <3> QED
        BY <2>1, <2>4, <3>1
    <2>6. metadata'.change \in Int
      BY <2>2, <2>3, <2>4 DEF TypeInv
    <2> QED
      BY <2>4, <2>5, <2>6 DEF TypeInv
  <1>6. CASE MakePayloads
    <2> DEFINE inputs == metadata.relevant_inputs
               outs == Credits(operations)
               ins == Spends(inputs)
    <2>1. /\ unsigned' = UnsignedTransaction(inputs, outs) /\ payloads' = Payloads(inputs, outs)
          /\ UNCHANGED <<required, metadata, signatures, signed>>
      BY <1>6 DEF MakePayloads
    <2>2. outs \in Seq(Posted)
      BY CreditsAreOperations DEF CollectedInv
    <2>3. /\ inputs \in Seq(TrueInput) /\ Len(inputs) \in Nat /\ DOMAIN inputs = 1 .. Len(inputs)
          /\ \A i \in 1 .. Len(inputs) : inputs[i] \in TrueInput
      BY DEF CollectedInv
    <2> HIDE DEF inputs, outs
    <2>4. \A i \in 1 .. Len(inputs) : /\ inputs[i].output \in Output /\ inputs[i].address \in Account
                                     /\ inputs[i].satoshis \in Nat \ {0}
      BY <2>3, OutputTypes DEF TrueInput
    <2>5. ins \in Seq(Output) /\ Len(ins) = Len(inputs)
      BY <2>3, <2>4 DEF Spends
    <2>6. \A i \in 1 .. Len(inputs) : SubSeq(ins, 1, i) \in Seq(Output)
      <3> SUFFICES ASSUME NEW i \in 1 .. Len(inputs)
                   PROVE  SubSeq(ins, 1, i) \in Seq(Output)
        OBVIOUS
      <3>1. \A k \in 1 .. i : ins[k] \in Output
        BY <2>3, <2>5
      <3> HIDE DEF ins
      <3> QED
        BY <2>3, <2>5, <3>1, SubSeqProperties
    <2> HIDE DEF ins
    <2>7. payloads' \in Seq([address : Account, hash : Hash])
      <3>1. \A i \in 1 .. Len(inputs) :
              [address |-> inputs[i].address, hash |-> SigHash(i, SubSeq(ins, 1, i), outs)]
                \in [address : Account, hash : Hash]
        BY <2>2, <2>3, <2>4, <2>6 DEF Hash, SigHash
      <3> QED
        BY <2>1, <2>3, <3>1 DEF Payloads, ins
    <2>8. /\ unsigned' \in [ins : Seq(Output), outs : Seq(Posted),
                            input_amounts : Seq(Nat \ {0}), input_addresses : Seq(Account)]
          /\ Len(unsigned'.ins) = Len(unsigned'.input_addresses)
      <3> DEFINE amounts == [i \in DOMAIN inputs |-> inputs[i].satoshis]
                 addresses == [i \in DOMAIN inputs |-> inputs[i].address]
      <3>1. amounts \in Seq(Nat \ {0})
        BY <2>3, <2>4
      <3>2. addresses \in Seq(Account) /\ Len(addresses) = Len(inputs)
        BY <2>3, <2>4
      <3>3. unsigned' = [ins |-> ins, outs |-> outs, input_amounts |-> amounts,
                         input_addresses |-> addresses]
        BY <2>1 DEF UnsignedTransaction, ins
      <3> HIDE DEF amounts, addresses
      <3> QED
        BY <2>2, <2>5, <3>1, <3>2, <3>3
    <2> QED
      BY <2>1, <2>7, <2>8 DEF TypeInv
  <1>7. ASSUME NEW n \in 0 .. Len(payloads), NEW key \in [Account -> Account], Sign(n, key)
        PROVE  TypeInv'
    <2>1. /\ signatures' = [i \in 1 .. n |->
                             [hash |-> payloads[i].hash, key |-> key[payloads[i].address]]]
          /\ UNCHANGED <<required, metadata, unsigned, payloads, signed>>
      BY <1>7 DEF Sign
    <2>2. /\ n \in Nat
          /\ \A i \in 1 .. n : payloads[i] \in [address : Account, hash : Hash]
      <3> DEFINE P == [address : Account, hash : Hash]
      <3>1. payloads \in Seq(P)
        BY DEF TypeInv
      <3> HIDE DEF P
      <3>2. Len(payloads) \in Nat /\ \A i \in 1 .. Len(payloads) : payloads[i] \in P
        BY <3>1
      <3>3. n \in Nat /\ \A i \in 1 .. n : i \in 1 .. Len(payloads)
        BY <3>2
      <3> QED
        BY <3>2, <3>3 DEF P
    <2>3. \A i \in 1 .. n : [hash |-> payloads[i].hash, key |-> key[payloads[i].address]] \in Signature
      BY <2>2 DEF Signature
    <2>4. signatures' \in Seq(Signature)
      BY <2>1, <2>2, <2>3
    <2> QED
      BY <2>1, <2>4 DEF TypeInv
  <1>8. CASE Combine
    <2>1. /\ Len(signatures) = Len(unsigned.ins)
          /\ signed' = [ins |-> unsigned.ins, outs |-> unsigned.outs,
                        input_amounts |-> unsigned.input_amounts, scripts |-> Scripts(signatures)]
          /\ UNCHANGED <<required, metadata, unsigned, payloads, signatures>>
      BY <1>8 DEF Combine
    <2>2. Scripts(signatures) \in Seq(Signature) /\ Len(Scripts(signatures)) = Len(signatures)
      <3>1. signatures \in Seq(Signature)
        BY DEF TypeInv
      <3>2. /\ DOMAIN signatures = 1 .. Len(signatures) /\ Len(signatures) \in Nat
            /\ \A i \in 1 .. Len(signatures) : signatures[i] \in Signature
        BY <3>1
      <3>3. Scripts(signatures) = [i \in 1 .. Len(signatures) |-> signatures[i]]
        BY <3>2 DEF Scripts
      <3> DEFINE list == [i \in 1 .. Len(signatures) |-> signatures[i]]
      <3>4. list \in Seq(Signature) /\ Len(list) = Len(signatures)
        BY <3>2, Listing
      <3> HIDE DEF list
      <3> QED
        BY <3>3, <3>4 DEF list
    <2> QED
      BY <2>1, <2>2 DEF TypeInv
  <1> QED
    BY <1>2, <1>3, <1>4, <1>5, <1>6, <1>7, <1>8, StepKinds

(* Every variable keeps its type, whoever pays, spends or calls.            *)
THEOREM ConstructionTypes == Spec => []ConstructionTypeOK
  <1>1. TransferInv /\ TypeInv => ConstructionTypeOK
    <2> SUFFICES ASSUME TransferInv, TypeInv
                 PROVE  ConstructionTypeOK
      OBVIOUS
    <2> USE DEF TransferInv
    <2>1. required \in Seq([account : Account, sats : Int])
      <3>1. Due(operations) \subseteq [account : Account, sats : Int]
        BY DueTypes DEF CollectedInv
      <3>2. required \in Seq(Due(operations))
        BY DEF CollectedInv
      <3> HIDE DEF TransferInv
      <3> QED
        BY <3>1, <3>2, SeqOfMore
    <2>2. metadata.relevant_inputs \in Seq(Input)
      <3>1. TrueInput \subseteq Input
        BY OutputTypes DEF TrueInput, Input
      <3>2. metadata.relevant_inputs \in Seq(TrueInput)
        BY DEF CollectedInv
      <3> QED
        BY <3>1, <3>2
    <2>3. metadata \in [relevant_inputs : Seq(Input), change : Int, collected : 0 .. Len(required)]
      BY <2>2 DEF TypeInv
    <2> QED
      BY <2>1, <2>3 DEF ConstructionTypeOK, TypeInv, ListedInv, CollectedInv, StagesInv
  <1>2. TransferInv /\ TypeInv /\ [Next]_vars => TypeInv'
    BY TypeStep
  <1> QED
    BY <1>1, <1>2, InitTypes, TransferInductive, PTL DEF Spec

-----------------------------------------------------------------------------
(* What metadata covers.                                                    *)

Satoshis(inputs)   == [i \in DOMAIN inputs |-> inputs[i].satoshis]
Owned(inputs, a)   == {i \in DOMAIN inputs : inputs[i].address = a}
Worthy(inputs, S)  == Part(Satoshis(inputs), S)
Demands            == [m \in DOMAIN required |-> required[m].sats]

(* As much as an account owes, and not one output more.                     *)
Covered(inputs, a, sats) ==
  LET S == Owned(inputs, a) IN
  /\ S # {} /\ Worthy(inputs, S) >= sats
  /\ Worthy(inputs, S \ {Max(S)}) < sats

(* An output is listed once, so that it is collected once: for every        *)
(* account asked for, its own inputs are added and no other's.             *)
DistinctInv ==
  /\ \A a \in Account : \A i, j \in DOMAIN listed[a] : listed[a][i] = listed[a][j] => i = j
  /\ \A i, j \in DOMAIN metadata.relevant_inputs :
       metadata.relevant_inputs[i].output = metadata.relevant_inputs[j].output => i = j

(* For the accounts asked for so far: their inputs, what these cover, and   *)
(* what they are worth beyond the debits.  Payloads are made of complete   *)
(* metadata only.                                                          *)
CoverInv ==
  /\ required \in {<<>>, RequiredBalances(operations)}
  /\ metadata.collected \in 0 .. Len(required)
  /\ \A i \in DOMAIN metadata.relevant_inputs :
       \E m \in 1 .. metadata.collected : required[m].account = metadata.relevant_inputs[i].address
  /\ \A m \in 1 .. metadata.collected :
       Covered(metadata.relevant_inputs, required[m].account, required[m].sats)
  /\ metadata.change = Worthy(metadata.relevant_inputs, DOMAIN metadata.relevant_inputs)
                         - Part(Demands, 1 .. metadata.collected)
  /\ metadata.change \in Nat
  /\ payloads # <<>> \/ (at = "payloads" /\ metadata.relevant_inputs # <<>>) =>
       metadata.collected = Len(required)

(* Inputs after an account's are added to them.                             *)
Extended(new, old, outputs, n, account) ==
  /\ Len(old) \in Nat /\ n \in Nat
  /\ DOMAIN old = 1 .. Len(old) /\ DOMAIN new = 1 .. Len(old) + n
  /\ \A i \in 1 .. Len(old) : new[i] = old[i] /\ new[i].satoshis \in Nat
  /\ \A i \in 1 .. n : new[Len(old) + i] =
       [output |-> outputs[i], address |-> account, satoshis |-> Sats[outputs[i]]]

LEMMA ExtendedBy ==
  ASSUME NEW old \in Seq(TrueInput), NEW outputs \in Seq(Output), NEW n \in 0 .. Len(outputs),
         NEW account
  PROVE  Extended(old \o RelevantInputs(outputs, n, account), old, outputs, n, account)
  <1> DEFINE added == RelevantInputs(outputs, n, account)
             S == TrueInput \cup {added[i] : i \in 1 .. n}
  <1>1. n \in Nat /\ DOMAIN added = 1 .. n
    BY DEF RelevantInputs
  <1>2. \A i \in 1 .. n : added[i] = [output |-> outputs[i], address |-> account,
                                      satoshis |-> Sats[outputs[i]]]
    BY DEF RelevantInputs
  <1>3. added = [i \in 1 .. n |-> added[i]]
    BY DEF RelevantInputs
  <1> HIDE DEF added
  <1>4. added \in Seq(S) /\ Len(added) = n
    <2> HIDE DEF S
    <2>1. \A i \in 1 .. n : added[i] \in S
      BY DEF S
    <2> DEFINE list == [i \in 1 .. n |-> added[i]]
    <2>2. list \in Seq(S) /\ Len(list) = n
      BY <1>1, <2>1, Listing
    <2> HIDE DEF list
    <2> QED
      BY <1>3, <2>2 DEF list
  <1>5. old \in Seq(S)
    <2>1. TrueInput \subseteq S
      OBVIOUS
    <2> HIDE DEF S
    <2> QED
      BY <2>1, SeqOfMore
  <1> DEFINE new == old \o added
  <1> HIDE DEF S
  <1>6. /\ Len(new) = Len(old) + n /\ Len(old) \in Nat
        /\ new \in Seq(S)
        /\ \A i \in 1 .. Len(old) + n : new[i] = IF i <= Len(old) THEN old[i] ELSE added[i - Len(old)]
    <2>1. /\ Len(new) = Len(old) + Len(added) /\ new \in Seq(S)
          /\ \A i \in 1 .. Len(old) + Len(added) :
               new[i] = IF i <= Len(old) THEN old[i] ELSE added[i - Len(old)]
      BY <1>4, <1>5, ConcatProperties
    <2>2. Len(old) \in Nat
      BY <1>5
    <2> HIDE DEF new
    <2> QED
      BY <1>4, <2>1, <2>2
  <1>7. DOMAIN old = 1 .. Len(old) /\ DOMAIN new = 1 .. Len(old) + n
    BY <1>6
  <1>8. \A i \in 1 .. Len(old) : old[i].satoshis \in Nat
    <2>1. \A i \in 1 .. Len(old) : old[i] \in TrueInput
      OBVIOUS
    <2> QED
      BY <2>1, OutputTypes DEF TrueInput
  <1>9. \A i \in 1 .. Len(old) : new[i] = old[i]
    <2>1. \A i \in 1 .. Len(old) : i \in 1 .. Len(old) + n /\ i <= Len(old)
      BY <1>1, <1>6
    <2> HIDE DEF new
    <2> QED
      BY <1>6, <2>1
  <1>10. \A i \in 1 .. n : new[Len(old) + i] = added[i]
    <2> SUFFICES ASSUME NEW i \in 1 .. n
                 PROVE  new[Len(old) + i] = added[i]
      OBVIOUS
    <2>1. /\ Len(old) + i \in 1 .. Len(old) + n /\ ~ (Len(old) + i <= Len(old))
          /\ (Len(old) + i) - Len(old) = i
      BY <1>1, <1>6
    <2> HIDE DEF new
    <2> QED
      BY <1>6, <2>1
  <1> HIDE DEF new
  <1> QED
    BY <1>1, <1>2, <1>6, <1>7, <1>8, <1>9, <1>10 DEF Extended, new, added

JustEnough(outputs, n, sats) ==
  /\ Worth(outputs, n) >= sats
  /\ \A k \in 0 .. n - 1 : ~ (Worth(outputs, k) >= sats)

LEMMA AddedInput ==
  ASSUME NEW new, NEW old, NEW outputs, NEW n, NEW account,
         Extended(new, old, outputs, n, account), NEW i \in 1 .. n
  PROVE  /\ new[Len(old) + i].address = account
         /\ new[Len(old) + i].satoshis = Sats[outputs[i]]
         /\ new[Len(old) + i].output = outputs[i]
  <1> DEFINE r == [output |-> outputs[i], address |-> account, satoshis |-> Sats[outputs[i]]]
             j == Len(old) + i
  <1>1. new[j] = r
    BY Zenon DEF Extended
  <1>2. r.address = account /\ r.satoshis = Sats[outputs[i]] /\ r.output = outputs[i]
    OBVIOUS
  <1> HIDE DEF r, j
  <1>3. new[j].address = account /\ new[j].satoshis = Sats[outputs[i]] /\ new[j].output = outputs[i]
    BY <1>1, <1>2
  <1> QED
    BY <1>3 DEF j

LEMMA WorthAdded ==
  ASSUME NEW new, NEW old, NEW outputs \in Seq(Output), NEW n \in 0 .. Len(outputs), NEW account,
         Extended(new, old, outputs, n, account), NEW k \in 0 .. n
  PROVE  /\ Worthy(new, Len(old) + 1 .. Len(old) + k) = Worth(outputs, k)
         /\ IsFiniteSet(Len(old) + 1 .. Len(old) + k)
  <1> DEFINE L == Len(old)
             f == [i \in 1 .. k |-> Sats[outputs[i]]]
             name == [i \in 1 .. k |-> L + i]
             A == 1 .. k
  <1>1. L \in Nat /\ n \in Nat /\ k \in Nat /\ k <= n /\ k \in 0 .. Len(outputs) /\ n <= Len(outputs)
    BY DEF Extended
  <1>8. DOMAIN new = 1 .. L + n /\ \A i \in 1 .. n : new[L + i].satoshis = Sats[outputs[i]]
    <2>1. ASSUME NEW i \in 1 .. n
          PROVE  new[L + i].satoshis = Sats[outputs[i]]
      BY AddedInput
    <2>2. DOMAIN new = 1 .. L + n
      BY DEF Extended
    <2> QED
      BY <2>1, <2>2
  <1> HIDE DEF L
  <1>2. {name[i] : i \in A} = L + 1 .. L + k
    <2>1. ASSUME NEW j \in L + 1 .. L + k
          PROVE  \E i \in A : name[i] = j
      <3>1. j - L \in A /\ L + (j - L) = j
        BY <1>1
      <3> QED
        BY <3>1
    <2>2. ASSUME NEW i \in A
          PROVE  name[i] \in L + 1 .. L + k
      BY <1>1
    <2> HIDE DEF name, A, L
    <2> QED
      BY <2>1, <2>2
  <1>3. IsFiniteSet(A) /\ IsFiniteSet(L + 1 .. L + k)
    BY <1>1, FS_Interval
  <1>4. \A i, j \in A : name[i] = name[j] => i = j
    BY <1>1
  <1>5. ASSUME NEW i \in A
        PROVE  f[i] = Satoshis(new)[name[i]] /\ f[i] \in Int
    <2>1. i \in 1 .. n /\ L + i \in 1 .. L + n /\ i \in 1 .. Len(outputs)
      BY <1>1
    <2>2. new[L + i].satoshis = Sats[outputs[i]] /\ L + i \in DOMAIN new
      BY <1>8, <2>1
    <2>3. outputs[i] \in Output
      BY <2>1
    <2> QED
      BY <2>2, <2>3, OutputTypes DEF Satoshis
  <1>6. Worth(outputs, k) = Part(f, A)
    BY <1>1, WorthType
  <1> HIDE DEF f, name, A
  <1>7. Part(f, A) = Part(Satoshis(new), {name[i] : i \in A})
    <2> DEFINE g == Satoshis(new)
    <2>1. IsFiniteSet({name[i] : i \in A}) /\ \A i \in A : f[i] = g[name[i]] /\ f[i] \in Int
      BY <1>2, <1>3, <1>5
    <2> HIDE DEF g
    <2>2. Part(f, A) = Part(g, {name[i] : i \in A})
      BY <1>3, <1>4, <2>1, PartRenamed
    <2> QED
      BY <2>2 DEF g
  <1> QED
    BY <1>2, <1>3, <1>6, <1>7 DEF Worthy, L

LEMMA MaxOfInterval ==
  ASSUME NEW i \in Nat, NEW j \in Nat, i < j
  PROVE  /\ Max(i + 1 .. j) = j
         /\ (i + 1 .. j) \ {j} = i + 1 .. j - 1
  <1>1. j \in i + 1 .. j /\ \A y \in i + 1 .. j : j >= y
    OBVIOUS
  <1>2. ASSUME NEW x \in i + 1 .. j, \A y \in i + 1 .. j : x >= y
        PROVE  x = j
    <2>1. x >= j /\ x <= j /\ x \in Int
      BY <1>1, <1>2
    <2> QED
      BY <2>1
  <1>3. Max(i + 1 .. j) = j
    BY <1>1, <1>2 DEF Max
  <1> QED
    BY <1>3

(* What the new inputs are worth, and that the old ones stay covered.       *)
LEMMA CoverGrows ==
  ASSUME NEW new, NEW old, NEW outputs \in Seq(Output), NEW n \in 0 .. Len(outputs), NEW account,
         Extended(new, old, outputs, n, account),
         NEW sats \in Nat \ {0}, JustEnough(outputs, n, sats),
         \A i \in DOMAIN old : old[i].address # account
  PROVE  /\ Covered(new, account, sats)
         /\ \A a : a # account => \A s : Covered(old, a, s) => Covered(new, a, s)
         /\ Worthy(new, DOMAIN new) = Worthy(old, DOMAIN old) + Worth(outputs, n)
         /\ Worthy(old, DOMAIN old) \in Int
  <1> DEFINE L == Len(old)
             added == L + 1 .. L + n
             before == 1 .. L
  <1>1. /\ L \in Nat /\ n \in Nat /\ DOMAIN old = before /\ DOMAIN new = 1 .. L + n
        /\ \A i \in before : new[i] = old[i] /\ new[i].satoshis \in Nat
        /\ \A i \in 1 .. n : new[L + i].address = account /\ new[L + i].satoshis = Sats[outputs[i]]
    <2>1. ASSUME NEW i \in 1 .. n
          PROVE  new[L + i].address = account /\ new[L + i].satoshis = Sats[outputs[i]]
      BY AddedInput
    <2>2. /\ L \in Nat /\ n \in Nat /\ DOMAIN old = before /\ DOMAIN new = 1 .. L + n
          /\ \A i \in before : new[i] = old[i] /\ new[i].satoshis \in Nat
      BY Zenon DEF Extended
    <2> HIDE DEF L, before
    <2> QED
      BY <2>1, <2>2
  <1>2. \A i \in added : i \in DOMAIN new /\ i - L \in 1 .. n /\ L + (i - L) = i
    BY <1>1
  <1>3. \A i \in added : new[i].address = account /\ i \notin before
    <2>1. \A i \in added : i \notin before
      BY <1>1
    <2>2. ASSUME NEW i \in added
          PROVE  new[i].address = account
      <3>1. new[L + (i - L)].address = account
        BY <1>1, <1>2
      <3> QED
        BY <1>2, <3>1
    <2> QED
      BY <2>1, <2>2, Zenon
  <1>4. DOMAIN new = before \cup added /\ before \cap added = {}
    BY <1>1
  <1>5. /\ Worthy(new, added) = Worth(outputs, n) /\ IsFiniteSet(added)
        /\ Worthy(new, L + 1 .. L + (n - 1)) = Worth(outputs, n - 1) \/ n = 0
    <2>1. n \in 0 .. n /\ (n = 0 \/ n - 1 \in 0 .. n)
      BY <1>1
    <2>2. \A k \in 0 .. n : /\ Worthy(new, Len(old) + 1 .. Len(old) + k) = Worth(outputs, k)
                            /\ IsFiniteSet(Len(old) + 1 .. Len(old) + k)
      BY WorthAdded
    <2> QED
      BY <2>1, <2>2
  <1>6. n > 0
    <2>1. Worth(outputs, 0) = 0
      <3>1. 0 \in 0 .. Len(outputs) /\ 1 .. 0 = {}
        OBVIOUS
      <3>2. Worth(outputs, 0) = Part([i \in 1 .. 0 |-> Sats[outputs[i]]], 1 .. 0)
        BY <3>1, WorthType
      <3> QED
        BY <3>1, <3>2, EmptyPart
    <2>2. n # 0
      BY <2>1 DEF JustEnough
    <2> QED
      BY <1>1, <2>2
  <1>7. Owned(new, account) = added
    <2> HIDE DEF added, before
    <2> QED
      BY <1>1, <1>3, <1>4 DEF Owned
  <1>8. Covered(new, account, sats)
    <2>1. added # {}
      BY <1>1, <1>6
    <2>2. Max(added) = L + n /\ added \ {Max(added)} = L + 1 .. L + (n - 1)
      <3>1. L < L + n /\ L + n \in Nat /\ L + (n - 1) = (L + n) - 1
        BY <1>1, <1>6
      <3> QED
        BY <1>1, <3>1, MaxOfInterval
    <2>3. n - 1 \in 0 .. n - 1 /\ n - 1 \in 0 .. Len(outputs)
      BY <1>1, <1>6
    <2>4. Worth(outputs, n - 1) < sats
      <3>1. ~ (Worth(outputs, n - 1) >= sats)
        BY <2>3 DEF JustEnough
      <3>2. Worth(outputs, n - 1) \in Nat
        BY <2>3, WorthType
      <3> QED
        BY <3>1, <3>2
    <2>5. Worthy(new, added \ {Max(added)}) = Worth(outputs, n - 1)
      <3>1. n # 0
        BY <1>1, <1>6
      <3> HIDE DEF added
      <3> QED
        BY <1>5, <2>2, <3>1
    <2> HIDE DEF added
    <2>6. Worth(outputs, n) >= sats
      BY DEF JustEnough
    <2> QED
      BY <1>5, <1>7, <2>1, <2>4, <2>5, <2>6 DEF Covered
  <1>9. \A S \in SUBSET before : Worthy(new, S) = Worthy(old, S)
    <2> SUFFICES ASSUME NEW S \in SUBSET before
                 PROVE  Worthy(new, S) = Worthy(old, S)
      OBVIOUS
    <2>1. \A i \in S : Satoshis(new)[i] = Satoshis(old)[i]
      BY <1>1, <1>4 DEF Satoshis
    <2> QED
      BY <2>1, EqualParts DEF Worthy
  <1>10. ASSUME NEW a, a # account, NEW s, Covered(old, a, s)
         PROVE  Covered(new, a, s)
    <2>1. Owned(new, a) = Owned(old, a)
      <3> HIDE DEF added, before
      <3> QED
        BY <1>1, <1>3, <1>4, <1>10 DEF Owned
    <2>2. Owned(old, a) \in SUBSET before
      BY <1>1 DEF Owned
    <2> DEFINE S == Owned(old, a)
    <2>3. S \ {Max(S)} \in SUBSET before
      BY <2>2
    <2> HIDE DEF before, S
    <2> QED
      BY <1>9, <1>10, <2>1, <2>2, <2>3 DEF Covered, S
  <1>11. \A i \in before \cup added : Satoshis(new)[i] \in Int
    <2>1. \A i \in before : new[i].satoshis \in Int
      BY <1>1
    <2>2. \A i \in added : new[i].satoshis \in Int
      <3> SUFFICES ASSUME NEW i \in added
                   PROVE  new[i].satoshis \in Int
        OBVIOUS
      <3>1. i - L \in 1 .. n /\ L + (i - L) = i
        BY <1>2
      <3>2. new[L + (i - L)].satoshis = Sats[outputs[i - L]]
        BY <1>1, <3>1
      <3>3. outputs[i - L] \in Output
        <4>1. i - L \in 1 .. Len(outputs)
          BY <3>1
        <4> QED
          BY <4>1
      <3> QED
        BY <3>1, <3>2, <3>3, OutputTypes
    <2>3. \A i \in DOMAIN new : Satoshis(new)[i] = new[i].satoshis
      BY DEF Satoshis
    <2> HIDE DEF before, added
    <2> QED
      BY <1>4, <2>1, <2>2, <2>3
  <1>12. IsFiniteSet(before)
    <2>1. L \in Nat
      BY <1>1
    <2> QED
      BY <2>1, FS_Interval
  <1> HIDE DEF before, added
  <1>13. Worthy(new, DOMAIN new) = Worthy(new, before) + Worthy(new, added)
    BY <1>4, <1>5, <1>11, <1>12, PartsJoin DEF Worthy
  <1>14. Worthy(new, before) = Worthy(old, before)
    BY <1>9
  <1>15. Worthy(new, before) \in Int
    BY <1>11, <1>12, PartType DEF Worthy
  <1> QED
    BY <1>1, <1>5, <1>8, <1>10, <1>13, <1>14, <1>15

-----------------------------------------------------------------------------
(* A step leaves the inputs different and covering what was collected.     *)

LEMMA ReversedOnce ==
  ASSUME NEW S, NEW s \in Seq(S), \A i, j \in DOMAIN s : s[i] = s[j] => i = j
  PROVE  \A i, j \in DOMAIN Reversed(s) : Reversed(s)[i] = Reversed(s)[j] => i = j
  <1> DEFINE n == Len(s)
             r == Reversed(s)
  <1>1. n \in Nat /\ DOMAIN s = 1 .. n /\ DOMAIN r = 1 .. n
        /\ \A i \in 1 .. n : r[i] = s[n + 1 - i]
    BY DEF Reversed
  <1> HIDE DEF n, r
  <1> SUFFICES ASSUME NEW i \in 1 .. n, NEW j \in 1 .. n, r[i] = r[j]
               PROVE  i = j
    BY <1>1 DEF r
  <1>2. n + 1 - i \in 1 .. n /\ n + 1 - j \in 1 .. n
    BY <1>1
  <1>3. n + 1 - i = n + 1 - j
    BY <1>1, <1>2
  <1> QED
    BY <1>1, <1>3

LEMMA DistinctStep ==
  ASSUME TransferInv, DistinctInv, CoverInv, [Next]_vars
  PROVE  DistinctInv'
  <1> USE DEF TransferInv
  <1>1. \A a \in Account : \A i, j \in DOMAIN listed'[a] : listed'[a][i] = listed'[a][j] => i = j
    <2>1. CASE \E o \in Output : OthersPay(o)
      <3>1. PICK o \in Output : OthersPay(o)
        BY <2>1
      <3> DEFINE b == Owner[o]
                 l == listed[b]
      <3>2. b \in Account /\ o \notin Paid
        BY <3>1, OutputTypes DEF OthersPay
      <3>3. l \in Seq(Output) /\ \A i, j \in DOMAIN l : l[i] = l[j] => i = j
        BY <3>2 DEF ListedInv, DistinctInv
      <3>4. \A i \in DOMAIN l : l[i] # o
        BY <3>2 DEF Paid
      <3>5. listed'[b] = Append(l, o) /\ \A a \in Account : a # b => listed'[a] = listed[a]
        BY <3>1, <3>2 DEF OthersPay, ListedInv
      <3> HIDE DEF l, b
      <3>6. ASSUME NEW i \in DOMAIN Append(l, o), NEW j \in DOMAIN Append(l, o),
                   Append(l, o)[i] = Append(l, o)[j]
            PROVE  i = j
        <4> DEFINE n == Len(l)
        <4>1. n \in Nat /\ DOMAIN l = 1 .. n /\ DOMAIN Append(l, o) = 1 .. n + 1
              /\ Append(l, o)[n + 1] = o /\ \A k \in 1 .. n : Append(l, o)[k] = l[k]
          BY <3>3
        <4> HIDE DEF n
        <4>2. i \in 1 .. n \/ i = n + 1
          BY <4>1
        <4>3. j \in 1 .. n \/ j = n + 1
          BY <4>1
        <4> QED
          BY <3>3, <3>4, <3>6, <4>1, <4>2, <4>3
      <3> QED
        BY <3>5, <3>6 DEF DistinctInv
    <2>2. ASSUME NEW o \in Output, Unpaid(o)
          PROVE  \A a \in Account :
                   \A i, j \in DOMAIN listed'[a] : listed'[a][i] = listed'[a][j] => i = j
      <3> DEFINE b == Owner[o]
                 l == listed[b]
                 n == Len(l)
      <3>1. b \in Account
        BY OutputTypes
      <3>2. l \in Seq(Output) /\ l # <<>> /\ \A i, j \in DOMAIN l : l[i] = l[j] => i = j
        BY <2>2, <3>1 DEF Unpaid, ListedInv, DistinctInv
      <3>3. listed'[b] = Front(l) /\ \A a \in Account : a # b => listed'[a] = listed[a]
        BY <2>2, <3>1 DEF Unpaid, ListedInv
      <3> HIDE DEF l, b
      <3>4. n \in Nat \ {0}
        BY <3>2, EmptySeq
      <3>5. n - 1 \in 0 .. n
        BY <3>4
      <3>6. \A i \in DOMAIN Front(l) : i \in DOMAIN l /\ Front(l)[i] = l[i]
        BY <3>2, <3>5, Beginning DEF Front
      <3>7. \A i, j \in DOMAIN Front(l) : Front(l)[i] = Front(l)[j] => i = j
        BY <3>2, <3>6
      <3> QED
        BY <3>3, <3>7 DEF DistinctInv
    <2>3. CASE ~ \E o \in Output : OthersPay(o) \/ Unpaid(o)
      <3>1. UNCHANGED listed
        BY <2>3 DEF Next, vars, chain, OthersSpend, Begin, Preprocess, ExpectsAccounts, CollectInputs,
                    Collect, InsufficientBalance, ExpectsInputs, MakePayloads, Sign, Mismatch,
                    Combine, Submit, Fails
      <3> QED
        BY <3>1 DEF DistinctInv
    <2> QED
      BY <2>1, <2>2, <2>3
  <1> DEFINE old == metadata.relevant_inputs
             new == metadata'.relevant_inputs
  <1>2. \A i, j \in DOMAIN new : new[i].output = new[j].output => i = j
    <2>1. CASE CollectInputs
      <3>0. PICK outputs \in AccountUtxos(Need.account) : Collect(outputs)
        BY <2>1 DEF CollectInputs
      <3> DEFINE account == Need.account
                 n == Min(Wanted(outputs))
                 L == Len(old)
      <3>1. /\ metadata.collected + 1 \in DOMAIN required /\ metadata.collected \in Nat
            /\ Need = required[metadata.collected + 1] /\ account \in Account
            /\ outputs \in Seq(Output) /\ n \in 0 .. Len(outputs)
            /\ \A i \in 1 .. Len(outputs) : Owner[outputs[i]] = account
        BY <2>1, <3>0, CollectFacts
      <3>2. \A i, j \in DOMAIN outputs : outputs[i] = outputs[j] => i = j
        <4>1. listed[account] \in Seq(Output)
          BY <3>1 DEF ListedInv
        <4>2. \A i, j \in DOMAIN listed[account] : listed[account][i] = listed[account][j] => i = j
          BY <3>1 DEF DistinctInv
        <4>3. PICK m \in 0 .. Len(listed[account]) : outputs = Reversed(SubSeq(listed[account], 1, m))
          BY <3>0 DEF AccountUtxos
        <4> DEFINE s == SubSeq(listed[account], 1, m)
        <4>4. s \in Seq(Output) /\ DOMAIN s = 1 .. m
              /\ \A i \in 1 .. m : i \in DOMAIN listed[account] /\ s[i] = listed[account][i]
          BY <4>1, Beginning
        <4> HIDE DEF s
        <4>5. \A i, j \in DOMAIN s : s[i] = s[j] => i = j
          BY <4>2, <4>4
        <4> QED
          BY <4>3, <4>4, <4>5, ReversedOnce DEF s
      <3> HIDE DEF n, account
      <3>3. old \in Seq(TrueInput) /\ DOMAIN old = 1 .. L /\ L \in Nat
        BY DEF CollectedInv
      <3>4. new = old \o RelevantInputs(outputs, n, account)
        BY <3>0 DEF Collect, n, account
      <3>5. Extended(new, old, outputs, n, account)
        BY <3>1, <3>3, <3>4, ExtendedBy
      <3>6. \A i \in 1 .. L : Owner[old[i].output] = old[i].address
        <4>1. \A i \in 1 .. L : old[i] \in TrueInput
          BY <3>3
        <4> QED
          BY <4>1 DEF TrueInput
      <3>7. \A i \in 1 .. L : old[i].address # account
        <4>1. required = RequiredBalances(operations)
          BY <3>1 DEF CoverInv
        <4>2. \A m, l \in DOMAIN required : required[m].account = required[l].account => m = l
          BY <4>1, RequiredFacts DEF CollectedInv
        <4>3. ASSUME NEW i \in 1 .. L
              PROVE  old[i].address # account
          <5>1. PICK m \in 1 .. metadata.collected : required[m].account = old[i].address
            BY <3>3 DEF CoverInv
          <5>2. m \in DOMAIN required /\ m # metadata.collected + 1
            <6>1. DOMAIN required = 1 .. Len(required) /\ Len(required) \in Nat
              BY DEF CollectedInv
            <6> QED
              BY <3>1, <6>1
          <5> QED
            BY <3>1, <4>2, <5>1, <5>2 DEF account
        <4> QED
          BY <4>3
      <3>8. /\ \A i \in 1 .. n : i \in DOMAIN outputs /\ Owner[outputs[i]] = account
            /\ n \in Nat
        BY <3>1
      <3>9. \A i \in 1 .. n : new[L + i].output = outputs[i]
        <4>1. ASSUME NEW i \in 1 .. n
              PROVE  new[L + i].output = outputs[i]
          BY <3>5, AddedInput
        <4> QED
          BY <4>1
      <3>10. DOMAIN new = 1 .. L + n /\ \A i \in 1 .. L : new[i] = old[i]
        BY <3>5, Zenon DEF Extended
      <3>11. \A i \in 1 .. L + n : i \in 1 .. L \/ (i - L \in 1 .. n /\ L + (i - L) = i)
        BY <3>3, <3>8
      <3> HIDE DEF old, new, L
      <3>12. \A i, j \in 1 .. L : old[i].output = old[j].output => i = j
        BY <3>3 DEF DistinctInv, old
      <3>13. \A i \in 1 .. L : \A j \in 1 .. n : new[i].output # new[L + j].output
        BY <3>6, <3>7, <3>8, <3>9, <3>10
      <3>14. \A i, j \in 1 .. n : new[L + i].output = new[L + j].output => i = j
        BY <3>2, <3>8, <3>9
      <3> SUFFICES ASSUME NEW i \in 1 .. L + n, NEW j \in 1 .. L + n, new[i].output = new[j].output
                   PROVE  i = j
        BY <3>10
      <3>15. CASE i \in 1 .. L /\ j \in 1 .. L
        BY <3>10, <3>12, <3>15
      <3>16. CASE i \in 1 .. L /\ j - L \in 1 .. n /\ L + (j - L) = j
        BY <3>13, <3>16
      <3>17. CASE j \in 1 .. L /\ i - L \in 1 .. n /\ L + (i - L) = i
        BY <3>13, <3>17
      <3>18. CASE i - L \in 1 .. n /\ L + (i - L) = i /\ j - L \in 1 .. n /\ L + (j - L) = j
        <4>1. i - L = j - L
          BY <3>14, <3>18
        <4> QED
          BY <3>18, <4>1
      <3> QED
        BY <3>11, <3>15, <3>16, <3>17, <3>18
    <2>2. CASE ~CollectInputs
      <3>1. UNCHANGED metadata \/ metadata' = NoMetadata
        BY <2>2, StepKinds DEF OfOthers, Ending, Begin, Preprocess, MakePayloads, Sign, Combine
      <3> QED
        BY <3>1 DEF DistinctInv, NoMetadata
    <2> QED
      BY <2>1, <2>2
  <1> QED
    BY <1>1, <1>2 DEF DistinctInv

LEMMA EmptyList ==
  ASSUME NEW S, NEW s \in Seq(S), DOMAIN s = {}
  PROVE  s = <<>>
  <1>1. Len(s) \in Nat /\ DOMAIN s = 1 .. Len(s)
    OBVIOUS
  <1>2. Len(s) = 0
    <2>1. ~ (Len(s) >= 1)
      <3>1. Len(s) >= 1 => 1 \in 1 .. Len(s)
        BY <1>1
      <3> QED
        BY <1>1, <3>1
    <2> QED
      BY <1>1, <2>1
  <1> QED
    BY <1>2

LEMMA CoverStep ==
  ASSUME TransferInv, DistinctInv, CoverInv, [Next]_vars
  PROVE  CoverInv'
  <1> USE DEF TransferInv
  <1>1. CASE OfOthers \/ Ending
    <2>1. UNCHANGED <<operations, required, metadata, payloads>> /\ (at' = at \/ at' # "payloads")
      BY <1>1 DEF OfOthers, Ending, Ended
    <2>2. Demands' = Demands
      BY <2>1 DEF Demands
    <2> QED
      BY <2>1, <2>2 DEF CoverInv
  <1>2. ASSUME NEW ops \in Transfers, Begin(ops)
        PROVE  CoverInv'
    <2>1. /\ required' = <<>> /\ payloads' = <<>> /\ at' = "preprocess"
          /\ metadata'.relevant_inputs = <<>> /\ metadata'.change = 0 /\ metadata'.collected = 0
      BY <1>2 DEF Begin, NoMetadata
    <2>2. Worthy(<<>>, DOMAIN <<>>) = 0 /\ Part(Demands', 1 .. 0) = 0
      BY EmptyPart DEF Worthy
    <2> QED
      BY <2>1, <2>2 DEF CoverInv
  <1>3. CASE Preprocess
    <2>1. /\ required' = RequiredBalances(operations) /\ metadata.collected = 0
          /\ UNCHANGED <<operations, metadata, payloads>> /\ payloads = <<>>
      BY <1>3 DEF Preprocess, CollectedInv, StagesInv
    <2>2. metadata.relevant_inputs = <<>>
      <3>1. ASSUME NEW i \in DOMAIN metadata.relevant_inputs
            PROVE  FALSE
        <4>1. \E m \in 1 .. 0 : required[m].account = metadata.relevant_inputs[i].address
          BY <2>1 DEF CoverInv
        <4> QED
          BY <4>1
      <3>2. metadata.relevant_inputs \in Seq(TrueInput)
        BY DEF CollectedInv
      <3> DEFINE s == metadata.relevant_inputs
      <3> HIDE DEF s
      <3>3. DOMAIN s = {}
        BY <3>1 DEF s
      <3>4. s \in Seq(TrueInput)
        BY <3>2 DEF s
      <3>5. s = <<>>
        BY <3>3, <3>4, EmptyList
      <3> QED
        BY <3>5 DEF s
    <2>3. Part(Demands, 1 .. 0) = 0 /\ Part(Demands', 1 .. 0) = 0 /\ 1 .. 0 = {}
      BY EmptyPart
    <2>4. metadata.collected \in 0 .. Len(required')
      <3>1. Len(RequiredBalances(operations)) \in Nat
        BY RequiredAreDue DEF CollectedInv
      <3> QED
        BY <2>1, <3>1
    <2> QED
      BY <2>1, <2>2, <2>3, <2>4 DEF CoverInv
  <1>4. CASE MakePayloads
    <2>1. /\ UNCHANGED <<operations, required, metadata>> /\ at = "payloads" /\ at' = "sign"
          /\ metadata.relevant_inputs # <<>>
      BY <1>4 DEF MakePayloads
    <2>2. Demands' = Demands
      BY <2>1 DEF Demands
    <2> QED
      BY <2>1, <2>2 DEF CoverInv
  <1>5. ASSUME NEW n \in 0 .. Len(payloads), NEW key \in [Account -> Account], Sign(n, key)
        PROVE  CoverInv'
    <2>1. UNCHANGED <<operations, required, metadata, payloads>> /\ at' = "combine"
      BY <1>5 DEF Sign
    <2>2. Demands' = Demands
      BY <2>1 DEF Demands
    <2> QED
      BY <2>1, <2>2 DEF CoverInv
  <1>6. CASE Combine
    <2>1. UNCHANGED <<operations, required, metadata, payloads>> /\ at' = "submit"
      BY <1>6 DEF Combine
    <2>2. Demands' = Demands
      BY <2>1 DEF Demands
    <2> QED
      BY <2>1, <2>2 DEF CoverInv
  <1>7. CASE CollectInputs
    <2>0. PICK outputs \in AccountUtxos(Need.account) : Collect(outputs)
      BY <1>7 DEF CollectInputs
    <2> DEFINE old == metadata.relevant_inputs
               new == metadata'.relevant_inputs
               account == Need.account
               n == Min(Wanted(outputs))
               k == metadata.collected
               sats == Need.sats
    <2>1. /\ k + 1 \in DOMAIN required /\ k \in Nat /\ Need = required[k + 1]
          /\ account \in Account /\ outputs \in Seq(Output) /\ n \in 0 .. Len(outputs)
          /\ JustEnough(outputs, n, sats)
      BY <1>7, <2>0, CollectFacts DEF JustEnough
    <2>2. /\ required = RequiredBalances(operations) /\ DOMAIN required = 1 .. Len(required)
          /\ Len(required) \in Nat
      BY <1>7 DEF CoverInv, CollectInputs, CollectedInv
    <2>3. /\ sats \in Nat \ {0}
          /\ \A m \in DOMAIN required : required[m].sats \in Nat
          /\ \A m, l \in DOMAIN required : required[m].account = required[l].account => m = l
      BY <2>1, <2>2, RequiredFacts DEF CollectedInv
    <2>4. /\ new = old \o RelevantInputs(outputs, n, account)
          /\ metadata'.change = metadata.change + Worth(outputs, n) - sats
          /\ metadata'.collected = k + 1
          /\ at' = (IF k + 1 = Len(required) THEN "payloads" ELSE "metadata")
          /\ UNCHANGED <<operations, required, payloads>>
      BY <2>0 DEF Collect
    <2> HIDE DEF n, account, sats, old, new
    <2>5. Extended(new, old, outputs, n, account)
      BY <2>1, <2>4, ExtendedBy DEF CollectedInv, old
    <2>6. \A m \in 1 .. k : m \in DOMAIN required /\ m # k + 1 /\ required[m].account # account
      <3>1. \A m \in 1 .. k : m \in DOMAIN required /\ m # k + 1
        BY <2>1, <2>2
      <3> QED
        BY <2>1, <2>3, <3>1 DEF account
    <2>7. \A i \in DOMAIN old : \E m \in 1 .. k : required[m].account = old[i].address
      BY DEF CoverInv, old
    <2>8. \A i \in DOMAIN old : old[i].address # account
      BY <2>6, <2>7
    <2>9. /\ Covered(new, account, sats)
          /\ \A a : a # account => \A s : Covered(old, a, s) => Covered(new, a, s)
          /\ Worthy(new, DOMAIN new) = Worthy(old, DOMAIN old) + Worth(outputs, n)
          /\ Worthy(old, DOMAIN old) \in Int
      BY <2>1, <2>3, <2>5, <2>8, CoverGrows
    <2>10. k + 1 \in 0 .. Len(required)
      BY <2>1, <2>2
    <2>11. \A i \in DOMAIN new : \E m \in 1 .. k + 1 : required[m].account = new[i].address
      <3> SUFFICES ASSUME NEW i \in DOMAIN new
                   PROVE  \E m \in 1 .. k + 1 : required[m].account = new[i].address
        OBVIOUS
      <3> DEFINE L == Len(old)
      <3>1. /\ L \in Nat /\ n \in Nat /\ DOMAIN old = 1 .. L /\ DOMAIN new = 1 .. L + n
            /\ \A j \in 1 .. L : new[j] = old[j]
        BY <2>5, Zenon DEF Extended
      <3> HIDE DEF L
      <3>2. CASE i \in 1 .. L
        <4>1. PICK m \in 1 .. k : required[m].account = old[i].address
          BY <2>7, <3>1, <3>2
        <4>2. m \in 1 .. k + 1
          BY <2>1
        <4> QED
          BY <3>1, <3>2, <4>1, <4>2
      <3>3. CASE i \notin 1 .. L
        <4>1. i - L \in 1 .. n /\ L + (i - L) = i
          BY <3>1, <3>3
        <4>2. new[L + (i - L)].address = account
          BY <2>5, <4>1, AddedInput DEF L
        <4>3. k + 1 \in 1 .. k + 1 /\ required[k + 1].account = account
          BY <2>1 DEF account
        <4> QED
          BY <4>1, <4>2, <4>3
      <3> QED
        BY <3>2, <3>3
    <2>12. \A m \in 1 .. k + 1 : Covered(new, required[m].account, required[m].sats)
      <3> SUFFICES ASSUME NEW m \in 1 .. k + 1
                   PROVE  Covered(new, required[m].account, required[m].sats)
        OBVIOUS
      <3>1. m \in 1 .. k \/ m = k + 1
        BY <2>1
      <3>2. CASE m \in 1 .. k
        <4>1. Covered(old, required[m].account, required[m].sats)
          BY <3>2 DEF CoverInv, old
        <4> QED
          BY <2>6, <2>9, <3>2, <4>1
      <3>3. CASE m = k + 1
        BY <2>1, <2>9, <3>3 DEF account, sats
      <3> QED
        BY <3>1, <3>2, <3>3
    <2>13. Demands' = Demands /\ Demands[k + 1] = sats
           /\ \A m \in DOMAIN required : Demands[m] \in Int
      BY <2>1, <2>3, <2>4 DEF Demands, sats
    <2>14. Part(Demands, 1 .. k + 1) = Part(Demands, 1 .. k) + sats /\ Part(Demands, 1 .. k) \in Int
      <3>1. /\ 1 .. k + 1 = (1 .. k) \cup {k + 1} /\ k + 1 \notin 1 .. k
            /\ IsFiniteSet(1 .. k)
        <4>1. k \in Nat
          BY <2>1
        <4> HIDE DEF k
        <4> QED
          BY <4>1, FS_Interval
      <3>2. \A m \in (1 .. k) \cup {k + 1} : Demands[m] \in Int
        BY <2>1, <2>6, <2>13
      <3>3. Part(Demands, 1 .. k) \in Int
        BY <3>1, <3>2, PartType
      <3> DEFINE A == 1 .. k
      <3>4. Part(Demands, A \cup {k + 1}) = Part(Demands, A) + Demands[k + 1]
        <4> DEFINE x == k + 1
        <4>1. IsFiniteSet(A) /\ x \notin A /\ \A m \in A \cup {x} : Demands[m] \in Int
          BY <3>1, <3>2
        <4> HIDE DEF A, x
        <4>2. Part(Demands, A \cup {x}) = Part(Demands, A) + Demands[x]
          BY <4>1, PartAdds
        <4> QED
          BY <4>2 DEF x
      <3> QED
        BY <2>13, <3>1, <3>3, <3>4
    <2>15. metadata'.change = Worthy(new, DOMAIN new) - Part(Demands', 1 .. k + 1)
           /\ metadata'.change \in Nat
      <3>1. /\ metadata.change = Worthy(old, DOMAIN old) - Part(Demands, 1 .. k)
            /\ metadata.change \in Nat
        BY DEF CoverInv, old
      <3>2. Worth(outputs, n) \in Nat /\ Worth(outputs, n) >= sats
        BY <2>1, WorthType DEF JustEnough
      <3> HIDE DEF k
      <3> QED
        BY <2>3, <2>4, <2>9, <2>13, <2>14, <3>1, <3>2
    <2>16. payloads' = <<>> /\ (at' = "payloads" => k + 1 = Len(required))
      BY <1>7, <2>4 DEF CollectInputs, StagesInv
    <2> QED
      BY <2>2, <2>4, <2>10, <2>11, <2>12, <2>15, <2>16 DEF CoverInv, new
  <1> QED
    BY <1>1, <1>2, <1>3, <1>4, <1>5, <1>6, <1>7, StepKinds

LEMMA InitCover == Init => DistinctInv /\ CoverInv
  <1> SUFFICES ASSUME Init
               PROVE  DistinctInv /\ CoverInv
    OBVIOUS
  <1>1. /\ required = <<>> /\ payloads = <<>> /\ at = "error"
        /\ metadata.relevant_inputs = <<>> /\ metadata.change = 0 /\ metadata.collected = 0
        /\ \A a \in Account : listed[a] = <<>>
    BY DEF Init, NoMetadata
  <1>2. Worthy(<<>>, DOMAIN <<>>) = 0 /\ Part(Demands, 1 .. 0) = 0 /\ 1 .. 0 = {}
    BY EmptyPart DEF Worthy
  <1> QED
    BY <1>1, <1>2 DEF CoverInv, DistinctInv

-----------------------------------------------------------------------------
(* What metadata answers.                                                  *)

LEMMA ValueIsWorthy ==
  ASSUME NEW S \in SUBSET DOMAIN metadata.relevant_inputs
  PROVE  Value(S) = Worthy(metadata.relevant_inputs, S)
  <1> DEFINE inputs == metadata.relevant_inputs
             f == [i \in S |-> inputs[i].satoshis]
  <1>1. Value(S) = Total(f)
    BY DEF Value
  <1>2. Total(f) = Part(f, S)
    <2>1. f = [i \in S |-> f[i]]
      OBVIOUS
    <2> HIDE DEF f
    <2> QED
      BY <2>1, TotalIsPart
  <1>3. \A i \in S : f[i] = Satoshis(inputs)[i]
    BY DEF Satoshis
  <1> HIDE DEF f, inputs
  <1>4. Part(f, S) = Part(Satoshis(inputs), S)
    BY <1>3, EqualParts
  <1> QED
    BY <1>1, <1>2, <1>4 DEF Worthy, inputs

LEMMA DebitsAreTaken ==
  ASSUME NEW ops \in Seq(Posted)
  PROVE  Total([i \in Debits(ops) |-> -ops[i].amount]) = AllDebits(ops)
  <1> DEFINE f == [i \in Debits(ops) |-> -ops[i].amount]
  <1>1. Total(f) = Part(f, Debits(ops))
    <2>1. f = [i \in Debits(ops) |-> f[i]]
      OBVIOUS
    <2> HIDE DEF f
    <2> QED
      BY <2>1, TotalIsPart
  <1>2. \A i \in Debits(ops) : f[i] = Taken(ops)[i]
    BY OperationFacts
  <1> HIDE DEF f
  <1>3. Part(f, Debits(ops)) = Part(Taken(ops), Debits(ops))
    BY <1>2, EqualParts
  <1> QED
    BY <1>1, <1>3 DEF AllDebits, f

(* Once every account's inputs are there, all debits are asked for.        *)
LEMMA AllCollected ==
  ASSUME CollectedInv, CoverInv, metadata.collected = Len(required), required # <<>>
  PROVE  /\ required = RequiredBalances(operations)
         /\ 1 .. metadata.collected = DOMAIN required
         /\ metadata.change = Worthy(metadata.relevant_inputs, DOMAIN metadata.relevant_inputs)
                                - AllDebits(operations)
  <1>1. required = RequiredBalances(operations) /\ operations \in Seq(Posted)
    BY DEF CoverInv, CollectedInv
  <1>2. DOMAIN required = 1 .. Len(required)
    BY DEF CollectedInv
  <1>3. Part(Demands, DOMAIN required) = AllDebits(operations)
    BY <1>1, RequiredFacts DEF Demands
  <1> QED
    BY <1>1, <1>2, <1>3 DEF CoverInv

LEMMA InputsAreCovered ==
  ASSUME CollectedInv, DistinctInv, CoverInv
  PROVE  InputsCoverTheDebits
  <1> SUFFICES ASSUME Collected
               PROVE  InputsCoverTheDebits
    BY DEF InputsCoverTheDebits
  <1> DEFINE inputs == metadata.relevant_inputs
             R == required
  <1>1. /\ metadata.collected = Len(required) /\ required # <<>>
        /\ operations \in Seq(Posted)
    <2>1. metadata.collected > 0 /\ metadata.collected = Len(required)
      BY DEF Collected
    <2>2. required # <<>>
      BY <2>1
    <2> QED
      BY <2>1, <2>2 DEF CollectedInv
  <1>2. /\ R = RequiredBalances(operations) /\ 1 .. metadata.collected = DOMAIN R
        /\ metadata.change = Worthy(inputs, DOMAIN inputs) - AllDebits(operations)
    BY <1>1, AllCollected
  <1>3. /\ \A n \in DOMAIN R : /\ R[n].account \in Account
                               /\ R[n].sats = DebitOf(operations, R[n].account)
                               /\ R[n].sats \in Nat \ {0}
        /\ \A a \in Account : DebitOf(operations, a) > 0 => \E n \in DOMAIN R : R[n].account = a
    <2> DEFINE Q == RequiredBalances(operations)
    <2>1. /\ \A n \in DOMAIN Q : /\ Q[n].account \in Account
                                 /\ Q[n].sats = DebitOf(operations, Q[n].account)
                                 /\ Q[n].sats \in Nat \ {0}
          /\ \A a \in Account : DebitOf(operations, a) > 0 => \E n \in DOMAIN Q : Q[n].account = a
      BY <1>1, RequiredFacts
    <2> HIDE DEF Q
    <2>2. R = Q
      BY <1>2 DEF Q
    <2> QED
      BY <2>1, <2>2
  <1>4. ASSUME NEW i \in DOMAIN inputs
        PROVE  /\ Owner[inputs[i].output] = inputs[i].address
               /\ \A j \in 1 .. i - 1 : inputs[j].output # inputs[i].output
    <2>1. inputs \in Seq(TrueInput)
      BY DEF CollectedInv
    <2>2. inputs[i] \in TrueInput /\ DOMAIN inputs = 1 .. Len(inputs) /\ Len(inputs) \in Nat
      BY <2>1
    <2>3. Owner[inputs[i].output] = inputs[i].address
      BY <2>2 DEF TrueInput
    <2>4. \A j \in 1 .. i - 1 : j \in DOMAIN inputs /\ j # i
      BY <2>2
    <2>5. \A j, k \in DOMAIN inputs : inputs[j].output = inputs[k].output => j = k
      BY DEF DistinctInv
    <2> QED
      BY <2>3, <2>4, <2>5
  <1>5. ASSUME NEW a \in Account
        PROVE  /\ Value(InputsOf(a)) >= DebitOf(operations, a)
               /\ InputsOf(a) # {} =>
                    Value(InputsOf(a) \ {Max(InputsOf(a))}) < DebitOf(operations, a)
    <2> DEFINE S == InputsOf(a)
               T == S \ {Max(S)}
    <2>1. S = Owned(inputs, a) /\ S \in SUBSET DOMAIN inputs
      BY DEF InputsOf, Owned
    <2> HIDE DEF S
    <2>2. Value(S) = Worthy(inputs, S) /\ Value(T) = Worthy(inputs, T)
      <3>1. T \in SUBSET DOMAIN inputs
        BY <2>1
      <3> HIDE DEF T
      <3> QED
        BY <2>1, <3>1, ValueIsWorthy
    <2>3. CASE DebitOf(operations, a) > 0
      <3>1. PICK n \in DOMAIN R : R[n].account = a
        BY <1>3, <2>3
      <3>2. R[n].sats = DebitOf(operations, a)
        BY <1>3, <3>1
      <3>3. Covered(inputs, a, DebitOf(operations, a))
        BY <1>2, <3>1, <3>2 DEF CoverInv
      <3> QED
        BY <2>1, <2>2, <3>3 DEF Covered, S
    <2>4. CASE ~ (DebitOf(operations, a) > 0)
      <3>1. DebitOf(operations, a) = 0
        BY <1>1, <2>4, DebitIsPart
      <3>2. ASSUME NEW i \in S
            PROVE  FALSE
        <4>1. i \in DOMAIN inputs /\ inputs[i].address = a
          BY <2>1 DEF Owned
        <4>2. PICK m \in 1 .. metadata.collected : required[m].account = a
          BY <4>1 DEF CoverInv
        <4>3. R[m].sats = DebitOf(operations, a) /\ R[m].sats \in Nat \ {0}
          BY <1>2, <1>3, <4>2
        <4> QED
          BY <3>1, <4>3
      <3>3. S = {}
        BY <3>2
      <3>4. Value(S) = 0
        BY <2>2, <3>3, EmptyPart DEF Worthy
      <3> QED
        BY <3>1, <3>3, <3>4 DEF S
    <2> QED
      BY <2>3, <2>4
  <1>6. metadata.change = Value(DOMAIN inputs)
                            - Total([i \in Debits(operations) |-> -operations[i].amount])
    <2>1. DOMAIN inputs \in SUBSET DOMAIN inputs
      OBVIOUS
    <2>2. Value(DOMAIN inputs) = Worthy(inputs, DOMAIN inputs)
      BY <2>1, ValueIsWorthy
    <2> QED
      BY <1>1, <1>2, <2>2, DebitsAreTaken
  <1> QED
    BY <1>4, <1>5, <1>6 DEF InputsCoverTheDebits

LEMMA CoverInductive == Spec => [](TransferInv /\ TypeInv /\ DistinctInv /\ CoverInv)
  <1>1. TransferInv /\ DistinctInv /\ CoverInv /\ [Next]_vars => DistinctInv' /\ CoverInv'
    BY DistinctStep, CoverStep
  <1>2. TransferInv /\ TypeInv /\ [Next]_vars => TypeInv'
    BY TypeStep
  <1> QED
    BY <1>1, <1>2, InitTypes, InitCover, TransferInductive, PTL DEF Spec

(* However outputs are paid and spent meanwhile, and whichever accounts a    *)
(* transfer debits how often: the inputs that /construction/metadata names  *)
(* are different outputs of the debited accounts, worth what each of them   *)
(* gives with the last one and not without it, and change is what is left.  *)
THEOREM InputsAreEnough == Spec => []InputsCoverTheDebits
  <1>1. TransferInv /\ TypeInv /\ DistinctInv /\ CoverInv => InputsCoverTheDebits
    BY InputsAreCovered DEF TransferInv
  <1> QED
    BY <1>1, CoverInductive, PTL

-----------------------------------------------------------------------------
(* What is submitted.                                                      *)

Sent == {"submit", "accepted", "refused"}

(* A signature is for the hash its payload names.                          *)
SentInv ==
  /\ at \in {"combine"} \cup Sent =>
       \A i \in DOMAIN signatures : signatures[i].hash = payloads[i].hash
  /\ at \in Sent => signed # NotSigned

LEMMA SentStep ==
  ASSUME TransferInv, TypeInv, SentInv, [Next]_vars
  PROVE  SentInv'
  <1> USE DEF TransferInv, Sent
  <1>1. CASE OfOthers
    BY <1>1 DEF OfOthers, SentInv
  <1>2. CASE Submit
    BY <1>2 DEF Submit, SentInv
  <1>3. CASE Fails
    BY <1>3 DEF Fails, SentInv
  <1>4. ASSUME NEW ops \in Transfers, Begin(ops)
        PROVE  SentInv'
    BY <1>4 DEF Begin, SentInv
  <1>5. CASE Preprocess
    BY <1>5 DEF Preprocess, SentInv
  <1>6. CASE CollectInputs
    <2>1. at' \in {"payloads", "metadata"}
      BY <1>6 DEF CollectInputs, Collect
    <2> QED
      BY <2>1 DEF SentInv
  <1>7. CASE MakePayloads
    BY <1>7 DEF MakePayloads, SentInv
  <1>8. ASSUME NEW n \in 0 .. Len(payloads), NEW key \in [Account -> Account], Sign(n, key)
        PROVE  SentInv'
    BY <1>8 DEF Sign, SentInv
  <1>9. CASE Combine
    <2>1. /\ at = "combine" /\ at' = "submit" /\ UNCHANGED <<signatures, payloads>>
          /\ signed'.ins = unsigned.ins
      BY <1>9 DEF Combine
    <2>2. payloads # <<>>
      BY <2>1 DEF StagesInv
    <2>3. 1 \in DOMAIN payloads /\ DOMAIN payloads = DOMAIN metadata.relevant_inputs
      <3>1. /\ Len(metadata.relevant_inputs) \in Nat
            /\ Len(payloads) = Len(metadata.relevant_inputs)
            /\ DOMAIN payloads = 1 .. Len(payloads)
        BY <2>2, PayloadsOfInputs
      <3>2. DOMAIN metadata.relevant_inputs = 1 .. Len(metadata.relevant_inputs)
        BY DEF CollectedInv
      <3>3. DOMAIN payloads # {}
        BY <2>2, EmptyList DEF TypeInv
      <3> QED
        BY <3>1, <3>2, <3>3
    <2>4. unsigned.ins = Spends(metadata.relevant_inputs)
      BY <2>2 DEF TransactionInv, UnsignedTransaction
    <2>5. signed'.ins # <<>>
      <3>1. 1 \in DOMAIN signed'.ins
        BY <2>1, <2>3, <2>4 DEF Spends
      <3> QED
        BY <3>1
    <2>6. signed' # NotSigned
      BY <2>5 DEF NotSigned
    <2> QED
      BY <2>1, <2>6 DEF SentInv
  <1> QED
    BY <1>1, <1>2, <1>3, <1>4, <1>5, <1>6, <1>7, <1>8, <1>9
       DEF Next, vars, OfOthers, OthersPay, Unpaid, OthersSpend, ExpectsAccounts, InsufficientBalance,
           ExpectsInputs, Mismatch

(* The transaction that is sent, in terms of what was collected.           *)
LEMMA SentFacts ==
  ASSUME TransferInv, TypeInv, CoverInv, SentInv, at \in Sent
  PROVE  LET inputs == metadata.relevant_inputs
             outs == Credits(operations)
         IN
         /\ operations \in Seq(Posted) /\ inputs \in Seq(TrueInput)
         /\ DOMAIN inputs = 1 .. Len(inputs) /\ Len(inputs) \in Nat \ {0}
         /\ signed.ins = Spends(inputs) /\ signed.outs = outs /\ signed.scripts = Scripts(signatures)
         /\ payloads = Payloads(inputs, outs)
         /\ DOMAIN signatures = DOMAIN inputs /\ signatures \in Seq(Signature)
         /\ \A i \in DOMAIN inputs : signatures[i].hash = payloads[i].hash
         /\ required # <<>> /\ metadata.collected = Len(required)
  <1> USE DEF TransferInv
  <1> DEFINE inputs == metadata.relevant_inputs
             outs == Credits(operations)
  <1>1. signed # NotSigned
    BY DEF SentInv
  <1>2. /\ payloads # <<>> /\ DOMAIN signatures = DOMAIN payloads
        /\ signed = [ins |-> unsigned.ins, outs |-> unsigned.outs,
                     input_amounts |-> unsigned.input_amounts, scripts |-> Scripts(signatures)]
        /\ unsigned = UnsignedTransaction(inputs, outs) /\ payloads = Payloads(inputs, outs)
    BY <1>1 DEF TransactionInv
  <1>3. signed.ins = Spends(inputs) /\ signed.outs = outs /\ signed.scripts = Scripts(signatures)
    BY <1>2 DEF UnsignedTransaction
  <1>4. inputs \in Seq(TrueInput) /\ DOMAIN inputs = 1 .. Len(inputs) /\ operations \in Seq(Posted)
    BY DEF CollectedInv
  <1>5. Len(inputs) \in Nat \ {0} /\ DOMAIN payloads = DOMAIN inputs
    <2>1. Len(inputs) \in Nat /\ Len(payloads) = Len(inputs) /\ DOMAIN payloads = 1 .. Len(payloads)
      BY <1>2, PayloadsOfInputs
    <2>2. DOMAIN payloads # {}
      BY <1>2, EmptyList DEF TypeInv
    <2> QED
      BY <1>4, <2>1, <2>2
  <1>6. signatures \in Seq(Signature) /\ \A i \in DOMAIN inputs : signatures[i].hash = payloads[i].hash
    BY <1>2, <1>5 DEF SentInv, TypeInv
  <1>7. metadata.collected = Len(required) /\ required # <<>>
    <2>1. metadata.collected = Len(required)
      BY <1>2 DEF CoverInv
    <2>2. 1 \in DOMAIN inputs
      BY <1>4, <1>5
    <2>3. PICK m \in 1 .. metadata.collected : TRUE
      BY <2>2 DEF CoverInv
    <2>4. Len(required) # 0
      BY <2>1, <2>3 DEF CollectedInv
    <2> QED
      BY <2>1, <2>4
  <1> QED
    BY <1>2, <1>3, <1>4, <1>5, <1>6, <1>7

(* What it spends is worth the debits and the change.                      *)
LEMMA SentIsWorth ==
  ASSUME TransferInv, TypeInv, CoverInv, SentInv, at \in Sent
  PROVE  LET worth == Total([i \in DOMAIN signed.ins |-> Sats[signed.ins[i]]])
             paid  == Total([i \in DOMAIN signed.outs |-> signed.outs[i].amount])
             all   == Total([i \in DOMAIN operations |-> operations[i].amount])
         IN  /\ worth \in Int /\ paid \in Int /\ all \in Int
             /\ worth - paid = metadata.change - all /\ metadata.change \in Nat
  <1> DEFINE inputs == metadata.relevant_inputs
             ins == signed.ins
             f == [i \in DOMAIN ins |-> Sats[ins[i]]]
             D == DOMAIN inputs
  <1>1. /\ operations \in Seq(Posted) /\ inputs \in Seq(TrueInput)
        /\ D = 1 .. Len(inputs) /\ Len(inputs) \in Nat
        /\ ins = Spends(inputs) /\ signed.outs = Credits(operations)
        /\ required # <<>> /\ metadata.collected = Len(required)
    BY SentFacts
  <1>2. metadata.change = Worthy(inputs, D) - AllDebits(operations) /\ metadata.change \in Nat
    <2>1. metadata.change \in Nat
      BY DEF CoverInv
    <2> QED
      BY <1>1, <2>1, AllCollected DEF TransferInv
  <1>3. Total(f) = Worthy(inputs, D) /\ Worthy(inputs, D) \in Int
    <2>1. \A i \in D : inputs[i] \in TrueInput
      BY <1>1
    <2>2. \A i \in D : inputs[i].satoshis = Sats[inputs[i].output] /\ inputs[i].satoshis \in Int
      BY <2>1, OutputTypes DEF TrueInput
    <2>3. DOMAIN ins = D /\ \A i \in D : ins[i] = inputs[i].output
      BY <1>1 DEF Spends
    <2>4. \A i \in D : f[i] = Satoshis(inputs)[i] /\ Satoshis(inputs)[i] \in Int
      BY <2>2, <2>3 DEF Satoshis
    <2>5. Total(f) = Part(f, D)
      <3>1. f = [i \in D |-> f[i]]
        BY <2>3
      <3> HIDE DEF f
      <3> QED
        BY <3>1, TotalIsPart
    <2>6. IsFiniteSet(D)
      <3> DEFINE n == Len(inputs)
      <3>1. n \in Nat /\ D = 1 .. n
        BY <1>1
      <3> HIDE DEF n, D
      <3> QED
        BY <3>1, FS_Interval
    <2> HIDE DEF f, D, inputs
    <2>7. Part(f, D) = Part(Satoshis(inputs), D)
      BY <2>4, EqualParts
    <2>8. Part(Satoshis(inputs), D) \in Int
      BY <2>4, <2>6, PartType
    <2> QED
      BY <2>5, <2>7, <2>8 DEF Worthy
  <1> DEFINE cr == Total([i \in DOMAIN Credits(operations) |-> Credits(operations)[i].amount])
             all == Total([i \in DOMAIN operations |-> operations[i].amount])
  <1>4. all = cr - AllDebits(operations) /\ cr \in Int /\ AllDebits(operations) \in Int
    BY <1>1, CreditsAndDebits
  <1>5. Total([i \in DOMAIN signed.outs |-> signed.outs[i].amount]) = cr
    BY <1>1
  <1> HIDE DEF f, D, cr, all
  <1>6. Total(f) - cr = metadata.change - all /\ all \in Int
    BY <1>2, <1>3, <1>4
  <1> QED
    BY <1>2, <1>3, <1>4, <1>5, <1>6 DEF f, all

LEMMA AcceptedPays ==
  ASSUME TransferInv, TypeInv, CoverInv, SentInv
  PROVE  AcceptedPaysTheChangeAsFee
  <1> SUFFICES ASSUME at = "accepted"
               PROVE  AcceptedPaysTheChangeAsFee
    BY DEF AcceptedPaysTheChangeAsFee
  <1> DEFINE inputs == metadata.relevant_inputs
  <1>1. at \in Sent
    BY DEF Sent
  <1>2. /\ operations \in Seq(Posted) /\ inputs \in Seq(TrueInput)
        /\ signed.ins = Spends(inputs) /\ signed.outs = Credits(operations)
        /\ required # <<>> /\ metadata.collected = Len(required)
    BY <1>1, SentFacts
  <1>3. required = RequiredBalances(operations) /\ 1 .. metadata.collected = DOMAIN required
    BY <1>2, AllCollected DEF TransferInv
  <1>4. ASSUME NEW i \in DOMAIN signed.ins
        PROVE  DebitOf(operations, Owner[signed.ins[i]]) > 0
    <2>1. i \in DOMAIN inputs /\ signed.ins[i] = inputs[i].output
      BY <1>2 DEF Spends
    <2>2. inputs[i] \in TrueInput
      BY <1>2, <2>1
    <2>3. Owner[signed.ins[i]] = inputs[i].address
      BY <2>1, <2>2 DEF TrueInput
    <2>4. PICK m \in 1 .. metadata.collected : required[m].account = inputs[i].address
      BY <2>1 DEF CoverInv
    <2> DEFINE Q == RequiredBalances(operations)
    <2>5. \A n \in DOMAIN Q : /\ Q[n].sats = DebitOf(operations, Q[n].account)
                              /\ Q[n].sats \in Nat \ {0}
      BY <1>2, RequiredFacts
    <2> HIDE DEF Q
    <2>6. required = Q /\ m \in DOMAIN Q
      BY <1>3, <2>4 DEF Q
    <2>7. DebitOf(operations, inputs[i].address) \in Nat \ {0}
      BY <2>4, <2>5, <2>6
    <2> QED
      BY <2>3, <2>7
  <1>5. Total([i \in DOMAIN signed.ins |-> Sats[signed.ins[i]]])
          - Total([i \in DOMAIN signed.outs |-> signed.outs[i].amount])
        = metadata.change - Total([i \in DOMAIN operations |-> operations[i].amount])
    BY <1>1, SentIsWorth
  <1> QED
    BY <1>2, <1>4, <1>5 DEF AcceptedPaysTheChangeAsFee

(* The signature of a transaction with one input is of that transaction.   *)
LEMMA OneInputIsSigned ==
  ASSUME TransferInv, TypeInv, CoverInv, SentInv, at \in Sent, Len(signed.ins) = 1,
         signatures[1].key = payloads[1].address
  PROVE  Signs(signed, 1)
  <1> DEFINE inputs == metadata.relevant_inputs
             outs == Credits(operations)
             ins == Spends(inputs)
  <1>1. /\ inputs \in Seq(TrueInput) /\ DOMAIN inputs = 1 .. Len(inputs) /\ Len(inputs) \in Nat \ {0}
        /\ signed.ins = ins /\ signed.outs = outs /\ signed.scripts = Scripts(signatures)
        /\ payloads = Payloads(inputs, outs)
        /\ DOMAIN signatures = DOMAIN inputs /\ signatures \in Seq(Signature)
        /\ \A i \in DOMAIN inputs : signatures[i].hash = payloads[i].hash
    BY SentFacts
  <1>2. ins \in Seq(Output) /\ Len(ins) = Len(inputs)
    <2>1. \A i \in DOMAIN inputs : inputs[i].output \in Output
      <3>1. \A i \in DOMAIN inputs : inputs[i] \in TrueInput
        BY <1>1
      <3> QED
        BY <3>1 DEF TrueInput
    <2>2. ins = [i \in 1 .. Len(inputs) |-> inputs[i].output]
      BY <1>1 DEF Spends
    <2> HIDE DEF inputs, ins
    <2> DEFINE list == [i \in 1 .. Len(inputs) |-> inputs[i].output]
    <2>3. list \in Seq(Output) /\ Len(list) = Len(inputs)
      <3>1. Len(inputs) \in Nat /\ \A i \in 1 .. Len(inputs) : inputs[i].output \in Output
        BY <1>1, <2>1
      <3> QED
        BY <3>1, Listing
    <2> QED
      BY <2>2, <2>3
  <1>3. Len(inputs) = 1 /\ Len(ins) = 1
    BY <1>1, <1>2
  <1>4. SubSeq(ins, 1, 1) = ins
    <2> HIDE DEF ins
    <2> QED
      BY <1>2, <1>3
  <1> DEFINE i == 1
  <1>5. i \in DOMAIN inputs
    BY <1>1, <1>3
  <1>6. payloads[i].address = inputs[i].address /\ payloads[i].hash = SigHash(i, ins, outs)
        /\ i \in DOMAIN payloads
    BY <1>1, <1>4, <1>5 DEF Payloads
  <1>7. signatures[i] = [hash |-> payloads[i].hash, key |-> payloads[i].address]
    <2>1. signatures[i] \in Signature
      BY <1>1, <1>5
    <2>2. signatures[i] = [hash |-> signatures[i].hash, key |-> signatures[i].key]
      BY <2>1 DEF Signature
    <2> QED
      BY <1>1, <1>5, <1>6, <2>2
  <1>8. inputs[i].address = Owner[ins[i]]
    <2>1. inputs[i] \in TrueInput
      BY <1>1, <1>5
    <2> QED
      BY <1>5, <2>1 DEF TrueInput, Spends
  <1>9. signed.scripts[i] = signatures[i]
    BY <1>1, <1>5 DEF Scripts
  <1> HIDE DEF inputs, outs, ins
  <1> QED
    BY <1>1, <1>6, <1>7, <1>8, <1>9 DEF Signs

LEMMA SentInductive ==
  Spec => [](TransferInv /\ TypeInv /\ CoverInv /\ SentInv)
  <1>1. TransferInv /\ TypeInv /\ SentInv /\ [Next]_vars => SentInv'
    BY SentStep
  <1>2. Init => SentInv
    BY DEF Init, SentInv, Sent
  <1> QED
    BY <1>1, <1>2, CoverInductive, PTL DEF Spec

(* An accepted transaction spends only what its operations debit, pays      *)
(* what they credit, and leaves the miner the change beside what they debit *)
(* beyond that: no input, and no change, gets lost on the way.             *)
THEOREM AcceptedPaysTheChange == Spec => []AcceptedPaysTheChangeAsFee
  <1>1. TransferInv /\ TypeInv /\ CoverInv /\ SentInv => AcceptedPaysTheChangeAsFee
    BY AcceptedPays
  <1> QED
    BY <1>1, SentInductive, PTL

(* What is submitted pays no more than it spends, unless its operations     *)
(* credit more than they debit; and with one input it holds the signature  *)
(* of this very transaction.  Nothing is assumed of the node.              *)
THEOREM TransfersAreValid == Spec => []SubmittedIsValid
  <1>1. ASSUME TransferInv, TypeInv, CoverInv, SentInv
        PROVE  SubmittedIsValid
    <2> SUFFICES ASSUME at = "submit"
                 PROVE  SubmittedIsValid
      BY DEF SubmittedIsValid
    <2> DEFINE worth == Total([i \in DOMAIN signed.ins |-> Sats[signed.ins[i]]])
               paid  == Total([i \in DOMAIN signed.outs |-> signed.outs[i].amount])
               all   == Total([i \in DOMAIN operations |-> operations[i].amount])
    <2>1. at \in Sent
      BY <1>1 DEF Sent
    <2>2. /\ worth \in Int /\ paid \in Int /\ all \in Int
          /\ worth - paid = metadata.change - all /\ metadata.change \in Nat
      BY <1>1, <2>1, SentIsWorth
    <2>3. Len(signed.ins) = 1 /\ signatures[1].key = payloads[1].address => Signs(signed, 1)
      BY <1>1, <2>1, OneInputIsSigned
    <2> HIDE DEF worth, paid, all
    <2>4. all <= 0 => worth >= paid
      BY <2>2
    <2> QED
      BY <2>3, <2>4 DEF SubmittedIsValid, worth, paid, all
  <1> QED
    BY <1>1, SentInductive, PTL
=============================================================================
