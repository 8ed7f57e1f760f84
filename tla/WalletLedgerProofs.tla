------------------------- MODULE WalletLedgerProofs -------------------------
(***************************************************************************)
(* What WalletLedger guarantees for every set of users, keys and requests; *)
(* and, first, what a sum over a finite set is.                            *)
(***************************************************************************)
EXTENDS WalletLedger, FiniteSetTheorems, TLAPS

(* Sums.  Every proof by induction is a search for a smallest              *)
(* counterexample: strict inclusion is well founded on finite sets         *)
(* (LeastSet).                                                             *)

\* A non-empty family of subsets of a finite set has a smallest member.
LEMMA LeastSet ==
  ASSUME NEW S, IsFiniteSet(S), NEW F \in SUBSET (SUBSET S), F # {}
  PROVE  \E T \in F : \A U \in F : U \subseteq T => U = T
<1>1. SUBSET S = FiniteSubsetsOf(S)
  BY FS_FiniteSubsetsOfFinite
<1>2. PICK T \in F : \A U \in F : ~ (<<U, T>> \in StrictSubsetOrdering(S))
  BY <1>1, FS_StrictSubsetOrderingWellFounded, WFMin
<1> QED
  BY <1>2 DEF StrictSubsetOrdering

\* The element a sum over s begins with.
First(s) == CHOOSE x \in s : TRUE

\* iter is the partial sums of f over the subsets of S, as MapThenFoldSet
\* defines them.
PartialSums(f, S, iter) ==
  iter = [s \in SUBSET S |-> IF s = {} THEN 0 ELSE f[First(s)] + iter[s \ {First(s)}]]

LEMMA FirstIn == ASSUME NEW s, s # {} PROVE First(s) \in s
BY DEF First

LEMMA SumOverDef ==
  ASSUME NEW f, NEW S
  PROVE  SumOver(f, S) = (CHOOSE iter : PartialSums(f, S, iter))[S]
BY Zenon DEF SumOver, MapThenSumSet, MapThenFoldSet, PartialSums, First

\* Partial sums do not depend on the set they are taken in.
LEMMA PartialSumsAgree ==
  ASSUME NEW f, NEW S, NEW T, NEW g, NEW h, PartialSums(f, S, g), PartialSums(f, T, h),
         NEW W, W \subseteq S, W \subseteq T, IsFiniteSet(W)
  PROVE  g[W] = h[W]
<1> DEFINE F == {U \in SUBSET W : g[U] # h[U]}
<1>1. SUFFICES ASSUME F # {} PROVE FALSE
  OBVIOUS
<1>2. PICK U \in F : \A V \in F : V \subseteq U => V = U
  <2> F \in SUBSET (SUBSET W)
    OBVIOUS
  <2> HIDE DEF F
  <2> QED
    BY <1>1, LeastSet
<1>3. U \subseteq W /\ IsFiniteSet(U) /\ g[U] # h[U]
  BY FS_Subset
<1>4. U # {}
  BY <1>3 DEF PartialSums
<1> DEFINE V == U \ {First(U)}
<1>5. V \subseteq U /\ V # U /\ IsFiniteSet(V)
  BY <1>3, <1>4, FirstIn, FS_Subset
<1>6. V \notin F
  BY <1>2, <1>5
<1>7. g[V] = h[V]
  BY <1>3, <1>5, <1>6
<1>8. g[U] = f[First(U)] + g[V] /\ h[U] = f[First(U)] + h[V]
  <2>1. U \in SUBSET S /\ U \in SUBSET T
    BY <1>3
  <2> HIDE DEF V
  <2>2. g[U] = f[First(U)] + g[U \ {First(U)}]
    BY <2>1, <1>4, Zenon DEF PartialSums
  <2>3. h[U] = f[First(U)] + h[U \ {First(U)}]
    BY <2>1, <1>4, Zenon DEF PartialSums
  <2> QED
    BY <2>2, <2>3 DEF V
<1> QED
  BY <1>3, <1>7, <1>8

\* Partial sums exist: what MapThenFoldSet chooses is what it says.
LEMMA PartialSumsExist ==
  ASSUME NEW f, NEW S, IsFiniteSet(S)
  PROVE  \E iter : PartialSums(f, S, iter)
<1> DEFINE F == {T \in SUBSET S : ~ \E iter : PartialSums(f, T, iter)}
<1>1. SUFFICES ASSUME F # {} PROVE FALSE
  OBVIOUS
<1>2. PICK T \in F : \A U \in F : U \subseteq T => U = T
  <2> F \in SUBSET (SUBSET S)
    OBVIOUS
  <2> HIDE DEF F
  <2> QED
    BY <1>1, LeastSet
<1> DEFINE G(s) == CHOOSE iter : PartialSums(f, s, iter)
           Rest(s) == s \ {First(s)}
           h == [s \in SUBSET T |-> IF s = {} THEN 0 ELSE f[First(s)] + G(Rest(s))[Rest(s)]]
<1>3. T \subseteq S /\ IsFiniteSet(T)
  BY FS_Subset
<1>4. ASSUME NEW s, s \subseteq T, s # T PROVE PartialSums(f, s, G(s))
  <2>1. \E iter : PartialSums(f, s, iter)
    BY <1>2, <1>3, <1>4
  <2> QED
    BY <2>1, Zenon
<1>5. ASSUME NEW s, s \subseteq T, s # {} PROVE Rest(s) \subseteq s /\ Rest(s) # s /\ IsFiniteSet(Rest(s))
  BY <1>3, <1>5, FirstIn, FS_Subset
<1>6. ASSUME NEW s, s \subseteq T, s # T PROVE h[s] = G(s)[s]
  <2>1. PartialSums(f, s, G(s))
    BY <1>4, <1>6
  <2> HIDE DEF G
  <2>2. CASE s = {}
    <3>1. G(s)[s] = 0
      BY <2>1, <2>2 DEF PartialSums
    <3> QED
      BY <3>1, <2>2
  <2>3. CASE s # {}
    <3>1. Rest(s) \subseteq s /\ Rest(s) # s /\ IsFiniteSet(Rest(s))
      BY <1>5, <1>6, <2>3
    <3>2. PartialSums(f, Rest(s), G(Rest(s)))
      BY <1>4, <1>6, <3>1
    <3>3. G(Rest(s))[Rest(s)] = G(s)[Rest(s)]
      BY <2>1, <3>1, <3>2, PartialSumsAgree
    <3>4. G(s)[s] = f[First(s)] + G(s)[Rest(s)]
      BY <2>1, <2>3 DEF PartialSums
    <3>5. h[s] = f[First(s)] + G(Rest(s))[Rest(s)]
      BY <1>6, <2>3
    <3> QED
      BY <3>3, <3>4, <3>5
  <2> QED
    BY <2>2, <2>3
<1>7. ASSUME NEW s \in SUBSET T, s # {} PROVE h[Rest(s)] = G(Rest(s))[Rest(s)]
  <2>1. Rest(s) \subseteq T /\ Rest(s) # T
    BY <1>7, FirstIn
  <2> HIDE DEF h, G, Rest
  <2> QED
    BY <2>1, <1>6
<1>8. PartialSums(f, T, h)
  <2>1. ASSUME NEW s \in SUBSET T
        PROVE  (IF s = {} THEN 0 ELSE f[First(s)] + G(Rest(s))[Rest(s)])
                 = (IF s = {} THEN 0 ELSE f[First(s)] + h[s \ {First(s)}])
    <3>1. CASE s = {}
      BY <3>1
    <3>2. CASE s # {}
      <4>1. h[Rest(s)] = G(Rest(s))[Rest(s)]
        BY <1>7, <3>2
      <4> HIDE DEF G, h
      <4> QED
        BY <4>1
    <3> QED
      BY <3>1, <3>2
  <2> HIDE DEF G
  <2> QED
    BY <2>1, Zenon DEF PartialSums
<1> QED
  BY <1>2, <1>8

-----------------------------------------------------------------------------
LEMMA SumOfNone == ASSUME NEW f PROVE SumOver(f, {}) = 0
<1>1. PICK iter : PartialSums(f, {}, iter)
  BY PartialSumsExist, FS_EmptySet
<1>2. PartialSums(f, {}, CHOOSE i : PartialSums(f, {}, i))
  BY <1>1, Zenon
<1> QED
  BY <1>2, SumOverDef DEF PartialSums

LEMMA SumFromFirst ==
  ASSUME NEW f, NEW S, IsFiniteSet(S), S # {}
  PROVE  SumOver(f, S) = f[First(S)] + SumOver(f, S \ {First(S)})
<1> DEFINE G(s) == CHOOSE iter : PartialSums(f, s, iter)
           R == S \ {First(S)}
<1>1. R \subseteq S /\ IsFiniteSet(R)
  BY FS_Subset
<1>2. PartialSums(f, S, G(S)) /\ PartialSums(f, R, G(R))
  BY <1>1, PartialSumsExist, Zenon
<1>3. SumOver(f, S) = G(S)[S] /\ SumOver(f, R) = G(R)[R]
  BY SumOverDef
<1> HIDE DEF G
<1>4. G(S)[S] = f[First(S)] + G(S)[R]
  BY <1>2 DEF PartialSums
<1>5. G(S)[R] = G(R)[R]
  BY <1>1, <1>2, PartialSumsAgree
<1> QED
  BY <1>3, <1>4, <1>5

\* A sum of integers is an integer.
LEMMA SumIsInt ==
  ASSUME NEW f, NEW S, IsFiniteSet(S), \A x \in S : f[x] \in Int
  PROVE  SumOver(f, S) \in Int
<1> DEFINE F == {T \in SUBSET S : SumOver(f, T) \notin Int}
<1>1. SUFFICES ASSUME F # {} PROVE FALSE
  OBVIOUS
<1>2. PICK T \in F : \A U \in F : U \subseteq T => U = T
  <2> F \in SUBSET (SUBSET S)
    OBVIOUS
  <2> HIDE DEF F
  <2> QED
    BY <1>1, LeastSet
<1>3. T # {} /\ IsFiniteSet(T) /\ T \subseteq S
  <2>1. SumOver(f, {}) \in Int
    BY SumOfNone
  <2> QED
    BY <2>1, FS_Subset
<1>4. First(T) \in T
  BY <1>3, FirstIn
<1>5. SumOver(f, T \ {First(T)}) \in Int
  BY <1>2, <1>4
<1> QED
  BY <1>3, <1>4, <1>5, SumFromFirst

\* The order does not matter: any member of the set can be summed first.
LEMMA SumFromAny ==
  ASSUME NEW f, NEW S, IsFiniteSet(S), \A y \in S : f[y] \in Int, NEW x \in S
  PROVE  SumOver(f, S) = f[x] + SumOver(f, S \ {x})
<1> DEFINE F == {T \in SUBSET S : \E y \in T : SumOver(f, T) # f[y] + SumOver(f, T \ {y})}
<1>1. SUFFICES ASSUME F # {} PROVE FALSE
  OBVIOUS
<1>2. PICK T \in F : \A U \in F : U \subseteq T => U = T
  <2> F \in SUBSET (SUBSET S)
    OBVIOUS
  <2> HIDE DEF F
  <2> QED
    BY <1>1, LeastSet
<1>3. PICK y \in T : SumOver(f, T) # f[y] + SumOver(f, T \ {y})
  BY <1>2
<1> DEFINE z == First(T)
<1>4. IsFiniteSet(T) /\ z \in T /\ T \subseteq S
  BY FirstIn, FS_Subset
<1>5. SumOver(f, T) = f[z] + SumOver(f, T \ {z})
  BY <1>4, SumFromFirst
<1>6. z # y
  BY <1>3, <1>5
<1> DEFINE R == (T \ {y}) \ {z}
<1>7. R = (T \ {z}) \ {y}
  OBVIOUS
<1>8. ASSUME NEW u \in T, NEW v \in T \ {u}
      PROVE  SumOver(f, T \ {u}) = f[v] + SumOver(f, (T \ {u}) \ {v})
  <2>1. T \ {u} \notin F
    BY <1>2, <1>8
  <2> QED
    BY <2>1, <1>4
<1>9. SumOver(f, T \ {z}) = f[y] + SumOver(f, R) /\ SumOver(f, T \ {y}) = f[z] + SumOver(f, R)
  BY <1>4, <1>6, <1>7, <1>8
<1>10. SumOver(f, R) \in Int /\ f[y] \in Int /\ f[z] \in Int
  BY <1>4, SumIsInt, FS_Subset
<1> QED
  BY <1>3, <1>5, <1>9, <1>10

\* Equal values have equal sums.
LEMMA SumOfEquals ==
  ASSUME NEW f, NEW g, NEW S, IsFiniteSet(S), \A x \in S : f[x] = g[x]
  PROVE  SumOver(f, S) = SumOver(g, S)
<1> DEFINE F == {T \in SUBSET S : SumOver(f, T) # SumOver(g, T)}
<1>1. SUFFICES ASSUME F # {} PROVE FALSE
  OBVIOUS
<1>2. PICK T \in F : \A U \in F : U \subseteq T => U = T
  <2> F \in SUBSET (SUBSET S)
    OBVIOUS
  <2> HIDE DEF F
  <2> QED
    BY <1>1, LeastSet
<1>3. T # {} /\ IsFiniteSet(T) /\ T \subseteq S
  BY SumOfNone, FS_Subset
<1>4. First(T) \in T
  BY <1>3, FirstIn
<1>5. SumOver(f, T \ {First(T)}) = SumOver(g, T \ {First(T)})
  BY <1>2, <1>4
<1> QED
  BY <1>3, <1>4, <1>5, SumFromFirst

\* Adding one member, with the values of the others unchanged, adds its value.
LEMMA SumWithOneMore ==
  ASSUME NEW f, NEW g, NEW S, IsFiniteSet(S), NEW x, x \notin S,
         \A y \in S : g[y] = f[y] /\ f[y] \in Int, g[x] \in Int
  PROVE  SumOver(g, S \cup {x}) = SumOver(f, S) + g[x]
<1>1. IsFiniteSet(S \cup {x}) /\ (S \cup {x}) \ {x} = S
  BY FS_AddElement
<1>2. SumOver(g, S \cup {x}) = g[x] + SumOver(g, S)
  <2>1. \A y \in S \cup {x} : g[y] \in Int
    OBVIOUS
  <2> QED
    BY <1>1, <2>1, SumFromAny
<1>3. SumOver(g, S) = SumOver(f, S)
  BY SumOfEquals
<1>4. SumOver(f, S) \in Int
  BY SumIsInt
<1> QED
  BY <1>2, <1>3, <1>4

\* The only value of a one-element set is its sum.
LEMMA SumOfOne ==
  ASSUME NEW x, NEW f, f[x] \in Int
  PROVE  SumOver(f, {x}) = f[x]
<1>1. SumOver(f, {x}) = f[x] + SumOver(f, {x} \ {x})
  BY SumFromAny, FS_Singleton
<1> QED
  BY <1>1, SumOfNone

\* Sums can be added value by value.
LEMMA SumOfSums ==
  ASSUME NEW f, NEW g, NEW h, NEW S, IsFiniteSet(S),
         \A x \in S : f[x] \in Int /\ g[x] \in Int /\ h[x] = f[x] + g[x]
  PROVE  SumOver(h, S) = SumOver(f, S) + SumOver(g, S)
<1> DEFINE F == {T \in SUBSET S : SumOver(h, T) # SumOver(f, T) + SumOver(g, T)}
<1>1. SUFFICES ASSUME F # {} PROVE FALSE
  OBVIOUS
<1>2. PICK T \in F : \A U \in F : U \subseteq T => U = T
  <2> F \in SUBSET (SUBSET S)
    OBVIOUS
  <2> HIDE DEF F
  <2> QED
    BY <1>1, LeastSet
<1>3. T # {} /\ IsFiniteSet(T) /\ T \subseteq S
  <2>1. SumOver(h, {}) = SumOver(f, {}) + SumOver(g, {})
    BY SumOfNone
  <2> QED
    BY <2>1, FS_Subset
<1> DEFINE x == First(T)
           R == T \ {x}
<1>4. x \in T /\ x \in S
  BY <1>3, FirstIn
<1>5. SumOver(h, R) = SumOver(f, R) + SumOver(g, R)
  BY <1>2, <1>4
<1>6. SumOver(f, R) \in Int /\ SumOver(g, R) \in Int
  BY <1>3, SumIsInt, FS_Subset
<1>7. /\ SumOver(h, T) = h[x] + SumOver(h, R)
      /\ SumOver(f, T) = f[x] + SumOver(f, R)
      /\ SumOver(g, T) = g[x] + SumOver(g, R)
  BY <1>3, SumFromFirst
<1> HIDE DEF x, R
<1> QED
  BY <1>2, <1>4, <1>5, <1>6, <1>7

\* A sum of zeros is zero.
LEMMA SumOfZeros ==
  ASSUME NEW f, NEW S, IsFiniteSet(S), \A x \in S : f[x] = 0
  PROVE  SumOver(f, S) = 0
<1>1. SumOver(f, S) = SumOver(f, S) + SumOver(f, S)
  BY SumOfSums
<1>2. SumOver(f, S) \in Int
  BY SumIsInt
<1>3. \A n \in Int : n = n + n => n = 0
  OBVIOUS
<1> QED
  BY <1>1, <1>2, <1>3

\* The sum over a part is the sum over the whole of what the part contributes.
LEMMA SumOfPart ==
  ASSUME NEW f, NEW S, IsFiniteSet(S), NEW P \in SUBSET S, \A x \in P : f[x] \in Int
  PROVE  SumOver(f, P) = SumOver([x \in S |-> IF x \in P THEN f[x] ELSE 0], S)
<1> DEFINE g == [x \in S |-> IF x \in P THEN f[x] ELSE 0]
           F == {T \in SUBSET S : SumOver(g, T) # SumOver(f, T \cap P)}
<1>0. \A x \in S : /\ x \in P => g[x] = f[x]
                   /\ x \notin P => g[x] = 0
  OBVIOUS
<1> HIDE DEF g
<1>1. CASE F # {}
  <2>2. PICK T \in F : \A U \in F : U \subseteq T => U = T
    <3> F \in SUBSET (SUBSET S)
      OBVIOUS
    <3> HIDE DEF F
    <3> QED
      BY <1>1, LeastSet
  <2>3. T # {} /\ IsFiniteSet(T) /\ T \subseteq S /\ IsFiniteSet(T \cap P)
    <3>1. SumOver(g, {}) = SumOver(f, {} \cap P)
      BY SumOfNone
    <3> QED
      BY <3>1, FS_Subset
  <2> DEFINE x == First(T)
             R == T \ {x}
  <2>4. x \in T /\ x \in S
    BY <2>3, FirstIn
  <2>5. SumOver(g, R) = SumOver(f, R \cap P)
    BY <2>2, <2>4
  <2>6. SumOver(g, T) = g[x] + SumOver(g, R)
    BY <2>3, SumFromFirst
  <2>7. CASE x \in P
    <3>1. SumOver(f, T \cap P) = f[x] + SumOver(f, (T \cap P) \ {x})
      BY <2>3, <2>4, <2>7, SumFromAny
    <3>2. (T \cap P) \ {x} = R \cap P
      OBVIOUS
    <3> QED
      BY <1>0, <2>2, <2>4, <2>5, <2>6, <2>7, <3>1, <3>2
  <2>8. CASE x \notin P
    <3>1. T \cap P = R \cap P
      BY <2>8
    <3>2. SumOver(f, R \cap P) \in Int
      BY <2>3, SumIsInt, FS_Subset
    <3>3. g[x] = 0
      BY <1>0, <2>4, <2>8
    <3>4. SumOver(g, T) = SumOver(f, R \cap P)
      <4> HIDE DEF x, R
      <4> QED
        BY <2>5, <2>6, <3>2, <3>3
    <3> QED
      BY <2>2, <3>1, <3>4
  <2> QED
    BY <2>7, <2>8
<1>2. CASE F = {}
  <2>1. SumOver(g, S) = SumOver(f, S \cap P) /\ S \cap P = P
    BY <1>2
  <2> QED
    BY <2>1 DEF g
<1> QED
  BY <1>1, <1>2

\* When one value changes, the sum changes by as much.
LEMMA SumOfOneChange ==
  ASSUME NEW f, NEW g, NEW S, IsFiniteSet(S), NEW x \in S,
         \A y \in S : f[y] \in Int /\ g[y] \in Int /\ (y # x => g[y] = f[y])
  PROVE  SumOver(g, S) = SumOver(f, S) - f[x] + g[x]
<1> DEFINE R == S \ {x}
<1>1. IsFiniteSet(R)
  BY FS_Subset
<1>2. SumOver(f, S) = f[x] + SumOver(f, R) /\ SumOver(g, S) = g[x] + SumOver(g, R)
  BY SumFromAny
<1>3. SumOver(g, R) = SumOver(f, R) /\ SumOver(f, R) \in Int
  BY <1>1, SumOfEquals, SumIsInt
<1>4. f[x] \in Int /\ g[x] \in Int
  OBVIOUS
<1> HIDE DEF R
<1> QED
  BY <1>2, <1>3, <1>4

-----------------------------------------------------------------------------
(* The ledger.                                                             *)

\* A recorded operation is told from a missing one by its status.
LEMMA CompletedIsRecorded ==
  ASSUME NEW e
  PROVE  Completed(e) # NoOperation /\ Completed(e).entries = e
BY DEF Completed, NoOperation

LEMMA NegatedType ==
  ASSUME NEW e \in Entries
  PROVE  Negated(e) \in Entries
BY DEF Negated, Entries

\* What a new operation does to its key and to no other.
LEMMA NewOperationStep ==
  ASSUME LedgerTypeOK, NEW k \in Keys, NEW e \in Entries,
         Post(e), operation' = [operation EXCEPT ![k] = Completed(e)]
  PROVE  /\ LedgerTypeOK'
         /\ operation'[k] = Completed(e)
         /\ \A j \in Keys \ {k} : operation'[j] = operation[j]
BY DEF LedgerTypeOK, Post, Operations, Completed

\* What a reversal does to the operation, to its reversal and to no other key.
LEMMA ReversalStep ==
  ASSUME LedgerTypeOK, NEW k \in DOMAIN ReversalKey, ReverseOperation(k)
  PROVE  /\ LedgerTypeOK'
         /\ ReversalKey[k] \in Keys \ {k}
         /\ k \in Keys
         /\ operation[ReversalKey[k]] = NoOperation
         /\ operation'[ReversalKey[k]] = Completed(Negated(operation[k].entries))
         /\ operation'[k] = [operation[k] EXCEPT !.status = "reversed"]
         /\ \A j \in Keys \ {k, ReversalKey[k]} : operation'[j] = operation[j]
<1> DEFINE r == ReversalKey[k]
<1>1. k \in Keys /\ r \in Keys \ {k}
  BY LedgerAssumption
<1>2. Negated(operation[k].entries) \in Entries
  BY <1>1, NegatedType DEF LedgerTypeOK, Operations
<1>3. /\ Post(Negated(operation[k].entries))
      /\ operation[r] = NoOperation
      /\ operation' = [operation EXCEPT ![k].status = "reversed",
                                        ![r] = Completed(Negated(operation[k].entries))]
  BY DEF ReverseOperation
<1>4. balance' \in [Accounts -> Nat]
  BY <1>3 DEF Post
<1>5. operation'[r] = Completed(Negated(operation[k].entries))
  BY <1>1, <1>3 DEF LedgerTypeOK
<1>6. operation'[k] = [operation[k] EXCEPT !.status = "reversed"]
  BY <1>1, <1>3 DEF LedgerTypeOK
<1>7. \A j \in Keys \ {k, r} : operation'[j] = operation[j]
  BY <1>1, <1>3 DEF LedgerTypeOK
<1>8. operation' \in [Keys -> Operations]
  <2>1. Completed(Negated(operation[k].entries)) \in Operations
    BY <1>2 DEF Completed, Operations
  <2>2. [operation[k] EXCEPT !.status = "reversed"] \in Operations
    BY <1>1 DEF LedgerTypeOK, Operations
  <2> QED
    BY <1>3, <2>1, <2>2, <1>5, <1>6, <1>7 DEF LedgerTypeOK
<1> QED
  BY <1>1, <1>3, <1>4, <1>5, <1>6, <1>7, <1>8 DEF LedgerTypeOK

-----------------------------------------------------------------------------
\* No step of the ledger takes a balance below zero.
LEMMA LedgerTypingStep == LedgerTypeOK /\ [LedgerNext]_ledgerVars => LedgerTypeOK'
<1> SUFFICES ASSUME LedgerTypeOK, [LedgerNext]_ledgerVars
             PROVE  LedgerTypeOK'
  OBVIOUS
<1>1. ASSUME NEW k \in BusinessKeys, NEW e \in Requests, ApplyOperation(k, e)
      PROVE  LedgerTypeOK'
  <2>1. k \in Keys /\ e \in Entries
    BY LedgerAssumption DEF BusinessKeys
  <2>2. CASE operation[k] = NoOperation
    <3>1. Post(e) /\ operation' = [operation EXCEPT ![k] = Completed(e)]
      BY <1>1, <2>2 DEF ApplyOperation
    <3> QED
      BY <2>1, <3>1, NewOperationStep
  <2>3. CASE operation[k] # NoOperation
    BY <1>1, <2>3 DEF ApplyOperation, ledgerVars, LedgerTypeOK
  <2> QED
    BY <2>2, <2>3
<1>2. ASSUME NEW k \in DOMAIN ReversalKey, ReverseOperation(k)
      PROVE  LedgerTypeOK'
  BY <1>2, ReversalStep
<1>3. CASE UNCHANGED ledgerVars
  BY <1>3 DEF ledgerVars, LedgerTypeOK
<1> QED
  BY <1>1, <1>2, <1>3 DEF LedgerNext

\* Balances never go below zero and rows are well-formed, whatever operations,
\* replays and reversals applyOperation and reverseOperation are asked for.
THEOREM LedgerTyping == LedgerSpec => []LedgerTypeOK
<1>1. LedgerInit => LedgerTypeOK
  BY DEF LedgerInit, LedgerTypeOK, NoOperation, Operations, Entries
<1>2. LedgerTypeOK /\ [LedgerNext]_ledgerVars => LedgerTypeOK'
  BY LedgerTypingStep
<1> QED
  BY <1>1, <1>2, PTL DEF LedgerSpec

-----------------------------------------------------------------------------
\* One step of the ledger keeps operations and their reversals paired.  The
\* pairing is inductive with the types: a fresh business operation is no
\* reversal, and distinct operations have distinct reversals.
LEMMA ReversalsCancelStep ==
  ASSUME LedgerTypeOK, ReversalsCancel, [LedgerNext]_ledgerVars
  PROVE  ReversalsCancel'
<1> SUFFICES ASSUME NEW j \in DOMAIN ReversalKey
             PROVE  LET r == ReversalKey[j]
                    IN  /\ operation'[j].status = "reversed" <=> operation'[r] # NoOperation
                        /\ operation'[r] # NoOperation =>
                             operation'[r].entries = Negated(operation'[j].entries)
  BY DEF ReversalsCancel
<1> DEFINE r == ReversalKey[j]
<1>1. /\ j \in Keys /\ r \in Keys /\ r # j
      /\ operation[j].status = "reversed" <=> operation[r] # NoOperation
      /\ operation[r] # NoOperation => operation[r].entries = Negated(operation[j].entries)
  BY LedgerAssumption DEF ReversalsCancel
<1>2. ASSUME NEW k \in BusinessKeys, NEW e \in Requests, ApplyOperation(k, e),
             operation[k] = NoOperation
      PROVE  /\ operation'[j].status = "reversed" <=> operation'[r] # NoOperation
             /\ operation'[r] # NoOperation => operation'[r].entries = Negated(operation'[j].entries)
  <2>1. k \in Keys /\ e \in Entries /\ r # k
    BY LedgerAssumption DEF BusinessKeys
  <2>2. Post(e) /\ operation' = [operation EXCEPT ![k] = Completed(e)]
    BY <1>2, CompletedIsRecorded DEF ApplyOperation
  <2>3. operation'[k] = Completed(e) /\ operation'[r] = operation[r]
    BY <1>1, <2>1, <2>2, NewOperationStep
  <2>4. CASE j = k
    BY <1>1, <1>2, <2>3, <2>4 DEF Completed, NoOperation
  <2>5. CASE j # k
    BY <1>1, <2>1, <2>2, <2>3, <2>5, NewOperationStep
  <2> QED
    BY <2>4, <2>5
<1>3. ASSUME NEW k \in DOMAIN ReversalKey, ReverseOperation(k)
      PROVE  /\ operation'[j].status = "reversed" <=> operation'[r] # NoOperation
             /\ operation'[r] # NoOperation => operation'[r].entries = Negated(operation'[j].entries)
  <2> DEFINE s == ReversalKey[k]
  <2>1. /\ s \in Keys \ {k} /\ k \in Keys
        /\ operation[s] = NoOperation
        /\ operation'[s] = Completed(Negated(operation[k].entries))
        /\ operation'[k] = [operation[k] EXCEPT !.status = "reversed"]
        /\ \A i \in Keys \ {k, s} : operation'[i] = operation[i]
    BY <1>3, ReversalStep
  <2>2. operation[k].status = "completed" /\ operation[k] # NoOperation
    BY <1>3 DEF ReverseOperation, NoOperation
  <2>3. operation[k] \in Operations
    BY <2>1 DEF LedgerTypeOK
  <2>4. operation'[k].status = "reversed" /\ operation'[k].entries = operation[k].entries
    BY <2>1, <2>3 DEF Operations
  <2>5. CASE j = k
    <3>1. r = s
      BY <2>5
    <3>2. /\ operation'[s] # NoOperation
          /\ operation'[s].entries = Negated(operation[k].entries)
      BY <2>1, CompletedIsRecorded
    <3> QED
      BY <2>4, <2>5, <3>1, <3>2
  <2>6. CASE j # k
    <3>1. r # s
      BY <2>6, LedgerAssumption
    <3>2. operation'[r] # NoOperation <=> operation[r] # NoOperation
      BY <1>1, <2>1, <2>2, <2>4, <3>1 DEF NoOperation
    <3>3. operation'[r].entries = operation[r].entries
      BY <1>1, <2>1, <2>4, <3>1
    <3>4. CASE j = s
      <4>1. operation[r] = NoOperation /\ operation'[j].status = "completed"
        BY <1>1, <2>1, <3>4 DEF NoOperation, Completed
      <4> QED
        BY <3>2, <4>1
    <3>5. CASE j # s
      BY <1>1, <2>1, <2>6, <3>2, <3>3, <3>5
    <3> QED
      BY <3>4, <3>5
  <2> QED
    BY <2>5, <2>6
<1>4. CASE UNCHANGED ledgerVars
  BY <1>1, <1>4 DEF ledgerVars
<1>5. ASSUME NEW k \in BusinessKeys, NEW e \in Requests, ApplyOperation(k, e),
             operation[k] # NoOperation
      PROVE  UNCHANGED ledgerVars
  BY <1>5 DEF ApplyOperation
<1> QED
  BY <1>2, <1>3, <1>4, <1>5 DEF LedgerNext

\* An operation is marked reversed exactly when its reversal is recorded with
\* the opposite entries: reverseOperation never undoes an operation twice.
THEOREM LedgerReversals == LedgerSpec => []ReversalsCancel
<1>1. LedgerInit => ReversalsCancel
  <2> SUFFICES ASSUME LedgerInit, NEW k \in DOMAIN ReversalKey
               PROVE  operation[k] = NoOperation /\ operation[ReversalKey[k]] = NoOperation
    BY DEF ReversalsCancel, NoOperation
  <2> QED
    BY LedgerAssumption DEF LedgerInit
<1>2. LedgerTypeOK /\ ReversalsCancel /\ [LedgerNext]_ledgerVars => ReversalsCancel'
  BY ReversalsCancelStep
<1> QED
  BY <1>1, <1>2, LedgerTyping, PTL DEF LedgerSpec

-----------------------------------------------------------------------------
\* The ledger only grows: recorded entries are never rewritten, whatever is
\* replayed or reversed later.
THEOREM LedgerAppends == LedgerSpec => LedgerIsAppendOnly
<1> DEFINE Kept(k) ==
      /\ operation'[k].entries = operation[k].entries
      /\ operation'[k].status # operation[k].status =>
           operation[k].status = "completed" /\ operation'[k].status = "reversed"
<1>1. LedgerTypeOK /\ [LedgerNext]_ledgerVars => [\A k \in Recorded : Kept(k)]_ledgerVars
  <2> SUFFICES ASSUME LedgerTypeOK, LedgerNext, NEW j \in Recorded
               PROVE  Kept(j)
    OBVIOUS
  <2>1. j \in Keys /\ operation[j] # NoOperation
    BY DEF Recorded
  <2>2. ASSUME NEW k \in BusinessKeys, NEW e \in Requests, ApplyOperation(k, e)
        PROVE  Kept(j)
    <3>1. CASE operation[k] = NoOperation
      <4>1. Post(e) /\ operation' = [operation EXCEPT ![k] = Completed(e)]
        BY <2>2, <3>1 DEF ApplyOperation
      <4> QED
        BY <2>1, <3>1, <4>1, LedgerAssumption, NewOperationStep DEF BusinessKeys
    <3>2. CASE operation[k] # NoOperation
      BY <2>2, <3>2 DEF ApplyOperation, ledgerVars
    <3> QED
      BY <3>1, <3>2
  <2>3. ASSUME NEW k \in DOMAIN ReversalKey, ReverseOperation(k)
        PROVE  Kept(j)
    <3>1. /\ k \in Keys
          /\ operation[ReversalKey[k]] = NoOperation
          /\ operation'[k] = [operation[k] EXCEPT !.status = "reversed"]
          /\ \A i \in Keys \ {k, ReversalKey[k]} : operation'[i] = operation[i]
      BY <2>3, ReversalStep
    <3>2. operation[k].status = "completed" /\ operation[k] \in Operations
      BY <2>3, <3>1 DEF ReverseOperation, LedgerTypeOK
    <3> QED
      BY <2>1, <3>1, <3>2 DEF Operations
  <2> QED
    BY <2>2, <2>3 DEF LedgerNext
<1> QED
  BY <1>1, LedgerTyping, PTL DEF LedgerSpec, LedgerIsAppendOnly

\* Points move only together with one newly recorded operation and by exactly
\* its entries: a replayed applyOperation moves nothing.
THEOREM PointsFollowLedger == LedgerSpec => PointsMoveWithOperation
<1> DEFINE Posted(k) ==
      /\ \A j \in Keys \ {k} : operation[j] = NoOperation => operation'[j] = NoOperation
      /\ operation'[k] # NoOperation
      /\ \A a \in Accounts : balance'[a] = balance[a] + operation'[k].entries[a]
<1>1. LedgerTypeOK /\ [LedgerNext]_ledgerVars =>
        [balance' # balance => \E k \in Keys \ Recorded : Posted(k)]_ledgerVars
  <2> SUFFICES ASSUME LedgerTypeOK, LedgerNext, balance' # balance
               PROVE  \E k \in Keys \ Recorded : Posted(k)
    OBVIOUS
  <2>1. ASSUME NEW k \in BusinessKeys, NEW e \in Requests, ApplyOperation(k, e)
        PROVE  \E i \in Keys \ Recorded : Posted(i)
    <3>1. operation[k] = NoOperation /\ Post(e) /\ operation' = [operation EXCEPT ![k] = Completed(e)]
      BY <2>1 DEF ApplyOperation, ledgerVars
    <3>2. k \in Keys \ Recorded /\ e \in Entries
      BY <3>1, LedgerAssumption DEF BusinessKeys, Recorded
    <3>3. /\ operation'[k] = Completed(e)
          /\ \A j \in Keys \ {k} : operation'[j] = operation[j]
      BY <3>1, <3>2, NewOperationStep
    <3>4. Posted(k)
      BY <3>1, <3>3, CompletedIsRecorded DEF Post
    <3> QED
      BY <3>2, <3>4
  <2>2. ASSUME NEW k \in DOMAIN ReversalKey, ReverseOperation(k)
        PROVE  \E i \in Keys \ Recorded : Posted(i)
    <3> DEFINE r == ReversalKey[k]
    <3>1. /\ r \in Keys \ {k} /\ k \in Keys
          /\ operation[r] = NoOperation
          /\ operation'[r] = Completed(Negated(operation[k].entries))
          /\ \A j \in Keys \ {k, r} : operation'[j] = operation[j]
      BY <2>2, ReversalStep
    <3>2. operation[k] # NoOperation /\ Post(Negated(operation[k].entries))
      BY <2>2 DEF ReverseOperation, NoOperation
    <3>3. Posted(r)
      BY <3>1, <3>2, CompletedIsRecorded DEF Post
    <3> QED
      BY <3>1, <3>3 DEF Recorded
  <2> QED
    BY <2>1, <2>2 DEF LedgerNext
<1> QED
  BY <1>1, LedgerTyping, PTL DEF LedgerSpec, PointsMoveWithOperation

-----------------------------------------------------------------------------
\* What balances and entries have to agree on: only finitely many operations
\* have been recorded, so that their entries have a sum.
LedgerBalanced == IsFiniteSet(Recorded) /\ BalancesMatchEntries

\* Recording one operation together with its wallet update keeps them agreed.
LEMMA PostedIsBalanced ==
  ASSUME LedgerTypeOK, LedgerTypeOK', LedgerBalanced,
         NEW k \in Keys \ Recorded, NEW e \in Entries, Post(e),
         operation'[k] = Completed(e),
         \A j \in Recorded : operation'[j] # NoOperation /\ operation'[j].entries = operation[j].entries,
         \A j \in Keys \ (Recorded \cup {k}) : operation'[j] = NoOperation
  PROVE  LedgerBalanced'
<1>1. Recorded' = Recorded \cup {k}
  BY CompletedIsRecorded DEF Recorded
<1>2. IsFiniteSet(Recorded')
  BY <1>1, FS_AddElement DEF LedgerBalanced
<1>3. ASSUME NEW a \in Accounts
      PROVE  balance'[a] = SumOver([j \in Recorded' |-> operation'[j].entries[a]], Recorded')
  <2> DEFINE f == [j \in Recorded |-> operation[j].entries[a]]
             g == [j \in Recorded' |-> operation'[j].entries[a]]
  <2>1. balance'[a] = balance[a] + e[a] /\ e[a] \in Int
    BY DEF Post, Entries
  <2>2. balance[a] = SumOver(f, Recorded)
    BY DEF LedgerBalanced, BalancesMatchEntries
  <2>3. g[k] = e[a]
    BY <1>1, CompletedIsRecorded
  <2>4. \A j \in Recorded : g[j] = f[j] /\ f[j] \in Int
    BY <1>1 DEF LedgerTypeOK, Operations, Entries, Recorded
  <2>5. SumOver(g, Recorded \cup {k}) = SumOver(f, Recorded) + g[k]
    <3> HIDE DEF f, g
    <3> QED
      BY <2>1, <2>3, <2>4, SumWithOneMore DEF LedgerBalanced
  <2> QED
    BY <1>1, <2>1, <2>2, <2>3, <2>5
<1> QED
  BY <1>2, <1>3 DEF LedgerBalanced, BalancesMatchEntries

LEMMA BalancedStep == LedgerTypeOK /\ LedgerBalanced /\ [LedgerNext]_ledgerVars => LedgerBalanced'
<1> SUFFICES ASSUME LedgerTypeOK, LedgerBalanced, [LedgerNext]_ledgerVars
             PROVE  LedgerBalanced'
  OBVIOUS
<1>0. LedgerTypeOK'
  BY LedgerTypingStep
<1>1. CASE UNCHANGED ledgerVars
  BY <1>1 DEF ledgerVars, LedgerBalanced, BalancesMatchEntries, Recorded
<1>2. ASSUME NEW k \in BusinessKeys, NEW e \in Requests, ApplyOperation(k, e)
      PROVE  LedgerBalanced'
  <2>1. CASE operation[k] = NoOperation
    <3>1. Post(e) /\ operation' = [operation EXCEPT ![k] = Completed(e)]
      BY <1>2, <2>1, CompletedIsRecorded DEF ApplyOperation
    <3>2. k \in Keys \ Recorded /\ e \in Entries
      BY <2>1, LedgerAssumption DEF BusinessKeys, Recorded
    <3>3. /\ operation'[k] = Completed(e)
          /\ \A j \in Keys \ {k} : operation'[j] = operation[j]
      BY <3>1, <3>2, NewOperationStep
    <3> QED
      BY <1>0, <3>1, <3>2, <3>3, PostedIsBalanced DEF Recorded
  <2>2. CASE operation[k] # NoOperation
    BY <1>1, <1>2, <2>2 DEF ApplyOperation
  <2> QED
    BY <2>1, <2>2
<1>3. ASSUME NEW k \in DOMAIN ReversalKey, ReverseOperation(k)
      PROVE  LedgerBalanced'
  <2> DEFINE r == ReversalKey[k]
             e == Negated(operation[k].entries)
  <2>1. /\ r \in Keys \ {k} /\ k \in Keys
        /\ operation[r] = NoOperation
        /\ operation'[r] = Completed(e)
        /\ operation'[k] = [operation[k] EXCEPT !.status = "reversed"]
        /\ \A j \in Keys \ {k, r} : operation'[j] = operation[j]
    BY <1>3, ReversalStep
  <2>2. operation[k].status = "completed" /\ Post(e)
    BY <1>3 DEF ReverseOperation
  <2>3. operation[k] # NoOperation /\ operation[k] \in Operations /\ e \in Entries
    BY <2>1, <2>2, NegatedType DEF LedgerTypeOK, NoOperation, Operations
  <2>4. operation'[k] # NoOperation /\ operation'[k].entries = operation[k].entries
    BY <2>1, <2>3 DEF Operations, NoOperation
  <2>5. \A j \in Recorded : operation'[j] # NoOperation /\ operation'[j].entries = operation[j].entries
    BY <2>1, <2>4 DEF Recorded
  <2>6. \A j \in Keys \ (Recorded \cup {r}) : operation'[j] = NoOperation
    BY <2>1, <2>3 DEF Recorded
  <2>7. r \in Keys \ Recorded
    BY <2>1 DEF Recorded
  <2> HIDE DEF r, e
  <2> QED
    BY <1>0, <2>1, <2>2, <2>3, <2>5, <2>6, <2>7, PostedIsBalanced
<1> QED
  BY <1>1, <1>2, <1>3 DEF LedgerNext

\* Every balance is the sum of the ledger entries of its account, whatever is
\* applied, replayed and reversed: no entry is posted twice or without its
\* wallet update.
THEOREM LedgerBalances == LedgerSpec => []BalancesMatchEntries
<1>1. LedgerInit => LedgerBalanced
  <2> SUFFICES ASSUME LedgerInit PROVE LedgerBalanced
    OBVIOUS
  <2>1. Recorded = {}
    BY DEF LedgerInit, Recorded
  <2>2. \A a \in Accounts : balance[a] = 0
    BY DEF LedgerInit
  <2> QED
    BY <2>1, <2>2, SumOfNone, FS_EmptySet DEF LedgerBalanced, BalancesMatchEntries
<1>2. LedgerBalanced => BalancesMatchEntries
  BY DEF LedgerBalanced
<1> QED
  BY <1>1, <1>2, BalancedStep, LedgerTyping, PTL DEF LedgerSpec
=============================================================================
