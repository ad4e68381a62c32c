---- MODULE SumTheorems ----
(***************************************************************************)
(* Facts about SumFunctionOnSet, with which the modules add up postings,   *)
(* spending and donations.  They are proved from the definition of the     *)
(* fold, by looking at a smallest set a fact could be wrong for.           *)
(***************************************************************************)
EXTENDS Integers, Functions, FiniteSetTheorems, TLAPS

(* Any family of finite subsets has one that contains no other.            *)
LEMMA MinimalSubset ==
    ASSUME NEW S, IsFiniteSet(S), NEW F, F \subseteq SUBSET S, F # {}
    PROVE  \E T \in F : \A U \in F : ~(U \subseteq T /\ U # T)
<1>1. FiniteSubsetsOf(S) = SUBSET S
  BY FS_FiniteSubsetsOfFinite
<1>2. IsWellFoundedOn(StrictSubsetOrdering(S), SUBSET S)
  BY <1>1, FS_StrictSubsetOrderingWellFounded
<1>3. \E T \in F : \A U \in F : ~(<<U, T>> \in StrictSubsetOrdering(S))
  BY <1>2, WFMin
<1> QED
  BY <1>3 DEF StrictSubsetOrdering

----
Pick(s) == CHOOSE x \in s : TRUE

(* g adds up f over every subset of S.                                     *)
Adds(g, f, S) ==
    g = [s \in SUBSET S |-> IF s = {} THEN 0 ELSE f[Pick(s)] + g[s \ {Pick(s)}]]

LEMMA SumIsChosen ==
    ASSUME NEW f, NEW S
    PROVE  SumFunctionOnSet(f, S) = (CHOOSE g : Adds(g, f, S))[S]
BY DEF SumFunctionOnSet, FoldFunctionOnSet, MapThenFoldSet, Adds, Pick

(* What one more step of the definition gives.                             *)
Unfolded(f, s) == IF s = {} THEN 0 ELSE f[Pick(s)] + SumFunctionOnSet(f, s \ {Pick(s)})

LEMMA PickIn == ASSUME NEW s, s # {} PROVE Pick(s) \in s
BY DEF Pick

(* At most one function adds up f.                                         *)
LEMMA AddsOnce ==
    ASSUME NEW f, NEW S, IsFiniteSet(S), NEW g, NEW h, Adds(g, f, S), Adds(h, f, S)
    PROVE  g = h
<1> DEFINE F == {s \in SUBSET S : g[s] # h[s]}
<1>1. \A s \in SUBSET S : /\ g[s] = IF s = {} THEN 0 ELSE f[Pick(s)] + g[s \ {Pick(s)}]
                          /\ h[s] = IF s = {} THEN 0 ELSE f[Pick(s)] + h[s \ {Pick(s)}]
  BY DEF Adds
<1>2. F = {}
  <2> SUFFICES ASSUME F # {} PROVE FALSE
    OBVIOUS
  <2>0. F \subseteq SUBSET S
    OBVIOUS
  <2>1. PICK s \in F : \A u \in F : ~(u \subseteq s /\ u # s)
    <3> HIDE DEF F
    <3> QED
      BY <2>0, MinimalSubset
  <2>2. s # {}
    BY <1>1
  <2>3. s \ {Pick(s)} \subseteq s /\ s \ {Pick(s)} # s
    BY <2>2, PickIn
  <2>4. g[s \ {Pick(s)}] = h[s \ {Pick(s)}]
    BY <2>1, <2>3
  <2> QED
    BY <1>1, <2>2, <2>4
<1>3. \A s \in SUBSET S : g[s] = h[s]
  BY <1>2
<1>4. /\ g = [s \in SUBSET S |-> g[s]]
      /\ h = [s \in SUBSET S |-> h[s]]
  BY DEF Adds
<1> QED
  BY <1>3, <1>4

LEMMA SumUnfolds ==
    ASSUME NEW f, NEW S, IsFiniteSet(S)
    PROVE  SumFunctionOnSet(f, S) = Unfolded(f, S)
<1> DEFINE F == {s \in SUBSET S : SumFunctionOnSet(f, s) # Unfolded(f, s)}
<1> SUFFICES ASSUME F # {} PROVE FALSE
  OBVIOUS
<1>0. F \subseteq SUBSET S
  OBVIOUS
<1>1. PICK T \in F : \A U \in F : ~(U \subseteq T /\ U # T)
  <2> HIDE DEF F
  <2> QED
    BY <1>0, MinimalSubset
<1>2. \A u \in SUBSET T : u # T => SumFunctionOnSet(f, u) = Unfolded(f, u)
  BY <1>1
<1> DEFINE g == [s \in SUBSET T |-> Unfolded(f, s)]
<1>3. Adds(g, f, T)
  <2>1. ASSUME NEW s \in SUBSET T, s # {}
        PROVE  SumFunctionOnSet(f, s \ {Pick(s)}) = g[s \ {Pick(s)}]
    <3>1. s \ {Pick(s)} \in SUBSET T /\ s \ {Pick(s)} # T
      BY <2>1, PickIn
    <3> QED
      BY <1>2, <3>1
  <2>2. \A s \in SUBSET T :
          Unfolded(f, s) = IF s = {} THEN 0 ELSE f[Pick(s)] + g[s \ {Pick(s)}]
    BY <2>1 DEF Unfolded
  <2> QED
    BY <2>2 DEF Adds
<1>4. Adds((CHOOSE h : Adds(h, f, T)), f, T)
  BY <1>3
<1>5. IsFiniteSet(T)
  BY FS_Subset
<1>6. (CHOOSE h : Adds(h, f, T)) = g
  BY <1>3, <1>4, <1>5, AddsOnce
<1>7. SumFunctionOnSet(f, T) = Unfolded(f, T)
  BY <1>6, SumIsChosen
<1> QED
  BY <1>7

----
(* The sum over no element.                                                *)
LEMMA SumEmpty == ASSUME NEW f PROVE SumFunctionOnSet(f, {}) = 0
BY SumUnfolds, FS_EmptySet DEF Unfolded

(* A sum of integers is one.                                               *)
LEMMA SumInt ==
    ASSUME NEW f, NEW S, IsFiniteSet(S), \A x \in S : f[x] \in Int
    PROVE  SumFunctionOnSet(f, S) \in Int
<1> DEFINE F == {s \in SUBSET S : SumFunctionOnSet(f, s) \notin Int}
<1> SUFFICES ASSUME F # {} PROVE FALSE
  OBVIOUS
<1>0. F \subseteq SUBSET S
  OBVIOUS
<1>1. PICK T \in F : \A U \in F : ~(U \subseteq T /\ U # T)
  <2> HIDE DEF F
  <2> QED
    BY <1>0, MinimalSubset
<1>2. IsFiniteSet(T)
  BY FS_Subset
<1>3. SumFunctionOnSet(f, T) = Unfolded(f, T)
  BY <1>2, SumUnfolds
<1>4. CASE T = {}
  BY <1>3, <1>4 DEF Unfolded
<1>5. CASE T # {}
  <2>1. Pick(T) \in T /\ T \ {Pick(T)} \subseteq T /\ T \ {Pick(T)} # T
    BY <1>5, PickIn
  <2>2. SumFunctionOnSet(f, T \ {Pick(T)}) \in Int /\ f[Pick(T)] \in Int
    BY <1>1, <2>1
  <2> QED
    BY <1>3, <1>5, <2>2 DEF Unfolded
<1> QED
  BY <1>4, <1>5

(* Any element may be the first.                                           *)
LEMMA SumRemove ==
    ASSUME NEW f, NEW S, IsFiniteSet(S), \A x \in S : f[x] \in Int, NEW e \in S
    PROVE  SumFunctionOnSet(f, S) = f[e] + SumFunctionOnSet(f, S \ {e})
<1> DEFINE Wrong(s, x) == SumFunctionOnSet(f, s) # f[x] + SumFunctionOnSet(f, s \ {x})
           F == {s \in SUBSET S : \E x \in s : Wrong(s, x)}
<1> SUFFICES ASSUME F # {} PROVE FALSE
  OBVIOUS
<1>0. F \subseteq SUBSET S
  OBVIOUS
<1>1. PICK T \in F : \A U \in F : ~(U \subseteq T /\ U # T)
  <2> HIDE DEF F
  <2> QED
    BY <1>0, MinimalSubset
<1>2. PICK x \in T : Wrong(T, x)
  BY <1>1
<1>3. /\ IsFiniteSet(T)
      /\ Pick(T) \in T
      /\ SumFunctionOnSet(f, T) = f[Pick(T)] + SumFunctionOnSet(f, T \ {Pick(T)})
  BY FS_Subset, SumUnfolds, PickIn DEF Unfolded
<1>4. x # Pick(T)
  BY <1>2, <1>3
<1>5. /\ T \ {Pick(T)} \notin F /\ x \in T \ {Pick(T)}
      /\ T \ {x} \notin F /\ Pick(T) \in T \ {x}
  BY <1>1, <1>3, <1>4
<1>6. /\ SumFunctionOnSet(f, T \ {Pick(T)})
           = f[x] + SumFunctionOnSet(f, (T \ {Pick(T)}) \ {x})
      /\ SumFunctionOnSet(f, T \ {x})
           = f[Pick(T)] + SumFunctionOnSet(f, (T \ {x}) \ {Pick(T)})
  BY <1>5
<1>7. (T \ {Pick(T)}) \ {x} = (T \ {x}) \ {Pick(T)}
  OBVIOUS
<1>8. SumFunctionOnSet(f, (T \ {x}) \ {Pick(T)}) \in Int
  <2>1. IsFiniteSet((T \ {x}) \ {Pick(T)})
    BY <1>3, FS_Subset
  <2> QED
    BY <2>1, SumInt
<1>9. f[x] \in Int /\ f[Pick(T)] \in Int
  BY <1>3
<1>10. SumFunctionOnSet(f, T) = f[Pick(T)] + (f[x] + SumFunctionOnSet(f, (T \ {x}) \ {Pick(T)}))
  BY <1>3, <1>6, <1>7
<1>11. SumFunctionOnSet(f, T) = f[x] + (f[Pick(T)] + SumFunctionOnSet(f, (T \ {x}) \ {Pick(T)}))
  BY <1>8, <1>9, <1>10
<1> QED
  BY <1>2, <1>6, <1>11

(* One more element.                                                       *)
LEMMA SumAdd ==
    ASSUME NEW f, NEW S, IsFiniteSet(S), \A x \in S : f[x] \in Int,
           NEW e, e \notin S, f[e] \in Int
    PROVE  SumFunctionOnSet(f, S \cup {e}) = SumFunctionOnSet(f, S) + f[e]
<1>1. IsFiniteSet(S \cup {e}) /\ (S \cup {e}) \ {e} = S
  BY FS_AddElement
<1>2. SumFunctionOnSet(f, S \cup {e}) = f[e] + SumFunctionOnSet(f, S)
  BY <1>1, SumRemove
<1> QED
  BY <1>2, SumInt

(* Two functions that agree on the set have the same sum.                  *)
LEMMA SumSame ==
    ASSUME NEW f, NEW g, NEW S, IsFiniteSet(S), \A x \in S : f[x] = g[x]
    PROVE  SumFunctionOnSet(f, S) = SumFunctionOnSet(g, S)
<1> DEFINE F == {s \in SUBSET S : SumFunctionOnSet(f, s) # SumFunctionOnSet(g, s)}
<1> SUFFICES ASSUME F # {} PROVE FALSE
  OBVIOUS
<1>0. F \subseteq SUBSET S
  OBVIOUS
<1>1. PICK T \in F : \A U \in F : ~(U \subseteq T /\ U # T)
  <2> HIDE DEF F
  <2> QED
    BY <1>0, MinimalSubset
<1>2. /\ SumFunctionOnSet(f, T) = Unfolded(f, T)
      /\ SumFunctionOnSet(g, T) = Unfolded(g, T)
  BY FS_Subset, SumUnfolds
<1>3. CASE T = {}
  BY <1>2, <1>3 DEF Unfolded
<1>4. CASE T # {}
  <2>1. Pick(T) \in T /\ T \ {Pick(T)} \subseteq T /\ T \ {Pick(T)} # T
    BY <1>4, PickIn
  <2>2. /\ SumFunctionOnSet(f, T \ {Pick(T)}) = SumFunctionOnSet(g, T \ {Pick(T)})
        /\ f[Pick(T)] = g[Pick(T)]
    BY <1>1, <2>1
  <2> QED
    BY <1>2, <1>4, <2>2 DEF Unfolded
<1> QED
  BY <1>3, <1>4

(* A sum of natural numbers is one.                                        *)
LEMMA SumNat ==
    ASSUME NEW f, NEW S, IsFiniteSet(S), \A x \in S : f[x] \in Nat
    PROVE  SumFunctionOnSet(f, S) \in Nat
<1> DEFINE F == {s \in SUBSET S : SumFunctionOnSet(f, s) \notin Nat}
<1> SUFFICES ASSUME F # {} PROVE FALSE
  OBVIOUS
<1>0. F \subseteq SUBSET S
  OBVIOUS
<1>1. PICK T \in F : \A U \in F : ~(U \subseteq T /\ U # T)
  <2> HIDE DEF F
  <2> QED
    BY <1>0, MinimalSubset
<1>2. SumFunctionOnSet(f, T) = Unfolded(f, T)
  BY FS_Subset, SumUnfolds
<1>3. CASE T = {}
  BY <1>2, <1>3 DEF Unfolded
<1>4. CASE T # {}
  <2>1. Pick(T) \in T /\ T \ {Pick(T)} \subseteq T /\ T \ {Pick(T)} # T
    BY <1>4, PickIn
  <2>2. SumFunctionOnSet(f, T \ {Pick(T)}) \in Nat /\ f[Pick(T)] \in Nat
    BY <1>1, <2>1
  <2> QED
    BY <1>2, <1>4, <2>2 DEF Unfolded
<1> QED
  BY <1>3, <1>4

(* A sum is that of a part and that of the rest.                           *)
LEMMA SumSplit ==
    ASSUME NEW f, NEW S, IsFiniteSet(S), \A x \in S : f[x] \in Int, NEW P, P \subseteq S
    PROVE  SumFunctionOnSet(f, S) = SumFunctionOnSet(f, P) + SumFunctionOnSet(f, S \ P)
<1> DEFINE Rest(s) == SumFunctionOnSet(f, S \ s)
           F == {s \in SUBSET S : SumFunctionOnSet(f, S) # SumFunctionOnSet(f, s) + Rest(s)}
<1> SUFFICES ASSUME F # {} PROVE FALSE
  OBVIOUS
<1>0. F \subseteq SUBSET S
  OBVIOUS
<1>1. PICK T \in F : \A U \in F : ~(U \subseteq T /\ U # T)
  <2> HIDE DEF F
  <2> QED
    BY <1>0, MinimalSubset
<1>2. \A s \in SUBSET S : SumFunctionOnSet(f, s) \in Int
  BY FS_Subset, SumInt
<1>3. T # {}
  <2>1. SumFunctionOnSet(f, {}) = 0 /\ SumFunctionOnSet(f, S \ {}) = SumFunctionOnSet(f, S)
    <3>1. S \ {} = S
      OBVIOUS
    <3> QED
      BY <3>1, SumEmpty
  <2>2. SumFunctionOnSet(f, S) = SumFunctionOnSet(f, {}) + SumFunctionOnSet(f, S \ {})
    BY <1>2, <2>1
  <2> QED
    BY <2>2
<1>4. PICK x \in T : TRUE
  BY <1>3
<1>5. SumFunctionOnSet(f, S) = SumFunctionOnSet(f, T \ {x}) + SumFunctionOnSet(f, S \ (T \ {x}))
  BY <1>1
<1>6. SumFunctionOnSet(f, T) = f[x] + SumFunctionOnSet(f, T \ {x})
  BY FS_Subset, SumRemove
<1>7. SumFunctionOnSet(f, S \ (T \ {x})) = f[x] + SumFunctionOnSet(f, S \ T)
  <2>1. IsFiniteSet(S \ (T \ {x})) /\ x \in S \ (T \ {x})
    BY FS_Subset
  <2>2. (S \ (T \ {x})) \ {x} = S \ T
    OBVIOUS
  <2>3. \A y \in S \ (T \ {x}) : f[y] \in Int
    OBVIOUS
  <2> QED
    BY <2>1, <2>2, <2>3, SumRemove
<1>8. f[x] \in Int /\ SumFunctionOnSet(f, T \ {x}) \in Int /\ SumFunctionOnSet(f, S \ T) \in Int
  BY <1>2
<1>9. SumFunctionOnSet(f, S) = SumFunctionOnSet(f, T) + SumFunctionOnSet(f, S \ T)
  BY <1>5, <1>6, <1>7, <1>8
<1> QED
  BY <1>9

(* A part of a sum of natural numbers is not more than the whole.          *)
LEMMA SumOfPart ==
    ASSUME NEW f, NEW S, IsFiniteSet(S), \A x \in S : f[x] \in Nat, NEW P, P \subseteq S
    PROVE  SumFunctionOnSet(f, P) <= SumFunctionOnSet(f, S)
<1>1. IsFiniteSet(P) /\ IsFiniteSet(S \ P)
  BY FS_Subset
<1>2. SumFunctionOnSet(f, P) \in Nat /\ SumFunctionOnSet(f, S \ P) \in Nat
  BY <1>1, SumNat
<1>3. SumFunctionOnSet(f, S) = SumFunctionOnSet(f, P) + SumFunctionOnSet(f, S \ P)
  BY SumSplit
<1> QED
  BY <1>2, <1>3
====
