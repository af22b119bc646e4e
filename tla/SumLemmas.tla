------------------------------ MODULE SumLemmas ------------------------------
(***************************************************************************)
(* Finite sums, SumFunctionOnSet(g, S): they do not depend on the order in *)
(* which the elements are taken, and add up over parts. The accounts, the  *)
(* limits and the sizes of the other modules rest on these facts.          *)
(*                                                                         *)
(* There is no induction principle to cite: an induction over the subsets  *)
(* of S is written as the choice of a smallest subset that refutes the     *)
(* claim (SmallestSubset).                                                 *)
(***************************************************************************)
EXTENDS Sequences, Functions, FiniteSetTheorems, TLAPS

\* A non-empty collection of subsets of a finite set has a minimal member.
LEMMA SmallestSubset ==
    ASSUME NEW S, IsFiniteSet(S), NEW C, C \subseteq SUBSET S, C # {}
    PROVE  \E s \in C : \A t \in C : t \subseteq s => t = s
<1>1. IsWellFoundedOn(StrictSubsetOrdering(S), SUBSET S)
  BY FS_StrictSubsetOrderingWellFounded, FS_FiniteSubsetsOfFinite
<1>2. PICK s \in C : \A t \in C : ~(<<t, s>> \in StrictSubsetOrdering(S))
  BY <1>1, WFMin
<1>3. ASSUME NEW t \in C, t \subseteq s, t # s PROVE <<t, s>> \in StrictSubsetOrdering(S)
  BY <1>3 DEF StrictSubsetOrdering
<1>4. \A t \in C : t \subseteq s => t = s
  BY <1>2, <1>3
<1>5. QED
  BY <1>4

\* f sums up every subset of S, one element after the other.
SumsUp(g, S, f) ==
    f = [s \in SUBSET S |-> IF s = {} THEN 0
                            ELSE g[CHOOSE x \in s : TRUE] + f[s \ {CHOOSE x \in s : TRUE}]]

\* What the library's fold computes.
LEMMA SumUnfold ==
    ASSUME NEW g, NEW S
    PROVE  SumFunctionOnSet(g, S) = (CHOOSE f : SumsUp(g, S, f))[S]
  BY DEF SumFunctionOnSet, FoldFunctionOnSet, MapThenFoldSet, SumsUp

\* Two such functions agree wherever both are defined.
LEMMA SumsAgree ==
    ASSUME NEW g, NEW S, NEW T, NEW f, NEW h, IsFiniteSet(S), SumsUp(g, S, f), SumsUp(g, T, h),
           NEW u \in SUBSET S, u \in SUBSET T
    PROVE  f[u] = h[u]
<1> DEFINE C == {s \in SUBSET S : s \subseteq T /\ f[s] # h[s]}
<1>1. SUFFICES ASSUME C # {} PROVE FALSE
  OBVIOUS
<1>2. PICK s \in C : \A t \in C : t \subseteq s => t = s
  <2> HIDE DEF C
  <2>1. C \subseteq SUBSET S
    BY DEF C
  <2>2. QED
    BY <1>1, <2>1, SmallestSubset
<1>3. CASE s = {}
  BY <1>3 DEF SumsUp
<1>4. CASE s # {}
  <2> DEFINE x == CHOOSE x \in s : TRUE
  <2>1. x \in s /\ s \ {x} \in SUBSET S /\ s \ {x} \subseteq T
    BY <1>4
  <2>2. f[s \ {x}] = h[s \ {x}]
    BY <2>1, <1>2
  <2>3. f[s] = g[x] + f[s \ {x}] /\ h[s] = g[x] + h[s \ {x}]
    BY <1>4, <1>2 DEF SumsUp
  <2>4. QED
    BY <2>2, <2>3, <1>2
<1>5. QED
  BY <1>3, <1>4

\* There is such a function for every finite set.
LEMMA SumsExist ==
    ASSUME NEW g, NEW S, IsFiniteSet(S)
    PROVE  \E f : SumsUp(g, S, f)
<1> DEFINE C == {s \in SUBSET S : ~\E f : SumsUp(g, s, f)}
<1>1. SUFFICES ASSUME C # {} PROVE FALSE
  OBVIOUS
<1>2. PICK u \in C : \A t \in C : t \subseteq u => t = u
  <2> HIDE DEF C
  <2>1. C \subseteq SUBSET S
    BY DEF C
  <2>2. QED
    BY <1>1, <2>1, SmallestSubset
<1> DEFINE F(s) == CHOOSE f : SumsUp(g, s, f)
           First(s) == CHOOSE x \in s : TRUE
           Rest(s) == s \ {First(s)}
           f == [s \in SUBSET u |-> IF s = {} THEN 0 ELSE g[First(s)] + F(Rest(s))[Rest(s)]]
<1>3. ASSUME NEW s \in SUBSET u, s # u PROVE SumsUp(g, s, F(s)) /\ IsFiniteSet(s)
  <2>1. IsFiniteSet(s)
    BY <1>2, FS_Subset
  <2>2. \E h : SumsUp(g, s, h)
    BY <1>2, <1>3
  <2>3. QED
    BY <2>1, <2>2
<1>4. ASSUME NEW s \in SUBSET u, s # {}
      PROVE  First(s) \in s /\ Rest(s) \in SUBSET u /\ Rest(s) # u /\ Rest(s) \in SUBSET s /\ Rest(s) # s
  BY <1>4
<1>5. ASSUME NEW t \in SUBSET u, t # u PROVE f[t] = F(t)[t]
  <2>1. SumsUp(g, t, F(t)) /\ IsFiniteSet(t)
    BY <1>3, <1>5
  <2>2. CASE t = {}
    BY <2>1, <2>2 DEF SumsUp
  <2>3. CASE t # {}
    <3>1. Rest(t) \in SUBSET t /\ Rest(t) \in SUBSET u /\ Rest(t) # u
      BY <1>4, <2>3
    <3>2. SumsUp(g, Rest(t), F(Rest(t)))
      BY <1>3, <3>1
    <3> HIDE DEF F
    <3>3. F(t)[t] = g[First(t)] + F(t)[Rest(t)]
      BY <2>1, <2>3 DEF SumsUp
    <3>4. F(t)[Rest(t)] = F(Rest(t))[Rest(t)]
      <4> HIDE DEF Rest
      <4>1. Rest(t) \in SUBSET Rest(t)
        OBVIOUS
      <4>2. QED
        BY <2>1, <3>1, <3>2, <4>1, SumsAgree
    <3>5. f[t] = g[First(t)] + F(Rest(t))[Rest(t)]
      BY <2>3
    <3>6. QED
      BY <3>3, <3>4, <3>5
  <2>4. QED
    BY <2>2, <2>3
<1>6. ASSUME NEW s \in SUBSET u, s # {} PROVE f[Rest(s)] = F(Rest(s))[Rest(s)]
  <2>1. Rest(s) \in SUBSET u /\ Rest(s) # u
    BY <1>4, <1>6
  <2> HIDE DEF f, F, Rest
  <2>2. QED
    BY <2>1, <1>5
<1>7. SumsUp(g, u, f)
  <2>1. \A s \in SUBSET u : s # {} => f[s] = g[First(s)] + f[Rest(s)]
    BY <1>6
  <2>2. f = [s \in SUBSET u |-> f[s]] /\ f[{}] = 0
    OBVIOUS
  <2>3. f = [s \in SUBSET u |-> IF s = {} THEN 0 ELSE g[First(s)] + f[Rest(s)]]
    <3> HIDE DEF f, First, Rest
    <3>1. QED
      BY <2>1, <2>2
  <2>4. QED
    BY <2>3 DEF SumsUp
<1>8. QED
  BY <1>7, <1>2

\* The sum over the empty set is 0; any other is that of the rest and one element.
LEMMA SumStep ==
    ASSUME NEW g, NEW S, IsFiniteSet(S)
    PROVE  /\ S = {} => SumFunctionOnSet(g, S) = 0
           /\ S # {} => LET x == CHOOSE x \in S : TRUE
                        IN SumFunctionOnSet(g, S) = g[x] + SumFunctionOnSet(g, S \ {x})
<1> DEFINE x == CHOOSE x \in S : TRUE
           f == CHOOSE f : SumsUp(g, S, f)
           h == CHOOSE h : SumsUp(g, S \ {x}, h)
<1>1. SumsUp(g, S, f)
  BY SumsExist
<1>2. SumsUp(g, S \ {x}, h) /\ IsFiniteSet(S \ {x})
  BY SumsExist, FS_RemoveElement
<1>3. SumFunctionOnSet(g, S) = f[S] /\ SumFunctionOnSet(g, S \ {x}) = h[S \ {x}]
  BY SumUnfold
<1>4. S \ {x} \in SUBSET S /\ S \in SUBSET S
  OBVIOUS
<1> HIDE DEF f, h
<1>5. f[S \ {x}] = h[S \ {x}]
  BY <1>1, <1>2, <1>4, SumsAgree
<1>6. S = {} => f[S] = 0
  BY <1>1 DEF SumsUp
<1>7. S # {} => f[S] = g[x] + f[S \ {x}]
  BY <1>1, <1>4 DEF SumsUp
<1>8. QED
  BY <1>3, <1>5, <1>6, <1>7

\* Some element starts the sum of every function.
LEMMA SumSome ==
    ASSUME NEW S, IsFiniteSet(S), S # {}
    PROVE  \E x \in S : \A g : SumFunctionOnSet(g, S) = g[x] + SumFunctionOnSet(g, S \ {x})
<1> DEFINE x == CHOOSE x \in S : TRUE
<1>1. ASSUME NEW g PROVE SumFunctionOnSet(g, S) = g[x] + SumFunctionOnSet(g, S \ {x})
  BY SumStep
<1>2. x \in S
  OBVIOUS
<1> HIDE DEF x
<1>3. \A g : SumFunctionOnSet(g, S) = g[x] + SumFunctionOnSet(g, S \ {x})
  BY <1>1
<1>4. QED
  BY <1>2, <1>3

\* A sum of natural numbers is one.
LEMMA SumType ==
    ASSUME NEW g, NEW S, IsFiniteSet(S), \A x \in S : g[x] \in Nat
    PROVE  SumFunctionOnSet(g, S) \in Nat
<1> DEFINE C == {s \in SUBSET S : SumFunctionOnSet(g, s) \notin Nat}
<1>1. SUFFICES ASSUME C # {} PROVE FALSE
  OBVIOUS
<1>2. PICK s \in C : \A t \in C : t \subseteq s => t = s
  <2> HIDE DEF C
  <2>1. C \subseteq SUBSET S
    BY DEF C
  <2>2. QED
    BY <1>1, <2>1, SmallestSubset
<1> DEFINE x == CHOOSE x \in s : TRUE
<1>3. IsFiniteSet(s)
  BY <1>2, FS_Subset
<1>4. CASE s = {}
  <2>1. SumFunctionOnSet(g, s) = 0
    BY <1>3, <1>4, SumStep
  <2>2. QED
    BY <2>1, <1>2
<1>5. CASE s # {}
  <2>1. x \in s /\ s \ {x} \in SUBSET S /\ s \ {x} # s
    BY <1>5, <1>2
  <2>2. SumFunctionOnSet(g, s) = g[x] + SumFunctionOnSet(g, s \ {x})
    BY <1>3, <1>5, SumStep
  <2>3. SumFunctionOnSet(g, s \ {x}) \in Nat
    BY <1>2, <2>1
  <2>4. g[x] \in Nat
    BY <2>1, <1>2
  <2>5. QED
    BY <2>2, <2>3, <2>4, <1>2
<1>6. QED
  BY <1>4, <1>5

\* Any element may be taken out first.
LEMMA SumRemove ==
    ASSUME NEW g, NEW S, IsFiniteSet(S), \A x \in S : g[x] \in Nat, NEW e \in S
    PROVE  SumFunctionOnSet(g, S) = g[e] + SumFunctionOnSet(g, S \ {e})
<1> DEFINE Total(s) == SumFunctionOnSet(g, s)
           C == {s \in SUBSET S : \E y \in s : Total(s) # g[y] + Total(s \ {y})}
<1>1. SUFFICES ASSUME C # {} PROVE FALSE
  OBVIOUS
<1>2. PICK s \in C : \A t \in C : t \subseteq s => t = s
  <2> HIDE DEF C
  <2>1. C \subseteq SUBSET S
    BY DEF C
  <2>2. QED
    BY <1>1, <2>1, SmallestSubset
<1>3. PICK y \in s : Total(s) # g[y] + Total(s \ {y})
  BY <1>2
<1> DEFINE x == CHOOSE x \in s : TRUE
<1>4. IsFiniteSet(s) /\ s \subseteq S /\ x \in s
  BY <1>2, <1>3, FS_Subset
<1>5. Total(s) = g[x] + Total(s \ {x})
  BY <1>4, SumStep
<1>6. x # y
  BY <1>3, <1>5
<1>7. Total(s \ {x}) = g[y] + Total((s \ {x}) \ {y})
  <2>1. s \ {x} \in SUBSET S /\ s \ {x} # s /\ s \ {x} \subseteq s /\ y \in s \ {x}
    BY <1>4, <1>6, <1>3
  <2> HIDE DEF x, Total
  <2>2. QED
    BY <1>2, <2>1
<1>8. Total(s \ {y}) = g[x] + Total((s \ {y}) \ {x})
  <2>1. s \ {y} \in SUBSET S /\ s \ {y} # s /\ s \ {y} \subseteq s /\ x \in s \ {y}
    BY <1>4, <1>6, <1>3
  <2> HIDE DEF x, Total
  <2>2. QED
    BY <1>2, <2>1
<1>9. (s \ {x}) \ {y} = (s \ {y}) \ {x}
  OBVIOUS
<1>10. g[x] \in Nat /\ g[y] \in Nat /\ Total((s \ {x}) \ {y}) \in Nat
  <2>1. IsFiniteSet((s \ {x}) \ {y}) /\ \A z \in (s \ {x}) \ {y} : g[z] \in Nat
    BY <1>4, FS_RemoveElement
  <2>2. QED
    BY <2>1, <1>3, <1>4, SumType
<1> HIDE DEF x, Total
<1>11. QED
  BY <1>3, <1>5, <1>7, <1>8, <1>9, <1>10

\* One more element.
LEMMA SumAdd ==
    ASSUME NEW g, NEW S, IsFiniteSet(S), NEW e, e \notin S, \A x \in S \cup {e} : g[x] \in Nat
    PROVE  SumFunctionOnSet(g, S \cup {e}) = g[e] + SumFunctionOnSet(g, S)
<1>1. IsFiniteSet(S \cup {e}) /\ (S \cup {e}) \ {e} = S
  BY FS_AddElement
<1>2. QED
  BY <1>1, SumRemove

\* Only the values on S matter.
LEMMA SumSame ==
    ASSUME NEW g, NEW h, NEW S, IsFiniteSet(S), \A x \in S : g[x] = h[x]
    PROVE  SumFunctionOnSet(g, S) = SumFunctionOnSet(h, S)
<1> DEFINE C == {s \in SUBSET S : SumFunctionOnSet(g, s) # SumFunctionOnSet(h, s)}
<1>1. SUFFICES ASSUME C # {} PROVE FALSE
  OBVIOUS
<1>2. PICK s \in C : \A t \in C : t \subseteq s => t = s
  <2> HIDE DEF C
  <2>1. C \subseteq SUBSET S
    BY DEF C
  <2>2. QED
    BY <1>1, <2>1, SmallestSubset
<1> DEFINE x == CHOOSE x \in s : TRUE
<1>3. IsFiniteSet(s)
  BY <1>2, FS_Subset
<1>4. CASE s = {}
  BY <1>2, <1>3, <1>4, SumStep
<1>5. CASE s # {}
  <2>1. x \in s /\ s \ {x} \in SUBSET S /\ s \ {x} # s
    BY <1>5, <1>2
  <2>2. /\ SumFunctionOnSet(g, s) = g[x] + SumFunctionOnSet(g, s \ {x})
        /\ SumFunctionOnSet(h, s) = h[x] + SumFunctionOnSet(h, s \ {x})
    BY <1>3, <1>5, SumStep
  <2>3. SumFunctionOnSet(g, s \ {x}) = SumFunctionOnSet(h, s \ {x})
    BY <1>2, <2>1
  <2>4. QED
    BY <2>1, <2>2, <2>3, <1>2
<1>6. QED
  BY <1>4, <1>5

\* The sum over two disjoint parts.
LEMMA SumUnion ==
    ASSUME NEW g, NEW S, NEW T, IsFiniteSet(S), IsFiniteSet(T), S \cap T = {},
           \A x \in S \cup T : g[x] \in Nat
    PROVE  SumFunctionOnSet(g, S \cup T) = SumFunctionOnSet(g, S) + SumFunctionOnSet(g, T)
<1> DEFINE Total(s) == SumFunctionOnSet(g, s)
           C == {s \in SUBSET S : Total(s \cup T) # Total(s) + Total(T)}
<1>1. SUFFICES ASSUME C # {} PROVE FALSE
  OBVIOUS
<1>2. PICK s \in C : \A t \in C : t \subseteq s => t = s
  <2> HIDE DEF C
  <2>1. C \subseteq SUBSET S
    BY DEF C
  <2>2. QED
    BY <1>1, <2>1, SmallestSubset
<1>3. IsFiniteSet(s) /\ IsFiniteSet(s \cup T)
  BY <1>2, FS_Subset, FS_Union
<1>4. CASE s = {}
  <2>1. s \cup T = T /\ Total(s) = 0 /\ Total(T) \in Nat
    BY <1>4, <1>3, SumStep, SumType
  <2> HIDE DEF Total
  <2>2. Total(s \cup T) = Total(s) + Total(T)
    BY <2>1
  <2>3. QED
    BY <2>2, <1>2
<1>5. CASE s # {}
  <2>1. PICK x \in s : TRUE
    BY <1>5
  <2>2. Total(s) = g[x] + Total(s \ {x}) /\ Total(s \cup T) = g[x] + Total((s \cup T) \ {x})
    <3>1. (\A y \in s : g[y] \in Nat) /\ (\A y \in s \cup T : g[y] \in Nat) /\ x \in s \cup T
      BY <1>2
    <3>2. QED
      BY <1>3, <3>1, SumRemove
  <2>3. (s \cup T) \ {x} = (s \ {x}) \cup T /\ s \ {x} \in SUBSET S /\ s \ {x} # s
    BY <1>2, <2>1
  <2>4. Total((s \ {x}) \cup T) = Total(s \ {x}) + Total(T)
    <3> HIDE DEF Total
    <3>1. QED
      BY <1>2, <2>3
  <2>5. Total(s \ {x}) \in Nat /\ Total(T) \in Nat /\ g[x] \in Nat
    <3>1. IsFiniteSet(s \ {x}) /\ \A y \in s \ {x} : g[y] \in Nat
      BY <1>3, <1>2, FS_RemoveElement
    <3>2. QED
      BY <3>1, <1>2, SumType
  <2> HIDE DEF Total
  <2>6. QED
    BY <2>2, <2>3, <2>4, <2>5, <1>2
<1>6. QED
  BY <1>4, <1>5

\* A part never sums to more than the whole.
LEMMA SumPart ==
    ASSUME NEW g, NEW S, IsFiniteSet(S), \A x \in S : g[x] \in Nat, NEW T \in SUBSET S
    PROVE  SumFunctionOnSet(g, T) <= SumFunctionOnSet(g, S)
<1>1. IsFiniteSet(T) /\ IsFiniteSet(S \ T) /\ T \cap (S \ T) = {} /\ T \cup (S \ T) = S
  BY FS_Subset
<1>2. SumFunctionOnSet(g, S) = SumFunctionOnSet(g, T) + SumFunctionOnSet(g, S \ T)
  BY <1>1, SumUnion
<1>3. SumFunctionOnSet(g, T) \in Nat /\ SumFunctionOnSet(g, S \ T) \in Nat
  BY <1>1, SumType
<1>4. QED
  BY <1>2, <1>3

\* Nothing adds up to nothing.
LEMMA SumZero ==
    ASSUME NEW g, NEW S, IsFiniteSet(S), \A x \in S : g[x] = 0
    PROVE  SumFunctionOnSet(g, S) = 0
<1> DEFINE C == {s \in SUBSET S : SumFunctionOnSet(g, s) # 0}
<1>1. SUFFICES ASSUME C # {} PROVE FALSE
  OBVIOUS
<1>2. PICK s \in C : \A t \in C : t \subseteq s => t = s
  <2> HIDE DEF C
  <2>1. C \subseteq SUBSET S
    BY DEF C
  <2>2. QED
    BY <1>1, <2>1, SmallestSubset
<1> DEFINE x == CHOOSE x \in s : TRUE
<1>3. IsFiniteSet(s)
  BY <1>2, FS_Subset
<1>4. CASE s = {}
  BY <1>2, <1>3, <1>4, SumStep
<1>5. CASE s # {}
  <2>1. x \in s /\ s \ {x} \in SUBSET S /\ s \ {x} # s
    BY <1>5, <1>2
  <2>2. SumFunctionOnSet(g, s) = g[x] + SumFunctionOnSet(g, s \ {x})
    BY <1>3, <1>5, SumStep
  <2>3. SumFunctionOnSet(g, s \ {x}) = 0 /\ g[x] = 0
    BY <1>2, <2>1
  <2>4. QED
    BY <2>2, <2>3, <1>2
<1>6. QED
  BY <1>4, <1>5

\* A sum to which one element contributes.
LEMMA SumOne ==
    ASSUME NEW g, NEW S, IsFiniteSet(S), NEW e \in S, g[e] \in Nat, \A x \in S \ {e} : g[x] = 0
    PROVE  SumFunctionOnSet(g, S) = g[e]
<1>1. \A x \in S : g[x] \in Nat
  OBVIOUS
<1>2. SumFunctionOnSet(g, S) = g[e] + SumFunctionOnSet(g, S \ {e})
  BY <1>1, SumRemove
<1>3. IsFiniteSet(S \ {e})
  BY FS_RemoveElement
<1>4. SumFunctionOnSet(g, S \ {e}) = 0
  BY <1>3, SumZero
<1>5. QED
  BY <1>2, <1>4
-----------------------------------------------------------------------------
(* Images and extremes of finite sets.                                     *)

\* The image of a finite set is finite and no larger.
LEMMA ImageFinite ==
    ASSUME NEW S, IsFiniteSet(S), NEW f
    PROVE  IsFiniteSet({f[x] : x \in S}) /\ Cardinality({f[x] : x \in S}) <= Cardinality(S)
<1>1. [x \in S |-> f[x]] \in Surjection(S, {f[x] : x \in S})
  BY DEF Surjection
<1>2. QED
  BY <1>1, FS_Surjection

\* A nonempty finite set of numbers has a smallest and a largest member.
LEMMA Extremes ==
    ASSUME NEW S, IsFiniteSet(S), S \subseteq Nat
    PROVE  S # {} => (\E m \in S : \A x \in S : m <= x) /\ (\E m \in S : \A x \in S : x <= m)
<1> DEFINE Both(T) == (\E m \in T : \A x \in T : m <= x) /\ (\E m \in T : \A x \in T : x <= m)
           C == {T \in SUBSET S : T # {} /\ ~Both(T)}
<1>1. SUFFICES ASSUME C # {} PROVE FALSE
  OBVIOUS
<1>2. PICK T \in C : \A U \in C : U \subseteq T => U = T
  <2> HIDE DEF C
  <2>1. C \subseteq SUBSET S
    BY DEF C
  <2>2. \E s \in C : \A t \in C : t \subseteq s => t = s
    BY ONLY <1>1, <2>1, IsFiniteSet(S), SmallestSubset
  <2>3. QED
    BY <2>2
<1>3. PICK x \in T : TRUE
  OBVIOUS
<1>4. CASE T = {x}
  BY <1>4
<1>5. CASE T # {x}
  <2>1. Both(T \ {x})
    <3>1. T \ {x} # {} /\ T \ {x} \in SUBSET S /\ T \ {x} # T
      BY <1>3, <1>5
    <3>2. T \ {x} \notin C
      BY <1>2, <3>1
    <3> HIDE DEF Both
    <3>3. QED
      BY <3>1, <3>2
  <2>2. PICK a \in T \ {x}, b \in T \ {x} :
            (\A y \in T \ {x} : a <= y) /\ (\A y \in T \ {x} : y <= b)
    BY <2>1
  <2>3. \E m \in T : \A y \in T : m <= y
    <3>1. CASE x <= a
      BY <2>2, <3>1
    <3>2. CASE a <= x
      BY <2>2, <3>2
    <3>3. QED
      BY <3>1, <3>2
  <2>4. \E m \in T : \A y \in T : y <= m
    <3>1. CASE x <= b
      BY <2>2, <3>1
    <3>2. CASE b <= x
      BY <2>2, <3>2
    <3>3. QED
      BY <3>1, <3>2
  <2>5. QED
    BY <2>3, <2>4
<1>6. QED
  BY <1>4, <1>5

\* From f to g one value, at e, moves up by d, or joins those summed over S.
MovesUp(f, g, S, e, d) ==
    /\ d \in Nat /\ \A x \in S : f[x] \in Nat
    /\ \A x \in S \ {e} : g[x] = f[x]
    /\ g[e] = (IF e \in S THEN f[e] ELSE 0) + d

\* The sum moves as much.
LEMMA SumMove ==
    ASSUME NEW f, NEW g, NEW S, IsFiniteSet(S), NEW e, NEW d, MovesUp(f, g, S, e, d)
    PROVE  /\ SumFunctionOnSet(f, S) \in Nat
           /\ SumFunctionOnSet(g, S \cup {e}) = SumFunctionOnSet(f, S) + d
<1>0. /\ d \in Nat /\ \A x \in S : f[x] \in Nat
      /\ \A x \in S \ {e} : g[x] = f[x]
      /\ g[e] = (IF e \in S THEN f[e] ELSE 0) + d
  BY DEF MovesUp
<1>1. PICK T : T = S \ {e}
  OBVIOUS
<1>2. IsFiniteSet(T) /\ e \notin T /\ S \cup {e} = T \cup {e} /\ T \subseteq S
  BY <1>1, FS_Subset
<1>3. \A x \in T \cup {e} : g[x] \in Nat
  <2>1. g[e] \in Nat
    BY <1>0
  <2>2. QED
    BY <1>0, <1>1, <2>1
<1>4. SumFunctionOnSet(g, T \cup {e}) = g[e] + SumFunctionOnSet(g, T)
  BY <1>2, <1>3, SumAdd
<1>5. SumFunctionOnSet(g, T) = SumFunctionOnSet(f, T)
  BY <1>0, <1>1, <1>2, SumSame
<1>6. SumFunctionOnSet(f, T) \in Nat /\ SumFunctionOnSet(f, S) \in Nat
  BY <1>0, <1>1, <1>2, SumType
<1>7. CASE e \in S
  <2>1. SumFunctionOnSet(f, S) = f[e] + SumFunctionOnSet(f, T)
    BY <1>0, <1>1, <1>7, SumRemove
  <2>2. f[e] \in Nat /\ g[e] = f[e] + d
    BY <1>0, <1>7
  <2>3. QED
    BY <1>0, <1>2, <1>4, <1>5, <1>6, <2>1, <2>2
<1>8. CASE e \notin S
  <2>1. T = S /\ g[e] = d
    BY <1>0, <1>1, <1>8
  <2>2. QED
    BY <1>0, <1>2, <1>4, <1>5, <1>6, <2>1
<1>9. QED
  BY <1>7, <1>8

\* Sums keep the order of their terms, also of terms below zero.
LEMMA SumAtMost ==
    ASSUME NEW f, NEW g, NEW S, IsFiniteSet(S), \A x \in S : f[x] \in Int /\ g[x] \in Int /\ f[x] <= g[x]
    PROVE  /\ SumFunctionOnSet(f, S) \in Int /\ SumFunctionOnSet(g, S) \in Int
           /\ SumFunctionOnSet(f, S) <= SumFunctionOnSet(g, S)
<1> DEFINE Fine(s) == /\ SumFunctionOnSet(f, s) \in Int /\ SumFunctionOnSet(g, s) \in Int
                      /\ SumFunctionOnSet(f, s) <= SumFunctionOnSet(g, s)
           C == {s \in SUBSET S : ~Fine(s)}
<1>1. SUFFICES ASSUME C # {} PROVE FALSE
  OBVIOUS
<1>2. PICK s \in C : \A t \in C : t \subseteq s => t = s
  <2> HIDE DEF C
  <2>1. C \subseteq SUBSET S
    BY DEF C
  <2>2. QED
    BY <1>1, <2>1, SmallestSubset
<1>3. IsFiniteSet(s)
  BY <1>2, FS_Subset
<1>4. CASE s = {}
  <2>1. SumFunctionOnSet(f, s) = 0 /\ SumFunctionOnSet(g, s) = 0
    BY <1>3, <1>4, SumStep
  <2>2. QED
    BY <1>2, <2>1
<1>5. CASE s # {}
  <2>1. PICK x \in s : \A e : SumFunctionOnSet(e, s) = e[x] + SumFunctionOnSet(e, s \ {x})
    BY <1>3, <1>5, SumSome
  <2>2. x \in s /\ s \ {x} \in SUBSET S /\ s \ {x} # s
    BY <1>5, <1>2, <2>1
  <2>3. /\ SumFunctionOnSet(f, s) = f[x] + SumFunctionOnSet(f, s \ {x})
        /\ SumFunctionOnSet(g, s) = g[x] + SumFunctionOnSet(g, s \ {x})
    BY <2>1
  <2>4. Fine(s \ {x})
    BY <1>2, <2>2
  <2>5. f[x] \in Int /\ g[x] \in Int /\ f[x] <= g[x]
    BY <1>2, <2>2
  <2>6. Fine(s)
    BY <2>3, <2>4, <2>5
  <2>7. QED
    BY <1>2, <2>6
<1>6. QED
  BY <1>4, <1>5

\* The elements may be renamed, as long as no two get the same name.
LEMMA SumImage ==
    ASSUME NEW g, NEW h, NEW f, NEW S, IsFiniteSet(S), \A x \in S : g[x] \in Nat /\ h[f[x]] = g[x],
           \A x, y \in S : f[x] = f[y] => x = y
    PROVE  SumFunctionOnSet(h, {f[x] : x \in S}) = SumFunctionOnSet(g, S)
<1> DEFINE Image(s) == {f[x] : x \in s}
           C == {s \in SUBSET S : SumFunctionOnSet(h, Image(s)) # SumFunctionOnSet(g, s)}
<1>1. SUFFICES ASSUME C # {} PROVE FALSE
  OBVIOUS
<1>2. PICK s \in C : \A t \in C : t \subseteq s => t = s
  <2> HIDE DEF C
  <2>1. C \subseteq SUBSET S
    BY DEF C
  <2>2. QED
    BY <1>1, <2>1, SmallestSubset
<1>3. IsFiniteSet(s)
  BY <1>2, FS_Subset
<1>4. CASE s = {}
  <2>1. Image(s) = {} /\ IsFiniteSet({})
    BY <1>4, FS_EmptySet
  <2>2. SumFunctionOnSet(h, Image(s)) = 0 /\ SumFunctionOnSet(g, s) = 0
    BY <1>4, <2>1, SumStep
  <2>3. QED
    BY <1>2, <2>2
<1>5. CASE s # {}
  <2>1. PICK x \in s : TRUE
    BY <1>5
  <2>2. PICK t : t = s \ {x}
    OBVIOUS
  <2>3. /\ s = t \cup {x} /\ x \notin t /\ t \in SUBSET S /\ t # s /\ t \subseteq s
        /\ IsFiniteSet(t) /\ \A y \in t \cup {x} : g[y] \in Nat
    BY <1>2, <1>3, <2>1, <2>2, FS_RemoveElement
  <2>4. SumFunctionOnSet(h, Image(t)) = SumFunctionOnSet(g, t)
    <3>1. t \notin C
      BY <1>2, <2>3
    <3>2. QED
      BY <2>3, <3>1
  <2>5. SumFunctionOnSet(g, s) = g[x] + SumFunctionOnSet(g, t)
    BY <2>3, SumAdd
  <2>6. /\ Image(s) = Image(t) \cup {f[x]} /\ f[x] \notin Image(t)
        /\ \A y \in Image(t) \cup {f[x]} : h[y] \in Nat
    BY <1>2, <2>1, <2>3
  <2>7. IsFiniteSet(Image(t))
    BY <2>3, ImageFinite
  <2> HIDE DEF Image
  <2>8. SumFunctionOnSet(h, Image(t) \cup {f[x]}) = h[f[x]] + SumFunctionOnSet(h, Image(t))
    BY <2>6, <2>7, SumAdd
  <2>9. h[f[x]] = g[x]
    BY <1>2, <2>1
  <2>10. SumFunctionOnSet(h, Image(s)) = SumFunctionOnSet(g, s)
    BY <2>4, <2>5, <2>6, <2>8, <2>9
  <2>11. QED
    BY <1>2, <2>10 DEF Image
<1>6. QED
  BY <1>4, <1>5

\* Sums of sums, also of terms below zero.
LEMMA SumPlus ==
    ASSUME NEW f, NEW g, NEW h, NEW S, IsFiniteSet(S),
           \A x \in S : f[x] \in Int /\ g[x] \in Int /\ h[x] = f[x] + g[x]
    PROVE  /\ SumFunctionOnSet(f, S) \in Int /\ SumFunctionOnSet(g, S) \in Int
           /\ SumFunctionOnSet(h, S) = SumFunctionOnSet(f, S) + SumFunctionOnSet(g, S)
<1> DEFINE Fine(s) == /\ SumFunctionOnSet(f, s) \in Int /\ SumFunctionOnSet(g, s) \in Int
                      /\ SumFunctionOnSet(h, s) = SumFunctionOnSet(f, s) + SumFunctionOnSet(g, s)
           C == {s \in SUBSET S : ~Fine(s)}
<1>1. SUFFICES ASSUME C # {} PROVE FALSE
  OBVIOUS
<1>2. PICK s \in C : \A t \in C : t \subseteq s => t = s
  <2> HIDE DEF C
  <2>1. C \subseteq SUBSET S
    BY DEF C
  <2>2. QED
    BY <1>1, <2>1, SmallestSubset
<1>3. IsFiniteSet(s)
  BY <1>2, FS_Subset
<1>4. CASE s = {}
  <2>1. SumFunctionOnSet(f, s) = 0 /\ SumFunctionOnSet(g, s) = 0 /\ SumFunctionOnSet(h, s) = 0
    BY <1>3, <1>4, SumStep
  <2>2. QED
    BY <1>2, <2>1
<1>5. CASE s # {}
  <2>1. PICK x \in s : \A e : SumFunctionOnSet(e, s) = e[x] + SumFunctionOnSet(e, s \ {x})
    BY <1>3, <1>5, SumSome
  <2>2. x \in s /\ s \ {x} \in SUBSET S /\ s \ {x} # s
    BY <1>5, <1>2, <2>1
  <2>3. /\ SumFunctionOnSet(f, s) = f[x] + SumFunctionOnSet(f, s \ {x})
        /\ SumFunctionOnSet(g, s) = g[x] + SumFunctionOnSet(g, s \ {x})
        /\ SumFunctionOnSet(h, s) = h[x] + SumFunctionOnSet(h, s \ {x})
    <3>1. SumFunctionOnSet(f, s) = f[x] + SumFunctionOnSet(f, s \ {x})
      BY <2>1
    <3>2. SumFunctionOnSet(g, s) = g[x] + SumFunctionOnSet(g, s \ {x})
      BY <2>1
    <3>3. SumFunctionOnSet(h, s) = h[x] + SumFunctionOnSet(h, s \ {x})
      BY <2>1
    <3>4. QED
      BY <3>1, <3>2, <3>3
  <2>4. Fine(s \ {x})
    BY <1>2, <2>2
  <2>5. f[x] \in Int /\ g[x] \in Int /\ h[x] = f[x] + g[x]
    BY <1>2, <2>2
  <2>6. PICK a, b \in Int : a = f[x] /\ b = g[x]
    BY <2>5
  <2>7. PICK c, d \in Int : c = SumFunctionOnSet(f, s \ {x}) /\ d = SumFunctionOnSet(g, s \ {x})
    BY <2>4
  <2>8. SumFunctionOnSet(f, s) = a + c /\ SumFunctionOnSet(g, s) = b + d
    BY <2>3, <2>6, <2>7
  <2>9. h[x] = a + b /\ SumFunctionOnSet(h, s \ {x}) = c + d
    BY <2>4, <2>5, <2>6, <2>7
  <2>10. SumFunctionOnSet(h, s) = (a + b) + (c + d)
    BY <2>3, <2>9
  <2>11. (a + b) + (c + d) = (a + c) + (b + d) /\ a + c \in Int /\ b + d \in Int
    OBVIOUS
  <2>12. Fine(s)
    BY <2>8, <2>10, <2>11
  <2>13. QED
    BY <1>2, <2>12
<1>6. QED
  BY <1>4, <1>5

\* A common factor.
LEMMA SumScale ==
    ASSUME NEW f, NEW h, NEW S, IsFiniteSet(S), NEW k \in Int, \A x \in S : f[x] \in Int /\ h[x] = f[x] * k
    PROVE  SumFunctionOnSet(f, S) \in Int /\ SumFunctionOnSet(h, S) = SumFunctionOnSet(f, S) * k
<1> DEFINE Fine(s) == SumFunctionOnSet(f, s) \in Int /\ SumFunctionOnSet(h, s) = SumFunctionOnSet(f, s) * k
           C == {s \in SUBSET S : ~Fine(s)}
<1>1. SUFFICES ASSUME C # {} PROVE FALSE
  OBVIOUS
<1>2. PICK s \in C : \A t \in C : t \subseteq s => t = s
  <2> HIDE DEF C
  <2>1. C \subseteq SUBSET S
    BY DEF C
  <2>2. QED
    BY <1>1, <2>1, SmallestSubset
<1>3. IsFiniteSet(s)
  BY <1>2, FS_Subset
<1>4. CASE s = {}
  <2>1. SumFunctionOnSet(f, s) = 0 /\ SumFunctionOnSet(h, s) = 0
    BY <1>3, <1>4, SumStep
  <2>2. Fine(s)
    BY <2>1
  <2>3. QED
    BY <1>2, <2>2
<1>5. CASE s # {}
  <2>1. PICK x \in s : \A e : SumFunctionOnSet(e, s) = e[x] + SumFunctionOnSet(e, s \ {x})
    BY <1>3, <1>5, SumSome
  <2>2. x \in s /\ s \ {x} \in SUBSET S /\ s \ {x} # s
    BY <1>5, <1>2, <2>1
  <2>3. /\ SumFunctionOnSet(f, s) = f[x] + SumFunctionOnSet(f, s \ {x})
        /\ SumFunctionOnSet(h, s) = h[x] + SumFunctionOnSet(h, s \ {x})
    <3>1. SumFunctionOnSet(f, s) = f[x] + SumFunctionOnSet(f, s \ {x})
      BY <2>1
    <3>2. SumFunctionOnSet(h, s) = h[x] + SumFunctionOnSet(h, s \ {x})
      BY <2>1
    <3>3. QED
      BY <3>1, <3>2
  <2>4. Fine(s \ {x})
    BY <1>2, <2>2
  <2>5. f[x] \in Int /\ h[x] = f[x] * k
    BY <1>2, <2>2
  <2>6. \A a, b \in Int : a * k + b * k = (a + b) * k /\ a + b \in Int
    OBVIOUS
  <2>7. PICK a, b \in Int : a = f[x] /\ b = SumFunctionOnSet(f, s \ {x})
    BY <2>4, <2>5
  <2>8. h[x] = a * k /\ SumFunctionOnSet(h, s \ {x}) = b * k
    BY <2>4, <2>5, <2>7
  <2>9. SumFunctionOnSet(h, s) = a * k + b * k
    BY <2>3, <2>8
  <2>10. SumFunctionOnSet(f, s) = a + b
    BY <2>3, <2>7
  <2>11. a * k + b * k = (a + b) * k /\ a + b \in Int
    BY <2>6
  <2>12. Fine(s)
    BY <2>9, <2>10, <2>11
  <2>13. QED
    BY <1>2, <2>12
<1>6. QED
  BY <1>4, <1>5

\* And differences.
LEMMA SumMinus ==
    ASSUME NEW f, NEW g, NEW h, NEW S, IsFiniteSet(S),
           \A x \in S : f[x] \in Int /\ g[x] \in Int /\ h[x] = f[x] - g[x]
    PROVE  /\ SumFunctionOnSet(f, S) \in Int /\ SumFunctionOnSet(g, S) \in Int
           /\ SumFunctionOnSet(h, S) = SumFunctionOnSet(f, S) - SumFunctionOnSet(g, S)
<1> DEFINE e == [x \in S |-> g[x] * (-1)]
<1>1. \A x \in S : g[x] \in Int /\ e[x] = g[x] * (-1)
  OBVIOUS
<1>2. \A x \in S : f[x] \in Int /\ e[x] \in Int /\ h[x] = f[x] + e[x]
  OBVIOUS
<1> HIDE DEF e
<1>3. SumFunctionOnSet(g, S) \in Int /\ SumFunctionOnSet(e, S) = SumFunctionOnSet(g, S) * (-1)
  BY <1>1, SumScale
<1>4. /\ SumFunctionOnSet(f, S) \in Int
      /\ SumFunctionOnSet(h, S) = SumFunctionOnSet(f, S) + SumFunctionOnSet(e, S)
  BY <1>2, SumPlus
<1>5. QED
  BY <1>3, <1>4

\* Several terms move at once.
LEMMA SumSpread ==
    ASSUME NEW f, NEW g, NEW d, NEW S, IsFiniteSet(S), NEW T \in SUBSET S,
           \A x \in S : f[x] \in Nat /\ (x \in T => d[x] \in Nat /\ g[x] = f[x] + d[x]) /\ (x \notin T => g[x] = f[x])
    PROVE  /\ SumFunctionOnSet(f, S) \in Nat /\ SumFunctionOnSet(d, T) \in Nat
           /\ SumFunctionOnSet(g, S) = SumFunctionOnSet(f, S) + SumFunctionOnSet(d, T)
<1> DEFINE e == [x \in S |-> IF x \in T THEN d[x] ELSE 0]
<1>1. IsFiniteSet(T) /\ IsFiniteSet(S \ T) /\ T \cap (S \ T) = {} /\ T \cup (S \ T) = S
  BY FS_Subset
<1>2. /\ \A x \in S : e[x] \in Nat /\ e[x] \in Int /\ f[x] \in Int /\ g[x] = f[x] + e[x]
      /\ \A x \in T : e[x] = d[x] /\ d[x] \in Nat
      /\ \A x \in S \ T : e[x] = 0
  OBVIOUS
<1> HIDE DEF e
<1>3. SumFunctionOnSet(g, S) = SumFunctionOnSet(f, S) + SumFunctionOnSet(e, S)
  BY <1>2, SumPlus
<1>4. SumFunctionOnSet(e, S) = SumFunctionOnSet(e, T) + SumFunctionOnSet(e, S \ T)
  BY <1>1, <1>2, SumUnion
<1>5. SumFunctionOnSet(e, S \ T) = 0
  BY <1>1, <1>2, SumZero
<1>6. SumFunctionOnSet(e, T) = SumFunctionOnSet(d, T) /\ SumFunctionOnSet(d, T) \in Nat
  BY <1>1, <1>2, SumSame, SumType
<1>7. SumFunctionOnSet(f, S) \in Nat
  BY SumType
<1>8. QED
  BY <1>3, <1>4, <1>5, <1>6, <1>7
-----------------------------------------------------------------------------
(* Places in a strict total order.                                          *)

\* When below[a] is what comes before a, no two members of K have equally many before them.
LEMMA PlacesDiffer ==
    ASSUME NEW K, IsFiniteSet(K), NEW below,
           \A a \in K : below[a] \subseteq K /\ a \notin below[a],
           \A a \in K : \A b \in below[a] : below[b] \subseteq below[a],
           \A a, b \in K : a = b \/ a \in below[b] \/ b \in below[a]
    PROVE  /\ \A a \in K : Cardinality(below[a]) \in Nat /\ Cardinality(below[a]) < Cardinality(K)
           /\ \A a, b \in K : a # b => Cardinality(below[a]) # Cardinality(below[b])
<1>1. ASSUME NEW S, NEW T, IsFiniteSet(T), S \subseteq T, NEW x \in T, x \notin S
      PROVE  Cardinality(S) \in Nat /\ Cardinality(S) < Cardinality(T)
  <2>1. /\ IsFiniteSet(S) /\ Cardinality(S) \in Nat /\ Cardinality(T) \in Nat
        /\ Cardinality(S) <= Cardinality(T) /\ (Cardinality(S) = Cardinality(T) => S = T)
    BY <1>1, FS_Subset, FS_CardinalityType
  <2>2. S # T
    BY <1>1
  <2>3. QED
    BY <2>1, <2>2
<1>2. \A a \in K : IsFiniteSet(below[a]) /\ Cardinality(below[a]) \in Nat /\ Cardinality(below[a]) < Cardinality(K)
  <2>1. TAKE a \in K
  <2>2. IsFiniteSet(below[a])
    BY FS_Subset
  <2>3. QED
    BY <1>1, <2>2
<1>3. ASSUME NEW a \in K, NEW b \in K, a \in below[b]
      PROVE  Cardinality(below[a]) < Cardinality(below[b])
  <2>1. below[a] \subseteq below[b] /\ a \notin below[a] /\ IsFiniteSet(below[b])
    BY <1>2, <1>3
  <2>2. QED
    BY <1>1, <1>3, <2>1
<1>4. ASSUME NEW a \in K, NEW b \in K, a # b PROVE Cardinality(below[a]) # Cardinality(below[b])
  <2>1. Cardinality(below[a]) < Cardinality(below[b]) \/ Cardinality(below[b]) < Cardinality(below[a])
    BY <1>3, <1>4
  <2>2. Cardinality(below[a]) \in Nat /\ Cardinality(below[b]) \in Nat
    BY <1>2
  <2>3. QED
    BY <2>1, <2>2
<1>5. QED
  BY <1>2, <1>4

\* One more element counts at most once.
LEMMA CountAtMostMore ==
    ASSUME NEW S, IsFiniteSet(S), NEW x
    PROVE  /\ IsFiniteSet(S \cup {x}) /\ Cardinality(S) \in Nat /\ Cardinality(S \cup {x}) \in Nat
           /\ Cardinality(S \cup {x}) <= Cardinality(S) + 1
<1>1. IsFiniteSet(S \cup {x}) /\ Cardinality(S) \in Nat
  BY FS_AddElement, FS_CardinalityType
<1>2. Cardinality(S \cup {x}) = IF x \in S THEN Cardinality(S) ELSE Cardinality(S) + 1
  BY FS_AddElement
<1>3. PICK c : c = Cardinality(S)
  OBVIOUS
<1>4. Cardinality(S \cup {x}) = c \/ Cardinality(S \cup {x}) = c + 1
  BY ONLY <1>2, <1>3
<1>5. QED
  BY ONLY <1>1, <1>3, <1>4

\* One more element is one more to count.
LEMMA CountMore ==
    ASSUME NEW S, IsFiniteSet(S), NEW n, n \notin S
    PROVE  Cardinality(S \cup {n}) = Cardinality(S) + 1
  BY FS_AddElement

\* The indices of a sequence form finite sets.
LEMMA IndexSetsFinite ==
    ASSUME NEW R, NEW s \in Seq(R), NEW I \in SUBSET DOMAIN s
    PROVE  IsFiniteSet(I)
<1>1. DOMAIN s = 1..Len(s) /\ Len(s) \in Nat
  OBVIOUS
<1>2. IsFiniteSet(1..Len(s))
  BY <1>1, FS_Interval
<1>3. QED
  BY <1>1, <1>2, FS_Subset

\* The elements of a sequence form a finite set.
LEMMA ElementsFinite ==
    ASSUME NEW R, NEW s \in Seq(R)
    PROVE  IsFiniteSet({s[i] : i \in DOMAIN s})
  BY IndexSetsFinite, ImageFinite

\* What has been read of a sequence: its first elements.
Begins(s, whole) == Len(s) <= Len(whole) /\ \A i \in DOMAIN s : s[i] = whole[i]

\* A beginning as long as the sequence is all of it.
LEMMA BeginsAll ==
    ASSUME NEW R, NEW s \in Seq(R), NEW Q, NEW whole \in Seq(Q), Begins(s, whole), Len(s) >= Len(whole)
    PROVE  s = whole
<1>1. Len(s) = Len(whole) /\ Len(s) \in Nat
  BY DEF Begins
<1>2. \A i \in 1..Len(s) : s[i] = whole[i]
  BY DEF Begins
<1>3. s = [i \in 1..Len(s) |-> s[i]] /\ whole = [i \in 1..Len(s) |-> whole[i]]
  BY <1>1
<1>4. QED
  BY <1>2, <1>3

\* The next element makes a longer beginning.
LEMMA BeginsNext ==
    ASSUME NEW R, NEW s \in Seq(R), NEW Q, NEW whole \in Seq(Q), Begins(s, whole), Len(s) < Len(whole)
    PROVE  /\ Len(s) + 1 \in DOMAIN whole
           /\ Begins(Append(s, whole[Len(s) + 1]), whole)
<1>1. PICK n : n = Len(s) + 1
  OBVIOUS
<1>2. PICK more : more = Append(s, whole[n])
  OBVIOUS
<1>3. n \in DOMAIN whole /\ DOMAIN more = 1..n /\ Len(more) = n
  BY <1>1, <1>2
<1>4. \A i \in 1..n : more[i] = whole[i]
  <2>1. TAKE i \in 1..n
  <2>2. CASE i = n
    BY <1>1, <1>2, <2>2
  <2>3. CASE i # n
    BY <1>1, <1>2, <2>3 DEF Begins
  <2>4. QED
    BY <2>2, <2>3
<1>5. QED
  BY <1>1, <1>2, <1>3, <1>4 DEF Begins
=============================================================================
