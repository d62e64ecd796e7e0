---- MODULE LifecyclesProofs ----
(***************************************************************************)
(* The parts that live and die with a configuration, for every value of    *)
(* their constants.                                                        *)
(*                                                                         *)
(* The kernel of xray serves the users its instances hold, and reports     *)
(* every byte they carry at most once: the bytes add up over finite sets   *)
(* of users, of whose sums a least counterexample is taken.                *)
(*                                                                         *)
(* Ranges of ports are merged without losing or adding one, and the plan   *)
(* of a node redirects no port to itself.                                  *)
(*                                                                         *)
(* What the firewall manager has put into the host is recorded on disk     *)
(* before it is there and until it is gone: the argument follows one call, *)
(* which lists the host's rules, so that a rule of ours is listed as such  *)
(* or was opened by this call, and disowns only what is neither.  A port   *)
(* that a node was promised stays open while other nodes come and go,      *)
(* since what a call takes away no plan it read asks for.                  *)
(*                                                                         *)
(* Two generations of services never run together: where runWithReload is  *)
(* tells which services and managers there are, and the reloads a process  *)
(* has behind it and before it are counted against the edits of its file.  *)
(***************************************************************************)
EXTENDS Lifecycles, FiniteSetTheorems, TLAPS

---------------------------------------------------------------------------
(* Sums.  The folds of the community modules are recursive functions over the subsets of a finite set:  *)
(* that such a function exists, and what it adds up to, follows from the fact that a family of subsets   *)
(* of a finite set has a least member, which stands for induction.                                       *)

LEMMA LeastSubset ==
  ASSUME NEW S, IsFiniteSet(S), NEW family \in SUBSET (SUBSET S), family # {}
  PROVE  \E s \in family : \A t \in family : t \subseteq s => t = s
<1>1. IsWellFoundedOn(StrictSubsetOrdering(S), SUBSET S)
  BY FS_StrictSubsetOrderingWellFounded, FS_FiniteSubsetsOfFinite
<1>2. PICK s \in family : \A t \in family : ~ (<<t, s>> \in StrictSubsetOrdering(S))
  BY <1>1, WFMin
<1>3. QED
  BY <1>2 DEF StrictSubsetOrdering

\* The element a fold takes next, and what it is to add up f over the subsets of U.
Chosen(s) == CHOOSE x \in s : TRUE
Adds(f, g, U) == g = [s \in SUBSET U |-> IF s = {} THEN 0 ELSE f[Chosen(s)] + g[s \ {Chosen(s)}]]

LEMMA ChosenIn == ASSUME NEW s, s # {} PROVE Chosen(s) \in s
  BY DEF Chosen

LEMMA AddsNone == ASSUME NEW f, NEW g, NEW U, Adds(f, g, U) PROVE g[{}] = 0
  BY DEF Adds

LEMMA AddsMore ==
  ASSUME NEW f, NEW g, NEW U, Adds(f, g, U), NEW s \in SUBSET U, s # {}
  PROVE  g[s] = f[Chosen(s)] + g[s \ {Chosen(s)}]
<1>1. g[s] = IF s = {} THEN 0 ELSE f[Chosen(s)] + g[s \ {Chosen(s)}]
  BY DEF Adds
<1>2. QED
  BY <1>1

\* Two of them agree where both are defined.
LEMMA AddsAgree ==
  ASSUME NEW S, IsFiniteSet(S), NEW f, NEW g, NEW h, NEW U \in SUBSET S, NEW V \in SUBSET S,
         Adds(f, g, U), Adds(f, h, V), NEW t \in SUBSET (U \cap V)
  PROVE  g[t] = h[t]
<1> DEFINE bad == {s \in SUBSET (U \cap V) : g[s] # h[s]}
<1>1. SUFFICES ASSUME bad # {} PROVE FALSE
  OBVIOUS
<1>2. PICK s \in bad : \A r \in bad : r \subseteq s => r = s
  <2>1. bad \in SUBSET (SUBSET S)
    OBVIOUS
  <2> HIDE DEF bad
  <2>2. QED
    BY <1>1, <2>1, LeastSubset
<1>3. s \in SUBSET U /\ s \in SUBSET V /\ g[s] # h[s]
  OBVIOUS
<1>4. CASE s = {}
  BY <1>3, <1>4, AddsNone
<1>5. CASE s # {}
  <2>1. Chosen(s) \in s
    BY <1>5, ChosenIn
  <2>2. g[s \ {Chosen(s)}] = h[s \ {Chosen(s)}]
    BY <1>2, <1>3, <2>1
  <2>3. g[s] = f[Chosen(s)] + g[s \ {Chosen(s)}]
    <3>1. g = [r \in SUBSET U |-> IF r = {} THEN 0 ELSE f[Chosen(r)] + g[r \ {Chosen(r)}]]
      BY DEF Adds
    <3>2. g[s] = IF s = {} THEN 0 ELSE f[Chosen(s)] + g[s \ {Chosen(s)}]
      BY ONLY <3>1, <1>3
    <3>3. QED
      BY <1>5, <3>2
  <2>4. h[s] = f[Chosen(s)] + h[s \ {Chosen(s)}]
    <3>1. Adds(f, h, V) /\ s \in SUBSET V /\ s # {}
      BY <1>3, <1>5
    <3> HIDE DEF bad
    <3>2. QED
      BY ONLY <3>1, AddsMore
  <2>5. QED
    BY <1>3, <2>2, <2>3, <2>4
<1>6. QED
  BY <1>4, <1>5

\* There is one: put together from those of the smaller sets.
LEMMA AddsExists ==
  ASSUME NEW S, IsFiniteSet(S), NEW f
  PROVE  \E g : Adds(f, g, S)
<1> DEFINE bad == {T \in SUBSET S : ~ \E g : Adds(f, g, T)}
<1>1. SUFFICES ASSUME bad # {} PROVE FALSE
  OBVIOUS
<1>2. PICK T \in bad : \A t \in bad : t \subseteq T => t = T
  <2>1. bad \in SUBSET (SUBSET S)
    OBVIOUS
  <2> HIDE DEF bad
  <2>2. QED
    BY <1>1, <2>1, LeastSubset
<1> DEFINE Sol(U) == CHOOSE g : Adds(f, g, U)
           below == [s \in SUBSET T |-> IF s = T THEN 0 ELSE Sol(s)[s]]
           whole == [s \in SUBSET T |-> IF s = {} THEN 0 ELSE f[Chosen(s)] + below[s \ {Chosen(s)}]]
<1>3. ASSUME NEW U \in SUBSET T, U # T PROVE Adds(f, Sol(U), U)
  <2>1. U \notin bad /\ U \in SUBSET S
    BY <1>2, <1>3
  <2>2. \E g : Adds(f, g, U)
    BY <2>1
  <2>3. QED
    BY <2>2
<1>4. ASSUME NEW s \in SUBSET T, s # T PROVE whole[s] = Sol(s)[s]
  <2>1. Adds(f, Sol(s), s)
    BY <1>3, <1>4
  <2>2. CASE s = {}
    <3> HIDE DEF Sol
    <3>1. Sol(s)[s] = 0
      BY <2>1, <2>2, AddsNone
    <3>2. QED
      BY <3>1, <2>2
  <2>3. CASE s # {}
    <3> DEFINE r == s \ {Chosen(s)}
    <3>1. Chosen(s) \in s /\ r \in SUBSET T /\ r # T
      BY <2>3, ChosenIn, <1>4
    <3>2. Adds(f, Sol(r), r)
      BY <3>1, <1>3
    <3>3. r \in SUBSET (s \cap r) /\ s \in SUBSET S /\ r \in SUBSET S
      BY <3>1, <1>2
    <3> HIDE DEF Sol, r
    <3>4. Sol(s)[r] = Sol(r)[r]
      BY <2>1, <3>2, <3>3, AddsAgree
    <3>5. Sol(s)[s] = f[Chosen(s)] + Sol(s)[r]
      BY <2>1, <2>3, AddsMore DEF r
    <3>6. below[r] = Sol(r)[r]
      BY <3>1
    <3>7. whole[s] = f[Chosen(s)] + below[r]
      BY <2>3 DEF r
    <3>8. QED
      BY <3>4, <3>5, <3>6, <3>7
  <2>4. QED
    BY <2>2, <2>3
<1>5. \A s \in SUBSET T : s # {} => s \ {Chosen(s)} \in SUBSET T /\ s \ {Chosen(s)} # T
  BY ChosenIn
<1>6. \A s \in SUBSET T : s # {} => below[s \ {Chosen(s)}] = whole[s \ {Chosen(s)}]
  <2>1. \A s \in SUBSET T : s # T => below[s] = whole[s]
    <3>1. \A s \in SUBSET T : s # T => whole[s] = Sol(s)[s]
      BY <1>4
    <3> HIDE DEF Sol, whole
    <3>2. QED
      BY <3>1
  <2> HIDE DEF Sol, whole, below
  <2>2. QED
    BY <2>1, <1>5
<1>7. Adds(f, whole, T)
  <2> HIDE DEF below
  <2>1. \A s \in SUBSET T : whole[s] = IF s = {} THEN 0 ELSE f[Chosen(s)] + whole[s \ {Chosen(s)}]
    BY <1>6
  <2> DEFINE again == [s \in SUBSET T |-> IF s = {} THEN 0 ELSE f[Chosen(s)] + whole[s \ {Chosen(s)}]]
  <2>2. whole = again
    BY <2>1
  <2>3. QED
    BY <2>2 DEF Adds
<1>8. QED
  BY <1>7, <1>2

Total(f, S) == MapThenSumSet(LAMBDA i : f[i], S)
TotalFcn(f, S) == CHOOSE g : Adds(f, g, S)

LEMMA TotalIs == ASSUME NEW f, NEW S PROVE Total(f, S) = TotalFcn(f, S)[S]
  BY DEF Total, TotalFcn, MapThenSumSet, MapThenFoldSet, Adds, Chosen

LEMMA TotalFcnAdds == ASSUME NEW f, NEW S, IsFiniteSet(S) PROVE Adds(f, TotalFcn(f, S), S)
  BY AddsExists DEF TotalFcn

LEMMA TotalNone == ASSUME NEW f PROVE Total(f, {}) = 0
<1>1. IsFiniteSet({})
  BY FS_EmptySet
<1>2. QED
  BY <1>1, TotalIs, TotalFcnAdds, AddsNone

LEMMA TotalMore ==
  ASSUME NEW f, NEW S, IsFiniteSet(S), S # {}
  PROVE  Total(f, S) = f[Chosen(S)] + Total(f, S \ {Chosen(S)})
<1> DEFINE r == S \ {Chosen(S)}
<1>1. IsFiniteSet(r) /\ r \in SUBSET S
  BY FS_Subset
<1>2. Adds(f, TotalFcn(f, S), S) /\ Adds(f, TotalFcn(f, r), r)
  BY <1>1, TotalFcnAdds
<1>3. TotalFcn(f, S)[S] = f[Chosen(S)] + TotalFcn(f, S)[r]
  <2>1. S \in SUBSET S
    OBVIOUS
  <2>2. QED
    BY <1>2, <2>1, AddsMore
<1> HIDE DEF r
<1>4. TotalFcn(f, S)[r] = TotalFcn(f, r)[r]
  <2>1. r \in SUBSET (S \cap r) /\ S \in SUBSET S
    BY <1>1
  <2>2. QED
    BY <1>1, <1>2, <2>1, AddsAgree
<1>5. Total(f, S) = TotalFcn(f, S)[S] /\ Total(f, r) = TotalFcn(f, r)[r]
  BY TotalIs
<1>6. QED
  BY <1>3, <1>4, <1>5 DEF r

LEMMA TotalNat ==
  ASSUME NEW S, IsFiniteSet(S), NEW f, \A i \in S : f[i] \in Nat
  PROVE  Total(f, S) \in Nat
<1> DEFINE bad == {s \in SUBSET S : Total(f, s) \notin Nat}
<1>1. SUFFICES ASSUME bad # {} PROVE FALSE
  OBVIOUS
<1>2. PICK s \in bad : \A t \in bad : t \subseteq s => t = s
  <2>1. bad \in SUBSET (SUBSET S)
    OBVIOUS
  <2> HIDE DEF bad
  <2>2. QED
    BY <1>1, <2>1, LeastSubset
<1>3. IsFiniteSet(s) /\ s # {}
  <2>1. s # {}
    BY TotalNone
  <2>2. s \in SUBSET S
    OBVIOUS
  <2> HIDE DEF bad
  <2>3. QED
    BY <2>1, <2>2, FS_Subset
<1>4. Chosen(s) \in s
  BY <1>3, ChosenIn
<1>5. s \ {Chosen(s)} \notin bad /\ f[Chosen(s)] \in Nat
  BY <1>2, <1>4
<1>6. Total(f, s) = f[Chosen(s)] + Total(f, s \ {Chosen(s)})
  BY <1>3, TotalMore
<1>7. QED
  BY <1>5, <1>6

\* Any element may be taken out first.
LEMMA TotalTake ==
  ASSUME NEW S, IsFiniteSet(S), NEW f, \A i \in S : f[i] \in Nat, NEW x \in S
  PROVE  Total(f, S) = f[x] + Total(f, S \ {x})
<1> DEFINE bad == {s \in SUBSET S : \E y \in s : Total(f, s) # f[y] + Total(f, s \ {y})}
<1>1. SUFFICES ASSUME bad # {} PROVE FALSE
  OBVIOUS
<1>2. PICK s \in bad : \A t \in bad : t \subseteq s => t = s
  <2>1. bad \in SUBSET (SUBSET S)
    OBVIOUS
  <2> HIDE DEF bad
  <2>2. QED
    BY <1>1, <2>1, LeastSubset
<1>3. PICK y \in s : Total(f, s) # f[y] + Total(f, s \ {y})
  OBVIOUS
<1> DEFINE c == Chosen(s)
<1>4. c \in s /\ IsFiniteSet(s) /\ s \in SUBSET S
  BY <1>3, ChosenIn, FS_Subset
<1>5. Total(f, s) = f[c] + Total(f, s \ {c})
  BY <1>3, <1>4, TotalMore
<1>6. c # y
  BY <1>3, <1>5
<1> HIDE DEF c
<1>7. Total(f, s \ {c}) = f[y] + Total(f, (s \ {c}) \ {y})
  <2>1. s \ {c} \notin bad /\ s \ {c} \in SUBSET S /\ y \in s \ {c}
    BY <1>2, <1>4, <1>6
  <2>2. QED
    BY <2>1
<1>8. Total(f, s \ {y}) = f[c] + Total(f, (s \ {y}) \ {c})
  <2>1. s \ {y} \notin bad /\ s \ {y} \in SUBSET S /\ c \in s \ {y}
    BY <1>2, <1>4, <1>6
  <2>2. QED
    BY <2>1
<1>9. (s \ {c}) \ {y} = (s \ {y}) \ {c}
  OBVIOUS
<1>10. Total(f, (s \ {y}) \ {c}) \in Nat /\ f[c] \in Nat /\ f[y] \in Nat
  <2>1. IsFiniteSet((s \ {y}) \ {c})
    BY <1>4, FS_Subset
  <2>2. QED
    BY <1>4, <2>1, TotalNat
<1> HIDE DEF bad
<1>11. QED
  BY <1>3, <1>5, <1>7, <1>8, <1>9, <1>10

\* Sums are taken element by element.
LEMMA TotalSplit ==
  ASSUME NEW S, IsFiniteSet(S), NEW f, NEW g, NEW h,
         \A i \in S : f[i] \in Nat /\ g[i] \in Nat /\ h[i] = f[i] + g[i]
  PROVE  Total(h, S) = Total(f, S) + Total(g, S)
<1> DEFINE bad == {s \in SUBSET S : Total(h, s) # Total(f, s) + Total(g, s)}
<1>1. SUFFICES ASSUME bad # {} PROVE FALSE
  OBVIOUS
<1>2. PICK s \in bad : \A t \in bad : t \subseteq s => t = s
  <2>1. bad \in SUBSET (SUBSET S)
    OBVIOUS
  <2> HIDE DEF bad
  <2>2. QED
    BY <1>1, <2>1, LeastSubset
<1>3. IsFiniteSet(s) /\ s # {} /\ s \in SUBSET S
  <2>1. s # {}
    <3>1. Total(f, {}) = 0 /\ Total(g, {}) = 0 /\ Total(h, {}) = 0
      BY TotalNone
    <3>2. {} \notin bad
      BY <3>1
    <3> HIDE DEF bad
    <3>3. QED
      BY <3>2
  <2>2. s \in SUBSET S
    OBVIOUS
  <2> HIDE DEF bad
  <2>3. QED
    BY <2>1, <2>2, FS_Subset
<1> DEFINE c == Chosen(s)
           r == s \ {c}
<1>4. c \in s /\ c \in S
  BY <1>3, ChosenIn
<1>5. Total(f, s) = f[c] + Total(f, r) /\ Total(g, s) = g[c] + Total(g, r) /\ Total(h, s) = h[c] + Total(h, r)
  BY <1>3, TotalMore
<1>6. r \notin bad /\ r \in SUBSET S /\ IsFiniteSet(r)
  BY <1>2, <1>3, <1>4, FS_Subset
<1>7. Total(h, r) = Total(f, r) + Total(g, r)
  BY <1>6
<1>8. Total(f, r) \in Nat /\ Total(g, r) \in Nat
  <2>1. \A i \in r : f[i] \in Nat /\ g[i] \in Nat
    BY <1>6
  <2> HIDE DEF r
  <2>2. QED
    BY <1>6, <2>1, TotalNat
<1>9. Total(h, s) # Total(f, s) + Total(g, s)
  OBVIOUS
<1>10. f[c] \in Nat /\ g[c] \in Nat /\ h[c] = f[c] + g[c]
  BY <1>4
<1> HIDE DEF r, c, bad
<1>11. QED
  BY <1>5, <1>7, <1>8, <1>9, <1>10

LEMMA TotalZero ==
  ASSUME NEW S, IsFiniteSet(S), NEW f, \A i \in S : f[i] = 0
  PROVE  Total(f, S) = 0
<1>1. \A i \in S : f[i] \in Nat /\ f[i] = f[i] + f[i]
  OBVIOUS
<1>2. Total(f, S) = Total(f, S) + Total(f, S)
  BY <1>1, TotalSplit
<1>3. Total(f, S) \in Nat
  BY <1>1, TotalNat
<1>4. \A n \in Nat : n = n + n => n = 0
  OBVIOUS
<1>5. QED
  BY <1>2, <1>3, <1>4

\* Sums of the same numbers, and of numbers that are not greater.
LEMMA TotalAtMost ==
  ASSUME NEW S, IsFiniteSet(S), NEW f, NEW g, \A i \in S : f[i] \in Nat /\ g[i] \in Nat /\ f[i] <= g[i]
  PROVE  Total(f, S) <= Total(g, S)
<1> DEFINE d == [i \in S |-> g[i] - f[i]]
<1>1. \A i \in S : f[i] \in Nat /\ d[i] \in Nat /\ g[i] = f[i] + d[i]
  OBVIOUS
<1> HIDE DEF d
<1>2. Total(g, S) = Total(f, S) + Total(d, S)
  BY <1>1, TotalSplit
<1>3. Total(f, S) \in Nat /\ Total(d, S) \in Nat
  BY <1>1, TotalNat
<1>4. QED
  BY <1>2, <1>3
LEMMA TotalSame ==
  ASSUME NEW S, IsFiniteSet(S), NEW f, NEW g, \A i \in S : f[i] \in Nat /\ f[i] = g[i]
  PROVE  Total(f, S) = Total(g, S)
<1>1. Total(f, S) <= Total(g, S) /\ Total(g, S) <= Total(f, S)
  BY TotalAtMost
<1>2. Total(f, S) \in Nat /\ Total(g, S) \in Nat
  BY TotalNat
<1>3. QED
  BY <1>1, <1>2

\* Elements that count nothing may be left out.
LEMMA TotalWithout ==
  ASSUME NEW S, IsFiniteSet(S), NEW f, \A i \in S : f[i] \in Nat,
         NEW T \in SUBSET S, \A i \in S \ T : f[i] = 0
  PROVE  Total(f, S) = Total(f, T)
<1> DEFINE bad == {s \in SUBSET S : T \subseteq s /\ Total(f, s) # Total(f, T)}
<1>1. SUFFICES ASSUME bad # {} PROVE FALSE
  OBVIOUS
<1>2. PICK s \in bad : \A t \in bad : t \subseteq s => t = s
  <2>1. bad \in SUBSET (SUBSET S)
    OBVIOUS
  <2> HIDE DEF bad
  <2>2. QED
    BY <1>1, <2>1, LeastSubset
<1>3. s # T /\ T \subseteq s /\ s \in SUBSET S /\ IsFiniteSet(s)
  BY FS_Subset
<1>4. PICK x \in s : x \notin T
  BY <1>3
<1>5. Total(f, s) = f[x] + Total(f, s \ {x})
  BY <1>3, TotalTake
<1>6. Total(f, s \ {x}) \in Nat
  <2>1. IsFiniteSet(s \ {x})
    BY <1>3, FS_Subset
  <2>2. QED
    BY <1>3, <2>1, TotalNat
<1>7. f[x] = 0
  BY <1>3, <1>4
<1>8. Total(f, s \ {x}) = Total(f, T)
  BY <1>2, <1>3, <1>4
<1>9. QED
  BY <1>5, <1>6, <1>7, <1>8

\* The sums the model takes over instances are such totals.
LEMMA UnreadTotal ==
  ASSUME NEW all, NEW S
  PROVE  MapThenSumSet(LAMBDA i : all[i].unread, S) = Total([i \in S |-> all[i].unread], S)
<1> DEFINE f == [i \in S |-> all[i].unread]
           a == CHOOSE g : g = [s \in SUBSET S |-> IF s = {} THEN 0 ELSE f[Chosen(s)] + g[s \ {Chosen(s)}]]
           b == CHOOSE g : g = [s \in SUBSET S |-> IF s = {} THEN 0 ELSE all[Chosen(s)].unread + g[s \ {Chosen(s)}]]
<1>1. \A s \in SUBSET S : s # {} => f[Chosen(s)] = all[Chosen(s)].unread
  BY ChosenIn
<1> HIDE DEF f
<1>2. ASSUME NEW g
      PROVE  g = [s \in SUBSET S |-> IF s = {} THEN 0 ELSE f[Chosen(s)] + g[s \ {Chosen(s)}]]
             <=> g = [s \in SUBSET S |-> IF s = {} THEN 0 ELSE all[Chosen(s)].unread + g[s \ {Chosen(s)}]]
  <2>1. [s \in SUBSET S |-> IF s = {} THEN 0 ELSE f[Chosen(s)] + g[s \ {Chosen(s)}]]
          = [s \in SUBSET S |-> IF s = {} THEN 0 ELSE all[Chosen(s)].unread + g[s \ {Chosen(s)}]]
    BY <1>1
  <2>2. QED
    BY <2>1
<1>3. a = b
  BY <1>2
<1>4. MapThenSumSet(LAMBDA i : f[i], S) = a[S]
  BY DEF MapThenSumSet, MapThenFoldSet, Chosen
<1>5. MapThenSumSet(LAMBDA i : all[i].unread, S) = b[S]
  BY DEF MapThenSumSet, MapThenFoldSet, Chosen
<1> HIDE DEF a, b
<1>6. MapThenSumSet(LAMBDA i : f[i], S) = MapThenSumSet(LAMBDA i : all[i].unread, S)
  BY <1>3, <1>4, <1>5
<1>7. QED
  BY <1>6 DEF Total, f

---------------------------------------------------------------------------
(* Ranges of ports *)

\* A set of numbers has a least one: the intervals from 0 to its members have a least one.
LEMMA LeastNat ==
  ASSUME NEW S \in SUBSET Nat, S # {}
  PROVE  \E m \in S : \A n \in S : m <= n
<1>1. PICK top \in S : TRUE
  OBVIOUS
<1> DEFINE below == {0..n : n \in S \cap 0..top}
<1>2. top \in Nat /\ IsFiniteSet(0..top)
  BY <1>1, FS_Interval
<1>3. PICK s \in below : \A t \in below : t \subseteq s => t = s
  <2> DEFINE all == 0..top
  <2>1. below \in SUBSET (SUBSET all) /\ IsFiniteSet(all)
    BY <1>2
  <2>2. below # {}
    BY <1>1, <1>2
  <2> HIDE DEF below, all
  <2>3. QED
    BY <2>1, <2>2, LeastSubset
<1>4. PICK m \in S \cap 0..top : s = 0..m
  OBVIOUS
<1>5. ASSUME NEW n \in S PROVE m <= n
  <2>1. m \in Nat /\ n \in Nat /\ m <= top
    BY <1>1, <1>4
  <2>2. SUFFICES ASSUME n < m PROVE FALSE
    BY <2>1
  <2>3. 0..n \in below /\ 0..n \subseteq 0..m
    BY <2>1, <2>2
  <2>4. 0..n = 0..m
    BY <1>3, <1>4, <2>3
  <2>5. m \in 0..n
    BY <2>1, <2>4
  <2>6. QED
    BY <2>1, <2>2, <2>5
<1>6. QED
  BY <1>4, <1>5

\* and, below a bound, a greatest one.
LEMMA GreatestNat ==
  ASSUME NEW top \in Nat, NEW S \in SUBSET (0..top), S # {}
  PROVE  \E m \in S : \A n \in S : n <= m
<1> DEFINE left == {top - n : n \in S}
<1>1. left \in SUBSET Nat /\ left # {}
  <2>1. \A n \in S : n \in Int /\ n <= top
    OBVIOUS
  <2>2. \A n \in S : top - n \in Nat
    BY <2>1
  <2>3. QED
    BY <2>2
<1>2. PICK l \in left : \A k \in left : l <= k
  <2> HIDE DEF left
  <2>1. QED
    BY <1>1, LeastNat
<1>3. PICK m \in S : l = top - m
  BY <1>2 DEF left
<1>4. ASSUME NEW n \in S PROVE n <= m
  <2>1. top - m <= top - n
    BY <1>2, <1>3
  <2>2. m \in Int /\ n \in Int
    OBVIOUS
  <2>3. QED
    BY <2>1, <2>2
<1>5. QED
  BY <1>4

\* Ranges of valid ports, as Merge takes them.
AreRanges(ranges) ==
  \A r \in ranges : {"from", "to"} \subseteq DOMAIN r /\ r.from \in Int /\ r.to \in Int /\ ValidRange(r)

\* A joined range ends somewhere.
LEMMA EndExists ==
  ASSUME NEW ranges, AreRanges(ranges), NEW r \in ranges
  PROVE  \E e \in Ends(ranges, r) : \A d \in Ends(ranges, r) : e <= d
<1> DEFINE tos == {s.to : s \in ranges}
<1>1. MaxPort \in Nat /\ tos \in SUBSET (0..MaxPort) /\ tos # {}
  BY FirewallConstants DEF AreRanges, ValidRange
<1>2. PICK top \in tos : \A t \in tos : t <= top
  <2> HIDE DEF tos
  <2>1. QED
    BY <1>1, GreatestNat
<1>3. top \in Ends(ranges, r)
  BY <1>2 DEF Ends
<1>4. Ends(ranges, r) \in SUBSET Nat
  BY <1>1 DEF Ends
<1>5. QED
  BY <1>3, <1>4, LeastNat

\* Where the range that starts with r ends.
EndOf(ranges, r) == CHOOSE e \in Ends(ranges, r) : \A d \in Ends(ranges, r) : e <= d
LEMMA MergeIs == ASSUME NEW ranges PROVE Merge(ranges) = {[r EXCEPT !.to = EndOf(ranges, r)] : r \in Starts(ranges)}
  BY DEF Merge, EndOf
LEMMA EndOfIs ==
  ASSUME NEW ranges, AreRanges(ranges), NEW r \in ranges
  PROVE  /\ EndOf(ranges, r) \in {s.to : s \in ranges} /\ EndOf(ranges, r) \in Nat /\ r.to <= EndOf(ranges, r)
         /\ \A s \in ranges : s.from <= EndOf(ranges, r) + 1 => s.to <= EndOf(ranges, r)
         /\ \A d \in Ends(ranges, r) : EndOf(ranges, r) <= d
<1>1. EndOf(ranges, r) \in Ends(ranges, r) /\ \A d \in Ends(ranges, r) : EndOf(ranges, r) <= d
  BY EndExists DEF EndOf
<1>2. {s.to : s \in ranges} \in SUBSET Nat
  BY FirewallConstants DEF AreRanges, ValidRange
<1>3. QED
  BY <1>1, <1>2 DEF Ends

\* The first of some ranges.
LEMMA FirstRange ==
  ASSUME NEW ranges, AreRanges(ranges), NEW some \in SUBSET ranges, some # {}
  PROVE  \E r \in some : \A s \in some : r.from <= s.from
<1> DEFINE froms == {r.from : r \in some}
<1>1. froms \in SUBSET Nat /\ froms # {}
  BY DEF AreRanges, ValidRange
<1>2. PICK m \in froms : \A n \in froms : m <= n
  <2> HIDE DEF froms
  <2>1. QED
    BY <1>1, LeastNat
<1>3. QED
  BY <1>2

\* Every range is within a joined one: it is joined to the last start at or before it.
LEMMA MergeCovers ==
  ASSUME NEW ranges, AreRanges(ranges), NEW r \in ranges
  PROVE  \E t \in Starts(ranges) : t.from <= r.from /\ r.to <= EndOf(ranges, t)
<1> DEFINE before == {t \in Starts(ranges) : t.from <= r.from}
           froms == {t.from : t \in before}
<1>1. \A s \in ranges : s.from \in Nat /\ s.to \in Nat /\ s.from <= s.to /\ s.from <= MaxPort
  BY FirewallConstants DEF AreRanges, ValidRange
<1>2. before # {}
  <2>1. PICK s \in ranges : \A q \in ranges : s.from <= q.from
    BY FirstRange
  <2>2. s \in Starts(ranges) /\ s.from <= r.from
    BY <1>1, <2>1 DEF Starts
  <2>3. QED
    BY <2>2
<1>3. PICK t \in before : \A s \in before : s.from <= t.from
  <2>1. MaxPort \in Nat /\ froms \in SUBSET (0..MaxPort) /\ froms # {}
    BY <1>1, <1>2, FirewallConstants DEF Starts
  <2>2. PICK m \in froms : \A n \in froms : n <= m
    <3> HIDE DEF froms
    <3>1. QED
      BY <2>1, GreatestNat
  <2>3. QED
    BY <2>2
<1>4. t \in ranges /\ t \in Starts(ranges) /\ t.from <= r.from
  BY DEF Starts
<1> DEFINE e == EndOf(ranges, t)
<1>5. e \in Nat /\ t.to <= e /\ \A s \in ranges : s.from <= e + 1 => s.to <= e
  BY <1>4, EndOfIs
<1>6. r.to <= e
  <2>1. SUFFICES ASSUME e < r.to PROVE FALSE
    BY <1>1, <1>5
  <2> DEFINE later == {s \in ranges : e + 1 < s.from}
  <2>2. r \in later
    BY <1>1, <1>5, <2>1
  <2>3. PICK x \in later : \A s \in later : x.from <= s.from
    BY <2>2, FirstRange
  <2>4. x \in ranges /\ x.from <= r.from /\ e + 1 < x.from
    BY <2>2, <2>3
  <2>5. ASSUME NEW s \in ranges, s.from < x.from PROVE s.to + 1 < x.from
    <3>1. s \notin later
      BY <1>1, <2>3, <2>4, <2>5
    <3>2. s.from <= e + 1
      BY <1>1, <1>5, <3>1
    <3>3. QED
      BY <1>1, <1>5, <2>4, <3>2
  <2>6. x \in before
    BY <2>4, <2>5 DEF Starts
  <2>7. x.from <= t.from
    BY <1>3, <2>6
  <2>8. t.from <= t.to
    BY <1>1, <1>4
  <2>9. QED
    BY <1>1, <1>4, <1>5, <2>4, <2>7, <2>8
<1>7. QED
  BY <1>4, <1>6

\* and a joined range has no port that no range has: it would end before it.
LEMMA MergeAddsNone ==
  ASSUME NEW ranges, AreRanges(ranges), NEW t \in Starts(ranges), NEW port \in t.from..EndOf(ranges, t)
  PROVE  \E r \in ranges : ContainsPort(r, port)
<1> DEFINE e == EndOf(ranges, t)
           short == {s.to : s \in {s \in ranges : s.to < port}}
<1>1. \A s \in ranges : s.from \in Nat /\ s.to \in Nat /\ s.from <= s.to /\ s.to <= MaxPort
  BY FirewallConstants DEF AreRanges, ValidRange
<1>2. t \in ranges /\ e \in Nat /\ port \in Nat /\ t.from <= port /\ port <= e
  BY <1>1, EndOfIs DEF Starts
<1>3. SUFFICES ASSUME \A r \in ranges : ~ContainsPort(r, port) PROVE FALSE
  OBVIOUS
<1>4. \A s \in ranges : s.from <= port => s.to < port
  BY <1>1, <1>2, <1>3 DEF ContainsPort
<1>5. PICK d \in short : \A n \in short : n <= d
  <2>1. MaxPort \in Nat /\ short \in SUBSET (0..MaxPort) /\ t.to \in short
    BY <1>1, <1>2, <1>4, FirewallConstants
  <2> HIDE DEF short
  <2>2. QED
    BY <2>1, GreatestNat
<1>6. d \in {s.to : s \in ranges} /\ d \in Nat /\ d < port /\ t.to <= d
  BY <1>1, <1>2, <1>4, <1>5
<1>7. \A s \in ranges : s.from <= d + 1 => s.to <= d
  BY <1>1, <1>2, <1>4, <1>5, <1>6
<1>8. d \in Ends(ranges, t)
  BY <1>6, <1>7 DEF Ends
<1>9. e <= d
  BY <1>2, <1>8, EndOfIs
<1> HIDE DEF e, short
<1>10. QED
  BY <1>2, <1>6, <1>9

\* Merge keeps the ports of its ranges, all of them and no others, in ranges that neither overlap nor touch.
THEOREM MergeExact ==
  ASSUME NEW ranges, AreRanges(ranges)
  PROVE  /\ UNION {Ports(s) : s \in Merge(ranges)} = UNION {Ports(r) : r \in ranges}
         /\ \A s, t \in Merge(ranges) : s.from < t.from => s.to + 1 < t.from
<1> DEFINE joined(t) == [t EXCEPT !.to = EndOf(ranges, t)]
<1>1. \A r \in ranges : r.from \in Nat /\ r.to \in Nat /\ r.from <= r.to
  BY DEF AreRanges, ValidRange
<1>2. Starts(ranges) \subseteq ranges
  BY DEF Starts
<1>3. \A t \in Starts(ranges) : EndOf(ranges, t) \in Nat /\ t.to <= EndOf(ranges, t)
  BY <1>2, EndOfIs
<1>4. Merge(ranges) = {joined(t) : t \in Starts(ranges)}
  BY MergeIs
<1>5. \A t \in Starts(ranges) : joined(t).from = t.from /\ joined(t).to = EndOf(ranges, t)
  BY <1>2 DEF AreRanges
<1> HIDE DEF joined
<1>6. ASSUME NEW s \in Merge(ranges), NEW port \in Ports(s) PROVE \E r \in ranges : port \in Ports(r)
  <2>1. PICK t \in Starts(ranges) : s = joined(t)
    BY <1>4
  <2>2. port \in t.from..EndOf(ranges, t)
    BY <1>5, <2>1 DEF Ports
  <2>3. PICK r \in ranges : ContainsPort(r, port)
    BY <2>2, MergeAddsNone
  <2>4. port \in Int
    BY <1>1, <1>2, <1>3, <2>2
  <2>5. QED
    BY <1>1, <2>3, <2>4 DEF ContainsPort, Ports
<1>7. ASSUME NEW r \in ranges, NEW port \in Ports(r) PROVE \E s \in Merge(ranges) : port \in Ports(s)
  <2>1. PICK t \in Starts(ranges) : t.from <= r.from /\ r.to <= EndOf(ranges, t)
    BY MergeCovers
  <2>2. joined(t) \in Merge(ranges) /\ joined(t).from <= r.from /\ r.to <= joined(t).to
    BY <1>4, <1>5, <2>1
  <2>3. joined(t).from \in Nat /\ joined(t).to \in Nat
    BY <1>1, <1>2, <1>3, <1>5
  <2>4. QED
    BY <1>1, <2>2, <2>3 DEF Ports
<1>8. ASSUME NEW s \in Merge(ranges), NEW t \in Merge(ranges), s.from < t.from PROVE s.to + 1 < t.from
  <2>1. PICK p \in Starts(ranges), q \in Starts(ranges) : s = joined(p) /\ t = joined(q)
    BY <1>4
  <2>2. s.from = p.from /\ s.to = EndOf(ranges, p) /\ t.from = q.from
    BY <1>5, <2>1
  <2> DEFINE reach == {r \in ranges : r.from < q.from}
             tos == {r.to : r \in reach}
  <2>3. PICK d \in tos : \A n \in tos : n <= d
    <3>1. MaxPort \in Nat /\ tos \in SUBSET (0..MaxPort) /\ p.to \in tos
      BY <1>1, <1>2, <1>8, <2>2, FirewallConstants DEF AreRanges, ValidRange
    <3> HIDE DEF tos
    <3>2. QED
      BY <3>1, GreatestNat
  <2>4. d \in {r.to : r \in ranges} /\ d + 1 < q.from /\ p.to <= d /\ d \in Nat
    BY <1>1, <1>2, <1>8, <2>2, <2>3 DEF Starts
  <2>5. \A r \in ranges : r.from <= d + 1 => r.to <= d
    BY <1>1, <1>2, <2>3, <2>4
  <2>6. d \in Ends(ranges, p)
    BY <2>4, <2>5 DEF Ends
  <2>7. EndOf(ranges, p) <= d
    BY <1>2, <2>6, EndOfIs
  <2>8. EndOf(ranges, p) \in Nat /\ q.from \in Nat
    BY <1>1, <1>2, <1>3
  <2>9. QED
    BY <2>2, <2>4, <2>7, <2>8
<1>9. QED
  BY <1>6, <1>7, <1>8

---------------------------------------------------------------------------
(* Plans *)

\* Merged rules cover every rule they were merged from.
LEMMA MergeRulesCover ==
  ASSUME NEW rules \in SUBSET Rules, NEW r \in rules
  PROVE  \E s \in MergeRules(rules) : Covers(s, r) /\ s.family = r.family
<1> DEFINE like == {s \in rules : \A f \in {"family", "address", "protocol", "target"} : s[f] = r[f]}
<1>1. r \in like /\ Merge(like) \subseteq MergeRules(rules)
  BY DEF MergeRules
<1>2. AreRanges(like)
  BY DEF AreRanges, Rules
<1>3. \A s \in like : s \in Rules /\ s.family = r.family /\ s.address = r.address /\ s.protocol = r.protocol /\ s.target = r.target
  OBVIOUS
<1> HIDE DEF like
<1>4. PICK t \in Starts(like) : t.from <= r.from /\ r.to <= EndOf(like, t)
  BY <1>1, <1>2, MergeCovers
<1> DEFINE s == [t EXCEPT !.to = EndOf(like, t)]
<1>5. s \in Merge(like)
  BY MergeIs
<1>6. t \in Rules /\ t.family = r.family /\ t.address = r.address /\ t.protocol = r.protocol /\ t.target = r.target
  BY <1>3 DEF Starts
<1>7. /\ s.family = t.family /\ s.address = t.address /\ s.protocol = t.protocol /\ s.target = t.target
      /\ s.from = t.from /\ s.to = EndOf(like, t)
  BY <1>6 DEF Rules
<1>8. EndOf(like, t) \in Nat /\ t.from \in Int /\ r.from \in Int /\ r.to \in Int
  BY <1>1, <1>2, <1>6, EndOfIs DEF Starts, AreRanges, Rules
<1>9. Ports(r) \subseteq Ports(s)
  BY <1>4, <1>7, <1>8 DEF Ports
<1>10. QED
  BY <1>1, <1>5, <1>6, <1>7, <1>9 DEF Covers

PlansTyped == plans \in PlanSets /\ \A o \in DOMAIN plans : plans[o] \in Plans

LEMMA UntargetedIs == ASSUME NEW rules \in SUBSET Rules PROVE Untargeted(rules) \in SUBSET Rules
<1>1. SUFFICES ASSUME NEW r \in rules PROVE [r EXCEPT !.target = 0] \in Rules
  BY DEF Untargeted
<1>2. r \in Rules
  OBVIOUS
<1>3. QED
  BY <1>2, FirewallConstants DEF Rules, ValidRange

\* What a node asked for is among the rules the manager wants, and among its redirects.
LEMMA AllowsCover ==
  ASSUME PlansTyped, NEW o \in DOMAIN plans, NEW r \in plans[o].listeners \cup Untargeted(plans[o].redirects)
  PROVE  \E s \in AllowsFor[plans] : Covers(s, r)
<1> DEFINE all == UNION {plans[n].listeners \cup Untargeted(plans[n].redirects) : n \in DOMAIN plans}
<1>1. AllowsFor[plans] = MergeRules(all)
  BY DEF PlansTyped, AllowsFor, Allows
<1>2. \A n \in DOMAIN plans : plans[n].listeners \cup Untargeted(plans[n].redirects) \in SUBSET Rules
  BY UntargetedIs DEF PlansTyped, Plans
<1>3. all \in SUBSET Rules /\ r \in all
  BY <1>2
<1> HIDE DEF all
<1>4. QED
  BY <1>1, <1>3, MergeRulesCover

LEMMA RedirectsCover ==
  ASSUME PlansTyped, NEW o \in DOMAIN plans, NEW r \in plans[o].redirects
  PROVE  /\ r.family \in {4, 6}
         /\ \E s \in RedirectsFor[plans] : Covers(s, r) /\ s.family = r.family
<1> DEFINE all == UNION {plans[n].redirects : n \in DOMAIN plans}
<1>1. RedirectsFor[plans] = MergeRules(all)
  BY DEF PlansTyped, RedirectsFor, Redirects
<1>2. all \in SUBSET Rules /\ r \in all /\ r \in Rules
  BY DEF PlansTyped, Plans
<1>3. r.family \in {4, 6}
  BY <1>2 DEF Rules
<1> HIDE DEF all
<1>4. QED
  BY <1>1, <1>2, <1>3, MergeRulesCover

---------------------------------------------------------------------------
(* The plan of a node *)

\* What the panel says of a node, as far as its ports go; that "" is a string, no prover sees.
Strings(node) == {node.listen, ""} \subseteq STRING
IsNode(node) ==
  /\ Strings(node)
  /\ {"protocol", "port"} \subseteq DOMAIN node
  /\ node.port \in Int /\ node.landing.port \in Int
  /\ \A r \in node.hopping : {"from", "to"} \subseteq DOMAIN r /\ r.from \in Int /\ r.to \in Int

\* Merging valid ranges gives valid ranges, and so does leaving a port out of them, which none then holds.
LEMMA MergeValid ==
  ASSUME NEW ranges, AreRanges(ranges)
  PROVE  AreRanges(Merge(ranges))
<1>1. SUFFICES ASSUME NEW t \in Starts(ranges)
               PROVE LET r == [t EXCEPT !.to = EndOf(ranges, t)]
                     IN {"from", "to"} \subseteq DOMAIN r /\ r.from \in Int /\ r.to \in Int /\ ValidRange(r)
  BY MergeIs DEF AreRanges
<1> DEFINE e == EndOf(ranges, t)
           r == [t EXCEPT !.to = e]
<1>2. t \in ranges
  BY DEF Starts
<1>3. {"from", "to"} \subseteq DOMAIN t /\ t.from \in Int /\ t.to \in Int /\ ValidRange(t)
  BY <1>2 DEF AreRanges
<1>4. e \in {s.to : s \in ranges} /\ e \in Nat /\ t.to <= e
  BY <1>2, EndOfIs
<1>5. e <= MaxPort
  BY <1>4 DEF AreRanges, ValidRange
<1> HIDE DEF e
<1>6. DOMAIN r = DOMAIN t /\ r.from = t.from /\ r.to = e
  BY <1>3
<1> HIDE DEF r
<1>7. {"from", "to"} \subseteq DOMAIN r /\ r.from \in Int /\ r.to \in Int /\ ValidRange(r)
  BY <1>3, <1>4, <1>5, <1>6, FirewallConstants DEF ValidRange
<1>8. QED
  BY <1>7 DEF r, e

LEMMA WithoutValid ==
  ASSUME NEW ranges, AreRanges(ranges), NEW port \in Int, NEW h \in Without(ranges, port)
  PROVE  h.from \in Int /\ h.to \in Int /\ ValidRange(h) /\ ~ContainsPort(h, port)
<1>1. CASE h \in ranges /\ ~ContainsPort(h, port)
  BY <1>1 DEF AreRanges
<1>2. ASSUME NEW r \in ranges, ContainsPort(r, port), h \in {[r EXCEPT !.to = port - 1], [r EXCEPT !.from = port + 1]},
             h.from <= h.to
      PROVE  h.from \in Int /\ h.to \in Int /\ ValidRange(h) /\ ~ContainsPort(h, port)
  <2>1. {"from", "to"} \subseteq DOMAIN r /\ r.from \in Int /\ r.to \in Int /\ ValidRange(r)
    BY DEF AreRanges
  <2>2. \/ h.from = r.from /\ h.to = port - 1
        \/ h.from = port + 1 /\ h.to = r.to
    BY <1>2, <2>1
  <2>3. QED
    BY <1>2, <2>1, <2>2, FirewallConstants DEF ValidRange, ContainsPort
<1>3. QED
  BY <1>1, <1>2 DEF Without

\* What a listener address is made of.
LEMMA AnAddress ==
  ASSUME NEW address \in STRING, NEW family \in {4, 6}, NEW a, a = [family |-> family, address |-> address]
  PROVE  a.family \in {4, 6} /\ a.address \in STRING
OBVIOUS

\* The plan of every node is refused or one of valid rules, as FirewallConstants has it, and no redirect
\* takes the port it leads to.
THEOREM PlanIsValid ==
  ASSUME NEW node, IsNode(node), NEW kernelType, NEW plan, plan = PlanForNode(node, kernelType), plan # ErrorPlan
  PROVE  plan \in Plans /\ \A r \in plan.redirects : ~ContainsPort(r, r.target)
<1> DEFINE served == Listener(node)
           own == [from |-> served.port, to |-> served.port]
           addresses == ListenerAddresses(node.listen)
           protocols == ListenerProtocols(served, kernelType)
           parsed == ParseRanges(node.hopping)
           rules == {AsRule(a, p, own, 0) : a \in addresses, p \in protocols}
           hops == {AsRule(a, "udp", h, served.port) : a \in addresses, h \in Without(parsed, served.port)}
<1>1. served.port \in Int
  <2> DEFINE port == IF node.landing.port # 0 THEN node.landing.port ELSE node.port
  <2>1. \/ served = node
        \/ served = [[node EXCEPT !.protocol = node.landing.protocol] EXCEPT !.port = port]
    BY Zenon DEF Listener
  <2>2. "port" \in DOMAIN [node EXCEPT !.protocol = node.landing.protocol] /\ node.port \in Int
    BY DEF IsNode
  <2>3. port \in Int
    BY DEF IsNode
  <2> HIDE DEF port, served
  <2>4. QED
    BY <2>1, <2>2, <2>3
<1>2. \A a \in addresses : a.family \in {4, 6} /\ a.address \in STRING
  <2>1. SUFFICES ASSUME NEW a \in addresses
                 PROVE  \E family \in {4, 6}, address \in STRING : a = [family |-> family, address |-> address]
    BY AnAddress, Zenon
  <2> DEFINE any == ""
  <2>2. any \in STRING
    BY Zenon DEF IsNode, Strings
  <2>3. \/ a = [family |-> 4, address |-> any]
        \/ a = [family |-> 6, address |-> any]
        \/ a = [family |-> 4, address |-> node.listen]
    <3>1. CASE node.listen = ""
      BY <2>1, <3>1, Zenon DEF ListenerAddresses
    <3>2. CASE node.listen = "0.0.0.0"
      BY <2>1, <3>2, Zenon DEF ListenerAddresses
    <3>3. CASE node.listen # "" /\ node.listen # "0.0.0.0"
      BY <2>1, <3>3, Zenon DEF ListenerAddresses
    <3>4. QED
      BY <3>1, <3>2, <3>3, Zenon
  <2>4. node.listen \in STRING
    BY Zenon DEF IsNode, Strings
  <2> HIDE DEF any
  <2>5. QED
    BY <2>2, <2>3, <2>4
<1> HIDE DEF addresses, served
<1>3. protocols \subseteq {"tcp", "udp"}
  <2> HIDE DEF served
  <2>1. QED
    BY DEF ListenerProtocols
<1>4. ValidRange(own) /\ ErrorRange \notin parsed
  <2>1. ~Unplannable(node, kernelType)
    BY DEF PlanForNode
  <2>2. QED
    BY <2>1, Zenon DEF Unplannable, served
<1>5. plan = [listeners |-> rules, redirects |-> hops]
  BY DEF PlanForNode, served, addresses
<1> DEFINE port == served.port
<1>6. AreRanges(parsed)
  <2>1. \A r \in node.hopping : ValidRange(r)
    BY <1>4 DEF ParseRanges
  <2>2. AreRanges(node.hopping) /\ parsed = Merge(node.hopping)
    BY <2>1 DEF AreRanges, IsNode, ParseRanges
  <2>3. QED
    BY <2>2, MergeValid
<1> HIDE DEF protocols, parsed
<1>7. port \in 1..MaxPort
  BY <1>1, <1>4, FirewallConstants DEF ValidRange
<1>8. rules \subseteq Rules
  <2>1. SUFFICES ASSUME NEW a \in addresses, NEW p \in protocols PROVE AsRule(a, p, own, 0) \in Rules
    OBVIOUS
  <2>2. QED
    BY <1>2, <1>3, <1>7, FirewallConstants DEF AsRule, Rules, ValidRange
<1>9. ASSUME NEW a \in addresses, NEW h \in Without(parsed, port)
      PROVE  AsRule(a, "udp", h, port) \in Rules /\ ~ContainsPort(AsRule(a, "udp", h, port), port)
  <2>1. h.from \in Int /\ h.to \in Int /\ ValidRange(h) /\ ~ContainsPort(h, port)
    BY <1>6, <1>7, WithoutValid
  <2>2. QED
    BY <1>2, <1>7, <2>1, FirewallConstants DEF AsRule, Rules, ValidRange, ContainsPort
<1>10. hops \subseteq Rules /\ \A r \in hops : ~ContainsPort(r, r.target)
  BY <1>9 DEF AsRule
<1> HIDE DEF rules, hops
<1>11. QED
  BY <1>8, <1>10, <1>5 DEF Plans

---------------------------------------------------------------------------
(* The firewall manager *)

\* The steps of a call that has read the host's rules.
Calling == {"ensure", "add", "sync", "unrecord", "remove", "forget"}

\* A rule this call wants and has been through.
Opened(r) ==
  /\ r \in Wanted
  /\ step \in {"ensure", "add"} => r \notin todo
  /\ step = "add" => r # current

\* The record in memory, against the one on disk and the redirects there are.
RecordKept ==
  /\ owned = disk.owned
  /\ table # {} => step = "down" \/ redirect
  /\ step = "sync" => disk.redirect /\ redirect
  /\ step = "unrecord" => table = {}

\* What a call still has to do.
Work ==
  /\ step \in {"ensure", "add"} => todo \subseteq Wanted
  /\ step \in {"remove", "forget"} => todo \cap Wanted = {}
  /\ step = "add" => /\ current \in owned \cap Wanted /\ current \notin todo
                     /\ Listed(current) = "none"
  /\ step = "forget" => (current \in DOMAIN host => host[current] # "mine")

\* What a call knows of the host: a rule of ours that it did not list is one that it opened itself.
Known ==
  /\ backend = "firewalld" /\ ~active => DOMAIN host = {}
  /\ step \in Calling =>
       \A r \in DOMAIN host : host[r] = "mine" => Listed(r) = "mine" \/ Opened(r)

FireInv == Recorded /\ RecordKept /\ Work /\ Known

\* How the record is saved here: the new file is on disk, or the old one.
SaveIsSafe == SaveOutcomes \subseteq {"ok", "fail"}

LEMMA FireStart == Init => FireInv
  BY DEF Init, FireInv, Recorded, RecordKept, Work, Known, Empty, Calling

\* Between two calls only the record, the redirects and the host count.
LEMMA RestKeeps ==
  ASSUME step' \in {"down", "idle", "scan"}, Recorded', owned' = disk'.owned,
         table' # {} => step' = "down" \/ redirect',
         backend' = "firewalld" /\ ~active' => DOMAIN host' = {}
  PROVE  FireInv'
  BY DEF FireInv, RecordKept, Work, Known, Calling

\* A call that returns, leaving record, redirects and host alone.
LEMMA ReturnKeeps ==
  ASSUME FireInv, step # "down", NEW ok, Return(ok), UNCHANGED <<recordVars, backend, active, host, table>>
  PROVE  FireInv'
<1>1. step' \in {"down", "idle"}
  BY DEF Return
<1>2. Recorded'
  BY DEF FireInv, Recorded, recordVars
<1>3. QED
  BY <1>1, <1>2, RestKeeps DEF FireInv, RecordKept, Known, recordVars

\* What a call wants does not change while it goes on.
LEMMA WantedSame == UNCHANGED <<plans, active>> => Wanted' = Wanted
  BY DEF Wanted

\* Calls and crashes.
LEMMA CallsKeep ==
  ASSUME FireInv, \/ Boot \/ Tick \/ Close \/ Crash
               \/ \E o \in Owners : Release(o) \/ \E p \in Wishes : Apply(o, p)
  PROVE  FireInv'
<1>1. CASE Boot
  BY <1>1, RestKeeps DEF Boot, Begin, ReadRecord, hostVars, FireInv, Recorded, RecordKept, Known
<1>2. CASE Crash
  BY <1>2, RestKeeps DEF Crash, managerVars, recordVars, hostVars, FireInv, Recorded, RecordKept, Known
<1>3. CASE Tick \/ Close \/ \E o \in Owners : Release(o) \/ \E p \in Wishes : Apply(o, p)
  <2>1. step = "idle" /\ step' = "scan" /\ UNCHANGED <<recordVars, hostVars>>
    BY <1>3 DEF Tick, Close, Release, Apply, Begin, hostVars
  <2>2. QED
    BY <2>1, RestKeeps DEF recordVars, hostVars, FireInv, Recorded, RecordKept, Known
<1>4. QED
  BY <1>1, <1>2, <1>3

\* Reading the host: every rule of ours is listed.
LEMMA ScanKeeps == FireInv /\ Scan => FireInv'
<1> SUFFICES ASSUME FireInv, Scan PROVE FireInv'
  OBVIOUS
<1>1. CASE Fault
  <2>1. step # "down" /\ Return(FALSE) /\ UNCHANGED <<recordVars, hostVars>>
    BY <1>1 DEF Scan, Fault
  <2>2. QED
    BY <2>1, ReturnKeeps DEF hostVars
<1>2. CASE ~Fault
  <2>1. /\ step = "scan" /\ step' = "ensure" /\ todo' = Wanted
        /\ UNCHANGED <<plans, recordVars, hostVars>>
    BY <1>2 DEF Scan, Proceed, managerVars
  <2>2. Wanted' = Wanted
    BY <2>1, WantedSame DEF hostVars
  <2>3. ASSUME NEW r \in DOMAIN host, host[r] = "mine"
        PROVE  Listed(r)' = "mine"
    <3>1. CASE backend = "firewalld"
      <4>1. active
        BY <2>3, <3>1 DEF FireInv, Known
      <4>2. seen' = host
        BY <1>2, <3>1, <4>1 DEF Scan, RichRules
      <4>3. QED
        BY <2>3, <4>2 DEF Listed
    <3>2. CASE backend # "firewalld" /\ active
      BY <1>2, <2>3, <3>2 DEF Scan, UFWStatus, Listed
    <3>3. CASE backend # "firewalld" /\ ~active
      BY <1>2, <2>3, <3>3 DEF Scan, UFWAdded, Listed
    <3>4. QED
      BY <3>1, <3>2, <3>3
  <2>4. Known'
    BY <2>1, <2>3 DEF Known, FireInv, hostVars
  <2>5. QED
    BY <2>1, <2>2, <2>4 DEF FireInv, Recorded, RecordKept, Work, recordVars, hostVars
<1>3. QED
  BY <1>1, <1>2

---------------------------------------------------------------------------
(* Writing the record *)

\* A call returns because the record could not be written.
LEMMA SaveFails ==
  ASSUME FireInv, step # "down", Return(FALSE), UNCHANGED <<owned, disk, hostVars>>, table # {} => redirect'
  PROVE  FireInv'
<1>1. step' \in {"down", "idle"}
  BY DEF Return
<1>2. Recorded'
  BY DEF FireInv, Recorded, hostVars
<1>3. QED
  BY <1>1, <1>2, RestKeeps DEF FireInv, RecordKept, Known, hostVars

\* The record is written as wanted, or stays, in memory what is owned and on disk everything.
LEMMA SaveCases ==
  ASSUME SaveIsSafe, NEW o, NEW d, NEW next, NEW rest, Save(o, d, next, rest)
  PROVE  /\ redirect' = d
         /\ \/ Return(FALSE) /\ UNCHANGED <<owned, disk>>
            \/ /\ owned' = o /\ disk' = [owned |-> o, redirect |-> d]
               /\ Proceed(next, rest) /\ UNCHANGED <<seen, current>>
<1>1. "unsynced" \notin SaveOutcomes
  BY DEF SaveIsSafe
<1>2. QED
  BY <1>1 DEF Save

\* What a step that records or forgets a rule does: it goes on with `o` owned, or the call returns.
Booked(o, next, rest) ==
  \/ Return(FALSE) /\ UNCHANGED <<owned, disk, redirect>>
  \/ /\ owned' = o /\ disk'.owned = o /\ redirect' = redirect
     /\ step # "down" /\ table # {} => disk'.redirect
     /\ Proceed(next, rest) /\ UNCHANGED <<seen, current>>

LEMMA SaveBooks ==
  ASSUME FireInv, SaveIsSafe, NEW o, NEW next, NEW rest, Save(o, redirect, next, rest)
  PROVE  Booked(o, next, rest)
<1>1. CASE Return(FALSE) /\ UNCHANGED <<owned, disk>> /\ redirect' = redirect
  BY <1>1 DEF Booked
<1>2. CASE /\ owned' = o /\ disk' = [owned |-> o, redirect |-> redirect]
           /\ Proceed(next, rest) /\ UNCHANGED <<redirect, seen, current>>
  <2>1. disk'.owned = o /\ disk'.redirect = redirect
    BY <1>2
  <2>2. step # "down" /\ table # {} => disk'.redirect
    BY <2>1 DEF FireInv, RecordKept
  <2>3. QED
    BY <1>2, <2>1, <2>2 DEF Booked
<1>3. QED
  BY <1>1, <1>2, SaveCases

LEMMA NoSaveBooks ==
  ASSUME FireInv, NEW next, NEW rest, Proceed(next, rest), UNCHANGED <<recordVars, seen, current>>
  PROVE  Booked(owned, next, rest)
  BY DEF Booked, FireInv, RecordKept, Recorded, recordVars

LEMMA RememberBooks ==
  ASSUME FireInv, SaveIsSafe, NEW r, NEW next, NEW rest, Remember(r, next, rest)
  PROVE  Booked(owned \cup {r}, next, rest)
<1>1. CASE r \in owned
  <2>1. owned \cup {r} = owned
    BY <1>1
  <2>2. Booked(owned, next, rest)
    BY <1>1, NoSaveBooks DEF Remember
  <2>3. QED
    BY <2>1, <2>2
<1>2. CASE r \notin owned
  BY <1>2, SaveBooks DEF Remember
<1>3. QED
  BY <1>1, <1>2

LEMMA ForgetBooks ==
  ASSUME FireInv, SaveIsSafe, NEW r, NEW next, NEW rest, Forget(r, next, rest)
  PROVE  Booked(owned \ {r}, next, rest)
<1>1. CASE r \notin owned
  <2>1. owned \ {r} = owned
    BY <1>1
  <2>2. Booked(owned, next, rest)
    BY <1>1, NoSaveBooks DEF Forget
  <2>3. QED
    BY <2>1, <2>2
<1>2. CASE r \in owned
  BY <1>2, SaveBooks DEF Forget
<1>3. QED
  BY <1>1, <1>2

\* The steps of a call that are about single rules.
RuleSteps == {"ensure", "add", "remove", "forget"}

\* Such a step goes on with another and leaves the host alone: what it opened stays opened, and
\* what is ours in the host stays recorded.
LEMMA StepKeeps ==
  ASSUME FireInv, step \in RuleSteps, step' \in RuleSteps, UNCHANGED <<plans, redirect, seen, hostVars>>,
         owned' = disk'.owned, table # {} => disk'.redirect,
         \A r \in DOMAIN host : host[r] = "mine" => r \in owned',
         \A r \in DOMAIN host : host[r] = "mine" /\ Opened(r) => Opened(r)',
         Work'
  PROVE  FireInv'
<1>1. Recorded'
  BY DEF FireInv, Recorded, hostVars
<1>2. RecordKept'
  BY DEF FireInv, RecordKept, hostVars, RuleSteps
<1>3. Known'
  <2>1. \A r : Listed(r)' = Listed(r)
    BY DEF Listed
  <2>2. step \in Calling /\ step' \in Calling
    BY DEF Calling, RuleSteps
  <2>3. QED
    BY <2>1, <2>2 DEF FireInv, Known, hostVars
<1>4. QED
  BY <1>1, <1>2, <1>3 DEF FireInv

---------------------------------------------------------------------------
(* Rules a node wants *)

\* A rule to ensure is recorded or disowned, or the call fails; the next one is its turn then.
\* `o` is what is owned afterwards: what is ours and in the host remains recorded.
LEMMA EnsureBooked ==
  ASSUME FireInv, step = "ensure", UNCHANGED hostVars, NEW o, NEW rest, rest \subseteq todo,
         Booked(o, "ensure", rest), \A r \in DOMAIN host : host[r] = "mine" => r \in o
  PROVE  FireInv'
<1>1. CASE Return(FALSE) /\ UNCHANGED <<owned, disk, redirect>>
  BY <1>1, SaveFails DEF FireInv, RecordKept
<1>2. CASE ~(Return(FALSE) /\ UNCHANGED <<owned, disk, redirect>>)
  <2>1. /\ owned' = o /\ disk'.owned = o /\ redirect' = redirect /\ (table # {} => disk'.redirect)
        /\ step' = "ensure" /\ todo' = rest /\ UNCHANGED <<plans, seen, current>>
    BY <1>2 DEF Booked, Proceed, managerVars
  <2>2. Wanted' = Wanted
    BY <2>1, WantedSame DEF hostVars
  <2>3. Work'
    BY <2>1, <2>2 DEF FireInv, Work
  <2>4. \A r \in DOMAIN host : Opened(r) => Opened(r)'
    BY <2>1, <2>2 DEF Opened
  <2>5. QED
    BY <2>1, <2>3, <2>4, StepKeeps DEF RuleSteps
<1>3. QED
  BY <1>1, <1>2

LEMMA PrepareKeeps ==
  ASSUME FireInv, SaveIsSafe, step = "ensure", UNCHANGED hostVars, NEW r \in todo, Prepare(r)
  PROVE  FireInv'
<1>1. CASE r \in owned
  <2>1. /\ step' = "add" /\ todo' = todo \ {r} /\ current' = r /\ Listed(r) = "none"
        /\ UNCHANGED <<plans, owned, redirect, disk, seen>>
    BY <1>1 DEF Prepare, Proceed, managerVars, recordVars
  <2>2. Wanted' = Wanted
    BY <2>1, WantedSame DEF hostVars
  <2>3. r \in Wanted
    BY DEF FireInv, Work
  <2>4. Listed(r)' = "none"
    BY <2>1 DEF Listed
  <2>5. Work'
    BY <1>1, <2>1, <2>2, <2>3, <2>4 DEF FireInv, Work
  <2>6. \A s \in DOMAIN host : Opened(s) => Opened(s)'
    BY <2>1, <2>2 DEF Opened
  <2>7. QED
    BY <2>1, <2>5, <2>6, StepKeeps DEF RuleSteps, FireInv, RecordKept, Recorded
<1>2. CASE r \notin owned
  <2>1. Booked(owned \cup {r}, "ensure", todo)
    BY <1>2, RememberBooks DEF Prepare
  <2>2. \A s \in DOMAIN host : host[s] = "mine" => s \in owned \cup {r}
    BY DEF FireInv, Recorded, RecordKept
  <2>3. QED
    BY <2>1, <2>2, EnsureBooked
<1>3. QED
  BY <1>1, <1>2

LEMMA EnsureKeeps ==
  ASSUME FireInv, SaveIsSafe, NEW r \in todo, EnsureUFW(r) \/ EnsureFirewalld(r)
  PROVE  FireInv'
<1>1. step = "ensure" /\ UNCHANGED hostVars /\ todo \ {r} \subseteq todo
  BY DEF EnsureUFW, EnsureFirewalld
<1>2. \A s \in DOMAIN host : host[s] = "mine" => s \in owned /\ s \in owned \cup {r}
  BY DEF FireInv, Recorded, RecordKept
<1>3. CASE Prepare(r)
  BY <1>1, <1>3, PrepareKeeps
<1>4. CASE Listed(r) = "mine" /\ Remember(r, "ensure", todo \ {r})
  <2>1. Booked(owned \cup {r}, "ensure", todo \ {r})
    BY <1>4, RememberBooks
  <2>2. QED
    BY <1>1, <1>2, <2>1, EnsureBooked
<1>5. CASE Listed(r) = "admin" /\ Forget(r, "ensure", todo \ {r})
  <2>1. Booked(owned \ {r}, "ensure", todo \ {r})
    BY <1>5, ForgetBooks
  <2>2. ~Opened(r)
    BY <1>1 DEF Opened
  <2>3. r \in DOMAIN host => host[r] # "mine"
    BY <1>1, <1>5, <2>2 DEF FireInv, Known, Calling
  <2>4. \A s \in DOMAIN host : host[s] = "mine" => s \in owned \ {r}
    BY <1>2, <2>3
  <2>5. QED
    BY <1>1, <2>1, <2>4, EnsureBooked
<1>6. CASE Return(FALSE) /\ UNCHANGED recordVars
  BY <1>1, <1>6, ReturnKeeps DEF hostVars
<1>7. CASE Proceed("ensure", todo \ {r}) /\ UNCHANGED <<recordVars, seen, current>>
  <2>1. Booked(owned, "ensure", todo \ {r})
    BY <1>7, NoSaveBooks
  <2>2. QED
    BY <1>1, <1>2, <2>1, EnsureBooked
<1>8. QED
  BY <1>3, <1>4, <1>5, <1>6, <1>7 DEF EnsureUFW, EnsureFirewalld

\* Adding the rule at hand: it is recorded, wanted and, at last, opened.
LEMMA AddedKeeps ==
  ASSUME FireInv, step = "add", host' = Put(host, current, "mine"),
         UNCHANGED <<backend, active, table, recordVars>>,
         \/ Return(FALSE)
         \/ Proceed("ensure", todo) /\ UNCHANGED <<seen, current>>
  PROVE  FireInv'
<1>1. current \in owned /\ current \in Wanted /\ current \notin todo
  BY DEF FireInv, Work
<1>2. active
  BY <1>1 DEF Wanted
<1>3. \A r \in DOMAIN host' : host'[r] = "mine" => r = current \/ (r \in DOMAIN host /\ host[r] = "mine")
  BY DEF Put
<1>4. Recorded'
  BY <1>1, <1>3 DEF FireInv, Recorded, RecordKept, recordVars
<1>5. CASE Return(FALSE)
  <2>1. step' \in {"down", "idle"}
    BY <1>5 DEF Return
  <2>2. QED
    BY <1>2, <1>4, <2>1, RestKeeps DEF FireInv, RecordKept, recordVars
<1>6. CASE Proceed("ensure", todo) /\ UNCHANGED <<seen, current>>
  <2>1. /\ step' = "ensure" /\ todo' = todo
        /\ UNCHANGED <<plans, active, seen, current, owned, redirect, disk, table>>
    BY <1>6 DEF Proceed, managerVars, recordVars
  <2>2. Wanted' = Wanted
    BY <2>1, WantedSame
  <2>3. \A r \in DOMAIN host' : host'[r] = "mine" => Listed(r)' = "mine" \/ Opened(r)'
    <3>1. SUFFICES ASSUME NEW r \in DOMAIN host', host'[r] = "mine" PROVE Listed(r)' = "mine" \/ Opened(r)'
      OBVIOUS
    <3>2. CASE r = current
      BY <1>1, <2>1, <2>2, <3>2 DEF Opened
    <3>3. CASE r \in DOMAIN host /\ host[r] = "mine"
      <4>1. Listed(r) = "mine" \/ Opened(r)
        BY <3>3 DEF FireInv, Known, Calling
      <4>2. QED
        BY <4>1, <2>1, <2>2 DEF Opened, Listed
    <3>4. QED
      BY <1>3, <3>1, <3>2, <3>3
  <2>4. Known'
    BY <1>2, <2>1, <2>3 DEF Known
  <2>5. QED
    BY <1>4, <2>1, <2>2, <2>4 DEF FireInv, RecordKept, Work
<1>7. QED
  BY <1>5, <1>6

\* A rule that firewalld has already is not ours, and is disowned.
LEMMA DisownKeeps ==
  ASSUME FireInv, SaveIsSafe, step = "add", current \in DOMAIN host,
         Forget(current, "ensure", todo), UNCHANGED hostVars
  PROVE  FireInv'
<1>1. Booked(owned \ {current}, "ensure", todo)
  BY ForgetBooks
<1>2. CASE Return(FALSE) /\ UNCHANGED <<owned, disk, redirect>>
  BY <1>2, SaveFails DEF FireInv, RecordKept
<1>3. CASE ~(Return(FALSE) /\ UNCHANGED <<owned, disk, redirect>>)
  <2>1. /\ owned' = owned \ {current} /\ disk'.owned = owned' /\ redirect' = redirect
        /\ (table # {} => disk'.redirect)
        /\ step' = "ensure" /\ todo' = todo /\ UNCHANGED <<plans, seen, current>>
    BY <1>1, <1>3 DEF Booked, Proceed, managerVars
  <2>2. Wanted' = Wanted
    BY <2>1, WantedSame DEF hostVars
  <2>3. Work'
    BY <2>1, <2>2 DEF FireInv, Work
  <2>4. \A r \in DOMAIN host : Opened(r) => Opened(r)'
    BY <2>1, <2>2 DEF Opened
  <2>5. host[current] # "mine"
    BY DEF FireInv, Work, Known, Calling, Opened
  <2>6. \A r \in DOMAIN host : host[r] = "mine" => r \in owned'
    BY <2>1, <2>5 DEF FireInv, Recorded, RecordKept
  <2>7. QED
    BY <2>1, <2>3, <2>4, <2>6, StepKeeps DEF RuleSteps
<1>4. QED
  BY <1>2, <1>3

LEMMA AddKeeps ==
  ASSUME FireInv, SaveIsSafe, AddUFW \/ AddFirewalld
  PROVE  FireInv'
<1>1. step = "add" /\ UNCHANGED <<backend, active, table>>
  BY DEF AddUFW, AddFirewalld
<1>2. CASE /\ host' = Put(host, current, "mine")
           /\ Fault \/ (Proceed("ensure", todo) /\ UNCHANGED <<recordVars, seen, current>>)
  <2>1. UNCHANGED recordVars
    BY <1>2 DEF Fault
  <2>2. Return(FALSE) \/ (Proceed("ensure", todo) /\ UNCHANGED <<seen, current>>)
    BY <1>2 DEF Fault
  <2>3. QED
    BY <1>1, <1>2, <2>1, <2>2, AddedKeeps
<1>3. CASE host' = host /\ Fault
  BY <1>1, <1>3, ReturnKeeps DEF Fault
<1>4. CASE current \in DOMAIN host /\ Forget(current, "ensure", todo) /\ UNCHANGED <<host, pending>>
  BY <1>1, <1>4, DisownKeeps DEF hostVars
<1>5. QED
  BY <1>2, <1>3, <1>4 DEF AddUFW, AddFirewalld

---------------------------------------------------------------------------
(* Redirects and rules to remove *)

\* From there a call removes rules it does not want.
LEMMA RemoveKeeps ==
  ASSUME FireInv, step \in Calling, step' = "remove", todo' = ToRemove,
         UNCHANGED <<plans, seen, current, owned, backend, active, host>>,
         \/ UNCHANGED <<disk, redirect, table>>
         \/ disk'.owned = owned /\ table' = {}
         \/ UNCHANGED <<disk, redirect>> /\ disk.redirect /\ redirect,
         step = "ensure" => todo = {}, step # "add"
  PROVE  FireInv'
<1>1. Wanted' = Wanted
  BY WantedSame
<1>2. \A r \in DOMAIN host : Opened(r) => Opened(r)'
  BY <1>1 DEF Opened
<1>3. \A r : Listed(r)' = Listed(r)
  BY DEF Listed
<1>4. Known'
  BY <1>2, <1>3 DEF FireInv, Known
<1>5. Work'
  BY <1>1 DEF Work, ToRemove
<1>6. Recorded'
  BY DEF FireInv, Recorded, RecordKept
<1>7. RecordKept'
  BY DEF FireInv, RecordKept, Calling
<1>8. QED
  BY <1>4, <1>5, <1>6, <1>7 DEF FireInv

LEMMA RecordRedirectKeeps ==
  ASSUME FireInv, SaveIsSafe, RecordRedirect
  PROVE  FireInv'
<1>1. step = "ensure" /\ todo = {} /\ UNCHANGED hostVars
  BY DEF RecordRedirect
<1>2. CASE Save(owned, TRUE, "sync", {})
  <2>1. redirect' = TRUE
    BY <1>2, SaveCases
  <2>2. CASE Return(FALSE) /\ UNCHANGED <<owned, disk>>
    BY <1>1, <2>1, <2>2, SaveFails
  <2>3. CASE /\ owned' = owned /\ disk' = [owned |-> owned, redirect |-> TRUE]
             /\ Proceed("sync", {}) /\ UNCHANGED <<seen, current>>
    <3>1. /\ disk'.owned = owned /\ disk'.redirect /\ step' = "sync" /\ todo' = {}
          /\ UNCHANGED <<plans, seen, current, owned>>
      BY <2>3 DEF Proceed, managerVars
    <3>2. Wanted' = Wanted
      BY <1>1, <3>1, WantedSame DEF hostVars
    <3>3. \A r \in DOMAIN host : Opened(r) => Opened(r)'
      BY <3>1, <3>2 DEF Opened
    <3>4. \A r : Listed(r)' = Listed(r)
      BY <3>1 DEF Listed
    <3>5. Known'
      BY <1>1, <3>1, <3>3, <3>4 DEF FireInv, Known, Calling, hostVars
    <3>6. QED
      BY <1>1, <2>1, <3>1, <3>5 DEF FireInv, Recorded, RecordKept, Work, hostVars
  <2>4. QED
    BY <1>2, <2>2, <2>3, SaveCases
<1>3. CASE Proceed("remove", ToRemove) /\ UNCHANGED <<recordVars, seen, current>>
  BY <1>1, <1>3, RemoveKeeps DEF Proceed, managerVars, recordVars, hostVars, Calling
<1>4. QED
  BY <1>2, <1>3 DEF RecordRedirect

LEMMA SyncRedirectKeeps ==
  ASSUME FireInv, SyncRedirect
  PROVE  FireInv'
<1>1. step = "sync" /\ disk.redirect /\ redirect /\ UNCHANGED <<backend, active, host, recordVars>>
  BY DEF SyncRedirect, Fault, FireInv, RecordKept
<1>2. CASE Fault
  <2>1. step' \in {"down", "idle"}
    BY <1>2 DEF Fault, Return
  <2>2. Recorded'
    BY <1>1 DEF FireInv, Recorded, recordVars
  <2>3. QED
    BY <1>1, <2>1, <2>2, RestKeeps DEF FireInv, RecordKept, Known, recordVars
<1>3. CASE Proceed("remove", ToRemove) /\ UNCHANGED <<seen, current>>
  BY <1>1, <1>3, RemoveKeeps DEF Proceed, managerVars, recordVars, Calling
<1>4. CASE table' = {} /\ Proceed("unrecord", {}) /\ UNCHANGED <<seen, current>>
  <2>1. step' = "unrecord" /\ UNCHANGED <<plans, active, seen, current>>
    BY <1>1, <1>4 DEF Proceed, managerVars
  <2>2. Wanted' = Wanted
    BY <2>1, WantedSame
  <2>3. \A r \in DOMAIN host : Opened(r) => Opened(r)'
    BY <2>1, <2>2 DEF Opened
  <2>4. \A r : Listed(r)' = Listed(r)
    BY <2>1 DEF Listed
  <2>5. Known'
    BY <1>1, <2>1, <2>3, <2>4 DEF FireInv, Known, Calling
  <2>6. QED
    BY <1>1, <1>4, <2>1, <2>5 DEF FireInv, Recorded, RecordKept, Work, recordVars
<1>5. QED
  BY <1>2, <1>3, <1>4 DEF SyncRedirect

LEMMA UnrecordRedirectKeeps ==
  ASSUME FireInv, SaveIsSafe, UnrecordRedirect
  PROVE  FireInv'
<1>1. step = "unrecord" /\ table = {} /\ UNCHANGED hostVars /\ Save(owned, FALSE, "remove", ToRemove)
  BY DEF UnrecordRedirect, FireInv, RecordKept
<1>2. CASE Return(FALSE) /\ UNCHANGED <<owned, disk>>
  BY <1>1, <1>2, SaveFails
<1>3. CASE /\ owned' = owned /\ disk' = [owned |-> owned, redirect |-> FALSE]
           /\ Proceed("remove", ToRemove) /\ UNCHANGED <<seen, current>>
  <2>1. /\ disk'.owned = owned /\ step' = "remove" /\ todo' = ToRemove
        /\ UNCHANGED <<plans, seen, current, owned>>
    BY <1>3 DEF Proceed, managerVars
  <2>2. QED
    BY <1>1, <2>1, RemoveKeeps DEF hostVars, Calling
<1>4. QED
  BY <1>1, <1>2, <1>3, SaveCases

\* A rule to remove is forgotten: it is not, or no longer, ours in the host.
LEMMA ForgetKeeps ==
  ASSUME FireInv, SaveIsSafe, step \in {"remove", "forget"}, UNCHANGED hostVars, NEW r, NEW rest,
         Forget(r, "remove", rest), rest \subseteq todo, r \in DOMAIN host => host[r] # "mine"
  PROVE  FireInv'
<1>1. Booked(owned \ {r}, "remove", rest)
  BY ForgetBooks
<1>2. CASE Return(FALSE) /\ UNCHANGED <<owned, disk, redirect>>
  BY <1>2, SaveFails DEF FireInv, RecordKept
<1>3. CASE ~(Return(FALSE) /\ UNCHANGED <<owned, disk, redirect>>)
  <2>1. /\ owned' = owned \ {r} /\ disk'.owned = owned' /\ redirect' = redirect
        /\ (table # {} => disk'.redirect)
        /\ step' = "remove" /\ todo' = rest /\ UNCHANGED <<plans, seen, current>>
    BY <1>1, <1>3 DEF Booked, Proceed, managerVars
  <2>2. Wanted' = Wanted
    BY <2>1, WantedSame DEF hostVars
  <2>3. Work'
    BY <2>1, <2>2 DEF FireInv, Work
  <2>4. \A s \in DOMAIN host : Opened(s) => Opened(s)'
    BY <2>1, <2>2 DEF Opened
  <2>5. \A s \in DOMAIN host : host[s] = "mine" => s \in owned'
    BY <2>1 DEF FireInv, Recorded, RecordKept
  <2>6. QED
    BY <2>1, <2>3, <2>4, <2>5, StepKeeps DEF RuleSteps
<1>4. QED
  BY <1>2, <1>3

\* Rules leave the host: what is ours in it is recorded and known as before.
LEMMA DeletedKeeps ==
  ASSUME FireInv, step = "remove", NEW r \in todo, host' = Drop(host, r),
         UNCHANGED <<backend, active, table, recordVars>>,
         \/ Return(FALSE)
         \/ Proceed("forget", todo \ {r}) /\ current' = r /\ UNCHANGED seen
  PROVE  FireInv'
<1>1. r \notin DOMAIN host'
  BY DEF Drop
<1>2. \A s \in DOMAIN host' : s \in DOMAIN host /\ host'[s] = host[s]
  BY DEF Drop
<1>3. Recorded'
  BY <1>2 DEF FireInv, Recorded, recordVars
<1>4. backend' = "firewalld" /\ ~active' => DOMAIN host' = {}
  BY <1>2 DEF FireInv, Known
<1>5. CASE Return(FALSE)
  <2>1. step' \in {"down", "idle"}
    BY <1>5 DEF Return
  <2>2. QED
    BY <1>3, <1>4, <2>1, RestKeeps DEF FireInv, RecordKept, recordVars
<1>6. CASE Proceed("forget", todo \ {r}) /\ current' = r /\ UNCHANGED seen
  <2>1. step' = "forget" /\ todo' = todo \ {r} /\ current' = r /\ UNCHANGED <<plans, active, seen>>
    BY <1>6 DEF Proceed, managerVars
  <2>2. Wanted' = Wanted
    BY <2>1, WantedSame
  <2>3. \A s \in DOMAIN host : Opened(s) => Opened(s)'
    BY <2>1, <2>2 DEF Opened
  <2>4. \A s : Listed(s)' = Listed(s)
    BY <2>1 DEF Listed
  <2>5. Known'
    BY <1>2, <1>4, <2>1, <2>3, <2>4 DEF FireInv, Known, Calling
  <2>6. QED
    BY <1>1, <1>3, <2>1, <2>2, <2>5 DEF FireInv, RecordKept, Work, recordVars
<1>7. QED
  BY <1>5, <1>6

\* A rule that is not listed as ours is not ours: this call does not want it, so it did not open it either.
LEMMA UnlistedIsNotOurs ==
  ASSUME FireInv, step = "remove", NEW r \in todo, Listed(r) # "mine", r \in DOMAIN host
  PROVE  host[r] # "mine"
<1>1. ~Opened(r)
  BY DEF FireInv, Work, Opened
<1>2. QED
  BY <1>1 DEF FireInv, Known, Calling

LEMMA DeleteKeeps ==
  ASSUME FireInv, step = "remove", UNCHANGED <<backend, active, table>>, NEW r \in todo, Delete(r)
  PROVE  FireInv'
<1>1. UNCHANGED recordVars
  BY DEF Delete, Fault
<1>2. CASE host' = Drop(host, r)
  BY <1>1, <1>2, DeletedKeeps DEF Delete, Fault
<1>3. CASE host' = host /\ Fault
  BY <1>1, <1>3, ReturnKeeps DEF Fault
<1>4. QED
  BY <1>2, <1>3 DEF Delete

LEMMA RemoveRulesKeep ==
  ASSUME FireInv, SaveIsSafe, NEW r \in todo, RemoveUFW(r) \/ RemoveFirewalld(r)
  PROVE  FireInv'
<1>1. step = "remove" /\ UNCHANGED <<backend, active, table>>
  BY DEF RemoveUFW, RemoveFirewalld
<1>2. CASE Delete(r)
  BY <1>1, <1>2, DeleteKeeps
<1>3. CASE Listed(r) # "mine" /\ DropUnlisted(r)
  <2>1. Forget(r, "remove", todo \ {r}) /\ UNCHANGED hostVars /\ todo \ {r} \subseteq todo
    BY <1>1, <1>3 DEF DropUnlisted, hostVars
  <2>2. r \in DOMAIN host => host[r] # "mine"
    BY <1>1, <1>3, UnlistedIsNotOurs
  <2>3. QED
    BY <1>1, <2>1, <2>2, ForgetKeeps
<1>4. CASE Return(FALSE) /\ UNCHANGED <<recordVars, host>>
  BY <1>1, <1>4, ReturnKeeps
<1>5. QED
  BY <1>2, <1>3, <1>4 DEF RemoveUFW, RemoveFirewalld, Fault

LEMMA ForgetRemovedKeeps ==
  ASSUME FireInv, SaveIsSafe, ForgetRemoved
  PROVE  FireInv'
<1>1. step = "forget" /\ (current \in DOMAIN host => host[current] # "mine")
  BY DEF ForgetRemoved, FireInv, Work
<1>2. QED
  BY <1>1, ForgetKeeps DEF ForgetRemoved

---------------------------------------------------------------------------
(* The environment *)

\* Others never make a rule ours: they add theirs where there is none, and delete.
LEMMA OthersKeep ==
  ASSUME FireInv, UNCHANGED <<plans, step, seen, todo, current, backend, active, owned, redirect, disk, table>>,
         \A r \in DOMAIN host' : host'[r] = "mine" => r \in DOMAIN host /\ host[r] = "mine",
         DOMAIN host' # {} => active \/ DOMAIN host # {}
  PROVE  FireInv'
<1>1. Wanted' = Wanted
  BY WantedSame
<1>2. \A r : Opened(r) => Opened(r)'
  BY <1>1 DEF Opened
<1>3. \A r : Listed(r)' = Listed(r)
  BY DEF Listed
<1>4. Known'
  BY <1>2, <1>3 DEF FireInv, Known
<1>5. Work'
  BY <1>1, <1>3 DEF FireInv, Work
<1>6. QED
  BY <1>4, <1>5 DEF FireInv, Recorded, RecordKept

LEMMA LandKeeps ==
  ASSUME FireInv, NEW change \in pending, Land(change)
  PROVE  FireInv'
<1>1. UNCHANGED <<plans, step, seen, todo, current, backend, active, owned, redirect, disk, table>>
  BY DEF Land, managerVars, recordVars
<1>2. CASE host' = host
  BY <1>1, <1>2, OthersKeep
<1>3. CASE active /\ host' = Put(host, change.rule, "late")
  BY <1>1, <1>3, OthersKeep DEF Put
<1>4. CASE host' = Drop(host, change.rule)
  BY <1>1, <1>4, OthersKeep DEF Drop
<1>5. QED
  BY <1>2, <1>3, <1>4 DEF Land

LEMMA EditsKeep ==
  ASSUME FireInv, EditFirewall \/ \E r \in EditedRules, tag \in {"admin", "deny"} : EditRules(r, tag)
  PROVE  FireInv'
<1>1. ASSUME NEW r \in EditedRules, NEW tag \in {"admin", "deny"}, EditRules(r, tag)
      PROVE  FireInv'
  <2>1. UNCHANGED <<plans, step, seen, todo, current, backend, active, owned, redirect, disk, table>>
    BY <1>1 DEF EditRules, managerVars, recordVars
  <2>2. CASE active /\ host' = Put(host, r, tag)
    BY <2>1, <2>2, OthersKeep DEF Put
  <2>3. CASE host' = Drop(host, r)
    BY <2>1, <2>3, OthersKeep DEF Drop
  <2>4. QED
    BY <1>1, <2>2, <2>3 DEF EditRules
<1>2. CASE EditFirewall /\ step = "idle" /\ table' = table
  <2>1. step' = "idle" /\ UNCHANGED <<owned, redirect, disk, table, backend>>
    BY <1>2 DEF EditFirewall, recordVars
  <2>2. host' = host \/ host' = Empty
    BY <1>2 DEF EditFirewall
  <2>3. Recorded'
    BY <2>1, <2>2 DEF FireInv, Recorded, Empty
  <2>4. backend' = "firewalld" /\ ~active' => DOMAIN host' = {}
    BY <1>2 DEF EditFirewall, Empty, FireInv, Known
  <2>5. QED
    BY <1>2, <2>1, <2>3, <2>4, RestKeeps DEF FireInv, RecordKept
<1>3. CASE EditFirewall /\ table' = {} /\ UNCHANGED <<active, host>>
  <2>1. UNCHANGED <<plans, step, seen, todo, current, backend, owned, redirect, disk>>
    BY <1>3 DEF EditFirewall, managerVars, recordVars
  <2>2. Wanted' = Wanted
    BY <1>3, <2>1, WantedSame
  <2>3. \A r : Opened(r) => Opened(r)'
    BY <2>1, <2>2 DEF Opened
  <2>4. \A r : Listed(r)' = Listed(r)
    BY <2>1 DEF Listed
  <2>5. QED
    BY <1>3, <2>1, <2>2, <2>3, <2>4 DEF FireInv, Recorded, RecordKept, Work, Known
<1>4. QED
  BY <1>1, <1>2, <1>3 DEF EditFirewall

---------------------------------------------------------------------------
LEMMA FireStep ==
  ASSUME SaveIsSafe
  PROVE  FireInv /\ [Next]_vars => FireInv'
<1> SUFFICES ASSUME FireInv, [Next]_vars PROVE FireInv'
  OBVIOUS
<1>1. CASE Boot \/ Tick \/ Close \/ Crash \/ \E o \in Owners : Release(o) \/ \E p \in Wishes : Apply(o, p)
  BY <1>1, CallsKeep
<1>2. CASE Scan
  BY <1>2, ScanKeeps
<1>3. CASE AddUFW \/ AddFirewalld
  BY <1>3, AddKeeps
<1>4. CASE RecordRedirect \/ SyncRedirect \/ UnrecordRedirect
  BY <1>4, RecordRedirectKeeps, SyncRedirectKeeps, UnrecordRedirectKeeps
<1>5. CASE ForgetRemoved
  BY <1>5, ForgetRemovedKeeps
<1>6. CASE Done
  BY <1>6, ReturnKeeps DEF Done, hostVars
<1>7. ASSUME NEW r \in todo, EnsureUFW(r) \/ EnsureFirewalld(r) \/ RemoveUFW(r) \/ RemoveFirewalld(r)
      PROVE  FireInv'
  BY <1>7, EnsureKeeps, RemoveRulesKeep
<1>8. ASSUME NEW change \in pending, Land(change)
      PROVE  FireInv'
  BY <1>8, LandKeeps
<1>9. CASE EditFirewall \/ \E r \in EditedRules, tag \in {"admin", "deny"} : EditRules(r, tag)
  BY <1>9, EditsKeep
<1>10. CASE UNCHANGED vars
  <2>1. UNCHANGED <<plans, step, seen, todo, current, backend, active, owned, redirect, disk, table>>
    BY <1>10 DEF vars, managerVars, recordVars, callVars, hostVars
  <2>2. host' = host
    BY <1>10 DEF vars, hostVars
  <2>3. QED
    BY <2>1, <2>2, OthersKeep
<1>11. QED
  BY <1>1, <1>2, <1>3, <1>4, <1>5, <1>6, <1>7, <1>8, <1>9, <1>10 DEF Next, Reconcile

\* For any nodes, plans, rules and edits, under UFW and under firewalld, and however often the process
\* dies: as long as a save that reports an error has left the old record (the directory sync is
\* what may break this), every rule and redirect of this program in the host is recorded on disk.
THEOREM RecordedHolds ==
  ASSUME SaveIsSafe
  PROVE  Spec => []Recorded
<1>1. Init => FireInv
  BY FireStart
<1>2. FireInv /\ [Next]_vars => FireInv'
  BY FireStep
<1>3. FireInv => Recorded
  BY DEF FireInv
<1>4. QED
  BY <1>1, <1>2, <1>3, PTL DEF Spec

---------------------------------------------------------------------------
(* The ports of other nodes stay open *)

\* A rule of the host that lets its ports in.
Admits(r) == r \in DOMAIN host /\ host[r] # "deny"

Kinds == {"none", "boot", "apply", "release", "tick", "close"}
Steps == {"down", "idle", "scan", "ensure", "add", "sync", "unrecord", "remove", "forget"}
Tags == {"mine", "late", "admin", "deny"}

RecordTyped == redirect \in BOOLEAN /\ disk.redirect \in BOOLEAN
HostTyped ==
  /\ \A r \in DOMAIN host : host[r] \in Tags
  /\ backend = "firewalld" => \A r \in DOMAIN host : host[r] # "deny"
FireTyped ==
  /\ PlansTyped /\ lastErr \in BOOLEAN /\ RecordTyped /\ HostTyped
  /\ job \in [kind : Kinds, owner : Owners \cup {""}, touched : BOOLEAN]
  /\ step \in Steps /\ backend \in {"ufw", "firewalld"}
  /\ acked \subseteq DOMAIN plans

\* What was promised, unless another has touched the host since.
Promised ==
  /\ \A o \in acked : PlanServed(plans[o])
  /\ job.touched => acked = {}

\* What a call nobody has disturbed has reached: what it saw stays there until it removes rules, what it
\* has opened lets in, and after the redirects are in place they are all in the table.
SeenStays ==
  step \in {"ensure", "add"} =>
    \A r \in DOMAIN seen : /\ seen[r] # "deny" => Admits(r)
                           /\ backend = "firewalld" => seen[r] # "deny"
OpenedAdmits == step \in Calling => \A r : Opened(r) => Admits(r)
Redirected == step \in {"unrecord", "remove", "forget"} => RedirectsFor[plans] \subseteq table
Reached == ~job.touched => SeenStays /\ OpenedAdmits /\ Redirected

\* What is removed is not wanted.
Removes == step \in {"remove", "forget"} => todo \cap Wanted = {}

ServeInv == FireTyped /\ Promised /\ Reached /\ Removes

LEMMA ServeStart == Init => ServeInv
<1> SUFFICES ASSUME Init PROVE ServeInv
  OBVIOUS
<1>1. PlansTyped
  <2>1. plans \in [{} -> Wishes] /\ {} \in SUBSET Owners
    BY DEF Init, Empty
  <2>2. QED
    BY <2>1 DEF PlansTyped, PlanSets, Init, Empty
<1>2. FireTyped
  BY <1>1 DEF Init, FireTyped, RecordTyped, HostTyped, NoJob, Kinds, Steps, Empty
<1>3. QED
  BY <1>2 DEF ServeInv, Promised, Reached, SeenStays, OpenedAdmits, Redirected, Removes, Init, Calling, NoJob

\* More rules that let in, and more redirects, serve a plan as well.
LEMMA ServedStays ==
  ASSUME NEW p, PlanServed(p), active' = active, table \subseteq table',
         \A r \in DOMAIN host : Admits(r) => Admits(r)'
  PROVE  PlanServed(p)'
  BY DEF PlanServed, Admits

\* A plan is served where everything the manager wants is there.
LEMMA WantedServe ==
  ASSUME PlansTyped, plans' = plans, NEW o \in DOMAIN plans, active' => \A r \in AllowsFor[plans] : Admits(r)',
         RedirectsFor[plans] \subseteq table'
  PROVE  PlanServed(plans[o])'
<1> DEFINE p == plans[o]
<1>1. ASSUME active', NEW r \in p.listeners \cup Untargeted(p.redirects)
      PROVE  \E s \in DOMAIN host' : host'[s] # "deny" /\ Covers(s, r)
  <2>1. PICK s \in AllowsFor[plans] : Covers(s, r)
    BY AllowsCover
  <2>2. Admits(s)'
    BY <1>1, <2>1
  <2>3. QED
    BY <2>1, <2>2 DEF Admits
<1>2. ASSUME NEW r \in p.redirects
      PROVE  \E s \in table' : Covers(s, r)
  BY RedirectsCover
<1>3. QED
  BY <1>1, <1>2 DEF PlanServed

\* A call returns in vain: what was promised must have been left alone.
LEMMA ReturnServes ==
  ASSUME ServeInv, Return(FALSE), RecordTyped', HostTyped', backend' = backend,
         \A o \in acked : PlanServed(plans[o])'
  PROVE  ServeInv'
<1>1. /\ UNCHANGED <<plans, acked>> /\ step' \in {"down", "idle"} /\ lastErr' = TRUE
      /\ job' = [kind |-> "none", owner |-> "", touched |-> FALSE]
  BY DEF Return, NoJob
<1>2. FireTyped'
  BY <1>1 DEF ServeInv, FireTyped, PlansTyped, Kinds, Steps
<1>3. Promised'
  BY <1>1 DEF ServeInv, Promised
<1>4. Reached' /\ Removes'
  BY <1>1 DEF Reached, SeenStays, OpenedAdmits, Redirected, Removes, Calling
<1>5. QED
  BY <1>2, <1>3, <1>4 DEF ServeInv

\* A call goes on.
LEMMA CallServes ==
  ASSUME ServeInv, UNCHANGED <<managerVars, job, acked, backend>>, step' \in Calling, RecordTyped', HostTyped',
         \A o \in acked : PlanServed(plans[o])',
         ~job.touched => SeenStays' /\ OpenedAdmits' /\ Redirected', Removes'
  PROVE  ServeInv'
<1>1. FireTyped'
  BY DEF ServeInv, FireTyped, PlansTyped, managerVars, Calling, Steps
<1>2. Promised'
  BY DEF ServeInv, Promised
<1>3. Reached'
  BY DEF Reached
<1>4. QED
  BY <1>1, <1>2, <1>3 DEF ServeInv

LEMMA SameServes ==
  ASSUME ServeInv, UNCHANGED <<plans, active>>, table \subseteq table', \A r \in DOMAIN host : Admits(r) => Admits(r)'
  PROVE  \A o \in acked : PlanServed(plans[o])'
<1>1. ASSUME NEW o \in acked PROVE PlanServed(plans[o])'
  <2> DEFINE p == plans[o]
  <2>1. PlanServed(p)
    BY DEF ServeInv, Promised
  <2>2. ASSUME NEW q, PlanServed(q) PROVE PlanServed(q)'
    BY <2>2, ServedStays
  <2>3. QED
    BY <2>1 DEF PlanServed, Admits
<1>2. QED
  BY <1>1

\* A save, successful or not.
LEMMA SaveEither ==
  ASSUME RecordTyped, NEW o, NEW d \in BOOLEAN, NEW next, NEW rest, Save(o, d, next, rest)
  PROVE  RecordTyped' /\ (Return(FALSE) \/ (Proceed(next, rest) /\ UNCHANGED <<seen, current>>))
<1> DEFINE written == [owned |-> o, redirect |-> d]
<1>1. redirect' = d /\ (disk' = disk \/ disk' = written)
  BY DEF Save
<1>2. Return(FALSE) \/ (Proceed(next, rest) /\ UNCHANGED <<seen, current>>)
  BY DEF Save
<1>3. written.redirect \in BOOLEAN
  OBVIOUS
<1>4. RecordTyped'
  BY <1>1, <1>3 DEF RecordTyped
<1>5. QED
  BY <1>2, <1>4
LEMMA RecordEither ==
  ASSUME RecordTyped, NEW r, NEW next, NEW rest, Remember(r, next, rest) \/ Forget(r, next, rest)
  PROVE  RecordTyped' /\ (Return(FALSE) \/ (Proceed(next, rest) /\ UNCHANGED <<seen, current>>))
  BY SaveEither DEF Remember, Forget, recordVars, RecordTyped

\* Where the host is left alone.
LEMMA ReturnsServing ==
  ASSUME ServeInv, Return(FALSE), RecordTyped', UNCHANGED hostVars
  PROVE  ServeInv'
<1>1. HostTyped' /\ UNCHANGED <<plans, active, table, host, backend>>
  BY DEF ServeInv, FireTyped, HostTyped, hostVars, Return
<1>2. \A o \in acked : PlanServed(plans[o])'
  BY <1>1, SameServes DEF Admits
<1>3. QED
  BY <1>1, <1>2, ReturnServes

LEMMA ScanServes == ASSUME ServeInv, Scan PROVE ServeInv'
<1>1. UNCHANGED hostVars /\ step = "scan"
  BY DEF Scan
<1>2. CASE Fault
  BY <1>1, <1>2, ReturnsServing DEF Fault, ServeInv, FireTyped, RecordTyped, recordVars
<1>3. CASE ~Fault
  <2>1. /\ Proceed("ensure", Wanted) /\ UNCHANGED recordVars
        /\ seen' = IF backend = "firewalld" THEN RichRules ELSE IF active THEN UFWStatus ELSE UFWAdded
    BY <1>3 DEF Scan
  <2>2. UNCHANGED <<plans, lastErr, job, acked, host, active, backend, table>> /\ step' = "ensure" /\ todo' = Wanted
    BY <1>1, <2>1 DEF Proceed, managerVars, hostVars
  <2>3. RecordTyped' /\ HostTyped'
    BY <2>1, <2>2 DEF ServeInv, FireTyped, RecordTyped, HostTyped, recordVars
  <2>4. \A o \in acked : PlanServed(plans[o])'
    BY <2>2, SameServes DEF Admits
  <2>5. \A r \in DOMAIN seen' : r \in DOMAIN host /\ seen'[r] = host[r]
    BY <2>1 DEF RichRules, UFWStatus, UFWAdded, Empty
  <2>6. SeenStays'
    BY <2>2, <2>3, <2>5 DEF SeenStays, Admits, HostTyped
  <2>7. OpenedAdmits'
    BY <2>2, WantedSame DEF OpenedAdmits, Opened
  <2>8. Redirected'
    BY <2>2 DEF Redirected
  <2>9. QED
    BY <2>2, <2>3, <2>4, <2>6, <2>7, <2>8, CallServes DEF managerVars, Calling, Removes
<1>4. QED
  BY <1>2, <1>3

\* A rule is taken from the list only when it lets in, or when its turn has come to be added.
LEMMA EnsureServes ==
  ASSUME ServeInv, step = "ensure", UNCHANGED <<hostVars, seen>>, RecordTyped', NEW r \in todo,
         NEW next \in {"ensure", "add"}, NEW rest \in {todo, todo \ {r}}, Proceed(next, rest),
         next = "add" => current' = r,
         next = "ensure" /\ rest # todo /\ ~job.touched => Admits(r)
  PROVE  ServeInv'
<1>1. UNCHANGED <<plans, lastErr, job, acked, host, active, backend, table>> /\ step' = next /\ todo' = rest
  BY DEF Proceed, managerVars, hostVars
<1>2. HostTyped'
  BY <1>1 DEF ServeInv, FireTyped, HostTyped
<1>3. \A o \in acked : PlanServed(plans[o])'
  BY <1>1, SameServes DEF Admits
<1>4. ASSUME ~job.touched PROVE SeenStays' /\ OpenedAdmits' /\ Redirected'
  <2>1. SeenStays /\ OpenedAdmits
    BY <1>4 DEF ServeInv, Reached
  <2>2. SeenStays'
    BY <1>1, <2>1 DEF SeenStays, Admits
  <2>3. ASSUME NEW s, Opened(s)' PROVE Admits(s)'
    <3>1. s \in Wanted /\ s \notin rest /\ (next = "add" => s # r)
      BY <1>1, <2>3, WantedSame DEF Opened
    <3>2. s \notin todo => Admits(s)
      BY <2>1, <3>1 DEF OpenedAdmits, Opened, Calling
    <3>3. s \in todo => Admits(s)
      BY <1>4, <3>1
    <3>4. QED
      BY <1>1, <3>2, <3>3 DEF Admits
  <2>4. QED
    BY <1>1, <2>2, <2>3 DEF OpenedAdmits, Redirected
<1>5. Removes'
  BY <1>1 DEF Removes
<1>6. QED
  BY <1>1, <1>2, <1>3, <1>4, <1>5, CallServes DEF managerVars, Calling

LEMMA ListedIs ==
  ASSUME ServeInv, ~job.touched, step = "ensure", NEW r,
         \/ Listed(r) \in {"mine", "admin"}
         \/ backend = "firewalld" /\ Listed(r) # "none"
  PROVE  Admits(r)
<1>1. r \in DOMAIN seen /\ Listed(r) = seen[r]
  BY DEF Listed
<1>2. SeenStays
  BY DEF ServeInv, Reached
<1>3. QED
  BY <1>1, <1>2 DEF SeenStays

LEMMA EnsureRulesServe ==
  ASSUME ServeInv, NEW r \in todo, EnsureUFW(r) \/ EnsureFirewalld(r)
  PROVE  ServeInv'
<1>1. step = "ensure" /\ UNCHANGED hostVars /\ RecordTyped
  BY DEF EnsureUFW, EnsureFirewalld, ServeInv, FireTyped
<1>2. CASE Return(FALSE) /\ UNCHANGED recordVars
  BY <1>1, <1>2, ReturnsServing DEF RecordTyped, recordVars
<1>3. CASE r \in owned /\ Proceed("add", todo \ {r}) /\ current' = r /\ UNCHANGED <<recordVars, seen>>
  BY <1>1, <1>3, EnsureServes DEF RecordTyped, recordVars
<1>4. CASE Remember(r, "ensure", todo)
  BY <1>1, <1>4, RecordEither, ReturnsServing, EnsureServes
<1>5. ASSUME Listed(r) \in {"mine", "admin"} \/ (backend = "firewalld" /\ Listed(r) # "none"),
             \/ Remember(r, "ensure", todo \ {r}) \/ Forget(r, "ensure", todo \ {r})
             \/ Proceed("ensure", todo \ {r}) /\ UNCHANGED <<recordVars, seen, current>>
      PROVE  ServeInv'
  <2>1. RecordTyped' /\ (Return(FALSE) \/ (Proceed("ensure", todo \ {r}) /\ UNCHANGED <<seen, current>>))
    BY <1>1, <1>5, RecordEither DEF RecordTyped, recordVars
  <2>2. ~job.touched => Admits(r)
    BY <1>1, <1>5, ListedIs
  <2>3. QED
    BY <1>1, <2>1, <2>2, ReturnsServing, EnsureServes
<1>6. QED
  BY <1>2, <1>3, <1>4, <1>5 DEF EnsureUFW, EnsureFirewalld, Prepare

\* The rule whose turn it is lets in, or the call fails; others are as they were.
LEMMA AddedServes ==
  ASSUME ServeInv, step = "add", UNCHANGED <<backend, active, table>>, RecordTyped', HostTyped',
         \A r \in DOMAIN host : Admits(r) => Admits(r)',
         \/ Return(FALSE)
         \/ Proceed("ensure", todo) /\ UNCHANGED <<seen, current>> /\ (~job.touched => Admits(current)')
  PROVE  ServeInv'
<1>1. UNCHANGED plans
  BY DEF Return, Proceed, managerVars
<1>2. \A o \in acked : PlanServed(plans[o])'
  BY <1>1, SameServes
<1>3. CASE Return(FALSE)
  BY <1>2, <1>3, ReturnServes
<1>4. CASE Proceed("ensure", todo) /\ UNCHANGED <<seen, current>> /\ (~job.touched => Admits(current)')
  <2>1. UNCHANGED <<plans, lastErr, job, acked, seen, current, todo>> /\ step' = "ensure"
    BY <1>4 DEF Proceed, managerVars
  <2>2. ASSUME ~job.touched PROVE SeenStays' /\ OpenedAdmits' /\ Redirected'
    <3>1. SeenStays /\ OpenedAdmits
      BY <2>2 DEF ServeInv, Reached
    <3>2. SeenStays'
      BY <2>1, <3>1 DEF SeenStays, Admits
    <3>3. ASSUME NEW s, Opened(s)' PROVE Admits(s)'
      <4>1. s \in Wanted /\ s \notin todo
        BY <2>1, <3>3, WantedSame DEF Opened
      <4>2. s # current => Admits(s)
        BY <3>1, <4>1 DEF OpenedAdmits, Opened, Calling
      <4>3. s = current => Admits(s)'
        BY <1>4, <2>1, <2>2 DEF Admits
      <4>4. QED
        BY <4>2, <4>3 DEF Admits
    <3>4. QED
      BY <2>1, <3>2, <3>3 DEF OpenedAdmits, Redirected
  <2>3. QED
    BY <1>2, <2>1, <2>2, CallServes DEF managerVars, Calling, Removes
<1>5. QED
  BY <1>3, <1>4

LEMMA PutAdmits ==
  ASSUME HostTyped, NEW r, NEW tag \in Tags \ {"deny"}, backend' = backend, host' = Put(host, r, tag)
  PROVE  HostTyped' /\ Admits(r)' /\ \A s \in DOMAIN host : Admits(s) => Admits(s)'
<1>1. DOMAIN host' = DOMAIN host \cup {r} /\ \A s \in DOMAIN host' : host'[s] = IF s = r THEN tag ELSE host[s]
  BY DEF Put
<1>2. QED
  BY <1>1 DEF HostTyped, Admits, Tags

LEMMA AddServes == ASSUME ServeInv, AddUFW \/ AddFirewalld PROVE ServeInv'
<1>1. step = "add" /\ UNCHANGED <<backend, active, table>> /\ RecordTyped /\ HostTyped
  BY DEF AddUFW, AddFirewalld, ServeInv, FireTyped
<1>2. CASE host' = Put(host, current, "mine") /\ Proceed("ensure", todo) /\ UNCHANGED <<recordVars, seen, current>>
  <2>1. HostTyped' /\ Admits(current)' /\ \A s \in DOMAIN host : Admits(s) => Admits(s)'
    BY <1>1, <1>2, PutAdmits DEF Tags
  <2>2. RecordTyped' /\ (~job.touched => Admits(current)')
    BY <1>1, <1>2, <2>1 DEF RecordTyped, recordVars
  <2>3. QED
    BY <1>1, <1>2, <2>1, <2>2, AddedServes
<1>3. CASE Fault /\ (host' = host \/ host' = Put(host, current, "mine"))
  <2>1. HostTyped' /\ \A s \in DOMAIN host : Admits(s) => Admits(s)'
    <3>1. CASE host' = host
      BY <1>1, <3>1 DEF HostTyped, Admits
    <3>2. CASE host' = Put(host, current, "mine")
      BY <1>1, <3>2, PutAdmits DEF Tags
    <3>3. QED
      BY <1>3, <3>1, <3>2
  <2>2. Return(FALSE) /\ RecordTyped'
    BY <1>1, <1>3 DEF Fault, RecordTyped, recordVars
  <2>3. QED
    BY <1>1, <2>1, <2>2, AddedServes
<1>4. CASE backend = "firewalld" /\ current \in DOMAIN host /\ Forget(current, "ensure", todo) /\ UNCHANGED <<host, pending>>
  <2>1. RecordTyped' /\ (Return(FALSE) \/ (Proceed("ensure", todo) /\ UNCHANGED <<seen, current>>))
    BY <1>1, <1>4, RecordEither
  <2>2. Admits(current) /\ HostTyped' /\ \A s : Admits(s) => Admits(s)'
    BY <1>1, <1>4 DEF HostTyped, Admits
  <2>3. Proceed("ensure", todo) /\ UNCHANGED <<seen, current>> => Admits(current)'
    BY <2>2 DEF Admits
  <2>4. QED
    BY <1>1, <2>1, <2>2, <2>3, AddedServes
<1>5. QED
  BY <1>2, <1>3, <1>4 DEF AddUFW, AddFirewalld

\* All that is wanted lets in once the list is through, whatever the next step.
LEMMA ThroughServes ==
  ASSUME ServeInv, step = "ensure", todo = {}, UNCHANGED hostVars, RecordTyped',
         NEW next \in {"sync", "remove"}, NEW rest, Proceed(next, rest),
         next = "remove" => RedirectsFor[plans] = {} /\ rest \cap Wanted = {}
  PROVE  ServeInv'
<1>1. UNCHANGED <<plans, lastErr, job, acked, host, active, backend, table>> /\ step' = next /\ todo' = rest
  BY DEF Proceed, managerVars, hostVars
<1>2. HostTyped'
  BY <1>1 DEF ServeInv, FireTyped, HostTyped
<1>3. \A o \in acked : PlanServed(plans[o])'
  BY <1>1, SameServes DEF Admits
<1>4. ASSUME ~job.touched PROVE SeenStays' /\ OpenedAdmits' /\ Redirected'
  <2>1. \A r \in Wanted : Admits(r)
    BY <1>4 DEF ServeInv, Reached, OpenedAdmits, Opened, Calling
  <2>2. OpenedAdmits'
    BY <1>1, <2>1, WantedSame DEF OpenedAdmits, Opened, Admits
  <2>3. QED
    BY <1>1, <2>2 DEF SeenStays, Redirected
<1>5. Removes'
  BY <1>1, WantedSame DEF Removes
<1>6. QED
  BY <1>1, <1>2, <1>3, <1>4, <1>5, CallServes DEF managerVars, Calling

LEMMA RecordRedirectServes == ASSUME ServeInv, RecordRedirect PROVE ServeInv'
<1>1. step = "ensure" /\ todo = {} /\ UNCHANGED hostVars /\ RecordTyped
  BY DEF RecordRedirect, ServeInv, FireTyped
<1>2. CASE Save(owned, TRUE, "sync", {})
  <2>1. RecordTyped' /\ (Return(FALSE) \/ (Proceed("sync", {}) /\ UNCHANGED <<seen, current>>))
    BY <1>1, <1>2, SaveEither
  <2>2. QED
    BY <1>1, <2>1, ReturnsServing, ThroughServes
<1>3. CASE RedirectsFor[plans] = {} /\ Proceed("remove", ToRemove) /\ UNCHANGED recordVars
  BY <1>1, <1>3, ThroughServes DEF RecordTyped, recordVars, ToRemove
<1>4. QED
  BY <1>2, <1>3 DEF RecordRedirect

\* Redirects of a plan are there before and after the table is replaced, and in between.
LEMMA RedirectsServe ==
  ASSUME ServeInv, UNCHANGED <<plans, host, active>>, table' \in {table, HalfSynced, RedirectsFor[plans]}
  PROVE  \A o \in acked : PlanServed(plans[o])'
<1>1. SUFFICES ASSUME NEW o \in acked PROVE PlanServed(plans[o])'
  OBVIOUS
<1>2. PlanServed(plans[o]) /\ PlansTyped /\ o \in DOMAIN plans
  BY DEF ServeInv, Promised, FireTyped
<1>3. ASSUME NEW r \in plans[o].redirects PROVE \E s \in table' : Covers(s, r)
  <2>1. PICK s \in table : Covers(s, r)
    BY <1>2 DEF PlanServed
  <2>2. PICK t \in RedirectsFor[plans] : Covers(t, r) /\ t.family = r.family
    BY <1>2, RedirectsCover
  <2>3. r.family \in {4, 6} /\ s.family = r.family
    BY <1>2, <2>1, RedirectsCover DEF Covers
  <2>4. CASE table' = HalfSynced
    BY <2>1, <2>2, <2>3, <2>4 DEF HalfSynced
  <2>5. QED
    BY <2>1, <2>2, <2>4
<1>4. QED
  BY <1>2, <1>3 DEF PlanServed

\* After the redirects: wanted rules let in, wanted redirects are there.
LEMMA RedirectedServes ==
  ASSUME ServeInv, step \in {"sync", "unrecord", "remove", "forget"}, UNCHANGED <<backend, active>>, RecordTyped', HostTyped',
         NEW next \in {"unrecord", "remove", "forget"}, NEW rest, Proceed(next, rest), rest \cap Wanted = {},
         \A r \in Wanted : Admits(r) => Admits(r)',
         ~job.touched => RedirectsFor[plans] \subseteq table',
         \A o \in acked : PlanServed(plans[o])'
  PROVE  ServeInv'
<1>1. UNCHANGED <<plans, lastErr, job, acked, active, backend>> /\ step' = next /\ todo' = rest
  BY DEF Proceed, managerVars, hostVars
<1>2. ASSUME ~job.touched PROVE SeenStays' /\ OpenedAdmits' /\ Redirected'
  <2>1. \A r \in Wanted : Admits(r)
    BY <1>2 DEF ServeInv, Reached, OpenedAdmits, Opened, Calling
  <2>2. OpenedAdmits'
    BY <1>1, <2>1, WantedSame DEF OpenedAdmits, Opened
  <2>3. QED
    BY <1>1, <1>2, <2>2 DEF SeenStays, Redirected
<1>3. Removes'
  BY <1>1, WantedSame DEF Removes
<1>4. QED
  BY <1>1, <1>2, <1>3, CallServes DEF managerVars, Calling

LEMMA SyncServes == ASSUME ServeInv, SyncRedirect PROVE ServeInv'
<1>1. step = "sync" /\ UNCHANGED <<backend, active, host, plans>> /\ RecordTyped
  BY DEF SyncRedirect, ServeInv, FireTyped, Proceed, Fault, Return, managerVars
<1>2. table' \in {table, HalfSynced, RedirectsFor[plans]} /\ UNCHANGED recordVars
  BY DEF SyncRedirect, Fault
<1>3. RecordTyped' /\ HostTyped' /\ \A o \in acked : PlanServed(plans[o])'
  BY <1>1, <1>2, RedirectsServe DEF RecordTyped, recordVars, ServeInv, FireTyped, HostTyped
<1>4. CASE Fault
  BY <1>1, <1>3, <1>4, ReturnServes DEF Fault
<1>5. CASE table' = RedirectsFor[plans] /\ (Proceed("remove", ToRemove) \/ Proceed("unrecord", {}))
  <2>1. \A r \in Wanted : Admits(r) => Admits(r)'
    BY <1>1 DEF Admits
  <2>2. ToRemove \cap Wanted = {}
    BY DEF ToRemove
  <2>3. QED
    BY <1>1, <1>3, <1>5, <2>1, <2>2, RedirectedServes
<1>6. QED
  BY <1>4, <1>5 DEF SyncRedirect

LEMMA UnrecordServes == ASSUME ServeInv, UnrecordRedirect PROVE ServeInv'
<1>1. step = "unrecord" /\ UNCHANGED hostVars /\ RecordTyped
  BY DEF UnrecordRedirect, ServeInv, FireTyped
<1>2. RecordTyped' /\ (Return(FALSE) \/ (Proceed("remove", ToRemove) /\ UNCHANGED <<seen, current>>))
  BY <1>1, SaveEither DEF UnrecordRedirect
<1>3. CASE Proceed("remove", ToRemove)
  <2>1. UNCHANGED <<plans, host, active, backend, table>>
    BY <1>1, <1>3 DEF Proceed, managerVars, hostVars
  <2>2. HostTyped' /\ \A r : Admits(r) => Admits(r)'
    BY <2>1 DEF ServeInv, FireTyped, HostTyped, Admits
  <2>3. ~job.touched => RedirectsFor[plans] \subseteq table'
    BY <1>1, <2>1 DEF ServeInv, Reached, Redirected
  <2>4. ToRemove \cap Wanted = {}
    BY DEF ToRemove
  <2>5. QED
    BY <1>1, <1>2, <1>3, <2>1, <2>2, <2>3, <2>4, SameServes, RedirectedServes
<1>4. QED
  BY <1>1, <1>2, <1>3, ReturnsServing

\* Rules to remove are not wanted: what is promised is served by those that are.
LEMMA RemovedServes ==
  ASSUME ServeInv, step \in {"remove", "forget"}, UNCHANGED <<plans, active, table>>,
         \A r \in Wanted : Admits(r) => Admits(r)'
  PROVE  \A o \in acked : PlanServed(plans[o])'
<1>1. SUFFICES ASSUME NEW o \in acked PROVE PlanServed(plans[o])'
  OBVIOUS
<1>2. ~job.touched /\ PlansTyped /\ o \in DOMAIN plans
  BY DEF ServeInv, Promised, FireTyped
<1>3. \A r \in Wanted : Admits(r)
  BY <1>2 DEF ServeInv, Reached, OpenedAdmits, Opened, Calling
<1>4. active' => \A r \in AllowsFor[plans] : Admits(r)'
  BY <1>3 DEF Wanted
<1>5. RedirectsFor[plans] \subseteq table'
  BY <1>2 DEF ServeInv, Reached, Redirected
<1>6. QED
  BY <1>2, <1>4, <1>5, WantedServe

LEMMA RemovesServe ==
  ASSUME ServeInv, step \in {"remove", "forget"}, UNCHANGED <<backend, active, table>>, RecordTyped', HostTyped',
         \A r \in Wanted : Admits(r) => Admits(r)',
         Return(FALSE) \/ \E next \in {"remove", "forget"}, rest \in SUBSET todo : Proceed(next, rest)
  PROVE  ServeInv'
<1>1. UNCHANGED plans
  BY DEF Return, Proceed, managerVars
<1>2. \A o \in acked : PlanServed(plans[o])'
  BY <1>1, RemovedServes
<1>3. CASE Return(FALSE)
  BY <1>2, <1>3, ReturnServes
<1>4. ASSUME NEW next \in {"remove", "forget"}, NEW rest \in SUBSET todo, Proceed(next, rest) PROVE ServeInv'
  <2>1. (~job.touched => RedirectsFor[plans] \subseteq table') /\ rest \cap Wanted = {}
    BY DEF ServeInv, Reached, Redirected, Removes
  <2>2. QED
    BY <1>2, <1>4, <2>1, RedirectedServes
<1>5. QED
  BY <1>3, <1>4

LEMMA RemoveRulesServe ==
  ASSUME ServeInv, NEW r \in todo, RemoveUFW(r) \/ RemoveFirewalld(r)
  PROVE  ServeInv'
<1>1. step = "remove" /\ UNCHANGED <<backend, active, table>> /\ RecordTyped /\ HostTyped
  BY DEF RemoveUFW, RemoveFirewalld, ServeInv, FireTyped
<1>2. r \notin Wanted /\ todo \ {r} \in SUBSET todo
  BY <1>1 DEF ServeInv, Removes
<1>3. ASSUME host' \in {host, Drop(host, r)} PROVE HostTyped' /\ \A s \in Wanted : Admits(s) => Admits(s)'
  BY <1>1, <1>2, <1>3 DEF HostTyped, Admits, Drop
<1>4. CASE Delete(r)
  <2>1. host' \in {host, Drop(host, r)} /\ UNCHANGED recordVars /\ (Return(FALSE) \/ Proceed("forget", todo \ {r}))
    BY <1>4 DEF Delete, Fault
  <2>2. RecordTyped'
    BY <1>1, <2>1 DEF RecordTyped, recordVars
  <2>3. QED
    BY <1>1, <1>2, <1>3, <2>1, <2>2, RemovesServe
<1>5. CASE DropUnlisted(r)
  <2>1. RecordTyped' /\ (Return(FALSE) \/ Proceed("remove", todo \ {r})) /\ host' = host
    BY <1>1, <1>5, RecordEither DEF DropUnlisted
  <2>2. QED
    BY <1>1, <1>2, <1>3, <2>1, RemovesServe
<1>6. CASE Return(FALSE) /\ UNCHANGED <<recordVars, host>>
  <2>1. RecordTyped'
    BY <1>1, <1>6 DEF RecordTyped, recordVars
  <2>2. QED
    BY <1>1, <1>3, <1>6, <2>1, RemovesServe
<1>7. QED
  BY <1>4, <1>5, <1>6 DEF RemoveUFW, RemoveFirewalld, Fault

LEMMA ForgetRemovedServes == ASSUME ServeInv, ForgetRemoved PROVE ServeInv'
<1>1. step = "forget" /\ UNCHANGED hostVars /\ RecordTyped /\ HostTyped
  BY DEF ForgetRemoved, ServeInv, FireTyped
<1>2. RecordTyped' /\ (Return(FALSE) \/ Proceed("remove", todo))
  BY <1>1, RecordEither DEF ForgetRemoved
<1>3. HostTyped' /\ (\A s : Admits(s) => Admits(s)') /\ UNCHANGED <<backend, active, table>> /\ todo \in SUBSET todo
  BY <1>1 DEF HostTyped, Admits, hostVars
<1>4. QED
  BY <1>1, <1>2, <1>3, RemovesServe

\* A call that ends well has opened everything that is wanted, unless another has been at work.
LEMMA DoneServes == ASSUME ServeInv, Done PROVE ServeInv'
<1>1. /\ step = "remove" /\ UNCHANGED <<plans, redirect, disk, backend, active, host, table>>
      /\ step' \in {"down", "idle"} /\ lastErr' = FALSE /\ job' = [kind |-> "none", owner |-> "", touched |-> FALSE]
      /\ acked' = IF ~job.touched THEN DOMAIN plans ELSE acked
  BY DEF Done, Return, NoJob, recordVars, hostVars
<1>2. FireTyped'
  BY <1>1 DEF ServeInv, FireTyped, PlansTyped, Kinds, Steps, RecordTyped, HostTyped
<1>3. ASSUME NEW o \in acked' PROVE PlanServed(plans[o])'
  <2>1. CASE job.touched
    BY <1>1, <1>3, <2>1 DEF ServeInv, Promised
  <2>2. CASE ~job.touched
    <3>1. (\A r \in Wanted : Admits(r)) /\ RedirectsFor[plans] \subseteq table
      BY <1>1, <2>2 DEF ServeInv, Reached, OpenedAdmits, Opened, Calling, Redirected
    <3>2. (active' => \A r \in AllowsFor[plans] : Admits(r)') /\ RedirectsFor[plans] \subseteq table'
      BY <1>1, <3>1 DEF Wanted, Admits
    <3>3. PlansTyped /\ o \in DOMAIN plans
      BY <1>1, <1>3, <2>2 DEF ServeInv, FireTyped
    <3>4. QED
      BY <1>1, <3>2, <3>3, WantedServe
  <2>3. QED
    BY <2>1, <2>2
<1>4. Promised' /\ Reached' /\ Removes'
  BY <1>1, <1>3 DEF Promised, Reached, SeenStays, OpenedAdmits, Redirected, Removes, Calling
<1>5. QED
  BY <1>2, <1>4 DEF ServeInv

\* A call begins: nodes other than the one that calls keep what they were promised.
LEMMA BeginServes ==
  ASSUME ServeInv, UNCHANGED <<backend, active, host, table>>, RecordTyped', lastErr' \in BOOLEAN, PlansTyped',
         NEW kind \in Kinds, NEW owner \in Owners \cup {""}, NEW open, Begin(kind, owner, open),
         open \subseteq acked \cap DOMAIN plans', \A o \in open : plans'[o] = plans[o]
  PROVE  ServeInv'
<1>1. step' = "scan" /\ acked' = open /\ job' = [kind |-> kind, owner |-> owner, touched |-> FALSE]
  BY DEF Begin
<1>2. FireTyped'
  BY <1>1 DEF ServeInv, FireTyped, HostTyped, Steps
<1>3. Promised'
  BY <1>1 DEF ServeInv, Promised, PlanServed
<1>4. Reached' /\ Removes'
  BY <1>1 DEF Reached, SeenStays, OpenedAdmits, Redirected, Removes, Calling
<1>5. QED
  BY <1>2, <1>3, <1>4 DEF ServeInv

LEMMA PlansAre ==
  ASSUME NEW nodes \in SUBSET Owners, NEW ps \in [nodes -> Wishes], \A o \in nodes : ps[o] # ErrorPlan
  PROVE  ps \in PlanSets /\ DOMAIN ps = nodes /\ \A o \in DOMAIN ps : ps[o] \in Plans
<1>1. ps \in PlanSets
  BY DEF PlanSets
<1>2. QED
  BY <1>1, FirewallConstants

LEMMA PlansWere ==
  ASSUME PlansTyped
  PROVE  /\ DOMAIN plans \in SUBSET Owners /\ plans \in [DOMAIN plans -> Wishes]
         /\ \A o \in DOMAIN plans : plans[o] # ErrorPlan
<1>1. PICK nodes \in SUBSET Owners : plans \in [nodes -> Wishes]
  BY DEF PlansTyped, PlanSets
<1>2. \A p \in Plans : p # ErrorPlan
  <2>1. \A p \in Plans : "listeners" \in DOMAIN p
    BY DEF Plans
  <2>2. DOMAIN ErrorPlan = {"error"}
    BY DEF ErrorPlan
  <2>3. QED
    BY <2>1, <2>2
<1>3. QED
  BY <1>1, <1>2 DEF PlansTyped

LEMMA CallsServe ==
  ASSUME ServeInv, Boot \/ Tick \/ Close \/ \E o \in Owners : Release(o) \/ \E p \in Wishes : Apply(o, p)
  PROVE  ServeInv'
<1>1. /\ DOMAIN plans \in SUBSET Owners /\ plans \in [DOMAIN plans -> Wishes]
      /\ \A o \in DOMAIN plans : plans[o] # ErrorPlan
  BY PlansWere DEF ServeInv, FireTyped
<1>2. PlansTyped /\ RecordTyped /\ lastErr \in BOOLEAN /\ acked \subseteq DOMAIN plans
  BY DEF ServeInv, FireTyped
<1>3. ASSUME plans' = Empty PROVE PlansTyped' /\ DOMAIN plans' = {}
  <2>1. plans' \in [{} -> Wishes]
    BY <1>3 DEF Empty
  <2>2. QED
    BY <2>1, PlansAre DEF PlansTyped
<1>4. CASE Boot
  <2>1. /\ plans' = Empty /\ lastErr' = FALSE /\ disk' = disk /\ redirect' = disk.redirect
        /\ Begin("boot", "", {}) /\ UNCHANGED hostVars
    BY <1>4 DEF Boot, ReadRecord, Begin
  <2>2. QED
    BY <1>2, <1>3, <2>1, BeginServes DEF RecordTyped, Kinds, hostVars
<1>5. CASE Close
  <2>1. plans' = Empty /\ UNCHANGED <<lastErr, redirect, disk>> /\ Begin("close", "", {}) /\ UNCHANGED hostVars
    BY <1>5 DEF Close, Begin, recordVars
  <2>2. QED
    BY <1>2, <1>3, <2>1, BeginServes DEF RecordTyped, Kinds, hostVars
<1>6. CASE Tick
  <2>1. UNCHANGED <<plans, lastErr, redirect, disk>> /\ Begin("tick", "", acked) /\ UNCHANGED hostVars
    BY <1>6 DEF Tick, Begin, recordVars, managerVars
  <2>2. PlansTyped' /\ acked \subseteq acked \cap DOMAIN plans'
    BY <1>2, <2>1 DEF PlansTyped
  <2>3. QED
    BY <1>2, <2>1, <2>2, BeginServes DEF RecordTyped, Kinds, hostVars
<1>7. ASSUME NEW o \in Owners, Release(o) PROVE ServeInv'
  <2>1. /\ plans' = Drop(plans, o) /\ UNCHANGED <<lastErr, redirect, disk>> /\ Begin("release", o, acked \ {o})
        /\ UNCHANGED hostVars
    BY <1>7 DEF Release, Begin, recordVars
  <2>2. plans' \in [DOMAIN plans \ {o} -> Wishes] /\ \A n \in DOMAIN plans \ {o} : plans'[n] = plans[n]
    BY <1>1, <2>1 DEF Drop
  <2>3. PlansTyped' /\ DOMAIN plans' = DOMAIN plans \ {o}
    BY <1>1, <2>2, PlansAre DEF PlansTyped
  <2>4. acked \ {o} \subseteq acked \cap DOMAIN plans' /\ \A n \in acked \ {o} : plans'[n] = plans[n]
    BY <1>2, <2>2, <2>3
  <2>5. QED
    BY <1>2, <2>1, <2>3, <2>4, BeginServes DEF RecordTyped, Kinds, hostVars
<1>8. ASSUME NEW o \in Owners, NEW p \in Wishes, Apply(o, p) PROVE ServeInv'
  <2>1. /\ plans' = Put(plans, o, p) /\ p # ErrorPlan /\ UNCHANGED <<lastErr, redirect, disk>>
        /\ Begin("apply", o, acked \ {o}) /\ UNCHANGED hostVars
    BY <1>8 DEF Apply, Begin, recordVars
  <2>2. /\ plans' \in [DOMAIN plans \cup {o} -> Wishes] /\ \A n \in DOMAIN plans \ {o} : plans'[n] = plans[n]
        /\ plans'[o] = p
    BY <1>1, <2>1 DEF Put
  <2>3. PlansTyped' /\ DOMAIN plans' = DOMAIN plans \cup {o}
    BY <1>1, <2>1, <2>2, PlansAre DEF PlansTyped
  <2>4. acked \ {o} \subseteq acked \cap DOMAIN plans' /\ \A n \in acked \ {o} : plans'[n] = plans[n]
    BY <1>2, <2>2, <2>3
  <2>5. QED
    BY <1>2, <2>1, <2>3, <2>4, BeginServes DEF RecordTyped, Kinds, hostVars
<1>9. QED
  BY <1>4, <1>5, <1>6, <1>7, <1>8

LEMMA CrashServes == ASSUME ServeInv, Crash PROVE ServeInv'
<1>1. /\ UNCHANGED <<plans, lastErr, redirect, disk, backend, active, host, table>>
      /\ step' = "down" /\ acked' = {} /\ job' = [kind |-> "none", owner |-> "", touched |-> FALSE]
  BY DEF Crash, managerVars, recordVars, hostVars, NoJob
<1>2. FireTyped'
  BY <1>1 DEF ServeInv, FireTyped, PlansTyped, Kinds, Steps, RecordTyped, HostTyped
<1>3. QED
  BY <1>1, <1>2 DEF ServeInv, Promised, Reached, SeenStays, OpenedAdmits, Redirected, Removes, Calling

\* Others at work: nothing is promised any longer, unless they only add.
LEMMA TouchServes ==
  ASSUME ServeInv, Touch, UNCHANGED <<plans, lastErr, redirect, disk, step, todo, backend>>, HostTyped',
         active' = active \/ step = "idle"
  PROVE  ServeInv'
<1>1. job' \in [kind : Kinds, owner : Owners \cup {""}, touched : BOOLEAN] /\ job'.touched /\ acked' = {}
  BY DEF Touch, ServeInv, FireTyped
<1>2. FireTyped'
  BY <1>1 DEF ServeInv, FireTyped, PlansTyped, RecordTyped
<1>3. Removes'
  BY WantedSame DEF ServeInv, Removes
<1>4. QED
  BY <1>1, <1>2, <1>3 DEF ServeInv, Promised, Reached

LEMMA AddsServe ==
  ASSUME ServeInv, UNCHANGED <<plans, lastErr, redirect, disk, step, seen, todo, current, backend, active, table, acked, job>>,
         HostTyped', \A r \in DOMAIN host : Admits(r) => Admits(r)'
  PROVE  ServeInv'
<1>1. FireTyped'
  BY DEF ServeInv, FireTyped, PlansTyped, RecordTyped
<1>2. Promised'
  BY SameServes DEF ServeInv, Promised
<1>3. ASSUME ~job.touched PROVE SeenStays' /\ OpenedAdmits' /\ Redirected'
  <2>1. SeenStays /\ OpenedAdmits /\ Redirected
    BY <1>3 DEF ServeInv, Reached
  <2>2. \A r : Opened(r)' => Opened(r)
    BY WantedSame DEF Opened
  <2>3. QED
    BY <2>1, <2>2 DEF SeenStays, OpenedAdmits, Redirected, Admits
<1>4. Reached' /\ Removes'
  BY <1>3, WantedSame DEF Reached, ServeInv, Removes
<1>5. QED
  BY <1>1, <1>2, <1>4 DEF ServeInv

LEMMA DropTyped == ASSUME HostTyped, backend' = backend, NEW r, host' = Drop(host, r) PROVE HostTyped'
  BY DEF HostTyped, Drop

LEMMA LandServes == ASSUME ServeInv, NEW change \in pending, Land(change) PROVE ServeInv'
<1>1. /\ UNCHANGED <<plans, lastErr, redirect, disk, step, seen, todo, current, backend, active, table>> /\ HostTyped
  BY DEF Land, managerVars, recordVars, ServeInv, FireTyped
<1>2. CASE Touch /\ host' = Drop(host, change.rule)
  BY <1>1, <1>2, DropTyped, TouchServes
<1>3. CASE UNCHANGED <<acked, job>> /\ host' = Put(host, change.rule, "late")
  <2>1. HostTyped' /\ \A r \in DOMAIN host : Admits(r) => Admits(r)'
    BY <1>1, <1>3, PutAdmits DEF Tags
  <2>2. QED
    BY <1>1, <1>3, <2>1, AddsServe
<1>4. CASE UNCHANGED <<acked, job>> /\ host' = host
  <2>1. HostTyped' /\ \A r \in DOMAIN host : Admits(r) => Admits(r)'
    BY <1>1, <1>4 DEF HostTyped, Admits
  <2>2. QED
    BY <1>1, <1>4, <2>1, AddsServe
<1>5. QED
  BY <1>2, <1>3, <1>4 DEF Land

LEMMA EditRulesServe ==
  ASSUME ServeInv, NEW r, NEW tag \in {"admin", "deny"}, EditRules(r, tag)
  PROVE  ServeInv'
<1>1. /\ UNCHANGED <<plans, lastErr, redirect, disk, step, seen, todo, current, backend, active, table>> /\ HostTyped
      /\ backend \in {"ufw", "firewalld"}
  BY DEF EditRules, managerVars, recordVars, ServeInv, FireTyped
<1>2. CASE Touch /\ host' = Drop(host, r)
  BY <1>1, <1>2, DropTyped, TouchServes
<1>3. CASE r \notin DOMAIN host /\ (tag = "deny" => backend = "ufw") /\ host' = Put(host, r, tag) /\ UNCHANGED <<acked, job>>
  <2>1. DOMAIN host' = DOMAIN host \cup {r} /\ \A s \in DOMAIN host' : host'[s] = IF s = r THEN tag ELSE host[s]
    BY <1>3 DEF Put
  <2>2. HostTyped' /\ \A s \in DOMAIN host : Admits(s) => Admits(s)'
    BY <1>1, <1>3, <2>1 DEF HostTyped, Admits, Tags
  <2>3. QED
    BY <1>1, <1>3, <2>2, AddsServe
<1>4. QED
  BY <1>2, <1>3 DEF EditRules

LEMMA EditFirewallServes == ASSUME ServeInv, EditFirewall PROVE ServeInv'
<1>1. /\ UNCHANGED <<plans, lastErr, redirect, disk, step, todo, backend>> /\ Touch /\ (active' = active \/ step = "idle")
      /\ (host' = host \/ host' = Empty) /\ HostTyped
  BY DEF EditFirewall, managerVars, recordVars, ServeInv, FireTyped
<1>2. HostTyped'
  BY <1>1 DEF HostTyped, Empty
<1>3. QED
  BY <1>1, <1>2, TouchServes

LEMMA ServeStep == ASSUME ServeInv, [Next]_vars PROVE ServeInv'
<1>1. CASE Boot \/ Tick \/ Close \/ \E o \in Owners : Release(o) \/ \E p \in Wishes : Apply(o, p)
  BY <1>1, CallsServe
<1>2. CASE Scan \/ AddUFW \/ AddFirewalld \/ RecordRedirect \/ SyncRedirect \/ UnrecordRedirect
  BY <1>2, ScanServes, AddServes, RecordRedirectServes, SyncServes, UnrecordServes
<1>3. CASE ForgetRemoved \/ Done \/ Crash \/ EditFirewall
  BY <1>3, ForgetRemovedServes, DoneServes, CrashServes, EditFirewallServes
<1>4. ASSUME NEW r \in todo, EnsureUFW(r) \/ EnsureFirewalld(r) \/ RemoveUFW(r) \/ RemoveFirewalld(r)
      PROVE  ServeInv'
  BY <1>4, EnsureRulesServe, RemoveRulesServe
<1>5. ASSUME NEW change \in pending, Land(change)
      PROVE  ServeInv'
  BY <1>5, LandServes
<1>6. ASSUME NEW r \in EditedRules, NEW tag \in {"admin", "deny"}, EditRules(r, tag)
      PROVE  ServeInv'
  BY <1>6, EditRulesServe
<1>7. CASE UNCHANGED vars
  <2>1. UNCHANGED <<plans, lastErr, redirect, disk, step, seen, todo, current, backend, active, host, table, acked, job>>
    BY <1>7 DEF vars, managerVars, recordVars, callVars, hostVars
  <2>2. HostTyped' /\ \A r \in DOMAIN host : Admits(r) => Admits(r)'
    BY <2>1 DEF HostTyped, Admits, ServeInv, FireTyped
  <2>3. QED
    BY <2>1, <2>2, AddsServe
<1>8. QED
  BY <1>1, <1>2, <1>3, <1>4, <1>5, <1>6, <1>7 DEF Next, Reconcile

LEMMA FireTypes == ASSUME ServeInv PROVE TypeOK
<1>1. PlansTyped /\ FireTyped
  BY DEF ServeInv, FireTyped
<1>2. QED
  BY <1>1, PlansWere DEF FireTyped, TypeOK, RecordTyped, HostTyped, Kinds, Steps, Tags

---------------------------------------------------------------------------
(* The process *)

\* A service is a record of the generation that runs.
CurrentService(s) == s = [gen |-> generation, part |-> s.part, status |-> s.status]

\* Where runWithReload is tells which goroutines and managers there are: none before the managers are
\* opened, the managers of this generation from then on, and no service once all are waited for.
ProcStages ==
  /\ phase \in {"main", "watch", "setup"} => shared = {}
  /\ phase \in {"main", "watch", "setup", "spawn", "close"} => services = {}
  /\ phase \in {"spawn", "select", "reload", "shutdown", "close"} /\ Alive => shared = {generation}

ProcInv ==
  /\ phase \in Phases
  /\ \A s \in services : CurrentService(s)
  /\ shared \subseteq {generation}
  /\ services # {} => Alive
  /\ ProcStages

\* The health table while the generation runs: one line for each component of its configuration, in
\* the words its service said last; a component without a service has failed.
HealthBooked ==
  /\ health = [p \in root.parts |-> health[p]]
  /\ \A s \in services : s.part \in root.parts /\ s.status = health[s.part]
  /\ \A s, u \in services : s.part = u.part => s = u
  /\ \A p \in root.parts : health[p] = "failed" \/ \E s \in services : s.part = p

\* The context of a generation lives until runWithReload leaves its select.
HealthInv ==
  /\ phase \in {"setup", "spawn", "select"} => ~cancelled
  /\ phase = "spawn" /\ Alive => health = [p \in root.parts |-> "starting"]
  /\ phase = "select" /\ Alive => HealthBooked

\* The invariant says what OneGeneration promises.
LEMMA InvGivesOneGeneration == ProcInv => OneGeneration
  BY DEF ProcInv, ProcStages, CurrentService, OneGeneration, Phases

LEMMA ProcStart == ProcInit => ProcInv
  BY DEF ProcInit, ProcInv, ProcStages, Phases

\* The process ends: nothing of it is left.
LEMMA ExitKeeps ==
  ASSUME ProcInv, NEW how, how # "no", Exit(how), phase' = phase, generation' = generation
  PROVE  ProcInv'
  BY DEF ProcInv, ProcStages, Exit, Alive, Phases, CurrentService

\* What runs, its generation and the phase stay, and so does the process.
LEMMA ProcSameKeeps ==
  ASSUME ProcInv, UNCHANGED <<phase, generation, services, shared, exit>>
  PROVE  ProcInv'
  BY DEF ProcInv, ProcStages, Alive, CurrentService

\* A service reports or ends; the others are as they were.
LEMMA ServiceKeeps ==
  ASSUME ProcInv, UNCHANGED <<phase, generation, shared, exit>>, NEW s \in services,
         \/ services' = services \ {s}
         \/ \E status : services' = (services \ {s}) \cup {[s EXCEPT !.status = status]}
  PROVE  ProcInv'
<1>1. CASE services' = services \ {s}
  BY <1>1 DEF ProcInv, ProcStages, Alive, CurrentService
<1>2. ASSUME NEW status, services' = (services \ {s}) \cup {[s EXCEPT !.status = status]}
      PROVE  ProcInv'
  <2> DEFINE t == [s EXCEPT !.status = status]
  <2>1. CurrentService(s)
    BY DEF ProcInv
  <2>2. t = [gen |-> generation, part |-> s.part, status |-> status]
    BY <2>1 DEF CurrentService
  <2>3. CurrentService(t)
    BY <2>2 DEF CurrentService
  <2>4. \A u \in services' : CurrentService(u)'
    BY <1>2, <2>3 DEF ProcInv, CurrentService
  <2>5. QED
    BY <1>2, <2>4 DEF ProcInv, ProcStages, Alive
<1>3. QED
  BY <1>1, <1>2

LEMMA ProcStep == ProcInv /\ [ProcNext]_procVars => ProcInv'
<1> SUFFICES ASSUME ProcInv, [ProcNext]_procVars PROVE ProcInv'
  OBVIOUS
<1>1. CASE Main
  <2>1. CASE UNCHANGED <<exit, services, shared>> /\ phase' = "watch"
    BY <1>1, <2>1 DEF Main, ProcInv, ProcStages, Alive, Phases
  <2>2. CASE Exit("error") /\ UNCHANGED <<phase, generation>>
    BY <2>2, ExitKeeps
  <2>3. QED
    BY <1>1, <2>1, <2>2 DEF Main
<1>2. CASE WatchConfigRoot
  BY <1>2 DEF WatchConfigRoot, ServicesSame, ProcInv, ProcStages, Alive, Phases
<1>3. CASE OpenShared
  <2>1. CASE Exit("error") /\ UNCHANGED <<phase, generation>>
    BY <2>1, ExitKeeps
  <2>2. CASE shared' = shared \cup {generation} /\ phase' = "spawn" /\ UNCHANGED <<exit, services>>
    BY <1>3, <2>2 DEF OpenShared, ProcInv, ProcStages, Alive, Phases
  <2>3. QED
    BY <1>3, <2>1, <2>2 DEF OpenShared
<1>4. CASE Spawn
  <2>1. \A s \in services' : s \in [gen : {generation}, part : root.parts, status : {"starting"}]
    BY <1>4 DEF Spawn, ProcInv, ProcStages
  <2>2. \A s \in services' : CurrentService(s)'
    BY <1>4, <2>1 DEF Spawn, CurrentService
  <2>3. QED
    BY <1>4, <2>2 DEF Spawn, ProcInv, ProcStages, Alive, Phases
<1>5. CASE TakeReload
  BY <1>5 DEF TakeReload, ServicesSame, ProcInv, ProcStages, Alive, Phases, CurrentService
<1>6. CASE TakeSignal
  BY <1>6 DEF TakeSignal, To, ServicesSame, ProcInv, ProcStages, Alive, Phases, CurrentService
<1>7. CASE AllDone
  <2>1. services = {}
    BY <1>7 DEF AllDone, NoneRuns, ProcInv, CurrentService
  <2>2. QED
    BY <1>7, <2>1 DEF AllDone, To, ServicesSame, ProcInv, ProcStages, Alive, Phases, CurrentService
<1>8. CASE CloseShared
  <2>1. CASE shared' = shared \ {generation} /\ phase' = "watch" /\ UNCHANGED <<exit, services>>
    BY <1>8, <2>1 DEF CloseShared, ProcInv, ProcStages, Alive, Phases
  <2>2. ASSUME NEW how \in {"error", "clean"}, Exit(how), UNCHANGED <<phase, generation>>
        PROVE  ProcInv'
    BY <2>2, ExitKeeps
  <2>3. QED
    BY <1>8, <2>1, <2>2 DEF CloseShared
<1>9. CASE EndLoop \/ (\E t \in timer : ReloadFile(t)) \/ (\E t \in timer : OnChangeRoot(t)) \/ (\E c \in Contents : Edit(c)) \/ NotifySignal
  BY <1>9, ProcSameKeeps DEF EndLoop, ReloadFile, OnChangeRoot, Edit, NotifySignal, ServicesSame
<1>10. CASE WaitForShutdown
  BY <1>10, ExitKeeps DEF WaitForShutdown
<1>11. CASE Services("running") \/ Services("failed")
  BY <1>11, ServiceKeeps DEF Services, Report
<1>12. CASE \E s \in services : End(s)
  BY <1>12, ServiceKeeps DEF End
<1>13. CASE UNCHANGED procVars
  BY <1>13, ProcSameKeeps DEF procVars
<1>14. QED
  BY <1>1, <1>2, <1>3, <1>4, <1>5, <1>6, <1>7, <1>8, <1>9, <1>10, <1>11, <1>12, <1>13 DEF ProcNext, ProcSteps

\* runWithReload waits for every service and closes the shared managers before it goes round its loop:
\* services and managers are those of one generation, and services have their managers.
THEOREM OneGenerationHolds == ProcInit /\ [][ProcNext]_procVars => []OneGeneration
<1>1. ProcInit => ProcInv
  BY ProcStart
<1>2. ProcInv /\ [ProcNext]_procVars => ProcInv'
  BY ProcStep
<1>3. ProcInv => OneGeneration
  BY InvGivesOneGeneration
<1>4. QED
  BY <1>1, <1>2, <1>3, PTL

\* While every component's line is "running", each has its service: the table is booked.
LEMMA BookedIsCurrent == ProcInv /\ HealthInv => HealthIsCurrent
<1> SUFFICES ASSUME ProcInv, HealthInv, Alive, phase = "select", HealthStatus(FALSE) = "ok", NEW p \in root.parts
             PROVE  \E s \in services : s.part = p /\ s.gen = generation /\ s.status = "running"
  BY DEF HealthIsCurrent
<1>1. HealthBooked
  BY DEF HealthInv
<1>2. p \in DOMAIN health
  BY <1>1 DEF HealthBooked
<1>3. health[p] = "running"
  BY <1>2 DEF HealthStatus
<1>4. PICK s \in services : s.part = p
  BY <1>1, <1>3 DEF HealthBooked
<1>5. s.status = "running"
  BY <1>1, <1>3, <1>4 DEF HealthBooked
<1>6. s.gen = generation
  BY <1>4 DEF ProcInv, CurrentService
<1>7. QED
  BY <1>4, <1>5, <1>6

LEMMA HealthStart == ProcInit => HealthInv
  BY DEF ProcInit, HealthInv

\* The process ends, or goes on somewhere else than in the generation's own phases.
LEMMA ElsewhereKeeps ==
  ASSUME HealthInv, phase' \notin {"setup", "spawn", "select"}
  PROVE  HealthInv'
  BY DEF HealthInv
LEMMA EndKeepsHealth ==
  ASSUME HealthInv, exit' # "no", UNCHANGED <<phase, cancelled>>
  PROVE  HealthInv'
  BY DEF HealthInv, Alive

\* What runs, the table and the configuration stay.
LEMMA HealthSameKeeps ==
  ASSUME HealthInv, UNCHANGED <<phase, cancelled, root, health, services, exit>>
  PROVE  HealthInv'
  BY DEF HealthInv, HealthBooked, Alive

\* The services of the components start, and the table says so.
LEMMA SpawnBooks ==
  ASSUME ProcInv, HealthInv, Spawn
  PROVE  HealthInv'
<1>1. /\ phase = "spawn" /\ Alive /\ phase' = "select" /\ UNCHANGED <<root, cancelled, health>>
      /\ services' = [gen : {generation}, part : root.parts, status : {"starting"}]
  BY DEF Spawn, ProcInv, ProcStages
<1>2. health = [p \in root.parts |-> "starting"]
  BY <1>1 DEF HealthInv
<1>3. \A s \in services' : s.part \in root.parts /\ s.status = "starting" /\ s.gen = generation
  BY <1>1
<1>4. \A s, u \in services' : s.part = u.part => s = u
  BY <1>1
<1>5. ASSUME NEW p \in root.parts PROVE \E s \in services' : s.part = p
  <2>1. [gen |-> generation, part |-> p, status |-> "starting"] \in services'
    BY <1>1
  <2>2. QED
    BY <2>1
<1>6. HealthBooked'
  BY <1>1, <1>2, <1>3, <1>4, <1>5 DEF HealthBooked
<1>7. QED
  BY <1>1, <1>6 DEF HealthInv

\* A service that says something new is the only one of its component, and the table says the same.
LEMMA ReportBooks ==
  ASSUME ProcInv, HealthBooked, NEW s, NEW status, Report(s, status)
  PROVE  HealthBooked'
<1> DEFINE t == [s EXCEPT !.status = status]
<1>1. /\ s \in services /\ services' = (services \ {s}) \cup {t} /\ root' = root
      /\ health' = [p \in DOMAIN health \cup {s.part} |-> IF p = s.part THEN status ELSE health[p]]
  BY DEF Report
<1>2. s = [gen |-> s.gen, part |-> s.part, status |-> s.status]
  BY <1>1 DEF ProcInv, CurrentService
<1>3. t.part = s.part /\ t.status = status
  BY <1>2
<1>4. s.part \in root.parts /\ DOMAIN health = root.parts
  BY <1>1 DEF HealthBooked
<1>5. health' = [p \in root.parts |-> IF p = s.part THEN status ELSE health[p]]
  BY <1>1, <1>4
<1> HIDE DEF t
<1>6. \A u \in services \ {s} : u.part # s.part /\ u.part \in root.parts /\ u.status = health[u.part]
  BY <1>1 DEF HealthBooked
<1>7. health' = [p \in root.parts |-> health'[p]]
  BY <1>5
<1>8. \A u \in services' : u.part \in root.parts /\ u.status = health'[u.part]
  BY <1>1, <1>3, <1>4, <1>5, <1>6
<1>9. \A u, v \in services' : u.part = v.part => u = v
  BY <1>1, <1>3, <1>6 DEF HealthBooked
<1>10. ASSUME NEW p \in root.parts PROVE health'[p] = "failed" \/ \E u \in services' : u.part = p
  <2>1. CASE p = s.part
    BY <1>1, <1>3, <2>1
  <2>2. CASE p # s.part
    <3>1. health'[p] = health[p]
      BY <1>5, <2>2
    <3>2. QED
      BY <1>1, <2>2, <3>1 DEF HealthBooked
  <2>3. QED
    BY <2>1, <2>2
<1>11. QED
  BY <1>1, <1>7, <1>8, <1>9, <1>10 DEF HealthBooked

\* In the select a service ends only after it has said that it failed.
LEMMA EndBooks ==
  ASSUME ProcInv, HealthBooked, ~cancelled, NEW s \in services, End(s)
  PROVE  HealthBooked'
<1>1. s.gen = generation
  BY DEF ProcInv, CurrentService
<1>2. services' = services \ {s} /\ s.status = "failed" /\ UNCHANGED <<root, health>>
  BY <1>1 DEF End
<1>3. health[s.part] = "failed"
  BY <1>2 DEF HealthBooked
<1>4. QED
  BY <1>2, <1>3 DEF HealthBooked

LEMMA HealthStep == ProcInv /\ HealthInv /\ [ProcNext]_procVars => HealthInv'
<1> SUFFICES ASSUME ProcInv, HealthInv, [ProcNext]_procVars PROVE HealthInv'
  OBVIOUS
<1>1. CASE Main
  BY <1>1, ElsewhereKeeps, EndKeepsHealth DEF Main, Exit
<1>2. CASE WatchConfigRoot
  BY <1>2 DEF WatchConfigRoot, HealthInv
<1>3. CASE OpenShared
  <2>1. CASE Exit("error") /\ UNCHANGED <<phase, cancelled>>
    BY <2>1, EndKeepsHealth DEF Exit
  <2>2. CASE health' = [p \in root.parts |-> "starting"] /\ phase' = "spawn"
    BY <1>3, <2>2 DEF OpenShared, HealthInv
  <2>3. QED
    BY <1>3, <2>1, <2>2 DEF OpenShared
<1>4. CASE Spawn
  BY <1>4, SpawnBooks
<1>5. CASE TakeReload \/ TakeSignal \/ AllDone
  BY <1>5, ElsewhereKeeps DEF TakeReload, TakeSignal, AllDone, To
<1>6. CASE CloseShared
  BY <1>6, ElsewhereKeeps DEF CloseShared
<1>7. CASE EndLoop \/ (\E t \in timer : ReloadFile(t)) \/ (\E t \in timer : OnChangeRoot(t)) \/ (\E c \in Contents : Edit(c)) \/ NotifySignal
  <2>1. UNCHANGED <<phase, cancelled, root, health, services, exit>>
    BY <1>7, Zenon DEF EndLoop, ReloadFile, OnChangeRoot, Edit, NotifySignal, ServicesSame
  <2>2. QED
    BY <2>1, HealthSameKeeps
<1>8. CASE WaitForShutdown
  <2>1. phase' = "shutdown"
    BY <1>8 DEF WaitForShutdown
  <2>2. QED
    BY <2>1, ElsewhereKeeps
<1>9. CASE Services("running") \/ Services("failed")
  <2>1. PICK s \in services : \E status : Report(s, status)
    BY <1>9 DEF Services
  <2>2. s \in services /\ Alive /\ UNCHANGED <<phase, cancelled, exit>>
    BY <2>1 DEF Report
  <2>3. phase # "spawn"
    BY <2>2 DEF ProcInv, ProcStages
  <2>4. phase = "select" => HealthBooked'
    BY <2>1, <2>2, ReportBooks DEF HealthInv
  <2>5. QED
    BY <2>2, <2>3, <2>4 DEF HealthInv
<1>10. CASE \E s \in services : End(s)
  <2>1. PICK s \in services : End(s)
    BY <1>10
  <2>2. s \in services /\ Alive /\ UNCHANGED <<phase, cancelled, exit>>
    BY <2>1 DEF End
  <2>3. phase # "spawn"
    BY <2>2 DEF ProcInv, ProcStages
  <2>4. phase = "select" => HealthBooked'
    BY <2>1, <2>2, EndBooks DEF HealthInv
  <2>5. QED
    BY <2>2, <2>3, <2>4 DEF HealthInv
<1>11. CASE UNCHANGED procVars
  BY <1>11, HealthSameKeeps DEF procVars
<1>12. QED
  BY <1>1, <1>2, <1>3, <1>4, <1>5, <1>6, <1>7, <1>8, <1>9, <1>10, <1>11 DEF ProcNext, ProcSteps

---------------------------------------------------------------------------
(* Restarts of the process *)

Readable == Contents \cup {Nothing}
Statuses == {"starting", "running", "failed"}
IsTimer(t) == t = [gen |-> t.gen, at |-> t.at, read |-> t.read] /\ t.at \in {"armed", "read"} /\ t.read \in Readable

ProcContained ==
  /\ file \in Contents /\ root \in Readable /\ reloadCh \in Readable /\ newRoot \in Readable
  /\ generation \in Nat /\ (phase = "main" => generation = 0) /\ (phase # "main" => generation > 0)
  /\ \A t \in timer : IsTimer(t)
  /\ \A s \in services : s.part \in Parts /\ s.status \in Statuses
  /\ cancelled \in BOOLEAN /\ errCh \in BOOLEAN /\ exit \in {"no", "clean", "error", "forced", "timeout"}
  /\ procBudget \in [edits : Nat, signals : Nat, failures : Nat]

\* Every restart comes from an edit: the generation, the reloads under way and the edits to come.
Place(c) == IF c = Nothing THEN 0 ELSE 1
Restarts ==
  (IF phase = "main" THEN 1 ELSE generation) + Cardinality(timer) + Place(reloadCh) + Place(newRoot) + procBudget.edits
ProcCounted == IsFiniteSet(timer) /\ Restarts <= MaxEdits + 1

LEMMA ContainedStart == ProcInit => ProcContained /\ ProcCounted
<1> SUFFICES ASSUME ProcInit PROVE ProcContained /\ ProcCounted
  OBVIOUS
<1>1. ProcContained
  BY ProcConstants DEF ProcInit, ProcContained, Readable
<1>2. IsFiniteSet(timer) /\ Cardinality(timer) = 0
  BY FS_EmptySet DEF ProcInit
<1>3. procBudget.edits = MaxEdits /\ MaxEdits \in Nat
  BY ProcConstants DEF ProcInit
<1>4. Restarts = 1 + MaxEdits
  BY <1>2, <1>3 DEF ProcInit, Restarts, Place
<1>5. QED
  BY <1>1, <1>2, <1>3, <1>4 DEF ProcCounted

LEMMA UseBudget ==
  ASSUME procBudget \in [edits : Nat, signals : Nat, failures : Nat], NEW what \in {"edits", "signals", "failures"}, Use(what)
  PROVE  /\ procBudget' \in [edits : Nat, signals : Nat, failures : Nat]
         /\ procBudget'.edits = IF what = "edits" THEN procBudget.edits - 1 ELSE procBudget.edits
  BY DEF Use

PartsOf == \A c \in Readable : c.parts \subseteq Parts
LEMMA ReadParts == PartsOf
  BY DEF PartsOf, Readable, Parts, Nothing

LEMMA ExitContained ==
  ASSUME ProcContained, NEW how \in {"clean", "error", "forced", "timeout"}, Exit(how),
         UNCHANGED <<file, phase, root, generation, cancelled, reloadCh, newRoot, errCh>>,
         procBudget' \in [edits : Nat, signals : Nat, failures : Nat]
  PROVE  ProcContained'
  BY DEF ProcContained, Exit

LEMMA ContainedStep == ASSUME ProcInv, ProcContained, [ProcNext]_procVars PROVE ProcContained'
<1> USE DEF ProcContained
<1>0. ASSUME NEW what \in {"edits", "signals", "failures"}, Use(what)
      PROVE  procBudget' \in [edits : Nat, signals : Nat, failures : Nat]
  BY <1>0, UseBudget
<1>1. CASE Main
  <2>1. CASE Exit("error")
    BY <1>1, <2>1, ExitContained DEF Main, Exit, Alive
  <2>2. CASE root' = file /\ phase' = "watch" /\ generation' = 1 /\ UNCHANGED <<exit, services, timer>>
    BY <1>1, <2>2 DEF Main, Readable, IsTimer
  <2>3. QED
    BY <1>1, <2>1, <2>2 DEF Main
<1>2. CASE WatchConfigRoot
  BY <1>0, <1>2 DEF WatchConfigRoot, ServicesSame, Readable
<1>3. CASE OpenShared
  <2>1. CASE Exit("error")
    BY <1>0, <1>3, <2>1, ExitContained DEF OpenShared
  <2>2. CASE phase' = "spawn" /\ UNCHANGED <<exit, timer, procBudget, services>>
    BY <1>3, <2>2 DEF OpenShared
  <2>3. QED
    BY <1>3, <2>1, <2>2 DEF OpenShared
<1>4. CASE Spawn
  <2>1. \A s \in services' : s \in services \/ (s.part \in root.parts /\ s.status = "starting")
    BY <1>4 DEF Spawn
  <2>2. \A s \in services' : s.part \in Parts /\ s.status \in Statuses
    BY <2>1, ReadParts DEF PartsOf, Statuses
  <2>3. QED
    BY <1>4, <2>2 DEF Spawn, WatchSame
<1>5. CASE TakeReload
  BY <1>5 DEF TakeReload, WatchSame, ServicesSame, Readable
<1>6. CASE TakeSignal \/ AllDone
  BY <1>6 DEF TakeSignal, AllDone, To, WatchSame, ServicesSame
<1>7. CASE CloseShared
  <2>1. CASE Exit("error") \/ Exit("clean")
    BY <1>7, <2>1, ExitContained DEF CloseShared, Exit, Alive
  <2>2. CASE root' = newRoot /\ newRoot' = Nothing /\ generation' = generation + 1 /\ phase' = "watch" /\ UNCHANGED <<exit, services, timer>>
    BY <1>7, <2>2 DEF CloseShared, Readable
  <2>3. QED
    BY <1>7, <2>1, <2>2 DEF CloseShared
<1>8. CASE EndLoop
  BY <1>8 DEF EndLoop, ServicesSame
<1>9. ASSUME NEW t \in timer, ReloadFile(t) PROVE ProcContained'
  <2> DEFINE u == [t EXCEPT !.at = "read", !.read = file]
  <2>1. PICK g, a, c : t = [gen |-> g, at |-> a, read |-> c]
    BY DEF IsTimer
  <2>2. u = [[t EXCEPT !.at = "read"] EXCEPT !.read = file]
    OBVIOUS
  <2>3. u = [gen |-> g, at |-> "read", read |-> file]
    <3>1. [t EXCEPT !.at = "read"] = [gen |-> g, at |-> "read", read |-> c]
      BY <2>1
    <3> HIDE DEF u
    <3>2. QED
      BY <2>2, <3>1
  <2>4. IsTimer(u)
    BY <2>3 DEF IsTimer, Readable
  <2>5. \A v \in timer' : v \in timer \/ v = u
    BY <1>9 DEF ReloadFile
  <2>6. QED
    BY <1>9, <2>4, <2>5 DEF ReloadFile, ServicesSame, IsTimer
<1>10. ASSUME NEW t \in timer, OnChangeRoot(t) PROVE ProcContained'
  BY <1>10 DEF OnChangeRoot, ServicesSame, IsTimer
<1>11. CASE WaitForShutdown
  BY <1>11, ExitContained DEF WaitForShutdown
<1>12. ASSUME NEW status \in {"running", "failed"}, NEW s \in services, Report(s, status) PROVE ProcContained'
  <2>1. CurrentService(s) /\ [s EXCEPT !.status = status] = [gen |-> generation, part |-> s.part, status |-> status]
    BY DEF ProcInv, CurrentService
  <2>2. services' = (services \ {s}) \cup {[gen |-> generation, part |-> s.part, status |-> status]}
    BY <1>12, <2>1 DEF Report
  <2>3. \A u \in services' : u.part \in Parts /\ u.status \in Statuses
    BY <2>2 DEF Statuses
  <2>4. procBudget' \in [edits : Nat, signals : Nat, failures : Nat]
    BY <1>0, <1>12 DEF Report
  <2>5. QED
    BY <1>12, <2>3, <2>4 DEF Report, WatchSame
<1>13. ASSUME NEW s \in services, End(s) PROVE ProcContained'
  BY <1>13 DEF End, WatchSame
<1>14. ASSUME NEW c \in Contents, Edit(c) PROVE ProcContained'
  <2> DEFINE u == [gen |-> generation, at |-> "armed", read |-> Nothing]
  <2>1. IsTimer(u)
    BY DEF IsTimer, Readable
  <2>2. \A v \in timer' : v \in timer \/ v = u
    BY <1>14 DEF Edit
  <2>3. QED
    BY <1>0, <1>14, <2>1, <2>2 DEF Edit, ServicesSame, IsTimer
<1>15. CASE NotifySignal
  BY <1>0, <1>15 DEF NotifySignal, WatchSame, ServicesSame
<1>16. CASE UNCHANGED procVars
  BY <1>16 DEF procVars
<1>17. QED
  BY <1>1, <1>2, <1>3, <1>4, <1>5, <1>6, <1>7, <1>8, <1>9, <1>10, <1>11, <1>12, <1>13, <1>14, <1>15, <1>16
  DEF ProcNext, ProcSteps, Services

LEMMA OneLess ==
  ASSUME NEW S, IsFiniteSet(S), NEW x \in S
  PROVE  /\ IsFiniteSet(S \ {x}) /\ Cardinality(S \ {x}) = Cardinality(S) - 1
         /\ \A u : IsFiniteSet((S \ {x}) \cup {u}) /\ Cardinality((S \ {x}) \cup {u}) <= Cardinality(S)
<1>1. Cardinality(S) \in Nat
  BY FS_CardinalityType
<1>2. IsFiniteSet(S \ {x}) /\ Cardinality(S \ {x}) = Cardinality(S) - 1
  BY FS_RemoveElement
<1>3. ASSUME NEW u PROVE IsFiniteSet((S \ {x}) \cup {u}) /\ Cardinality((S \ {x}) \cup {u}) <= Cardinality(S)
  <2> DEFINE T == S \ {x}
  <2>1. IsFiniteSet(T \cup {u}) /\ (Cardinality(T \cup {u}) = Cardinality(T) \/ Cardinality(T \cup {u}) = Cardinality(T) + 1)
    <3> HIDE DEF T
    <3>1. IsFiniteSet(T)
      BY <1>2 DEF T
    <3>2. QED
      BY <3>1, FS_AddElement
  <2>2. QED
    BY <1>1, <1>2, <2>1
<1>4. QED
  BY <1>2, <1>3

\* Nothing is gained while reloads, restarts and edits only take from one another.
LEMMA NothingGained ==
  ASSUME ProcContained, ProcContained', ProcCounted, IsFiniteSet(timer'),
         Restarts' <= Restarts
  PROVE  ProcCounted'
<1>1. \A c : Place(c) \in Nat
  BY DEF Place
<1>2. Cardinality(timer) \in Nat /\ Cardinality(timer') \in Nat
  BY FS_CardinalityType DEF ProcCounted
<1>3. procBudget.edits \in Nat /\ procBudget'.edits \in Nat /\ generation \in Nat /\ generation' \in Nat
  BY DEF ProcContained
<1>4. Restarts \in Nat /\ Restarts' \in Nat /\ MaxEdits \in Nat
  BY <1>1, <1>2, <1>3, ProcConstants DEF Restarts, Place
<1>5. QED
  BY <1>4 DEF ProcCounted

LEMMA CountedSame ==
  ASSUME ProcContained, ProcCounted, UNCHANGED <<phase, generation, timer, reloadCh, newRoot>>,
         procBudget'.edits = procBudget.edits
  PROVE  ProcCounted'
  BY DEF ProcCounted, Restarts, Place

LEMMA ExitCounted ==
  ASSUME ProcContained, ProcCounted, NEW how, Exit(how), UNCHANGED <<phase, generation, reloadCh, newRoot>>,
         procBudget'.edits = procBudget.edits
  PROVE  ProcCounted'
<1>1. IsFiniteSet(timer') /\ Cardinality(timer') = 0 /\ Cardinality(timer) \in Nat
  BY FS_EmptySet, FS_CardinalityType DEF Exit, ProcCounted
<1> DEFINE others == (IF phase = "main" THEN 1 ELSE generation)
<1>2. others \in Nat /\ Place(reloadCh) \in Nat /\ Place(newRoot) \in Nat /\ procBudget.edits \in Nat
  BY DEF ProcContained, Place
<1>3. Restarts = others + Cardinality(timer) + Place(reloadCh) + Place(newRoot) + procBudget.edits
  BY DEF Restarts
<1>4. Restarts' = others + 0 + Place(reloadCh) + Place(newRoot) + procBudget.edits
  BY <1>1 DEF Restarts, Place
<1>5. Restarts <= MaxEdits + 1 /\ MaxEdits \in Nat
  BY ProcConstants DEF ProcCounted
<1> HIDE DEF others
<1>6. Restarts' <= MaxEdits + 1
  BY <1>1, <1>2, <1>3, <1>4, <1>5
<1>7. QED
  BY <1>1, <1>6 DEF ProcCounted

LEMMA CountedStep == ASSUME ProcContained, ProcContained', ProcCounted, [ProcNext]_procVars PROVE ProcCounted'
<1>0. ASSUME NEW what \in {"edits", "signals", "failures"}, Use(what)
      PROVE  procBudget'.edits = IF what = "edits" THEN procBudget.edits - 1 ELSE procBudget.edits
  BY <1>0, UseBudget DEF ProcContained
<1>6. /\ IsFiniteSet(timer) /\ Cardinality(timer) \in Nat /\ generation \in Nat /\ procBudget.edits \in Nat
      /\ phase = "main" => generation = 0
      /\ \A c : Place(c) \in {0, 1} /\ (Place(c) = 0 <=> c = Nothing)
  BY FS_CardinalityType DEF ProcContained, ProcCounted, Place
<1>1. CASE Main
  <2>1. CASE Exit("error")
    BY <1>1, <2>1, ExitCounted DEF Main, Exit, Alive
  <2>2. CASE phase = "main" /\ phase' = "watch" /\ generation' = 1 /\ UNCHANGED <<timer, reloadCh, newRoot, procBudget>>
    BY <2>2 DEF ProcCounted, Restarts, Place
  <2>3. QED
    BY <1>1, <2>1, <2>2 DEF Main
<1>2. CASE WatchConfigRoot
  <2>1. /\ phase = "watch" /\ phase' = "setup" /\ UNCHANGED <<generation, timer, newRoot>> /\ reloadCh' = Nothing
        /\ procBudget'.edits = procBudget.edits
    BY <1>0, <1>2 DEF WatchConfigRoot
  <2>2. Restarts' <= Restarts
    BY <1>6, <2>1 DEF Restarts, Place
  <2>3. QED
    BY <1>6, <2>1, <2>2, NothingGained
<1>3. CASE OpenShared
  <2>1. CASE Exit("error")
    BY <1>0, <1>3, <2>1, ExitCounted DEF OpenShared, Exit, Alive
  <2>2. CASE phase = "setup" /\ phase' = "spawn" /\ UNCHANGED <<generation, timer, reloadCh, newRoot, procBudget>>
    BY <2>2 DEF ProcCounted, Restarts, Place
  <2>3. QED
    BY <1>3, <2>1, <2>2 DEF OpenShared
<1>4. CASE Spawn \/ TakeSignal \/ AllDone
  <2>1. phase # "main" /\ phase' # "main" /\ UNCHANGED <<generation, timer, reloadCh, newRoot, procBudget>>
    BY <1>4 DEF Spawn, TakeSignal, AllDone, To, WatchSame
  <2>2. QED
    BY <2>1 DEF ProcCounted, Restarts, Place
<1>5. CASE TakeReload
  <2>1. /\ phase = "select" /\ phase' = "reload" /\ UNCHANGED <<generation, timer, procBudget>>
        /\ reloadCh # Nothing /\ newRoot' = reloadCh /\ reloadCh' = Nothing
    BY <1>5 DEF TakeReload, WatchSame
  <2>2. Restarts' <= Restarts
    BY <1>6, <2>1 DEF Restarts, Place
  <2>3. QED
    BY <1>6, <2>1, <2>2, NothingGained
<1>7. CASE CloseShared
  <2>1. CASE Exit("error") \/ Exit("clean")
    BY <1>7, <2>1, ExitCounted DEF CloseShared, Exit, Alive
  <2>2. CASE /\ phase = "close" /\ newRoot # Nothing /\ newRoot' = Nothing /\ generation' = generation + 1 /\ phase' = "watch"
             /\ UNCHANGED <<timer, reloadCh, procBudget>>
    <3>1. Restarts' <= Restarts
      BY <1>6, <2>2 DEF Restarts, Place
    <3>2. QED
      BY <1>6, <2>2, <3>1, NothingGained
  <2>3. QED
    BY <1>7, <2>1, <2>2 DEF CloseShared
<1>8. ASSUME IsFiniteSet(timer'), Cardinality(timer') <= Cardinality(timer), Cardinality(timer') \in Nat,
             UNCHANGED <<phase, generation, reloadCh, newRoot, procBudget>>
      PROVE  ProcCounted'
  <2>1. Restarts' <= Restarts
    BY <1>6, <1>8 DEF Restarts, Place
  <2>2. QED
    BY <1>8, <2>1, NothingGained
<1>9. CASE EndLoop
  <2>1. timer' \in SUBSET timer
    BY <1>9 DEF EndLoop
  <2>2. IsFiniteSet(timer') /\ Cardinality(timer') <= Cardinality(timer) /\ Cardinality(timer') \in Nat
    BY <1>6, <2>1, FS_Subset, FS_CardinalityType
  <2>3. QED
    BY <1>8, <1>9, <2>2 DEF EndLoop
<1>10. ASSUME NEW t \in timer, ReloadFile(t) PROVE ProcCounted'
  <2>1. timer' = timer \ {t} \/ \E u : timer' = (timer \ {t}) \cup {u}
    BY <1>10 DEF ReloadFile
  <2>2. IsFiniteSet(timer') /\ Cardinality(timer') <= Cardinality(timer)
    <3>1. /\ IsFiniteSet(timer \ {t}) /\ Cardinality(timer \ {t}) = Cardinality(timer) - 1
          /\ \A u : IsFiniteSet((timer \ {t}) \cup {u}) /\ Cardinality((timer \ {t}) \cup {u}) <= Cardinality(timer)
      BY <1>6, OneLess
    <3>2. QED
      BY <1>6, <2>1, <3>1
  <2>3. Cardinality(timer') \in Nat
    BY <2>2, FS_CardinalityType
  <2>4. QED
    BY <1>8, <1>10, <2>2, <2>3 DEF ReloadFile
<1>11. ASSUME NEW t \in timer, OnChangeRoot(t) PROVE ProcCounted'
  <2>1. /\ timer' = timer \ {t} /\ UNCHANGED <<phase, generation, newRoot, procBudget>>
        /\ reloadCh' = reloadCh \/ reloadCh = Nothing
    BY <1>11 DEF OnChangeRoot
  <2>2. IsFiniteSet(timer') /\ Cardinality(timer') = Cardinality(timer) - 1
    BY <1>6, <2>1, OneLess
  <2>3. Place(reloadCh') <= Place(reloadCh) + 1 /\ Place(reloadCh') \in {0, 1}
    BY <1>6, <2>1
  <2>4. Restarts' <= Restarts
    BY <1>6, <2>1, <2>2, <2>3 DEF Restarts, Place
  <2>5. QED
    BY <2>2, <2>4, NothingGained
<1>12. CASE WaitForShutdown
  BY <1>12, ExitCounted DEF WaitForShutdown
<1>13. CASE (\E s \in services, status \in {"running", "failed"} : Report(s, status)) \/ \E s \in services : End(s)
  <2>1. UNCHANGED <<phase, generation, timer, reloadCh, newRoot>> /\ procBudget'.edits = procBudget.edits
    BY <1>0, <1>13 DEF Report, End, WatchSame
  <2>2. QED
    BY <2>1, CountedSame
<1>14. ASSUME NEW c \in Contents, Edit(c) PROVE ProcCounted'
  <2>1. /\ timer' = timer \/ \E u : timer' = timer \cup {u}
        /\ procBudget'.edits = procBudget.edits - 1 /\ UNCHANGED <<phase, generation, reloadCh, newRoot>>
    BY <1>0, <1>14 DEF Edit
  <2>2. IsFiniteSet(timer') /\ Cardinality(timer') \in Nat /\ Cardinality(timer') <= Cardinality(timer) + 1
    <3>1. CASE timer' = timer
      BY <1>6, <3>1
    <3>2. ASSUME NEW u, timer' = timer \cup {u} PROVE IsFiniteSet(timer') /\ Cardinality(timer') <= Cardinality(timer) + 1
      <4>1. /\ IsFiniteSet(timer \cup {u})
            /\ Cardinality(timer \cup {u}) = Cardinality(timer) \/ Cardinality(timer \cup {u}) = Cardinality(timer) + 1
        BY <1>6, FS_AddElement
      <4>2. QED
        BY <1>6, <3>2, <4>1
    <3>3. QED
      BY <1>6, <2>1, <3>1, <3>2, FS_CardinalityType
  <2>3. Restarts' <= Restarts
    BY <1>6, <2>1, <2>2 DEF Restarts, Place
  <2>4. QED
    BY <2>2, <2>3, NothingGained
<1>15. CASE NotifySignal \/ UNCHANGED procVars
  <2>1. UNCHANGED <<phase, generation, timer, reloadCh, newRoot>> /\ procBudget'.edits = procBudget.edits
    BY <1>0, <1>15 DEF NotifySignal, WatchSame, procVars
  <2>2. QED
    BY <2>1, CountedSame
<1>16. QED
  BY <1>1, <1>2, <1>3, <1>4, <1>5, <1>7, <1>9, <1>10, <1>11, <1>12, <1>13, <1>14, <1>15 DEF ProcNext, ProcSteps, Services

LEMMA ProcTypes == ASSUME ProcInv, ProcContained, ProcCounted PROVE ProcTypeOK
<1>1. Cardinality(timer) \in Nat /\ Place(reloadCh) \in Nat /\ Place(newRoot) \in Nat /\ procBudget.edits \in Nat /\ generation \in Nat
  BY FS_CardinalityType DEF ProcContained, ProcCounted, Place
<1>2. generation <= MaxEdits + 1 /\ MaxEdits \in Nat
  BY <1>1, ProcConstants DEF ProcCounted, Restarts, ProcContained
<1>3. services # {} \/ shared # {} => generation > 0
  BY DEF ProcInv, ProcStages, ProcContained
<1>4. ASSUME NEW s \in services PROVE s \in [gen : 1..MaxEdits + 1, part : Parts, status : Statuses]
  <2>1. s = [gen |-> generation, part |-> s.part, status |-> s.status] /\ s.part \in Parts /\ s.status \in Statuses
    BY DEF ProcInv, CurrentService, ProcContained
  <2>2. generation \in 1..MaxEdits + 1
    BY <1>1, <1>2, <1>3
  <2>3. QED
    BY <2>1, <2>2
<1>5. shared \subseteq 1..MaxEdits + 1
  BY <1>1, <1>2, <1>3 DEF ProcInv
<1>6. QED
  BY <1>1, <1>2, <1>4, <1>5 DEF ProcTypeOK, ProcInv, ProcContained, Readable, Statuses

---------------------------------------------------------------------------
(* The xray kernel *)

InstanceStates == {"none", "created", "up", "draining", "closing", "closed", "gone"}
IsInstance(r) ==
  /\ DOMAIN r = {"state", "config", "manager", "limits", "listening", "conns", "unread"}
  /\ r.state \in InstanceStates /\ r.listening \in BOOLEAN /\ r.conns \in Nat /\ r.unread \in Nat
InstancesTyped ==
  /\ inst = [i \in Ids |-> inst[i]] /\ \A i \in Ids : IsInstance(inst[i])
  /\ created \in 0..MaxStarts /\ instance \in 0..created /\ retired \subseteq 1..created /\ running \in BOOLEAN

OpSteps == {"idle", "build", "start", "swap", "close", "edit", "limits", "failed", "stop", "signal", "wait"}
IsOp(r) ==
  /\ DOMAIN r = {"at", "kind", "config", "users", "add", "remove", "old", "fails", "waits"}
  /\ r.at \in OpSteps /\ r.fails \in BOOLEAN
WishTyped ==
  /\ DOMAIN wish = {"config", "users"}
  /\ wish.config \in Configs \cup {NoConfig} /\ UserList(wish.users) /\ UserList(users)
  /\ requests \in 0..MaxRequests
Uncounted(i) == inst[i].conns = 0 /\ inst[i].unread = 0

\* Who reads the counters of an instance: one that has connections, bytes or a port is the current one,
\* the newest one or a retired one, and what is on its way out stays among the retired until it is
\* forgotten. A current instance, and one that was just replaced, is up.
InstancesKept ==
  /\ \A i \in Ids : ~Uncounted(i) \/ inst[i].listening
       => i \in retired \cup {instance, created} /\ inst[i].config \in Configs
  /\ \A i \in Ids : inst[i].state \in {"draining", "closing", "closed"} => i \in retired
  /\ instance # 0 => inst[instance].state = "up"
  /\ op.at \in {"close", "signal"} /\ op.old # 0 => op.old \in retired /\ inst[op.old].state = "up"
  /\ op.at \in {"start", "swap"} => created # 0 /\ created # instance /\ created \notin retired
  /\ op.at = "start" => inst[created].state = "created"
  /\ op.at = "swap" => inst[created].state = "up"
  /\ op.at # "swap" /\ created # 0 /\ created \notin retired \cup {instance} => Uncounted(created)

\* The kernel is down; or the current instance runs and is the only one with a port.
Down == instance = 0 /\ ~running /\ Listening = {}
Up == instance # 0 /\ running /\ Listening = {instance}
\* The manager of the current instance is on its way from the users on the books to those asked for.
Midway ==
  /\ inst[instance].config = wish.config /\ hash = ComputeHash(wish.config, users)
  /\ Creds(users) \cap Creds(wish.users) \subseteq inst[instance].manager
  /\ inst[instance].manager \subseteq Creds(users) \cup Creds(wish.users)
\* What was asked for is served, but for the books and the limits; and altogether.
Switched ==
  /\ Up /\ inst[instance].config = wish.config /\ inst[instance].manager = Creds(wish.users)
  /\ hash = ComputeHash(wish.config, wish.users)
Served == Switched /\ users = wish.users /\ inst[instance].limits = wish.users
\* A hot update that fails, with its instance up, may be tried again.
Standing == Down \/ (Up /\ (op.kind \in {"add", "remove"} => Midway))
\* The candidate is what was asked for.
Candidate ==
  /\ ~running /\ ~op.fails /\ op.config = wish.config /\ op.users = wish.users /\ wish.config \in Configs
  /\ inst[created].config = wish.config /\ inst[created].manager = Creds(wish.users)
  /\ inst[created].limits = wish.users

\* What is served at each step of the service's call.
ServesStages ==
  /\ op.at = "idle" => IF running THEN Served ELSE Down
  /\ op.at = "build" => ~op.fails /\ op.config = wish.config /\ op.users = wish.users /\ wish.config \in Configs /\ Standing
  /\ op.at = "start" => Candidate /\ Listening = {}
  /\ op.at = "swap" => Candidate /\ Listening = {created}
  /\ op.at = "close" => IF op.fails THEN Down ELSE Served /\ op.old # instance
  /\ op.at = "edit" =>
       /\ Up /\ Midway /\ op.users = wish.users
       /\ op.remove \subseteq Creds(users) \ Creds(wish.users) /\ op.add \subseteq Creds(wish.users) \ Creds(users)
       /\ (inst[instance].manager \ op.remove) \cup op.add = Creds(wish.users)
  /\ op.at = "limits" => Switched /\ op.users = wish.users
  /\ op.at = "failed" => Standing
  /\ op.at = "stop" => Listening \subseteq {instance}
  /\ op.at = "signal" => instance = 0 /\ ~running /\ Listening \subseteq {op.old}
  /\ op.at = "wait" => Down

\* The bytes of a node that its instances have not been asked for, and those of them that came before
\* the last reading.
Held(all, n) == [i \in Ids |-> IF all[i].unread > 0 /\ NodeOf[all[i].config] = n THEN all[i].unread ELSE 0]
Passed(r) == r.state \in {"closing", "closed"}
Fresh(all, n) == [i \in Ids |-> IF ~Passed(all[i]) THEN Held(all, n)[i] ELSE 0]
BytesTyped == cum \in [Nodes -> Nat] /\ carried \in [Nodes -> Nat] /\ late \in [Nodes -> Nat]
BytesKept ==
  \A n \in Nodes : /\ cum[n] + Total(Held(inst, n), Ids) <= carried[n]
                   /\ carried[n] - late[n] <= cum[n] + Total(Fresh(inst, n), Ids)

\* What an operation of a running kernel leaves to be done for a list of users: nothing but the limits,
\* an edit of the manager, or a start with the running configuration.
Hot(u, kind, l) ==
  /\ IsOp(u) /\ u.kind = kind /\ ~u.fails
  /\ \/ instance = 0 /\ u.at = "failed"
     \/ instance # 0 /\ Creds(l) = Creds(users) /\ u.at = "limits" /\ u.users = l
     \/ /\ instance # 0 /\ u.at = "edit" /\ u.users = l
        /\ u.add = Creds(l) \ Creds(users) /\ u.remove = Creds(users) \ Creds(l)
     \/ instance # 0 /\ u.at = "build" /\ u.users = l /\ u.config = inst[instance].config

LEMMA IdleIsOp == IsOp(Idle)
  BY DEF IsOp, Idle, OpSteps
LEMMA ReqIsOp == ASSUME NEW kind PROVE IsOp(Req(kind)) /\ Req(kind).kind = kind /\ Req(kind).fails = FALSE
  BY DEF IsOp, Req, Idle, OpSteps
LEMMA FailOpIs == ASSUME NEW r, IsOp(r) PROVE IsOp(FailOp(r)) /\ FailOp(r).kind = r.kind /\ FailOp(r).at = "failed" /\ FailOp(r).fails = r.fails
  BY DEF IsOp, FailOp, OpSteps
LEMMA LimitsOpIs ==
  ASSUME NEW r, IsOp(r), NEW l
  PROVE  /\ IsOp(LimitsOp(r, l)) /\ LimitsOp(r, l).kind = r.kind /\ LimitsOp(r, l).at = "limits"
         /\ LimitsOp(r, l).users = l /\ LimitsOp(r, l).fails = r.fails
  BY DEF IsOp, LimitsOp, OpSteps
LEMMA StartOpIs ==
  ASSUME NEW r, IsOp(r), NEW l, NEW c
  PROVE  /\ IsOp(StartOp(r, c, l)) /\ StartOp(r, c, l).kind = r.kind /\ StartOp(r, c, l).at = "build"
         /\ StartOp(r, c, l).users = l /\ StartOp(r, c, l).config = c /\ StartOp(r, c, l).fails = r.fails
  BY DEF IsOp, StartOp, OpSteps
LEMMA StopOpIs ==
  ASSUME NEW r, IsOp(r)
  PROVE  IsOp([r EXCEPT !.at = "stop"]) /\ [r EXCEPT !.at = "stop"].kind = r.kind /\ [r EXCEPT !.at = "stop"].at = "stop"
  BY DEF IsOp, OpSteps

LEMMA EditOpIs ==
  ASSUME NEW r, IsOp(r), ~r.fails, NEW l, instance # 0
  PROVE  Hot(EditOp(r, l, UserDiff(users, l)), r.kind, l)
<1> DEFINE d == UserDiff(users, l)
           u == [r EXCEPT !.at = "edit", !.users = l, !.add = d.add, !.remove = d.remove]
<1>1. d.add = Creds(l) \ Creds(users) /\ d.remove = Creds(users) \ Creds(l)
  BY DEF UserDiff
<1> HIDE DEF d
<1>2. CASE inst[instance].config \in Managed
  <2>1. IsOp(u) /\ u.kind = r.kind /\ u.at = "edit" /\ u.users = l /\ u.add = d.add /\ u.remove = d.remove /\ ~u.fails
    BY DEF IsOp, OpSteps
  <2>2. EditOp(r, l, d) = u
    BY <1>2 DEF EditOp
  <2> HIDE DEF u
  <2>3. QED
    BY <1>1, <2>1, <2>2 DEF Hot, d
<1>3. CASE inst[instance].config \notin Managed
  <2>1. EditOp(r, l, d) = StartOp(r, inst[instance].config, l)
    BY <1>3 DEF EditOp
  <2>2. QED
    BY <2>1, StartOpIs DEF Hot, d
<1>4. QED
  BY <1>2, <1>3

LEMMA UpdateUsersIs ==
  ASSUME NEW r, IsOp(r), ~r.fails, NEW l
  PROVE  Hot(UpdateUsers(r, l), r.kind, l)
<1>1. CASE instance = 0
  <2>1. UpdateUsers(r, l) = FailOp(r)
    BY <1>1 DEF UpdateUsers
  <2>2. QED
    BY <1>1, <2>1, FailOpIs DEF Hot
<1>2. CASE instance # 0 /\ Creds(l) = Creds(users)
  <2>1. UpdateUsers(r, l) = LimitsOp(r, l)
    BY <1>2 DEF UpdateUsers
  <2>2. QED
    BY <1>2, <2>1, LimitsOpIs DEF Hot
<1>3. CASE instance # 0 /\ Creds(l) # Creds(users)
  <2>1. UpdateUsers(r, l) = EditOp(r, l, UserDiff(users, l))
    BY <1>3 DEF UpdateUsers
  <2>2. QED
    BY <1>3, <2>1, EditOpIs
<1>4. QED
  BY <1>1, <1>2, <1>3

LEMMA AddUsersIs ==
  ASSUME NEW r, IsOp(r), ~r.fails, NEW delta
  PROVE  Hot(AddUsers(r, delta), r.kind, MergeUsers(users, delta))
<1> DEFINE merged == MergeUsers(users, delta)
           d == UserDiff(users, merged)
<1>1. d.add = Creds(merged) \ Creds(users) /\ d.remove = Creds(users) \ Creds(merged)
  BY DEF UserDiff
<1>2. /\ instance = 0 => AddUsers(r, delta) = FailOp(r)
      /\ instance # 0 /\ d.remove # {} => AddUsers(r, delta) = UpdateUsers(r, merged)
      /\ instance # 0 /\ d.remove = {} /\ d.add = {} => AddUsers(r, delta) = LimitsOp(r, merged)
      /\ instance # 0 /\ d.remove = {} /\ d.add # {} => AddUsers(r, delta) = EditOp(r, merged, d)
  BY Zenon DEF AddUsers
<1>3. instance # 0 => Hot(EditOp(r, merged, d), r.kind, merged)
  BY EditOpIs
<1>4. Hot(UpdateUsers(r, merged), r.kind, merged)
  BY UpdateUsersIs
<1> HIDE DEF d, merged
<1>5. instance = 0 => Hot(FailOp(r), r.kind, merged)
  BY FailOpIs DEF Hot
<1>6. instance # 0 /\ d.remove = {} /\ d.add = {} => Hot(LimitsOp(r, merged), r.kind, merged)
  <2>1. d.remove = {} /\ d.add = {} => Creds(merged) = Creds(users)
    BY <1>1
  <2>2. QED
    BY <2>1, LimitsOpIs DEF Hot
<1>7. Hot(AddUsers(r, delta), r.kind, merged)
  BY <1>2, <1>3, <1>4, <1>5, <1>6
<1>8. QED
  BY <1>7 DEF merged

\* A removal may also find nothing to do, or nobody left.
LEMMA RemoveUsersIs ==
  ASSUME NEW r, IsOp(r), ~r.fails, NEW delta
  PROVE  LET u == RemoveUsers(r, delta)
             kept == SubtractUsers(users, delta)
         IN  \/ Hot(u, r.kind, kept)
             \/ u = Idle /\ kept = users
             \/ IsOp(u) /\ u.kind = r.kind /\ u.at = "stop"
<1> DEFINE u == RemoveUsers(r, delta)
           kept == SubtractUsers(users, delta)
<1>1. \/ instance = 0 /\ u = FailOp(r)
      \/ instance # 0 /\ kept = users /\ u = Idle
      \/ instance # 0 /\ u = [r EXCEPT !.at = "stop"]
      \/ instance # 0 /\ u = EditOp(r, kept, UserDiff(users, kept))
  BY DEF RemoveUsers
<1> HIDE DEF u, kept
<1>2. CASE instance = 0 /\ u = FailOp(r)
  BY <1>2, FailOpIs DEF Hot, u, kept
<1>3. CASE u = [r EXCEPT !.at = "stop"]
  BY <1>3, StopOpIs DEF u, kept
<1>4. CASE instance # 0 /\ u = EditOp(r, kept, UserDiff(users, kept))
  <2>1. Hot(u, r.kind, kept)
    BY <1>4, EditOpIs
  <2>2. QED
    BY <2>1 DEF u, kept
<1>5. CASE kept = users /\ u = Idle
  BY <1>5 DEF u, kept
<1>6. QED
  BY <1>1, <1>2, <1>3, <1>4, <1>5

LEMMA SameCore ==
  ASSUME UNCHANGED <<inst, instance, running>>
  PROVE  Listening' = Listening /\ Up' = Up /\ Down' = Down
  BY DEF Listening, Up, Down

\* An operation of a running kernel, whose manager is on its way to the users asked for.
LEMMA HotServes ==
  ASSUME Up, UNCHANGED core, wish'.config = inst[instance].config, wish'.config \in Configs, NEW kind,
         hash = ComputeHash(wish'.config, users), Hot(op', kind, wish'.users),
         Creds(users) \cap Creds(wish'.users) \subseteq inst[instance].manager,
         inst[instance].manager \subseteq Creds(users) \cup Creds(wish'.users)
  PROVE  IsOp(op') /\ op'.at \in {"limits", "edit", "build"} /\ ServesStages'
<1>1. UNCHANGED <<inst, instance, running, hash, users>> /\ instance # 0
  BY DEF core, Up
<1>2. Up' /\ Listening' = Listening
  BY <1>1, SameCore
<1>3. Midway'
  BY <1>1 DEF Midway
<1>4. IsOp(op') /\ op'.kind = kind /\ ~op'.fails
  BY DEF Hot
<1>5. CASE Creds(wish'.users) = Creds(users) /\ op'.at = "limits" /\ op'.users = wish'.users
  <2>1. inst[instance].manager = Creds(wish'.users)
    BY <1>5
  <2>2. hash = ComputeHash(wish'.config, wish'.users)
    BY <1>5 DEF ComputeHash
  <2>3. Switched'
    BY <1>1, <1>2, <2>1, <2>2 DEF Switched
  <2>4. QED
    BY <1>4, <1>5, <2>3 DEF ServesStages
<1>6. CASE /\ op'.at = "edit" /\ op'.users = wish'.users
           /\ op'.add = Creds(wish'.users) \ Creds(users) /\ op'.remove = Creds(users) \ Creds(wish'.users)
  <2>1. (inst[instance].manager \ op'.remove) \cup op'.add = Creds(wish'.users)
    BY <1>6
  <2>2. QED
    BY <1>1, <1>2, <1>3, <1>4, <1>6, <2>1 DEF ServesStages
<1>7. CASE op'.at = "build" /\ op'.users = wish'.users /\ op'.config = inst[instance].config
  BY <1>1, <1>2, <1>3, <1>4, <1>7 DEF ServesStages, Standing
<1>8. QED
  BY <1>1, <1>5, <1>6, <1>7 DEF Hot

\* A kernel that does not run is started when it can serve somebody, and is stopped otherwise.
LEMMA ColdServes ==
  ASSUME Down, UNCHANGED core, wish'.config \in Configs \cup {NoConfig}, NEW r, IsOp(r), ~r.fails, NEW hot,
         op' = Ensure(r, wish', hot)
  PROVE  IsOp(op') /\ op'.at \in {"idle", "build", "stop"} /\ ServesStages'
<1>1. UNCHANGED <<inst, instance, running, hash, users>> /\ ~running
  BY DEF core, Down
<1>2. Down' /\ Listening' = Listening /\ ~running'
  BY <1>1, SameCore
<1>3. \/ Servable(wish)' /\ op' = StartOp(r, wish'.config, wish'.users)
      \/ op' = Idle
      \/ op' = [r EXCEPT !.at = "stop"]
  BY <1>1 DEF Ensure, Servable
<1>4. CASE Servable(wish)' /\ op' = StartOp(r, wish'.config, wish'.users)
  <2>1. wish'.config \in Configs
    BY <1>4 DEF Servable
  <2>2. /\ IsOp(op') /\ ~op'.fails /\ op'.at = "build" /\ op'.users = wish'.users /\ op'.config = wish'.config
    BY <1>4, StartOpIs
  <2>3. QED
    BY <1>2, <2>1, <2>2 DEF ServesStages, Standing
<1>5. CASE op' = Idle
  <2>1. IsOp(op') /\ op'.at = "idle"
    BY <1>5, IdleIsOp DEF Idle
  <2>2. QED
    BY <1>2, <2>1 DEF ServesStages
<1>6. CASE op' = [r EXCEPT !.at = "stop"]
  <2>1. IsOp(op') /\ op'.at = "stop"
    BY <1>6, StopOpIs
  <2>2. Listening' \subseteq {instance'}
    BY <1>2 DEF Down
  <2>3. QED
    BY <2>1, <2>2 DEF ServesStages
<1>7. QED
  BY <1>3, <1>4, <1>5, <1>6

\* To stop a kernel that runs.
LEMMA StopServes ==
  ASSUME Up, UNCHANGED core, IsOp(op'), op'.at = "stop"
  PROVE  ServesStages'
<1>1. Listening' \subseteq {instance'}
  BY SameCore DEF core, Up
<1>2. QED
  BY <1>1 DEF ServesStages

\* User lists stay lists of users with one entry each.
LEMMA MergeIsList == ASSUME NEW l, NEW d, UserList(l), UserList(d) PROVE UserList(MergeUsers(l, d))
  BY DEF UserList, MergeUsers, KnownIds
LEMMA SubtractIsList == ASSUME NEW l, NEW d, UserList(l) PROVE UserList(SubtractUsers(l, d))
  BY DEF UserList, SubtractUsers

KernelShape == InstancesTyped /\ IsOp(op) /\ WishTyped
ServedInv == KernelShape /\ InstancesKept /\ ServesStages

\* Between two calls the running kernel serves what was asked for last.
LEMMA IdleServes ==
  ASSUME ServedInv, op.at = "idle"
  PROVE  /\ running => /\ Up /\ inst[instance].config = wish.config /\ inst[instance].manager = Creds(users)
                       /\ users = wish.users /\ hash = ComputeHash(wish.config, users) /\ wish.config \in Configs
         /\ ~running => Down
<1>1. CASE running
  <2>1. Served
    BY <1>1 DEF ServedInv, ServesStages
  <2>2. Up /\ instance \in Ids /\ inst[instance].listening
    <3>1. Up
      BY <2>1 DEF Served, Switched
    <3>2. QED
      BY <3>1 DEF Up, Listening
  <2>3. inst[instance].config \in Configs
    BY <2>2 DEF ServedInv, InstancesKept
  <2>4. QED
    BY <1>1, <2>1, <2>3 DEF Served, Switched
<1>2. CASE ~running
  BY <1>2 DEF ServedInv, ServesStages
<1>3. QED
  BY <1>1, <1>2

\* The instances are not touched, and the call is not over a replacement of them.
LEMMA KeptSame ==
  ASSUME InstancesKept, UNCHANGED <<inst, created, instance, retired>>, op.at # "swap",
         op'.at \notin {"close", "signal", "start", "swap"}
  PROVE  InstancesKept'
  BY DEF InstancesKept, Uncounted

LEMMA AskKeeps ==
  ASSUME ServedInv, op.at = "idle", UNCHANGED core, requests' \in 0..MaxRequests,
         DOMAIN wish' = {"config", "users"}, wish'.config \in Configs \cup {NoConfig}, UserList(wish'.users),
         IsOp(op'), op'.at \in {"idle", "build", "edit", "limits", "failed", "stop"}, ServesStages'
  PROVE  ServedInv'
<1>1. UNCHANGED <<inst, created, instance, retired, running, users>>
  BY DEF core
<1>2. InstancesKept'
  BY <1>1, KeptSame DEF ServedInv
<1>3. InstancesTyped'
  BY <1>1 DEF ServedInv, KernelShape, InstancesTyped, IsInstance
<1>4. WishTyped'
  BY <1>1 DEF ServedInv, KernelShape, WishTyped
<1>5. QED
  BY <1>2, <1>3, <1>4 DEF ServedInv, KernelShape

\* What every call of the service does first.
LEMMA AskDoes ==
  ASSUME ServedInv, NEW kind, NEW w, NEW next, Ask(kind, w, next)
  PROVE  op.at = "idle" /\ wish' = w /\ op' = next /\ UNCHANGED <<core, traffic>> /\ requests' \in 0..MaxRequests
<1>1. op.at = "idle" /\ wish' = w /\ op' = next /\ UNCHANGED <<core, traffic>> /\ requests < MaxRequests /\ requests' = requests + 1
  BY DEF Ask
<1>2. requests \in 0..MaxRequests /\ MaxRequests \in Nat
  BY KernelConstants DEF ServedInv, KernelShape, WishTyped
<1>3. requests' \in 0..MaxRequests
  BY <1>1, <1>2
<1>4. QED
  BY <1>1, <1>3

LEMMA AskConfigKeeps == ASSUME ServedInv, AskConfig PROVE ServedInv' /\ UNCHANGED <<core, traffic>>
<1>1. PICK c \in Configs : LET w == [wish EXCEPT !.config = c]
        IN Ask("config", w, Ensure(Req("config"), w, IF Servable(w) THEN Reload(Req("config"), c, w.users)
                                                     ELSE [Req("config") EXCEPT !.at = "stop"]))
  BY DEF AskConfig
<1> DEFINE w == [wish EXCEPT !.config = c]
           hot == IF Servable(w) THEN Reload(Req("config"), c, w.users) ELSE [Req("config") EXCEPT !.at = "stop"]
<1>2. op.at = "idle" /\ wish' = w /\ op' = Ensure(Req("config"), w, hot) /\ UNCHANGED <<core, traffic>> /\ requests' \in 0..MaxRequests
  BY <1>1, AskDoes
<1>3. DOMAIN w = {"config", "users"} /\ w.config = c /\ w.users = wish.users /\ UserList(w.users)
  BY DEF ServedInv, KernelShape, WishTyped
<1>4. IsOp(Req("config")) /\ ~Req("config").fails
  BY ReqIsOp
<1> HIDE DEF w, hot
<1>5. CASE ~running
  <2>1. Down
    BY <1>2, <1>5, IdleServes
  <2>2. IsOp(op') /\ op'.at \in {"idle", "build", "stop"} /\ ServesStages'
    <3>1. op' = Ensure(Req("config"), wish', hot) /\ wish'.config \in Configs \cup {NoConfig} /\ UNCHANGED core
      BY <1>2, <1>3
    <3>2. QED
      BY <2>1, <3>1, <1>4, ColdServes
  <2>3. QED
    BY <1>2, <1>3, <2>2, AskKeeps
<1>6. CASE running
  <2>1. /\ Up /\ inst[instance].config = wish.config /\ inst[instance].manager = Creds(users)
        /\ users = wish.users /\ hash = ComputeHash(wish.config, users)
    BY <1>2, <1>6, IdleServes
  <2>2. op' = hot
    BY <1>2, <1>6 DEF Ensure
  <2>3. CASE ~Servable(w)
    <3>1. IsOp(op') /\ op'.at = "stop"
      BY <2>2, <2>3, <1>4, StopOpIs DEF hot
    <3>2. ServesStages'
      BY <1>2, <2>1, <3>1, StopServes
    <3>3. QED
      BY <1>2, <1>3, <3>1, <3>2, AskKeeps
  <2>4. CASE Servable(w) /\ hash = ComputeHash(c, w.users)
    <3>1. op' = LimitsOp(Req("config"), w.users) /\ instance # 0
      BY <2>1, <2>2, <2>4 DEF hot, Reload, Up
    <3>2. c = wish.config
      BY <2>1, <2>4 DEF ComputeHash
    <3>3. Hot(op', "config", wish'.users)
      <4>1. IsOp(op') /\ op'.kind = "config" /\ op'.at = "limits" /\ op'.users = w.users /\ ~op'.fails
        <5> DEFINE r == Req("config")
        <5>1. IsOp(r) /\ r.kind = "config" /\ ~r.fails /\ op' = LimitsOp(r, w.users)
          BY <3>1, ReqIsOp
        <5> HIDE DEF r
        <5>2. QED
          BY <5>1, LimitsOpIs
      <4>2. wish'.users = w.users /\ w.users = users
        BY <1>2, <1>3, <2>1
      <4>3. QED
        BY <3>1, <4>1, <4>2 DEF Hot
    <3>4. IsOp(op') /\ op'.at \in {"limits", "edit", "build"} /\ ServesStages'
      <4>1. /\ wish'.config = inst[instance].config /\ wish'.config \in Configs /\ wish'.users = users
            /\ hash = ComputeHash(wish'.config, users) /\ UNCHANGED core
        BY <1>2, <1>3, <2>1, <3>2
      <4>2. QED
        BY <2>1, <3>3, <4>1, HotServes
    <3>5. QED
      BY <1>2, <1>3, <3>4, AskKeeps
  <2>5. CASE Servable(w) /\ hash # ComputeHash(c, w.users)
    <3>1. op' = StartOp(Req("config"), c, w.users)
      BY <2>1, <2>2, <2>5 DEF hot, Reload
    <3>2. IsOp(op') /\ op'.at = "build" /\ op'.kind = "config" /\ ~op'.fails /\ op'.config = wish'.config /\ op'.users = wish'.users
      <4>1. IsOp(op') /\ op'.at = "build" /\ op'.kind = "config" /\ ~op'.fails /\ op'.config = c /\ op'.users = w.users
        <5> DEFINE r == Req("config")
        <5>1. IsOp(r) /\ r.kind = "config" /\ ~r.fails /\ op' = StartOp(r, c, w.users)
          BY <3>1, ReqIsOp
        <5> HIDE DEF r
        <5>2. QED
          BY <5>1, StartOpIs
      <4>2. wish'.users = w.users /\ wish'.config = c
        BY <1>2, <1>3
      <4>3. QED
        BY <4>1, <4>2
    <3>3. Up'
      BY <1>2, <2>1, SameCore DEF core
    <3>4. ServesStages'
      BY <3>2, <3>3, <1>2, <1>3 DEF ServesStages, Standing
    <3>5. QED
      BY <1>2, <1>3, <3>2, <3>4, AskKeeps
  <2>6. QED
    BY <2>3, <2>4, <2>5
<1>7. QED
  BY <1>2, <1>5, <1>6

\* A new user list, whichever operation it comes by: the one of a running kernel, or a start or a stop.
LEMMA AskUserKeeps ==
  ASSUME ServedInv, NEW kind, NEW l, UserList(l), NEW r, IsOp(r), ~r.fails, NEW hot,
         Ask(kind, [wish EXCEPT !.users = l], Ensure(r, [wish EXCEPT !.users = l], hot)),
         running => \/ Hot(hot, kind, l)
                    \/ hot = Idle /\ l = users
                    \/ IsOp(hot) /\ hot.at = "stop"
  PROVE  ServedInv' /\ UNCHANGED <<core, traffic>>
<1> DEFINE w == [wish EXCEPT !.users = l]
<1>1. op.at = "idle" /\ wish' = w /\ op' = Ensure(r, w, hot) /\ UNCHANGED <<core, traffic>> /\ requests' \in 0..MaxRequests
  BY AskDoes
<1>2. DOMAIN w = {"config", "users"} /\ w.config = wish.config /\ w.users = l /\ w.config \in Configs \cup {NoConfig}
  BY DEF ServedInv, KernelShape, WishTyped
<1> HIDE DEF w
<1>3. CASE ~running
  <2>1. Down
    BY <1>1, <1>3, IdleServes
  <2>2. IsOp(op') /\ op'.at \in {"idle", "build", "stop"} /\ ServesStages'
    <3>1. op' = Ensure(r, wish', hot) /\ wish'.config \in Configs \cup {NoConfig} /\ UNCHANGED core
      BY <1>1, <1>2
    <3>2. QED
      BY <2>1, <3>1, ColdServes
  <2>3. QED
    BY <1>1, <1>2, <2>2, AskKeeps
<1>4. CASE running
  <2>1. /\ Up /\ inst[instance].config = wish.config /\ inst[instance].manager = Creds(users)
        /\ users = wish.users /\ hash = ComputeHash(wish.config, users) /\ wish.config \in Configs
    BY <1>1, <1>4, IdleServes
  <2>2. op' = hot
    BY <1>1, <1>4 DEF Ensure
  <2>3. CASE Hot(hot, kind, l)
    <3>1. IsOp(op') /\ op'.at \in {"limits", "edit", "build"} /\ ServesStages'
      <4>1. /\ wish'.config = inst[instance].config /\ wish'.config \in Configs /\ wish'.users = l
            /\ hash = ComputeHash(wish'.config, users) /\ UNCHANGED core
        BY <1>1, <1>2, <2>1
      <4>2. /\ Creds(users) \cap Creds(wish'.users) \subseteq inst[instance].manager
            /\ inst[instance].manager \subseteq Creds(users) \cup Creds(wish'.users)
        BY <2>1
      <4>3. Hot(op', kind, wish'.users)
        BY <2>2, <2>3, <4>1
      <4>4. QED
        BY <2>1, <4>1, <4>2, <4>3, HotServes
    <3>2. QED
      BY <1>1, <1>2, <3>1, AskKeeps
  <2>4. CASE hot = Idle /\ l = users
    <3>1. IsOp(op') /\ op'.at = "idle"
      BY <2>2, <2>4, IdleIsOp DEF Idle
    <3>2. Served
      BY <1>1, <1>4 DEF ServedInv, ServesStages
    <3>3. wish'.users = wish.users /\ wish'.config = wish.config /\ UNCHANGED <<inst, instance, running, hash, users>>
      BY <1>1, <1>2, <2>1, <2>4 DEF core
    <3>4. Served'
      BY <3>2, <3>3, SameCore DEF Served, Switched
    <3>5. ServesStages'
      BY <3>1, <3>3, <3>4, <1>4 DEF ServesStages
    <3>6. QED
      BY <1>1, <1>2, <3>1, <3>5, AskKeeps
  <2>5. CASE IsOp(hot) /\ hot.at = "stop"
    <3>1. ServesStages'
      BY <1>1, <2>1, <2>2, <2>5, StopServes
    <3>2. QED
      BY <1>1, <1>2, <2>2, <2>5, <3>1, AskKeeps
  <2>6. QED
    BY <2>3, <2>4, <2>5, <1>4
<1>5. QED
  BY <1>1, <1>3, <1>4

LEMMA AskUsersKeeps == ASSUME ServedInv, AskUsers PROVE ServedInv' /\ UNCHANGED <<core, traffic>>
<1>1. PICK l \in UserSets : Ask("users", [wish EXCEPT !.users = l],
        Ensure(Req("users"), [wish EXCEPT !.users = l], UpdateUsers(Req("users"), l)))
  BY DEF AskUsers
<1>2. UserList(l) /\ IsOp(Req("users")) /\ ~Req("users").fails /\ Hot(UpdateUsers(Req("users"), l), "users", l)
  BY KernelConstants, ReqIsOp, UpdateUsersIs
<1>3. QED
  BY <1>1, <1>2, AskUserKeeps

LEMMA AskAddKeeps == ASSUME ServedInv, AskAdd PROVE ServedInv' /\ UNCHANGED <<core, traffic>>
<1>1. PICK delta \in UserSets \ {{}} :
        LET w == [wish EXCEPT !.users = MergeUsers(@, delta)]
            kind == IF HasUUIDChange(wish.users, delta) THEN "users" ELSE "add"
        IN Ask(kind, w, Ensure(Req(kind), w, IF kind = "users" THEN UpdateUsers(Req(kind), w.users)
                                                               ELSE AddUsers(Req(kind), delta)))
  BY DEF AskAdd
<1> DEFINE l == MergeUsers(wish.users, delta)
           kind == IF HasUUIDChange(wish.users, delta) THEN "users" ELSE "add"
           w == [wish EXCEPT !.users = l]
           hot == IF kind = "users" THEN UpdateUsers(Req(kind), w.users) ELSE AddUsers(Req(kind), delta)
<1>2. DOMAIN wish = {"config", "users"} /\ UserList(wish.users)
  BY DEF ServedInv, KernelShape, WishTyped
<1>3. w.users = l
  BY <1>2
<1>4. Ask(kind, w, Ensure(Req(kind), w, hot)) /\ op.at = "idle"
  BY <1>1, <1>2 DEF Ask
<1>5. UserList(l) /\ IsOp(Req(kind)) /\ ~Req(kind).fails /\ Req(kind).kind = kind
  BY <1>2, KernelConstants, MergeIsList, ReqIsOp
<1>6. running => Hot(hot, kind, l)
  <2>1. ASSUME running PROVE Hot(hot, kind, l)
    <3>1. users = wish.users
      BY <1>4, <2>1, IdleServes
    <3> HIDE DEF kind
    <3>2. CASE kind = "users"
      <4>1. hot = UpdateUsers(Req(kind), l)
        BY <1>3, <3>2
      <4>2. QED
        BY <4>1, <1>5, UpdateUsersIs
    <3>3. CASE kind # "users"
      <4>1. hot = AddUsers(Req(kind), delta)
        BY <3>3
      <4>2. QED
        BY <4>1, <1>5, <3>1, AddUsersIs
    <3>4. QED
      BY <3>2, <3>3
  <2>2. QED
    BY <2>1
<1> HIDE DEF hot, kind, l
<1>7. QED
  BY <1>4, <1>5, <1>6, AskUserKeeps

LEMMA AskRemoveKeeps == ASSUME ServedInv, AskRemove PROVE ServedInv' /\ UNCHANGED <<core, traffic>>
<1>1. PICK delta \in UserSets \ {{}} :
        LET w == [wish EXCEPT !.users = SubtractUsers(@, delta)]
        IN Ask("remove", w, Ensure(Req("remove"), w, RemoveUsers(Req("remove"), delta)))
  BY DEF AskRemove
<1> DEFINE l == SubtractUsers(wish.users, delta)
           w == [wish EXCEPT !.users = l]
           hot == RemoveUsers(Req("remove"), delta)
<1>2. DOMAIN wish = {"config", "users"} /\ UserList(wish.users)
  BY DEF ServedInv, KernelShape, WishTyped
<1>3. Ask("remove", w, Ensure(Req("remove"), w, hot)) /\ op.at = "idle"
  BY <1>1, <1>2 DEF Ask
<1>4. UserList(l) /\ IsOp(Req("remove")) /\ ~Req("remove").fails /\ Req("remove").kind = "remove"
  BY <1>2, SubtractIsList, ReqIsOp
<1>5. running => \/ Hot(hot, "remove", l)
                 \/ hot = Idle /\ l = users
                 \/ IsOp(hot) /\ hot.at = "stop"
  <2>1. ASSUME running PROVE \/ Hot(hot, "remove", l)
                             \/ hot = Idle /\ l = users
                             \/ IsOp(hot) /\ hot.at = "stop"
    <3>1. users = wish.users
      BY <1>3, <2>1, IdleServes
    <3>2. QED
      BY <1>4, <3>1, RemoveUsersIs
  <2>2. QED
    BY <2>1
<1> HIDE DEF hot, l
<1>6. QED
  BY <1>3, <1>4, <1>5, AskUserKeeps

LEMMA IdsOf ==
  ASSUME InstancesTyped
  PROVE  /\ created \in Nat /\ 0 \notin Ids /\ retired \subseteq Ids /\ (instance # 0 => instance \in Ids)
         /\ (created # 0 => created \in Ids) /\ IsFiniteSet(Ids)
<1>1. MaxStarts \in Nat
  BY KernelConstants
<1>2. IsFiniteSet(1..MaxStarts)
  BY <1>1, FS_Interval
<1>3. QED
  BY <1>1, <1>2 DEF InstancesTyped, Ids

LEMMA WishSame == ASSUME WishTyped, UNCHANGED <<wish, requests, users>> PROVE WishTyped'
  BY DEF WishTyped

\* Every instance with an open port is up.
LEMMA ListeningIsUp ==
  ASSUME ServedInv, NEW i \in Ids, inst[i].listening
  PROVE  inst[i].state = "up"
<1>1. i \in Listening
  BY DEF Listening
<1>2. /\ InstancesKept /\ op.at \in OpSteps
      /\ i = instance \/ (op.at = "swap" /\ i = created) \/ (op.at = "signal" /\ i = op.old)
  BY <1>1 DEF ServedInv, KernelShape, IsOp, OpSteps, ServesStages, Served, Switched, Standing, Up, Down
<1>3. i # 0
  BY DEF Ids
<1>4. QED
  BY <1>2, <1>3 DEF InstancesKept

\* What the stages say of the current instance and of the candidate does not change.
LEMMA ServesSame ==
  ASSUME ServesStages, UNCHANGED <<op, running, instance, created, users, hash, wish>>, Listening' = Listening,
         \A i \in {instance, created} :
           (i = instance /\ i # 0) \/ (i = created /\ op.at \in {"start", "swap"}) =>
             /\ inst'[i].config = inst[i].config /\ inst'[i].manager = inst[i].manager
             /\ inst'[i].limits = inst[i].limits
  PROVE  ServesStages'
<1>1. Up' = Up /\ Down' = Down
  BY DEF Up, Down
<1>2. instance # 0 => Midway' = Midway /\ Switched' = Switched /\ Served' = Served
  BY <1>1 DEF Midway, Switched, Served
<1>3. Served' = Served /\ Switched' = Switched
  BY <1>2, <1>1 DEF Served, Switched, Up
<1>4. Standing' = Standing
  BY <1>1, <1>2 DEF Standing, Up
<1>5. op.at \in {"start", "swap"} => Candidate' = Candidate
  BY DEF Candidate
<1>6. op.at = "edit" => instance # 0 /\ Midway' = Midway /\ inst'[instance].manager = inst[instance].manager
  BY <1>2 DEF ServesStages, Up
<1>7. QED
  BY <1>1, <1>3, <1>4, <1>5, <1>6 DEF ServesStages

---------------------------------------------------------------------------
(* A start *)

LEMMA BuildKeeps == ASSUME ServedInv, Build PROVE ServedInv'
<1>1. /\ op.at = "build" /\ created < MaxStarts /\ created' = created + 1 /\ op' = [op EXCEPT !.at = "start"]
      /\ inst' = [i \in Ids |->
           IF i = created' THEN [Blank EXCEPT !.state = "created", !.config = op.config,
                                              !.manager = Creds(op.users), !.limits = op.users]
           ELSE IF i = instance THEN [inst[i] EXCEPT !.listening = FALSE] ELSE inst[i]]
      /\ running' = (running /\ instance = 0) /\ UNCHANGED <<instance, retired, users, hash, wish, requests>>
  BY DEF Build
<1>2. /\ InstancesTyped /\ IsOp(op) /\ InstancesKept /\ MaxStarts \in Nat
      /\ op.config = wish.config /\ op.users = wish.users /\ wish.config \in Configs /\ Standing /\ ~op.fails
  BY <1>1, KernelConstants DEF ServedInv, KernelShape, ServesStages
<1> DEFINE new == [Blank EXCEPT !.state = "created", !.config = op.config, !.manager = Creds(op.users),
                                !.limits = op.users]
<1>3. /\ IsInstance(new) /\ new.state = "created" /\ new.config = op.config /\ new.manager = Creds(op.users)
      /\ new.limits = op.users /\ ~new.listening /\ new.conns = 0 /\ new.unread = 0
  BY DEF IsInstance, InstanceStates, Blank
<1>4. created \in Nat /\ created' \in Nat /\ created' \in Ids /\ created' # 0 /\ created' # instance /\ created' \notin retired /\ created' # created
      /\ created' \in 0..MaxStarts /\ instance \in 0..created' /\ retired \subseteq 1..created'
  BY <1>1, <1>2 DEF InstancesTyped, Ids
<1>5. inst'[created'] = new
  BY <1>1, <1>4
<1>6. \A i \in Ids : i # created' => inst'[i] = IF i = instance THEN [inst[i] EXCEPT !.listening = FALSE] ELSE inst[i]
  BY <1>1
<1> HIDE DEF new
<1>7. \A i \in Ids : i # created' => /\ IsInstance(inst'[i]) /\ inst'[i].state = inst[i].state /\ inst'[i].conns = inst[i].conns
                                     /\ inst'[i].unread = inst[i].unread /\ inst'[i].config = inst[i].config
                                     /\ (inst'[i].listening => inst[i].listening /\ i # instance)
  <2>1. ASSUME NEW i \in Ids, i # created', i = instance
        PROVE  inst'[i] = [inst[i] EXCEPT !.listening = FALSE] /\ IsInstance(inst[i])
    BY <1>2, <1>6, <2>1 DEF InstancesTyped
  <2>2. ASSUME NEW i \in Ids, i # created', i # instance
        PROVE  inst'[i] = inst[i] /\ IsInstance(inst[i])
    BY <1>2, <1>6, <2>2 DEF InstancesTyped
  <2>3. ASSUME NEW i \in Ids, i # created'
        PROVE  /\ IsInstance(inst'[i]) /\ inst'[i].state = inst[i].state /\ inst'[i].conns = inst[i].conns
               /\ inst'[i].unread = inst[i].unread /\ inst'[i].config = inst[i].config
               /\ (inst'[i].listening => inst[i].listening /\ i # instance)
    <3>1. CASE i = instance
      BY <2>1, <2>3, <3>1 DEF IsInstance
    <3>2. CASE i # instance
      BY <2>2, <2>3, <3>2
    <3>3. QED
      BY <3>1, <3>2
  <2>4. QED
    BY <2>3
<1>8. \A i \in Ids : i # created' => ~inst'[i].listening
  BY <1>2, <1>7 DEF Standing, Up, Down, Listening
<1>9. Listening' = {} /\ ~running'
  BY <1>1, <1>2, <1>3, <1>5, <1>8 DEF Listening, Standing, Up, Down
<1>10. InstancesTyped'
  <2>1. \A i \in Ids : IsInstance(inst'[i])
    BY <1>3, <1>5, <1>7
  <2>2. inst' = [i \in Ids |-> inst'[i]]
    BY <1>1
  <2>3. running' \in BOOLEAN
    BY <1>1
  <2>4. QED
    BY <1>1, <1>4, <2>1, <2>2, <2>3 DEF InstancesTyped, IsInstance
<1>11. IsOp(op') /\ op'.at = "start" /\ op'.fails = op.fails /\ op'.config = op.config /\ op'.users = op.users
  BY <1>1, <1>2 DEF IsOp, OpSteps
<1>12. InstancesKept'
  <2>1. \A i \in Ids : ~Uncounted(i)' \/ inst'[i].listening => i \in retired \cup {instance, created'} /\ inst'[i].config \in Configs
    <3>1. ASSUME NEW i \in Ids, i # created', ~Uncounted(i)' PROVE i \in retired \cup {instance} /\ inst'[i].config \in Configs
      <4>1. ~Uncounted(i)
        BY <1>7, <3>1 DEF Uncounted
      <4>2. i \in retired \cup {instance, created} /\ inst[i].config \in Configs /\ i # 0
        BY <1>2, <4>1 DEF InstancesKept, Ids
      <4>3. QED
        BY <1>1, <1>2, <1>7, <3>1, <4>1, <4>2 DEF InstancesKept
    <3>2. QED
      BY <1>2, <1>3, <1>5, <1>8, <3>1
  <2>2. \A i \in Ids : inst'[i].state \in {"draining", "closing", "closed"} => i \in retired
    BY <1>2, <1>3, <1>5, <1>7 DEF InstancesKept
  <2>3. instance # 0 => inst'[instance].state = "up"
    <3>1. instance # 0 => instance \in Ids
      BY <1>2, IdsOf
    <3>2. QED
      BY <1>2, <1>4, <1>7, <3>1 DEF InstancesKept
  <2>4. Uncounted(created)'
    BY <1>3, <1>5 DEF Uncounted
  <2>5. QED
    BY <1>1, <1>3, <1>4, <1>5, <1>11, <2>1, <2>2, <2>3, <2>4 DEF InstancesKept, Uncounted
<1>13. ServesStages'
  <2>1. Candidate'
    BY <1>1, <1>2, <1>3, <1>5, <1>9, <1>11 DEF Candidate
  <2>2. QED
    BY <1>9, <1>11, <2>1 DEF ServesStages
<1>14. WishTyped'
  BY <1>1, WishSame DEF ServedInv, KernelShape
<1>15. QED
  BY <1>10, <1>11, <1>12, <1>13, <1>14 DEF ServedInv, KernelShape

LEMMA BuildFailsKeeps == ASSUME ServedInv, BuildFails PROVE ServedInv' /\ UNCHANGED <<core, traffic>>
<1>1. op.at = "build" /\ op' = FailOp(op) /\ UNCHANGED <<core, traffic, wish, requests>>
  BY DEF BuildFails
<1>2. UNCHANGED <<inst, created, instance, retired, running, users, hash, wish>> /\ Standing /\ InstancesKept
  BY <1>1 DEF core, ServedInv, ServesStages
<1>3. IsOp(op') /\ op'.at = "failed" /\ op'.kind = op.kind
  BY <1>1, FailOpIs DEF ServedInv, KernelShape
<1>4. InstancesKept'
  BY <1>1, <1>2, <1>3, KeptSame
<1>5. Standing'
  BY <1>2, <1>3, SameCore DEF Standing, Midway
<1>6. ServesStages'
  BY <1>3, <1>5 DEF ServesStages
<1>7. InstancesTyped'
  BY <1>2 DEF ServedInv, KernelShape, InstancesTyped, IsInstance
<1>8. QED
  BY <1>1, <1>2, <1>3, <1>4, <1>6, <1>7, WishSame DEF ServedInv, KernelShape

LEMMA StartSucceedsKeeps == ASSUME ServedInv, StartSucceeds PROVE ServedInv'
<1>1. /\ op.at = "start" /\ op' = [op EXCEPT !.at = "swap"]
      /\ inst' = [inst EXCEPT ![created].state = "up", ![created].listening = TRUE]
      /\ UNCHANGED <<created, instance, retired, running, users, hash, wish, requests>>
  BY DEF StartSucceeds
<1>2. /\ InstancesTyped /\ IsOp(op) /\ InstancesKept /\ Candidate /\ Listening = {} /\ WishTyped
  BY <1>1 DEF ServedInv, KernelShape, ServesStages
<1>3. created \in Ids /\ created # instance /\ created \notin retired /\ created # 0
  BY <1>1, <1>2 DEF InstancesTyped, InstancesKept, Ids
<1>4. /\ IsInstance(inst'[created]) /\ inst'[created].state = "up" /\ inst'[created].listening
      /\ inst'[created].config = inst[created].config /\ inst'[created].manager = inst[created].manager
      /\ inst'[created].limits = inst[created].limits
  BY <1>1, <1>2, <1>3 DEF InstancesTyped, IsInstance, InstanceStates
<1>5. \A i \in Ids : i # created => inst'[i] = inst[i]
  BY <1>1, <1>2 DEF InstancesTyped
<1>6. inst' = [i \in Ids |-> inst'[i]]
  BY <1>1, <1>2 DEF InstancesTyped
<1>7. InstancesTyped'
  BY <1>1, <1>2, <1>4, <1>5, <1>6 DEF InstancesTyped, IsInstance
<1>8. IsOp(op') /\ op'.at = "swap" /\ op'.fails = op.fails /\ op'.config = op.config /\ op'.users = op.users
  BY <1>1, <1>2 DEF IsOp, OpSteps
<1>9. inst[created].config \in Configs
  BY <1>2 DEF Candidate
<1>10. InstancesKept'
  <2>1. \A i \in Ids : ~Uncounted(i)' \/ inst'[i].listening => i \in retired \cup {instance, created} /\ inst'[i].config \in Configs
    BY <1>2, <1>4, <1>5, <1>9 DEF InstancesKept, Uncounted
  <2>2. \A i \in Ids : inst'[i].state \in {"draining", "closing", "closed"} => i \in retired
    BY <1>2, <1>4, <1>5 DEF InstancesKept
  <2>3. instance # 0 => inst'[instance].state = "up"
    <3>1. instance # 0 => instance \in Ids
      BY <1>2, IdsOf
    <3>2. QED
      BY <1>2, <1>3, <1>5, <3>1 DEF InstancesKept
  <2>4. QED
    BY <1>1, <1>3, <1>4, <1>8, <2>1, <2>2, <2>3 DEF InstancesKept, Uncounted
<1>11. Listening' = {created}
  BY <1>2, <1>3, <1>4, <1>5 DEF Listening
<1>12. Candidate'
  BY <1>1, <1>2, <1>4, <1>8 DEF Candidate
<1>13. ServesStages'
  BY <1>1, <1>8, <1>11, <1>12 DEF ServesStages
<1>14. QED
  BY <1>1, <1>2, <1>7, <1>8, <1>10, <1>13, WishSame DEF ServedInv, KernelShape

LEMMA StartFailsKeeps == ASSUME ServedInv, StartFails PROVE ServedInv'
<1>1. /\ op.at = "start" /\ inst' = [inst EXCEPT ![created].state = "gone"]
      /\ retired' = retired \cup ({instance} \ {0}) /\ instance' = 0
      /\ op' = [op EXCEPT !.at = "close", !.old = instance, !.fails = TRUE]
      /\ UNCHANGED <<created, running, users, hash, wish, requests>>
  BY DEF StartFails
<1>2. InstancesTyped /\ IsOp(op) /\ InstancesKept /\ Candidate /\ Listening = {} /\ WishTyped
  BY <1>1 DEF ServedInv, KernelShape, ServesStages
<1>3. created \in Ids /\ created # instance /\ created \notin retired /\ (instance # 0 => instance \in Ids)
  BY <1>1, <1>2, IdsOf DEF InstancesKept
<1>4. /\ IsInstance(inst'[created]) /\ inst'[created].state = "gone" /\ ~inst'[created].listening
      /\ inst'[created].conns = inst[created].conns /\ inst'[created].unread = inst[created].unread
  BY <1>1, <1>2, <1>3 DEF InstancesTyped, IsInstance, InstanceStates, Listening
<1>5. \A i \in Ids : i # created => inst'[i] = inst[i]
  BY <1>1, <1>2 DEF InstancesTyped
<1>6. InstancesTyped'
  <2>1. inst' = [i \in Ids |-> inst'[i]]
    BY <1>1, <1>2 DEF InstancesTyped
  <2>2. instance' \in 0..created' /\ retired' \subseteq 1..created'
    BY <1>1, <1>2, IdsOf DEF InstancesTyped
  <2>3. QED
    BY <1>1, <1>2, <1>4, <1>5, <2>1, <2>2 DEF InstancesTyped, IsInstance
<1>7. IsOp(op') /\ op'.at = "close" /\ op'.old = instance /\ op'.fails
  BY <1>1, <1>2 DEF IsOp, OpSteps
<1>8. Uncounted(created) /\ Uncounted(created)'
  BY <1>1, <1>2, <1>3, <1>4 DEF InstancesKept, Uncounted
<1>9. InstancesKept'
  <2>1. \A i \in Ids : ~Uncounted(i)' \/ inst'[i].listening => i \in retired' \cup {instance', created'} /\ inst'[i].config \in Configs
    BY <1>1, <1>2, <1>3, <1>4, <1>5, <1>8 DEF InstancesKept, Uncounted
  <2>2. \A i \in Ids : inst'[i].state \in {"draining", "closing", "closed"} => i \in retired'
    BY <1>1, <1>2, <1>4, <1>5 DEF InstancesKept
  <2>3. instance # 0 => instance \in retired' /\ inst'[instance].state = "up"
    BY <1>1, <1>2, <1>3, <1>5 DEF InstancesKept
  <2>4. QED
    BY <1>1, <1>7, <1>8, <2>1, <2>2, <2>3 DEF InstancesKept
<1>10. Down'
  BY <1>1, <1>2, <1>4, <1>5 DEF Down, Candidate, Listening
<1>11. ServesStages'
  BY <1>7, <1>10 DEF ServesStages
<1>12. QED
  BY <1>1, <1>2, <1>6, <1>7, <1>9, <1>11, WishSame DEF ServedInv, KernelShape

LEMMA SwapKeeps == ASSUME ServedInv, Swap PROVE ServedInv'
<1>1. /\ op.at = "swap" /\ retired' = retired \cup ({instance} \ {0}) /\ instance' = created /\ running' = TRUE
      /\ users' = op.users /\ hash' = ComputeHash(op.config, op.users)
      /\ op' = [op EXCEPT !.at = "close", !.old = instance]
      /\ UNCHANGED <<inst, created, wish, requests>>
  BY DEF Swap, Retire
<1>2. InstancesTyped /\ IsOp(op) /\ InstancesKept /\ Candidate /\ Listening = {created} /\ WishTyped
  BY <1>1 DEF ServedInv, KernelShape, ServesStages
<1>3. created \in Ids /\ created # 0 /\ created # instance /\ created \notin retired /\ (instance # 0 => instance \in Ids)
  BY <1>1, <1>2, IdsOf DEF InstancesKept
<1>4. InstancesTyped'
  <2>1. instance' \in 0..created' /\ retired' \subseteq 1..created' /\ created \in 0..MaxStarts
    BY <1>1, <1>2, IdsOf DEF InstancesTyped
  <2>2. QED
    BY <1>1, <1>2, <2>1 DEF InstancesTyped, IsInstance
<1>5. IsOp(op') /\ op'.at = "close" /\ op'.old = instance /\ ~op'.fails
  BY <1>1, <1>2 DEF IsOp, OpSteps, Candidate
<1>6. InstancesKept'
  <2>1. \A i \in Ids : ~Uncounted(i)' \/ inst'[i].listening => i \in retired' \cup {instance', created'} /\ inst'[i].config \in Configs
    <3>1. ASSUME NEW i \in Ids, ~Uncounted(i) \/ inst[i].listening
          PROVE  i \in retired' \cup {instance', created'} /\ inst[i].config \in Configs
      <4>1. i \in retired \cup {instance, created} /\ inst[i].config \in Configs /\ i # 0
        BY <1>2, <3>1 DEF InstancesKept, Ids
      <4>2. QED
        BY <1>1, <4>1
    <3>2. UNCHANGED inst
      BY <1>1
    <3>3. \A i \in Ids : Uncounted(i)' = Uncounted(i)
      BY <3>2 DEF Uncounted
    <3>4. QED
      BY <3>1, <3>2, <3>3
  <2>2. inst[created].state = "up" /\ (instance # 0 => instance \in retired' /\ inst[instance].state = "up")
    BY <1>1, <1>2, <1>3 DEF InstancesKept
  <2>3. QED
    BY <1>1, <1>2, <1>5, <2>1, <2>2 DEF InstancesKept
<1>7. Served' /\ op'.old # instance'
  BY <1>1, <1>2, <1>3, <1>5 DEF Served, Switched, Up, Candidate, Listening
<1>8. ServesStages'
  BY <1>5, <1>7 DEF ServesStages
<1>9. WishTyped'
  BY <1>1, <1>2 DEF WishTyped, Candidate
<1>10. QED
  BY <1>4, <1>5, <1>6, <1>8, <1>9 DEF ServedInv, KernelShape

\* An instance that was replaced or stopped closes its ports and starts to drain.
LEMMA Recycles ==
  ASSUME InstancesTyped, InstancesKept, NEW i \in Ids, i \in retired, i # instance, i = op.old, op.at \in {"close", "signal"},
         inst' = Recycled(i), UNCHANGED <<created, instance, retired, running>>, op'.at \in {"idle", "failed", "wait"}
  PROVE  /\ InstancesTyped' /\ InstancesKept' /\ Listening' = Listening \ {i}
         /\ \A j \in Ids : j # i => inst'[j] = inst[j]
<1>1. inst' = [inst EXCEPT ![i].listening = FALSE, ![i].state = "draining"]
  BY DEF Recycled
<1>2. /\ IsInstance(inst'[i]) /\ inst'[i].state = "draining" /\ ~inst'[i].listening /\ inst'[i].config = inst[i].config
      /\ inst'[i].conns = inst[i].conns /\ inst'[i].unread = inst[i].unread
  <2>1. inst'[i] = [[inst[i] EXCEPT !.listening = FALSE] EXCEPT !.state = "draining"]
    BY <1>1 DEF InstancesTyped
  <2>2. IsInstance(inst[i])
    BY DEF InstancesTyped
  <2>3. QED
    BY <2>1, <2>2 DEF IsInstance, InstanceStates
<1>3. \A j \in Ids : j # i => inst'[j] = inst[j]
  BY <1>1 DEF InstancesTyped
<1>4. inst' = [j \in Ids |-> inst'[j]]
  BY <1>1 DEF InstancesTyped
<1>5. InstancesTyped'
  BY <1>2, <1>3, <1>4 DEF InstancesTyped, IsInstance
<1>6. InstancesKept'
  <2>1. \A j \in Ids : ~Uncounted(j)' \/ inst'[j].listening => j \in retired \cup {instance, created} /\ inst'[j].config \in Configs
    BY <1>2, <1>3 DEF InstancesKept, Uncounted
  <2>2. \A j \in Ids : inst'[j].state \in {"draining", "closing", "closed"} => j \in retired
    BY <1>2, <1>3 DEF InstancesKept
  <2>3. instance # 0 => inst'[instance].state = "up"
    BY <1>3, IdsOf DEF InstancesKept
  <2>4. created # 0 /\ created \notin retired \cup {instance} => Uncounted(created)'
    BY <1>3, IdsOf DEF InstancesKept, Uncounted
  <2>5. QED
    BY <2>1, <2>2, <2>3, <2>4 DEF InstancesKept, Uncounted
<1>7. QED
  BY <1>2, <1>3, <1>5, <1>6 DEF Listening

LEMMA CloseOldKeeps == ASSUME ServedInv, CloseOld PROVE ServedInv'
<1>1. /\ op.at = "close" /\ inst' = (IF op.old = 0 THEN inst ELSE Recycled(op.old))
      /\ op' = (IF op.fails THEN FailOp(op) ELSE Idle)
      /\ UNCHANGED <<created, instance, retired, running, users, hash, wish, requests>>
  BY DEF CloseOld
<1>2. InstancesTyped /\ IsOp(op) /\ InstancesKept /\ WishTyped /\ (IF op.fails THEN Down ELSE Served /\ op.old # instance)
  BY <1>1 DEF ServedInv, KernelShape, ServesStages
<1>3. /\ IsOp(op') /\ (op.fails => op'.at = "failed") /\ (~op.fails => op'.at = "idle") /\ op'.at \in {"failed", "idle"}
  BY <1>1, <1>2, FailOpIs, IdleIsOp DEF Idle
<1>4. op.old # 0 => op.old \in Ids /\ op.old \in retired /\ op.old # instance
  BY <1>1, <1>2, IdsOf DEF InstancesKept, Down
<1>5. /\ InstancesTyped' /\ InstancesKept' /\ Listening' = Listening \ {op.old}
      /\ (instance # 0 => inst'[instance] = inst[instance])
  <2>1. CASE op.old = 0
    <3>1. UNCHANGED <<inst, created, instance, retired, running>> /\ op.at # "swap" /\ op'.at \notin {"close", "signal", "start", "swap"}
      BY <1>1, <1>3, <2>1
    <3>2. InstancesTyped'
      BY <1>2, <3>1 DEF InstancesTyped, IsInstance
    <3>3. Listening' = Listening /\ 0 \notin Listening
      BY <3>1, <1>2, IdsOf DEF Listening
    <3>4. QED
      BY <1>2, <2>1, <3>1, <3>2, <3>3, KeptSame
  <2>2. CASE op.old # 0
    <3>1. inst' = Recycled(op.old)
      BY <1>1, <2>2
    <3>2. InstancesTyped' /\ InstancesKept' /\ Listening' = Listening \ {op.old} /\ \A j \in Ids : j # op.old => inst'[j] = inst[j]
      BY <1>1, <1>2, <1>3, <1>4, <2>2, <3>1, Recycles
    <3>3. QED
      BY <1>2, <1>4, <2>2, <3>2, IdsOf
  <2>3. QED
    BY <2>1, <2>2
<1>6. CASE op.fails
  <2>1. Down'
    BY <1>1, <1>2, <1>5, <1>6 DEF Down
  <2>2. ServesStages'
    BY <1>3, <1>6, <2>1 DEF ServesStages, Standing
  <2>3. QED
    BY <1>1, <1>2, <1>3, <1>5, <2>2, WishSame DEF ServedInv, KernelShape
<1>7. CASE ~op.fails
  <2>1. Served'
    BY <1>1, <1>2, <1>5, <1>7 DEF Served, Switched, Up
  <2>2. ServesStages'
    BY <1>1, <1>3, <1>7, <2>1 DEF ServesStages, Served, Switched, Up
  <2>3. QED
    BY <1>1, <1>2, <1>3, <1>5, <2>2, WishSame DEF ServedInv, KernelShape
<1>8. QED
  BY <1>6, <1>7

---------------------------------------------------------------------------
(* A hot update *)

\* The manager of the current instance changes, or its limits.
LEMMA EditsInstance ==
  ASSUME InstancesTyped, InstancesKept, instance # 0, NEW l,
         \/ inst' = [inst EXCEPT ![instance].manager = l]
         \/ inst' = [inst EXCEPT ![instance].limits = l],
         UNCHANGED <<created, instance, retired, running>>,
         op.at # "swap", op'.at \notin {"close", "signal", "start", "swap"}
  PROVE  /\ InstancesTyped' /\ InstancesKept' /\ Listening' = Listening
         /\ inst'[instance].config = inst[instance].config
         /\ inst' = [inst EXCEPT ![instance].manager = l] => inst'[instance].manager = l
         /\ inst' = [inst EXCEPT ![instance].limits = l] =>
              inst'[instance].limits = l /\ inst'[instance].manager = inst[instance].manager
<1>1. instance \in Ids
  BY IdsOf
<1>2. /\ IsInstance(inst'[instance]) /\ inst'[instance].state = inst[instance].state
      /\ inst'[instance].config = inst[instance].config /\ inst'[instance].listening = inst[instance].listening
      /\ inst'[instance].conns = inst[instance].conns /\ inst'[instance].unread = inst[instance].unread
  BY <1>1 DEF InstancesTyped, IsInstance
<1>3. \A i \in Ids : i # instance => inst'[i] = inst[i]
  BY DEF InstancesTyped
<1>4. inst' = [i \in Ids |-> inst'[i]]
  BY DEF InstancesTyped
<1>5. InstancesTyped'
  BY <1>2, <1>3, <1>4 DEF InstancesTyped, IsInstance
<1>6. InstancesKept'
  <2>1. \A i \in Ids : ~Uncounted(i)' \/ inst'[i].listening => i \in retired \cup {instance, created} /\ inst'[i].config \in Configs
    BY <1>2, <1>3 DEF InstancesKept, Uncounted
  <2>2. \A i \in Ids : inst'[i].state \in {"draining", "closing", "closed"} => i \in retired
    BY <1>2, <1>3 DEF InstancesKept
  <2>3. inst'[instance].state = "up"
    BY <1>2 DEF InstancesKept
  <2>4. created # 0 /\ created \notin retired \cup {instance} => Uncounted(created)'
    BY <1>3, IdsOf DEF InstancesKept, Uncounted
  <2>5. QED
    BY <2>1, <2>2, <2>3, <2>4 DEF InstancesKept
<1>7. Listening' = Listening
  BY <1>2, <1>3 DEF Listening
<1>8. inst' = [inst EXCEPT ![instance].manager = l] => inst'[instance].manager = l
  BY <1>1 DEF InstancesTyped, IsInstance
<1>9. inst' = [inst EXCEPT ![instance].limits = l] =>
        inst'[instance].limits = l /\ inst'[instance].manager = inst[instance].manager
  BY <1>1 DEF InstancesTyped, IsInstance
<1>10. QED
  BY <1>2, <1>5, <1>6, <1>7, <1>8, <1>9

\* One credential leaves or enters the manager, or the update fails half way.
LEMMA EditKeeps ==
  ASSUME ServedInv, op.at = "edit", UNCHANGED <<created, instance, retired, running, users, hash, wish, requests>>,
         NEW c,
         \/ /\ c \in op.remove /\ inst' = Manager(instance, inst[instance].manager \ {c})
            /\ op' = [op EXCEPT !.remove = @ \ {c}]
         \/ /\ c \in op.add /\ op.remove = {} /\ inst' = Manager(instance, inst[instance].manager \cup {c})
            /\ op' = [op EXCEPT !.add = @ \ {c}]
         \/ UNCHANGED inst /\ op' = FailOp(op)
  PROVE  ServedInv'
<1>1. /\ InstancesTyped /\ IsOp(op) /\ InstancesKept /\ WishTyped /\ Up /\ Midway /\ op.users = wish.users
      /\ op.remove \subseteq Creds(users) \ Creds(wish.users) /\ op.add \subseteq Creds(wish.users) \ Creds(users)
      /\ (inst[instance].manager \ op.remove) \cup op.add = Creds(wish.users)
  BY DEF ServedInv, KernelShape, ServesStages
<1>2. instance # 0
  BY <1>1 DEF Up
<1> DEFINE m == inst[instance].manager
<1>3. CASE c \in op.remove /\ inst' = Manager(instance, m \ {c}) /\ op' = [op EXCEPT !.remove = @ \ {c}]
  <2>1. /\ IsOp(op') /\ op'.at = "edit" /\ op'.users = op.users /\ op'.add = op.add /\ op'.remove = op.remove \ {c}
    BY <1>1, <1>3 DEF IsOp, OpSteps
  <2>2. /\ InstancesTyped' /\ InstancesKept' /\ Listening' = Listening
        /\ inst'[instance].config = inst[instance].config /\ inst'[instance].manager = m \ {c}
    BY <1>1, <1>2, <1>3, <2>1, EditsInstance DEF Manager
  <2>3. Up' /\ Midway'
    BY <1>1, <1>3, <2>2 DEF Up, Midway
  <2>4. (inst'[instance].manager \ op'.remove) \cup op'.add = Creds(wish.users)
    BY <1>1, <1>3, <2>1, <2>2
  <2>5. ServesStages'
    BY <1>1, <2>1, <2>3, <2>4 DEF ServesStages
  <2>6. QED
    BY <1>1, <2>1, <2>2, <2>5, WishSame DEF ServedInv, KernelShape
<1>4. CASE /\ c \in op.add /\ op.remove = {} /\ inst' = Manager(instance, m \cup {c})
           /\ op' = [op EXCEPT !.add = @ \ {c}]
  <2>1. /\ IsOp(op') /\ op'.at = "edit" /\ op'.users = op.users /\ op'.add = op.add \ {c} /\ op'.remove = {}
    BY <1>1, <1>4 DEF IsOp, OpSteps
  <2>2. /\ InstancesTyped' /\ InstancesKept' /\ Listening' = Listening
        /\ inst'[instance].config = inst[instance].config /\ inst'[instance].manager = m \cup {c}
    BY <1>1, <1>2, <1>4, <2>1, EditsInstance DEF Manager
  <2>3. Up' /\ Midway'
    BY <1>1, <1>4, <2>2 DEF Up, Midway
  <2>4. (inst'[instance].manager \ op'.remove) \cup op'.add = Creds(wish.users)
    BY <1>1, <1>4, <2>1, <2>2
  <2>5. ServesStages'
    BY <1>1, <2>1, <2>3, <2>4 DEF ServesStages
  <2>6. QED
    BY <1>1, <2>1, <2>2, <2>5, WishSame DEF ServedInv, KernelShape
<1>5. CASE UNCHANGED inst /\ op' = FailOp(op)
  <2>1. IsOp(op') /\ op'.at = "failed" /\ op'.kind = op.kind
    BY <1>1, <1>5, FailOpIs
  <2>2. InstancesTyped'
    BY <1>1, <1>5 DEF InstancesTyped, IsInstance
  <2>3. InstancesKept'
    BY <1>1, <1>5, <2>1, KeptSame
  <2>4. Up' /\ Midway'
    BY <1>1, <1>5, SameCore DEF Midway
  <2>5. ServesStages'
    BY <2>1, <2>4 DEF ServesStages, Standing
  <2>6. QED
    BY <1>1, <2>1, <2>2, <2>3, <2>5, WishSame DEF ServedInv, KernelShape
<1>6. QED
  BY <1>3, <1>4, <1>5

LEMMA RemoveOneKeeps == ASSUME ServedInv, RemoveOne PROVE ServedInv'
  BY EditKeeps DEF RemoveOne
LEMMA AddOneKeeps == ASSUME ServedInv, AddOne PROVE ServedInv'
  BY EditKeeps DEF AddOne

LEMMA BookKeeps == ASSUME ServedInv, Book PROVE ServedInv'
<1>1. /\ op.at = "edit" /\ op.remove = {} /\ op.add = {} /\ hash' = ComputeHash(inst[instance].config, op.users)
      /\ op' = [op EXCEPT !.at = "limits"]
      /\ UNCHANGED <<inst, created, instance, retired, running, users, wish, requests>>
  BY DEF Book
<1>2. /\ InstancesTyped /\ IsOp(op) /\ InstancesKept /\ WishTyped /\ Up /\ Midway /\ op.users = wish.users
      /\ inst[instance].manager = Creds(wish.users)
  BY <1>1 DEF ServedInv, KernelShape, ServesStages
<1>3. IsOp(op') /\ op'.at = "limits" /\ op'.users = op.users
  BY <1>1, <1>2 DEF IsOp, OpSteps
<1>4. InstancesTyped'
  BY <1>1, <1>2 DEF InstancesTyped, IsInstance
<1>5. InstancesKept'
  BY <1>1, <1>2, <1>3, KeptSame
<1>6. Switched'
  BY <1>1, <1>2, SameCore DEF Switched, Midway
<1>7. ServesStages'
  BY <1>1, <1>2, <1>3, <1>6 DEF ServesStages
<1>8. QED
  BY <1>1, <1>2, <1>3, <1>4, <1>5, <1>7, WishSame DEF ServedInv, KernelShape

LEMMA UpdateLimitsKeeps == ASSUME ServedInv, UpdateLimits PROVE ServedInv'
<1>1. /\ op.at = "limits" /\ users' = op.users /\ op' = Idle
      /\ inst' = [inst EXCEPT ![instance].limits = op.users]
      /\ UNCHANGED <<created, instance, retired, running, hash, wish, requests>>
  BY DEF UpdateLimits
<1>2. InstancesTyped /\ IsOp(op) /\ InstancesKept /\ WishTyped /\ Switched /\ op.users = wish.users
  BY <1>1 DEF ServedInv, KernelShape, ServesStages
<1>3. IsOp(op') /\ op'.at = "idle"
  BY <1>1, IdleIsOp DEF Idle
<1>4. instance # 0
  BY <1>2 DEF Switched, Up
<1>5. /\ InstancesTyped' /\ InstancesKept' /\ Listening' = Listening
      /\ inst'[instance].config = inst[instance].config
      /\ inst'[instance].limits = op.users /\ inst'[instance].manager = inst[instance].manager
  BY <1>1, <1>2, <1>3, <1>4, EditsInstance
<1>6. Served' /\ running'
  BY <1>1, <1>2, <1>5 DEF Served, Switched, Up
<1>7. ServesStages'
  BY <1>3, <1>6 DEF ServesStages
<1>8. WishTyped'
  BY <1>1, <1>2 DEF WishTyped
<1>9. QED
  BY <1>3, <1>5, <1>7, <1>8 DEF ServedInv, KernelShape

\* The service's answer to an error: a failed delta becomes a full update, what else fails a stop.
LEMMA AnswerKeeps == ASSUME ServedInv, Answer PROVE ServedInv' /\ UNCHANGED <<core, traffic>>
<1>1. /\ op.at = "failed" /\ UNCHANGED <<core, traffic, wish, requests>>
      /\ op' = IF op.kind \in {"add", "remove"} THEN UpdateUsers([Idle EXCEPT !.kind = "users"], wish.users)
               ELSE [op EXCEPT !.at = "stop"]
  BY DEF Answer
<1>2. InstancesTyped /\ IsOp(op) /\ InstancesKept /\ WishTyped /\ Standing
  BY <1>1 DEF ServedInv, KernelShape, ServesStages
<1>3. UNCHANGED <<inst, created, instance, retired, running, users, hash, wish, requests>>
  BY <1>1 DEF core
<1>4. InstancesTyped' /\ WishTyped'
  <2>1. InstancesTyped'
    BY <1>2, <1>3 DEF InstancesTyped, IsInstance
  <2>2. QED
    BY <1>2, <1>3, <2>1, WishSame
<1>5. CASE op.kind \in {"add", "remove"}
  <2>1. op' = UpdateUsers(Req("users"), wish.users)
    BY <1>1, <1>5 DEF Req
  <2>2. IsOp(Req("users")) /\ ~Req("users").fails /\ Req("users").kind = "users"
    BY ReqIsOp
  <2>3. Hot(op', "users", wish.users)
    BY <2>1, <2>2, UpdateUsersIs
  <2>4. CASE Down
    <3>1. IsOp(op') /\ op'.at = "failed"
      BY <2>3, <2>4 DEF Hot, Down
    <3>2. Standing'
      BY <1>3, <2>4, SameCore DEF Standing
    <3>3. ServesStages'
      BY <3>1, <3>2 DEF ServesStages
    <3>4. InstancesKept'
      BY <1>1, <1>2, <1>3, <3>1, KeptSame
    <3>5. QED
      BY <1>1, <1>4, <3>1, <3>3, <3>4 DEF ServedInv, KernelShape
  <2>5. CASE Up /\ Midway
    <3>1. instance \in Ids /\ inst[instance].listening
      BY <2>5 DEF Up, Listening
    <3>2. inst[instance].config \in Configs
      BY <1>2, <3>1 DEF InstancesKept
    <3>3. /\ wish'.config = inst[instance].config /\ wish'.config \in Configs /\ wish'.users = wish.users
          /\ hash = ComputeHash(wish'.config, users)
          /\ Creds(users) \cap Creds(wish'.users) \subseteq inst[instance].manager
          /\ inst[instance].manager \subseteq Creds(users) \cup Creds(wish'.users)
      BY <1>3, <2>5, <3>2 DEF Midway
    <3>4. Hot(op', "users", wish'.users)
      BY <2>3, <3>3
    <3>5. IsOp(op') /\ op'.at \in {"limits", "edit", "build"} /\ ServesStages'
      BY <1>1, <2>5, <3>3, <3>4, HotServes
    <3>6. InstancesKept'
      BY <1>1, <1>2, <1>3, <3>5, KeptSame
    <3>7. QED
      BY <1>1, <1>4, <3>5, <3>6 DEF ServedInv, KernelShape
  <2>6. QED
    BY <1>2, <1>5, <2>4, <2>5 DEF Standing
<1>6. CASE op.kind \notin {"add", "remove"}
  <2>1. IsOp(op') /\ op'.at = "stop"
    BY <1>1, <1>2, <1>6, StopOpIs
  <2>2. Listening \subseteq {instance}
    BY <1>2 DEF Standing, Down, Up
  <2>3. ServesStages'
    BY <1>3, <2>1, <2>2, SameCore DEF ServesStages
  <2>4. InstancesKept'
    BY <1>1, <1>2, <1>3, <2>1, KeptSame
  <2>5. QED
    BY <1>1, <1>4, <2>1, <2>3, <2>4 DEF ServedInv, KernelShape
<1>7. QED
  BY <1>5, <1>6

---------------------------------------------------------------------------
(* A stop *)

LEMMA StopKeeps == ASSUME ServedInv, Stop PROVE ServedInv'
<1>1. /\ op.at = "stop" /\ running' = FALSE /\ retired' = retired \cup ({instance} \ {0}) /\ instance' = 0
      /\ op' = [op EXCEPT !.at = "signal", !.old = instance, !.waits = Retire]
      /\ UNCHANGED <<inst, created, users, hash, wish, requests>>
  BY DEF Stop, Retire
<1>2. InstancesTyped /\ IsOp(op) /\ InstancesKept /\ WishTyped /\ Listening \subseteq {instance}
  BY <1>1 DEF ServedInv, KernelShape, ServesStages
<1>3. IsOp(op') /\ op'.at = "signal" /\ op'.old = instance
  BY <1>1, <1>2 DEF IsOp, OpSteps
<1>4. InstancesTyped'
  <2>1. instance' \in 0..created' /\ retired' \subseteq 1..created'
    BY <1>1, <1>2 DEF InstancesTyped
  <2>2. QED
    BY <1>1, <1>2, <2>1 DEF InstancesTyped, IsInstance
<1>5. \A i \in Ids : Uncounted(i)' = Uncounted(i)
  BY <1>1 DEF Uncounted
<1>6. InstancesKept'
  <2>1. \A i \in Ids : ~Uncounted(i)' \/ inst'[i].listening => i \in retired' \cup {instance', created'} /\ inst'[i].config \in Configs
    <3>1. ASSUME NEW i \in Ids, ~Uncounted(i) \/ inst[i].listening
          PROVE  i \in retired' \cup {instance', created'} /\ inst[i].config \in Configs
      <4>1. i \in retired \cup {instance, created} /\ inst[i].config \in Configs /\ i # 0
        BY <1>2, <3>1 DEF InstancesKept, Ids
      <4>2. QED
        BY <1>1, <4>1
    <3>2. QED
      BY <1>1, <1>5, <3>1
  <2>2. instance # 0 => instance \in retired' /\ inst[instance].state = "up"
    BY <1>1, <1>2 DEF InstancesKept
  <2>3. created' # 0 /\ created' \notin retired' \cup {instance'} => Uncounted(created)'
    <3>1. created # 0 /\ created \notin retired \cup {instance} => Uncounted(created) /\ created \in Ids
      BY <1>1, <1>2, IdsOf DEF InstancesKept
    <3>2. QED
      BY <1>1, <1>5, <3>1
  <2>4. \A i \in Ids : inst'[i].state \in {"draining", "closing", "closed"} => i \in retired'
    BY <1>1, <1>2 DEF InstancesKept
  <2>5. QED
    BY <1>1, <1>3, <2>1, <2>2, <2>3, <2>4 DEF InstancesKept, Uncounted
<1>7. ServesStages'
  BY <1>1, <1>2, <1>3 DEF ServesStages, Listening
<1>8. QED
  BY <1>1, <1>2, <1>3, <1>4, <1>6, <1>7, WishSame DEF ServedInv, KernelShape

LEMMA SignalKeeps == ASSUME ServedInv, Signal PROVE ServedInv'
<1>1. /\ op.at = "signal" /\ op' = [op EXCEPT !.at = "wait"]
      /\ inst' = (IF op.old = 0 THEN inst ELSE Recycled(op.old))
      /\ UNCHANGED <<created, instance, retired, running, users, hash, wish, requests>>
  BY DEF Signal
<1>2. /\ InstancesTyped /\ IsOp(op) /\ InstancesKept /\ WishTyped
      /\ instance = 0 /\ ~running /\ Listening \subseteq {op.old}
  BY <1>1 DEF ServedInv, KernelShape, ServesStages
<1>3. IsOp(op') /\ op'.at = "wait"
  BY <1>1, <1>2 DEF IsOp, OpSteps
<1>4. op.old # 0 => op.old \in Ids /\ op.old \in retired
  BY <1>1, <1>2, IdsOf DEF InstancesKept
<1>5. InstancesTyped' /\ InstancesKept' /\ Listening' = {}
  <2>1. CASE op.old = 0
    <3>1. UNCHANGED <<inst, created, instance, retired, running>>
      BY <1>1, <2>1
    <3>2. InstancesTyped'
      BY <1>2, <3>1 DEF InstancesTyped, IsInstance
    <3>3. Listening' = Listening /\ 0 \notin Listening
      BY <3>1, <1>2, IdsOf DEF Listening
    <3>4. InstancesKept'
      BY <1>1, <1>2, <1>3, <3>1 DEF InstancesKept, Uncounted
    <3>5. QED
      BY <1>2, <2>1, <3>2, <3>3, <3>4
  <2>2. CASE op.old # 0
    <3>1. inst' = Recycled(op.old)
      BY <1>1, <2>2
    <3>2. InstancesTyped' /\ InstancesKept' /\ Listening' = Listening \ {op.old}
      BY <1>1, <1>2, <1>3, <1>4, <2>2, <3>1, Recycles
    <3>3. QED
      BY <1>2, <3>2
  <2>3. QED
    BY <2>1, <2>2
<1>6. ServesStages'
  BY <1>1, <1>2, <1>3, <1>5 DEF ServesStages, Down
<1>7. QED
  BY <1>1, <1>2, <1>3, <1>5, <1>6, WishSame DEF ServedInv, KernelShape

LEMMA AwaitKeeps == ASSUME ServedInv, Await PROVE ServedInv' /\ UNCHANGED <<core, traffic>>
<1>1. op.at = "wait" /\ op' = Idle /\ UNCHANGED <<core, traffic, wish, requests>>
  BY DEF Await
<1>2. InstancesTyped /\ InstancesKept /\ WishTyped /\ Down
  BY <1>1 DEF ServedInv, KernelShape, ServesStages
<1>3. UNCHANGED <<inst, created, instance, retired, running, users, wish, requests>>
  BY <1>1 DEF core
<1>4. IsOp(op') /\ op'.at = "idle"
  BY <1>1, IdleIsOp DEF Idle
<1>5. InstancesTyped'
  BY <1>2, <1>3 DEF InstancesTyped, IsInstance
<1>6. InstancesKept'
  BY <1>1, <1>2, <1>3, <1>4, KeptSame
<1>7. Down' /\ ~running'
  BY <1>2, <1>3, SameCore DEF Down
<1>8. ServesStages'
  BY <1>4, <1>7 DEF ServesStages
<1>9. QED
  BY <1>1, <1>2, <1>3, <1>4, <1>5, <1>6, <1>8, WishSame DEF ServedInv, KernelShape

---------------------------------------------------------------------------
(* Instances serve, drain and close while the service's call goes on *)

LEMMA RecycleKeeps ==
  ASSUME ServedInv, inst' = [j \in Ids |-> inst'[j]], retired' \subseteq retired,
         UNCHANGED <<created, instance, running, users, hash, op, wish, requests>>,
         \A j \in Ids :
           /\ IsInstance(inst'[j]) /\ inst'[j].listening = inst[j].listening /\ inst'[j].config = inst[j].config
           /\ \/ inst[j].state = "closed" /\ inst'[j].state = "gone" /\ inst'[j].conns = 0 /\ inst'[j].unread = 0
              \/ /\ j \in retired => j \in retired'
                 /\ inst'[j].manager = inst[j].manager /\ inst'[j].limits = inst[j].limits
                 /\ \/ inst'[j].state = inst[j].state
                    \/ inst[j].state \in {"draining", "closing"} /\ inst'[j].state \in {"closing", "closed"}
                 /\ ~Uncounted(j)' => ~Uncounted(j) \/ inst[j].listening
  PROVE  ServedInv'
<1> DEFINE Gone(j) == inst[j].state = "closed" /\ inst'[j].state = "gone" /\ inst'[j].conns = 0 /\ inst'[j].unread = 0
           Quiet(j) == /\ j \in retired => j \in retired'
                       /\ inst'[j].manager = inst[j].manager /\ inst'[j].limits = inst[j].limits
                       /\ \/ inst'[j].state = inst[j].state
                          \/ inst[j].state \in {"draining", "closing"} /\ inst'[j].state \in {"closing", "closed"}
                       /\ ~Uncounted(j)' => ~Uncounted(j) \/ inst[j].listening
<1>1. \A j \in Ids : /\ IsInstance(inst'[j]) /\ inst'[j].listening = inst[j].listening
                     /\ inst'[j].config = inst[j].config /\ (Gone(j) \/ Quiet(j))
  OBVIOUS
<1>2. InstancesTyped /\ IsOp(op) /\ InstancesKept /\ WishTyped /\ ServesStages
  BY DEF ServedInv, KernelShape
<1>3. InstancesTyped'
  <2>1. retired' \subseteq 1..created'
    BY <1>2 DEF InstancesTyped
  <2>2. QED
    BY <1>1, <1>2, <2>1 DEF InstancesTyped, IsInstance
<1>4. Listening' = Listening
  BY <1>1 DEF Listening
<1>5. \A j \in Ids : inst[j].listening => inst[j].state = "up"
  BY ListeningIsUp
<1>6. \A j \in Ids : Gone(j) => Uncounted(j)' /\ ~inst'[j].listening
  <2>1. ASSUME NEW j \in Ids, Gone(j) PROVE inst'[j].conns = 0 /\ inst'[j].unread = 0 /\ ~inst'[j].listening
    BY <1>1, <1>5, <2>1
  <2>2. QED
    BY <2>1 DEF Uncounted
<1> HIDE DEF Quiet
<1>7. \A j \in Ids : Gone(j) => /\ j # instance /\ (op.at \in {"start", "swap"} => j # created)
                                /\ (op.at \in {"close", "signal"} => j # op.old)
  <2>1. ASSUME NEW j \in Ids, Gone(j) PROVE j \in retired /\ inst[j].state = "closed" /\ j # 0
    BY <1>2, <2>1 DEF InstancesKept, Ids
  <2>2. QED
    BY <1>2, <2>1 DEF InstancesKept
<1>8. InstancesKept'
  <2>1. \A j \in Ids : ~Uncounted(j)' \/ inst'[j].listening => j \in retired' \cup {instance, created} /\ inst'[j].config \in Configs
    <3>1. ASSUME NEW j \in Ids, ~Uncounted(j)' \/ inst'[j].listening
          PROVE  j \in retired' \cup {instance, created} /\ inst'[j].config \in Configs
      <4>1. Quiet(j) /\ inst'[j].config = inst[j].config
        BY <1>1, <1>6, <3>1
      <4>2. ~Uncounted(j) \/ inst[j].listening
        BY <1>1, <3>1, <4>1 DEF Quiet
      <4>3. QED
        BY <1>2, <4>1, <4>2 DEF InstancesKept, Quiet
    <3>2. QED
      BY <3>1
  <2>2. \A j \in Ids : inst'[j].state \in {"draining", "closing", "closed"} => j \in retired'
    <3>1. ASSUME NEW j \in Ids, inst'[j].state \in {"draining", "closing", "closed"} PROVE j \in retired'
      <4>1. Quiet(j)
        BY <1>1, <3>1
      <4>2. inst[j].state \in {"draining", "closing", "closed"}
        BY <3>1, <4>1 DEF Quiet
      <4>3. QED
        BY <1>2, <4>1, <4>2 DEF InstancesKept, Quiet
    <3>2. QED
      BY <3>1
  <2>3. \A j \in Ids : ~Gone(j) /\ inst[j].state \in {"up", "created"} => inst'[j].state = inst[j].state /\ (j \in retired => j \in retired')
    BY <1>1 DEF Quiet
  <2>4. instance # 0 => inst'[instance].state = "up"
    BY <1>2, <1>7, <2>3, IdsOf DEF InstancesKept
  <2>5. op.at \in {"close", "signal"} /\ op.old # 0 => op.old \in retired' /\ inst'[op.old].state = "up"
    <3>1. op.at \in {"close", "signal"} /\ op.old # 0 => op.old \in retired /\ inst[op.old].state = "up" /\ op.old \in Ids
      BY <1>2, IdsOf DEF InstancesKept
    <3>2. QED
      BY <1>7, <2>3, <3>1
  <2>6. op.at \in {"start", "swap"} => created \in Ids /\ created # 0 /\ created # instance /\ created \notin retired'
    BY <1>2, IdsOf DEF InstancesKept
  <2>7. (op.at = "start" => inst'[created].state = "created") /\ (op.at = "swap" => inst'[created].state = "up")
    BY <1>2, <1>7, <2>3, <2>6 DEF InstancesKept
  <2>8. op.at # "swap" /\ created # 0 /\ created \notin retired' \cup {instance} => Uncounted(created)'
    <3>1. ASSUME op.at # "swap", created # 0, created \notin retired' \cup {instance} PROVE Uncounted(created)'
      <4>1. created \in Ids
        BY <1>2, <3>1, IdsOf
      <4>2. CASE Gone(created)
        BY <1>6, <4>1, <4>2
      <4>3. CASE ~Gone(created)
        <5>1. Quiet(created)
          BY <1>1, <4>1, <4>3
        <5>2. Uncounted(created) /\ created \notin retired \cup {instance}
          BY <1>2, <3>1, <5>1 DEF InstancesKept, Quiet
        <5>3. ~inst[created].listening
          <6>1. inst[created].listening => created \in Listening
            BY <4>1 DEF Listening
          <6>2. \A j \in Listening : j = instance \/ op.at = "swap" \/ (op.at = "signal" /\ j \in retired)
            <7>1. \A j \in Listening : j # 0
              BY DEF Listening, Ids
            <7>2. op.at \in OpSteps
              BY <1>2 DEF IsOp
            <7>3. \A j \in Listening : j = instance \/ op.at = "swap" \/ (op.at = "signal" /\ j = op.old)
              BY <1>2, <7>2 DEF OpSteps, ServesStages, Served, Switched, Standing, Up, Down
            <7>4. QED
              BY <1>2, <7>1, <7>3 DEF InstancesKept
          <6>3. QED
            BY <3>1, <5>2, <6>1, <6>2
        <5>4. QED
          BY <5>1, <5>2, <5>3 DEF Quiet
      <4>4. QED
        BY <4>2, <4>3
    <3>2. QED
      BY <3>1
  <2>9. QED
    BY <2>1, <2>2, <2>4, <2>5, <2>6, <2>7, <2>8 DEF InstancesKept
<1>9. ServesStages'
  <2>1. \A i \in {instance, created} :
          (i = instance /\ i # 0) \/ (i = created /\ op.at \in {"start", "swap"}) =>
             /\ inst'[i].config = inst[i].config /\ inst'[i].manager = inst[i].manager
             /\ inst'[i].limits = inst[i].limits
    <3>1. ASSUME NEW i \in Ids, i = instance \/ (i = created /\ op.at \in {"start", "swap"})
          PROVE  /\ inst'[i].config = inst[i].config /\ inst'[i].manager = inst[i].manager
                 /\ inst'[i].limits = inst[i].limits
      BY <1>1, <1>7, <3>1 DEF Quiet
    <3>2. (instance # 0 => instance \in Ids) /\ (op.at \in {"start", "swap"} => created \in Ids)
      BY <1>2, IdsOf DEF InstancesKept
    <3>3. QED
      BY <3>1, <3>2
  <2>2. QED
    BY <1>2, <1>4, <2>1, ServesSame
<1>10. QED
  BY <1>2, <1>3, <1>8, <1>9, WishSame DEF ServedInv, KernelShape

LEMMA SampleKeeps == ASSUME ServedInv, Sample PROVE ServedInv'
<1>1. PICK ids : inst' = Cleared(ids) /\ UNCHANGED <<created, instance, retired, running, users, hash, op, wish, requests>>
  BY DEF Sample
<1>2. \A j \in Ids : IsInstance(inst[j])
  BY DEF ServedInv, KernelShape, InstancesTyped
<1>3. inst' = [j \in Ids |-> inst'[j]]
  BY <1>1 DEF Cleared
<1>4. ASSUME NEW j \in Ids
      PROVE  /\ IsInstance(inst'[j]) /\ inst'[j].listening = inst[j].listening /\ inst'[j].config = inst[j].config
             /\ inst'[j].manager = inst[j].manager /\ inst'[j].limits = inst[j].limits /\ inst'[j].state = inst[j].state
             /\ inst'[j].conns = inst[j].conns /\ (inst'[j].unread = inst[j].unread \/ inst'[j].unread = 0)
  <2>1. CASE j \in ids
    <3>1. inst'[j] = [inst[j] EXCEPT !.unread = 0] /\ IsInstance(inst[j])
      BY <1>1, <1>2, <2>1 DEF Cleared
    <3>2. QED
      BY <3>1 DEF IsInstance
  <2>2. CASE j \notin ids
    <3>1. inst'[j] = inst[j]
      BY <1>1, <2>2 DEF Cleared
    <3>2. QED
      BY <1>2, <3>1
  <2>3. QED
    BY <2>1, <2>2
<1>5. \A j \in Ids : ~Uncounted(j)' => ~Uncounted(j) \/ inst[j].listening
  BY <1>4 DEF Uncounted
<1>6. QED
  BY <1>1, <1>3, <1>4, <1>5, RecycleKeeps

\* One instance changes, and the others do not.
LEMMA OneKeeps ==
  ASSUME ServedInv, NEW i \in Ids, NEW r, inst' = [inst EXCEPT ![i] = r], retired' \subseteq retired,
         UNCHANGED <<created, instance, running, users, hash, op, wish, requests>>,
         IsInstance(r), r.listening = inst[i].listening, r.config = inst[i].config,
         \/ inst[i].state = "closed" /\ r.state = "gone" /\ r.conns = 0 /\ r.unread = 0 /\ retired' = retired \ {i}
         \/ /\ r.manager = inst[i].manager /\ r.limits = inst[i].limits /\ retired' = retired
            /\ r.state = inst[i].state \/ (inst[i].state \in {"draining", "closing"} /\ r.state \in {"closing", "closed"})
            /\ r.conns > 0 \/ r.unread > 0 => inst[i].conns > 0 \/ inst[i].unread > 0 \/ inst[i].listening
  PROVE  ServedInv'
<1>1. inst = [j \in Ids |-> inst[j]] /\ \A j \in Ids : IsInstance(inst[j])
  BY DEF ServedInv, KernelShape, InstancesTyped
<1>2. inst' = [j \in Ids |-> inst'[j]]
  BY <1>1
<1>3. inst'[i] = r
  BY <1>1
<1>4. \A j \in Ids : j # i => inst'[j] = inst[j]
  BY <1>1
<1>5. r.conns \in Nat /\ r.unread \in Nat /\ inst[i].conns \in Nat /\ inst[i].unread \in Nat
  BY <1>1 DEF IsInstance
<1>6. \A j \in Ids : j # i => Uncounted(j)' = Uncounted(j)
  BY <1>4 DEF Uncounted
<1>7. (~Uncounted(i)' <=> r.conns > 0 \/ r.unread > 0) /\ (~Uncounted(i) <=> inst[i].conns > 0 \/ inst[i].unread > 0)
  BY <1>3, <1>5 DEF Uncounted
<1>8. \A j \in Ids :
           /\ IsInstance(inst'[j]) /\ inst'[j].listening = inst[j].listening /\ inst'[j].config = inst[j].config
           /\ \/ inst[j].state = "closed" /\ inst'[j].state = "gone" /\ inst'[j].conns = 0 /\ inst'[j].unread = 0
              \/ /\ j \in retired => j \in retired'
                 /\ inst'[j].manager = inst[j].manager /\ inst'[j].limits = inst[j].limits
                 /\ \/ inst'[j].state = inst[j].state
                    \/ inst[j].state \in {"draining", "closing"} /\ inst'[j].state \in {"closing", "closed"}
                 /\ ~Uncounted(j)' => ~Uncounted(j) \/ inst[j].listening
  <2>1. ASSUME NEW j \in Ids, j # i
        PROVE  /\ IsInstance(inst'[j]) /\ inst'[j] = inst[j] /\ (j \in retired => j \in retired')
               /\ (~Uncounted(j)' => ~Uncounted(j))
    BY <1>1, <1>4, <1>6, <2>1
  <2>2. /\ IsInstance(inst'[i]) /\ inst'[i].listening = inst[i].listening /\ inst'[i].config = inst[i].config
        /\ \/ inst[i].state = "closed" /\ inst'[i].state = "gone" /\ inst'[i].conns = 0 /\ inst'[i].unread = 0
           \/ /\ i \in retired => i \in retired'
              /\ inst'[i].manager = inst[i].manager /\ inst'[i].limits = inst[i].limits
              /\ \/ inst'[i].state = inst[i].state
                 \/ inst[i].state \in {"draining", "closing"} /\ inst'[i].state \in {"closing", "closed"}
              /\ ~Uncounted(i)' => ~Uncounted(i) \/ inst[i].listening
    BY <1>3, <1>7
  <2>3. QED
    BY <2>1, <2>2
<1>9. QED
  BY <1>2, <1>8, RecycleKeeps

LEMMA InstanceIs == ASSUME ServedInv, NEW i \in Ids PROVE IsInstance(inst[i]) /\ inst = [j \in Ids |-> inst[j]]
  BY DEF ServedInv, KernelShape, InstancesTyped

\* The shape of a step of one instance, apart from the bytes.
LEMMA LastReadingIs ==
  ASSUME ServedInv, NEW i \in Ids, LastReading(i)
  PROVE  inst' = [inst EXCEPT ![i] = [[inst[i] EXCEPT !.unread = 0] EXCEPT !.state = "closing"]]
<1>1. inst' = [Cleared({i}) EXCEPT ![i].state = "closing"] /\ inst = [j \in Ids |-> inst[j]]
  BY InstanceIs DEF LastReading
<1>2. Cleared({i}) = [inst EXCEPT ![i] = [inst[i] EXCEPT !.unread = 0]]
  BY <1>1 DEF Cleared
<1>3. QED
  BY <1>1, <1>2

LEMMA LastReadingKeeps == ASSUME ServedInv, NEW i \in Ids, LastReading(i) PROVE ServedInv'
<1> DEFINE r == [[inst[i] EXCEPT !.unread = 0] EXCEPT !.state = "closing"]
<1>1. /\ inst[i].state = "draining" /\ inst' = [inst EXCEPT ![i] = r]
      /\ UNCHANGED <<created, instance, retired, running, users, hash, op, wish, requests>>
  BY LastReadingIs DEF LastReading
<1>2. IsInstance(inst[i])
  BY InstanceIs
<1>3. /\ IsInstance(r) /\ r.listening = inst[i].listening /\ r.config = inst[i].config /\ r.manager = inst[i].manager
      /\ r.limits = inst[i].limits /\ r.state = "closing" /\ r.conns = inst[i].conns /\ r.unread = 0
  BY <1>2 DEF IsInstance, InstanceStates
<1> HIDE DEF r
<1>4. r.conns > 0 \/ r.unread > 0 => inst[i].conns > 0
  BY <1>3
<1>5. QED
  BY <1>1, <1>3, <1>4, OneKeeps

LEMMA CloseInstanceIs ==
  ASSUME ServedInv, NEW i \in Ids, CloseInstance(i)
  PROVE  \E r : /\ inst' = [inst EXCEPT ![i] = r] /\ IsInstance(r) /\ r.listening = inst[i].listening
                /\ r.config = inst[i].config /\ r.manager = inst[i].manager /\ r.limits = inst[i].limits
                /\ r.state = "closed" /\ r.conns \in 0..inst[i].conns /\ r.unread \in {0, inst[i].unread}
<1>1. PICK n \in 0..inst[i].conns, kept \in {0, inst[i].unread} :
        inst' = [inst EXCEPT ![i].state = "closed", ![i].conns = n, ![i].unread = kept]
  BY DEF CloseInstance
<1> DEFINE r == [[[inst[i] EXCEPT !.state = "closed"] EXCEPT !.conns = n] EXCEPT !.unread = kept]
<1>2. IsInstance(inst[i]) /\ inst = [j \in Ids |-> inst[j]]
  BY InstanceIs
<1>3. inst' = [inst EXCEPT ![i] = r]
  BY <1>1, <1>2
<1>4. /\ IsInstance(r) /\ r.listening = inst[i].listening
      /\ r.config = inst[i].config /\ r.manager = inst[i].manager /\ r.limits = inst[i].limits
      /\ r.state = "closed" /\ r.conns \in 0..inst[i].conns /\ r.unread \in {0, inst[i].unread}
  BY <1>2 DEF IsInstance, InstanceStates
<1> HIDE DEF r
<1>5. QED
  BY <1>3, <1>4

LEMMA CloseInstanceKeeps == ASSUME ServedInv, NEW i \in Ids, CloseInstance(i) PROVE ServedInv'
<1>1. /\ inst[i].state = "closing"
      /\ UNCHANGED <<created, instance, retired, running, users, hash, op, wish, requests>>
  BY DEF CloseInstance
<1>2. PICK r : /\ inst' = [inst EXCEPT ![i] = r] /\ IsInstance(r) /\ r.listening = inst[i].listening
               /\ r.config = inst[i].config /\ r.manager = inst[i].manager /\ r.limits = inst[i].limits
               /\ r.state = "closed" /\ r.conns \in 0..inst[i].conns /\ r.unread \in {0, inst[i].unread}
  BY CloseInstanceIs
<1>3. inst[i].conns \in Nat
  BY InstanceIs DEF IsInstance
<1>4. r.conns > 0 \/ r.unread > 0 => inst[i].conns > 0 \/ inst[i].unread > 0
  BY <1>2, <1>3
<1>5. QED
  BY <1>1, <1>2, <1>4, OneKeeps

LEMMA ForgetRetiredKeeps == ASSUME ServedInv, NEW i \in Ids, ForgetRetired(i) PROVE ServedInv'
<1> DEFINE r == [Blank EXCEPT !.state = "gone", !.config = inst[i].config]
<1>1. /\ inst[i].state = "closed" /\ inst' = [inst EXCEPT ![i] = r] /\ retired' = retired \ {i}
      /\ UNCHANGED <<created, instance, running, users, hash, op, wish, requests>>
  BY DEF ForgetRetired
<1>2. IsInstance(inst[i]) /\ ~inst[i].listening
  BY <1>1, InstanceIs, ListeningIsUp
<1>3. inst[i].listening = FALSE
  BY <1>2 DEF IsInstance
<1>4. /\ IsInstance(r) /\ r.listening = FALSE /\ r.config = inst[i].config /\ r.state = "gone" /\ r.conns = 0 /\ r.unread = 0
  BY DEF IsInstance, InstanceStates, Blank
<1> HIDE DEF r
<1>5. QED
  BY <1>1, <1>3, <1>4, OneKeeps

LEMMA AcceptKeeps == ASSUME ServedInv, NEW i \in Ids, Accept(i) PROVE ServedInv'
<1> DEFINE r == [inst[i] EXCEPT !.conns = @ + 1]
<1>1. /\ inst[i].listening /\ inst' = [inst EXCEPT ![i] = r]
      /\ UNCHANGED <<created, instance, retired, running, users, hash, op, wish, requests>>
  BY DEF Accept
<1>2. IsInstance(inst[i])
  BY InstanceIs
<1>3. /\ IsInstance(r) /\ r.listening = inst[i].listening /\ r.config = inst[i].config /\ r.manager = inst[i].manager
      /\ r.limits = inst[i].limits /\ r.state = inst[i].state
  BY <1>2 DEF IsInstance
<1> HIDE DEF r
<1>4. /\ r.manager = inst[i].manager /\ r.limits = inst[i].limits /\ retired' = retired /\ r.state = inst[i].state
      /\ r.conns > 0 \/ r.unread > 0 => inst[i].conns > 0 \/ inst[i].unread > 0 \/ inst[i].listening
  BY <1>1, <1>3
<1>5. QED
  BY <1>1, <1>3, <1>4, OneKeeps

LEMMA CarryKeeps == ASSUME ServedInv, NEW i \in Ids, Carry(i) PROVE ServedInv'
<1> DEFINE r == [inst[i] EXCEPT !.unread = @ + 1]
<1>1. /\ inst[i].conns > 0 /\ inst' = [inst EXCEPT ![i] = r]
      /\ UNCHANGED <<created, instance, retired, running, users, hash, op, wish, requests>>
  BY DEF Carry
<1>2. IsInstance(inst[i])
  BY InstanceIs
<1>3. /\ IsInstance(r) /\ r.listening = inst[i].listening /\ r.config = inst[i].config /\ r.manager = inst[i].manager
      /\ r.limits = inst[i].limits /\ r.state = inst[i].state
  BY <1>2 DEF IsInstance
<1> HIDE DEF r
<1>4. QED
  BY <1>1, <1>3, OneKeeps

LEMMA HangupKeeps == ASSUME ServedInv, NEW i \in Ids, Hangup(i) PROVE ServedInv'
<1> DEFINE r == [inst[i] EXCEPT !.conns = @ - 1]
<1>1. /\ inst[i].conns > 0 /\ inst' = [inst EXCEPT ![i] = r]
      /\ UNCHANGED <<created, instance, retired, running, users, hash, op, wish, requests>>
  BY DEF Hangup
<1>2. IsInstance(inst[i])
  BY InstanceIs
<1>3. /\ IsInstance(r) /\ r.listening = inst[i].listening /\ r.config = inst[i].config /\ r.manager = inst[i].manager
      /\ r.limits = inst[i].limits /\ r.state = inst[i].state
  BY <1>1, <1>2 DEF IsInstance
<1> HIDE DEF r
<1>4. QED
  BY <1>1, <1>3, OneKeeps

LEMMA KernelSame == ASSUME ServedInv, UNCHANGED kvars PROVE ServedInv'
<1>1. UNCHANGED <<inst, created, instance, retired, running, users, hash, op, wish, requests>>
  BY DEF kvars
<1>2. InstancesTyped' /\ IsOp(op)' /\ WishTyped'
  BY <1>1, WishSame DEF ServedInv, KernelShape, InstancesTyped, IsInstance, IsOp
<1>3. InstancesKept'
  BY <1>1 DEF ServedInv, InstancesKept, Uncounted
<1>4. ServesStages'
  <2>1. Listening' = Listening
    BY <1>1 DEF Listening
  <2>2. QED
    BY <1>1, <2>1, ServesSame DEF ServedInv
<1>5. QED
  BY <1>2, <1>3, <1>4 DEF ServedInv, KernelShape

LEMMA ServedStart == ASSUME KernelInit PROVE ServedInv
<1>1. /\ inst = [i \in Ids |-> Blank] /\ created = 0 /\ instance = 0 /\ retired = {} /\ running = FALSE
      /\ users = {} /\ op = Idle /\ wish = [config |-> NoConfig, users |-> {}] /\ requests = 0
  BY DEF KernelInit
<1>2. IsInstance(Blank) /\ Blank.state = "none" /\ Blank.listening = FALSE /\ Blank.conns = 0 /\ Blank.unread = 0
  BY DEF IsInstance, Blank, InstanceStates
<1> HIDE DEF Blank
<1>3. InstancesTyped
  <2>1. MaxStarts \in Nat
    BY KernelConstants
  <2>2. \A i \in Ids : IsInstance(inst[i])
    BY <1>1, <1>2
  <2>3. inst = [i \in Ids |-> inst[i]]
    BY <1>1
  <2>4. created \in 0..MaxStarts /\ instance \in 0..created /\ retired \subseteq 1..created /\ running \in BOOLEAN
    <3>1. created = 0 /\ instance = 0 /\ retired = {} /\ running = FALSE
      BY <1>1
    <3>2. created \in 0..MaxStarts /\ instance \in 0..created
      BY ONLY <2>1, <3>1
    <3>3. retired \subseteq 1..created /\ running \in BOOLEAN
      BY ONLY <3>1
    <3>4. QED
      BY <3>2, <3>3
  <2>5. QED
    BY ONLY <2>2, <2>3, <2>4 DEF InstancesTyped
<1>4. WishTyped
  <2>1. UserList({})
    BY DEF UserList
  <2>2. QED
    BY <1>1, <2>1, KernelConstants DEF WishTyped
<1>5. IsOp(op) /\ op.at = "idle"
  BY <1>1, IdleIsOp DEF Idle
<1>6. InstancesKept
  BY <1>1, <1>2, <1>5 DEF InstancesKept, Uncounted
<1>7. Down
  BY <1>1, <1>2 DEF Down, Listening
<1>8. ServesStages
  BY <1>1, <1>5, <1>7 DEF ServesStages
<1>9. QED
  BY <1>3, <1>4, <1>5, <1>6, <1>8 DEF ServedInv, KernelShape

LEMMA ServedStep == ASSUME ServedInv, [KernelNext]_kvars PROVE ServedInv'
<1>1. CASE UNCHANGED kvars
  BY <1>1, KernelSame
<1>2. CASE AskConfig \/ AskUsers \/ AskAdd \/ AskRemove
  BY <1>2, AskConfigKeeps, AskUsersKeeps, AskAddKeeps, AskRemoveKeeps
<1>3. CASE Serve
  BY <1>3, BuildKeeps, BuildFailsKeeps, StartSucceedsKeeps, StartFailsKeeps, SwapKeeps, CloseOldKeeps, RemoveOneKeeps,
     AddOneKeeps, BookKeeps, UpdateLimitsKeeps, AnswerKeeps, StopKeeps, SignalKeeps, AwaitKeeps DEF Serve
<1>4. CASE Sample
  BY <1>4, SampleKeeps
<1>5. ASSUME NEW i \in Ids, Recycle(i) \/ Accept(i) \/ Carry(i) \/ Hangup(i) PROVE ServedInv'
  BY <1>5, LastReadingKeeps, CloseInstanceKeeps, ForgetRetiredKeeps, AcceptKeeps, CarryKeeps, HangupKeeps DEF Recycle
<1>6. QED
  BY <1>1, <1>2, <1>3, <1>4, <1>5 DEF KernelNext

\* The properties of the serving kernel.
LEMMA ServedSound == ASSUME ServedInv PROVE ServesWish
<1>1. op.at = "idle" => IF running THEN Served ELSE Down
  BY DEF ServedInv, ServesStages
<1>2. \E i : Listening \subseteq {i}
  BY DEF ServedInv, KernelShape, IsOp, OpSteps, ServesStages, Served, Switched, Standing, Up, Down
<1>3. Cardinality(Listening) <= 1
  <2>1. PICK i : Listening \subseteq {i}
    BY <1>2
  <2>2. Cardinality({i}) = 1 /\ IsFiniteSet({i})
    BY FS_Singleton
  <2>3. Cardinality({}) = 0
    BY FS_EmptySet
  <2>4. Listening = {} \/ Listening = {i}
    BY <2>1
  <2>5. QED
    BY <2>2, <2>3, <2>4
<1>4. QED
  BY <1>1, <1>3 DEF ServesWish, Served, Switched, Up, Down

---------------------------------------------------------------------------
(* The bytes *)

LEMMA HeldIs ==
  ASSUME InstancesTyped, NEW n
  PROVE  /\ \A i \in Ids : Held(inst, n)[i] \in Nat /\ Fresh(inst, n)[i] \in Nat /\ Fresh(inst, n)[i] <= Held(inst, n)[i]
         /\ Total(Held(inst, n), Ids) \in Nat /\ Total(Fresh(inst, n), Ids) \in Nat
         /\ Total(Fresh(inst, n), Ids) <= Total(Held(inst, n), Ids)
<1>1. \A i \in Ids : inst[i].unread \in Nat
  BY DEF InstancesTyped, IsInstance
<1>2. \A i \in Ids : Held(inst, n)[i] \in Nat
  BY <1>1 DEF Held
<1>3. \A i \in Ids : Fresh(inst, n)[i] = Held(inst, n)[i] \/ Fresh(inst, n)[i] = 0
  BY DEF Fresh
<1>4. \A i \in Ids : Fresh(inst, n)[i] \in Nat /\ Fresh(inst, n)[i] <= Held(inst, n)[i]
  BY <1>2, <1>3
<1>5. QED
  BY <1>2, <1>4, IdsOf, TotalNat, TotalAtMost

\* A step that neither carries nor reads bytes.
LEMMA BytesSame ==
  ASSUME BytesKept, UNCHANGED traffic,
         \A i \in Ids : /\ inst'[i].unread = inst[i].unread /\ Passed(inst'[i]) = Passed(inst[i])
                        /\ inst[i].unread > 0 => inst'[i].config = inst[i].config
  PROVE  BytesKept'
<1>1. ASSUME NEW n PROVE Held(inst', n) = Held(inst, n) /\ Fresh(inst', n) = Fresh(inst, n)
  <2>1. Held(inst', n) = Held(inst, n)
    BY DEF Held
  <2>2. QED
    BY <2>1 DEF Fresh
<1>2. QED
  BY <1>1 DEF BytesKept, traffic

\* What a reading of some instances finds for a node.
Taken(ids, n) == [i \in Ids |-> IF i \in ids THEN Held(inst, n)[i] ELSE 0]
LEMMA ReadIs ==
  ASSUME InstancesTyped, NEW ids \in SUBSET Ids, NEW n
  PROVE  /\ MapThenSumSet(LAMBDA i : inst[i].unread, {i \in ids : NodeOf[inst[i].config] = n}) = Total(Taken(ids, n), Ids)
         /\ Total(Taken(ids, n), Ids) \in Nat /\ \A i \in Ids : Taken(ids, n)[i] \in Nat
<1> DEFINE S == {i \in ids : NodeOf[inst[i].config] = n}
           f == [i \in S |-> inst[i].unread]
           t == Taken(ids, n)
<1>1. MapThenSumSet(LAMBDA i : inst[i].unread, S) = Total(f, S)
  BY UnreadTotal
<1>2. IsFiniteSet(Ids) /\ S \in SUBSET Ids /\ \A i \in Ids : inst[i].unread \in Nat /\ Held(inst, n)[i] \in Nat
  BY IdsOf, HeldIs DEF InstancesTyped, IsInstance
<1>3. IsFiniteSet(S)
  BY <1>2, FS_Subset
<1>4. \A i \in S : f[i] \in Nat /\ f[i] = t[i]
  BY <1>2 DEF Taken, Held
<1>5. \A i \in Ids : t[i] \in Nat
  BY <1>2 DEF Taken
<1>6. \A i \in Ids \ S : t[i] = 0
  BY DEF Taken, Held
<1> HIDE DEF S, f, t
<1>7. Total(f, S) = Total(t, S)
  BY <1>3, <1>4, TotalSame
<1>8. Total(t, Ids) = Total(t, S)
  BY <1>2, <1>5, <1>6, TotalWithout
<1>9. Total(t, Ids) \in Nat
  BY <1>2, <1>5, TotalNat
<1>10. QED
  BY <1>1, <1>5, <1>7, <1>8, <1>9 DEF S, t

\* A reading moves the bytes from the counters to the accounts of the node they were carried for.
LEMMA ReadKeeps ==
  ASSUME InstancesTyped, InstancesTyped', BytesTyped, BytesKept, NEW ids \in SUBSET Ids, Read(ids), UNCHANGED <<carried, late>>,
         \A i \in Ids : IF i \in ids THEN inst'[i].unread = 0
                        ELSE /\ inst'[i].unread = inst[i].unread /\ inst'[i].config = inst[i].config
                             /\ Passed(inst'[i]) = Passed(inst[i])
  PROVE  BytesTyped' /\ BytesKept'
<1>1. cum' = [n \in Nodes |-> cum[n] + Total(Taken(ids, n), Ids)]
  <2>1. \A n \in Nodes : MapThenSumSet(LAMBDA i : inst[i].unread, {i \in ids : NodeOf[inst[i].config] = n}) = Total(Taken(ids, n), Ids)
    BY ReadIs
  <2>2. QED
    BY <2>1 DEF Read
<1>2. BytesTyped'
  <2>1. ASSUME NEW n \in Nodes PROVE cum[n] + Total(Taken(ids, n), Ids) \in Nat
    <3>1. cum[n] \in Nat /\ Total(Taken(ids, n), Ids) \in Nat
      BY ReadIs DEF BytesTyped
    <3>2. QED
      BY <3>1
  <2>2. QED
    BY <1>1, <2>1 DEF BytesTyped
<1>3. ASSUME NEW n \in Nodes
      PROVE  /\ cum'[n] + Total(Held(inst', n), Ids) <= carried[n]
             /\ carried[n] - late[n] <= cum'[n] + Total(Fresh(inst', n), Ids)
  <2> DEFINE t == Taken(ids, n)
             h == Held(inst, n)
             k == Held(inst', n)
             f == Fresh(inst, n)
             g == Fresh(inst', n)
             a == Total(t, Ids)
  <2>1. \A i \in Ids : h[i] \in Nat /\ f[i] \in Nat /\ t[i] \in Nat
    BY HeldIs, ReadIs
  <2>2. \A i \in Ids : i \in ids => t[i] = h[i] /\ k[i] = 0 /\ g[i] = 0
    BY DEF Taken, Held, Fresh
  <2>3. \A i \in Ids : i \notin ids => t[i] = 0 /\ k[i] = h[i] /\ g[i] = f[i]
    <3>1. ASSUME NEW i \in Ids, i \notin ids PROVE t[i] = 0 /\ k[i] = h[i]
      BY <3>1 DEF Taken, Held
    <3>2. ASSUME NEW i \in Ids, i \notin ids PROVE g[i] = f[i]
      BY <3>1, <3>2 DEF Fresh
    <3>3. QED
      BY <3>1, <3>2
  <2>4. \A i \in Ids : f[i] <= h[i]
    BY HeldIs
  <2>5. IsFiniteSet(Ids)
    BY IdsOf
  <2>6. Total(h, Ids) \in Nat /\ Total(f, Ids) \in Nat
    BY HeldIs
  <2>7. a \in Nat
    BY ReadIs
  <2>8. cum'[n] = cum[n] + a /\ cum[n] \in Nat /\ carried[n] \in Nat /\ late[n] \in Nat
    BY <1>1 DEF BytesTyped
  <2>9. cum[n] + Total(h, Ids) <= carried[n] /\ carried[n] - late[n] <= cum[n] + Total(f, Ids)
    BY DEF BytesKept
  <2> HIDE DEF t, h, k, f, g
  <2>10. \A i \in Ids : t[i] \in Nat /\ k[i] \in Nat /\ h[i] = t[i] + k[i]
    BY <2>1, <2>2, <2>3
  <2>11. Total(h, Ids) = Total(t, Ids) + Total(k, Ids)
    BY ONLY <2>5, <2>10, <2>1, TotalSplit
  <2>12. Total(k, Ids) \in Nat
    BY ONLY <2>5, <2>10, TotalNat
  <2> DEFINE b == [i \in Ids |-> t[i] + g[i]]
  <2>13. \A i \in Ids : t[i] \in Nat /\ g[i] \in Nat /\ b[i] = t[i] + g[i] /\ b[i] \in Nat /\ f[i] <= b[i]
    BY <2>1, <2>2, <2>3, <2>4
  <2> HIDE DEF b
  <2>14. Total(b, Ids) = Total(t, Ids) + Total(g, Ids)
    BY ONLY <2>5, <2>13, TotalSplit
  <2>15. Total(f, Ids) <= Total(b, Ids)
    BY ONLY <2>1, <2>5, <2>13, TotalAtMost
  <2>16. Total(g, Ids) \in Nat
    BY ONLY <2>5, <2>13, TotalNat
  <2> DEFINE th == Total(h, Ids)
             tk == Total(k, Ids)
             tf == Total(f, Ids)
             tg == Total(g, Ids)
             tb == Total(b, Ids)
  <2>17. th = a + tk /\ tk \in Nat /\ tb = a + tg /\ tf <= tb /\ tg \in Nat /\ tf \in Nat /\ th \in Nat
    BY <2>6, <2>11, <2>12, <2>14, <2>15, <2>16
  <2>18. cum[n] + th <= carried[n] /\ carried[n] - late[n] <= cum[n] + tf
    BY <2>9
  <2> HIDE DEF a, th, tk, tf, tg, tb
  <2>19. cum'[n] + tk <= carried[n] /\ carried[n] - late[n] <= cum'[n] + tg
    BY ONLY <2>7, <2>8, <2>17, <2>18
  <2>20. QED
    BY <2>19 DEF tk, tg, k, g
<1>4. QED
  BY <1>2, <1>3 DEF BytesKept

LEMMA SampleCounts == ASSUME ServedInv, ServedInv', BytesTyped, BytesKept, Sample PROVE BytesTyped' /\ BytesKept'
<1> DEFINE ids == retired \cup ({instance} \ {0})
<1>1. Read(ids) /\ inst' = Cleared(ids) /\ UNCHANGED <<carried, late>>
  BY DEF Sample
<1>2. InstancesTyped /\ InstancesTyped'
  BY DEF ServedInv, KernelShape
<1>3. ids \in SUBSET Ids
  BY <1>2, IdsOf
<1> HIDE DEF ids
<1>4. \A i \in Ids : IF i \in ids THEN inst'[i].unread = 0
                     ELSE /\ inst'[i].unread = inst[i].unread /\ inst'[i].config = inst[i].config
                          /\ Passed(inst'[i]) = Passed(inst[i])
  <2>1. ASSUME NEW i \in Ids, i \in ids PROVE inst'[i].unread = 0
    <3>1. inst'[i] = [inst[i] EXCEPT !.unread = 0] /\ IsInstance(inst[i])
      BY <1>1, <2>1, InstanceIs DEF Cleared
    <3>2. QED
      BY <3>1 DEF IsInstance
  <2>2. ASSUME NEW i \in Ids, i \notin ids PROVE inst'[i] = inst[i]
    BY <1>1, <2>2 DEF Cleared
  <2>3. QED
    BY <2>1, <2>2
<1>5. QED
  BY <1>1, <1>2, <1>3, <1>4, ReadKeeps

LEMMA LastReadingCounts ==
  ASSUME ServedInv, ServedInv', BytesTyped, BytesKept, NEW i \in Ids, LastReading(i)
  PROVE  BytesTyped' /\ BytesKept'
<1> DEFINE r == [[inst[i] EXCEPT !.unread = 0] EXCEPT !.state = "closing"]
<1>1. Read({i}) /\ UNCHANGED <<carried, late>> /\ inst' = [inst EXCEPT ![i] = r]
  BY LastReadingIs DEF LastReading
<1>2. InstancesTyped /\ InstancesTyped'
  BY DEF ServedInv, KernelShape
<1>3. inst'[i] = r /\ r.unread = 0 /\ \A j \in Ids : j # i => inst'[j] = inst[j]
  BY <1>1, InstanceIs DEF IsInstance
<1> HIDE DEF r
<1>4. \A j \in Ids : IF j \in {i} THEN inst'[j].unread = 0
                     ELSE /\ inst'[j].unread = inst[j].unread /\ inst'[j].config = inst[j].config
                          /\ Passed(inst'[j]) = Passed(inst[j])
  BY <1>3
<1>5. QED
  BY <1>1, <1>2, <1>4, ReadKeeps

LEMMA ForgetRetiredCounts ==
  ASSUME ServedInv, ServedInv', BytesTyped, BytesKept, NEW i \in Ids, ForgetRetired(i)
  PROVE  BytesTyped' /\ BytesKept'
<1> DEFINE r == [Blank EXCEPT !.state = "gone", !.config = inst[i].config]
<1>1. Read({i}) /\ UNCHANGED <<carried, late>> /\ inst' = [inst EXCEPT ![i] = r]
  BY DEF ForgetRetired
<1>2. InstancesTyped /\ InstancesTyped'
  BY DEF ServedInv, KernelShape
<1>3. r.unread = 0
  BY DEF Blank
<1> HIDE DEF r
<1>4. inst'[i] = r /\ \A j \in Ids : j # i => inst'[j] = inst[j]
  BY <1>1, InstanceIs
<1>5. \A j \in Ids : IF j \in {i} THEN inst'[j].unread = 0
                     ELSE /\ inst'[j].unread = inst[j].unread /\ inst'[j].config = inst[j].config
                          /\ Passed(inst'[j]) = Passed(inst[j])
  BY <1>3, <1>4
<1>6. QED
  BY <1>1, <1>2, <1>5, ReadKeeps

\* What the core keeps or loses as it closes was carried after the last reading.
LEMMA CloseInstanceCounts ==
  ASSUME ServedInv, ServedInv', BytesTyped, BytesKept, NEW i \in Ids, CloseInstance(i)
  PROVE  BytesTyped' /\ BytesKept'
<1>1. inst[i].state = "closing" /\ UNCHANGED traffic
  BY DEF CloseInstance
<1>2. PICK r : /\ inst' = [inst EXCEPT ![i] = r] /\ IsInstance(r) /\ r.listening = inst[i].listening
               /\ r.config = inst[i].config /\ r.manager = inst[i].manager /\ r.limits = inst[i].limits
               /\ r.state = "closed" /\ r.conns \in 0..inst[i].conns /\ r.unread \in {0, inst[i].unread}
  BY CloseInstanceIs
<1>3. inst'[i] = r /\ (\A j \in Ids : j # i => inst'[j] = inst[j]) /\ inst[i].unread \in Nat
  BY <1>2, InstanceIs DEF IsInstance
<1>4. Passed(inst[i]) /\ Passed(inst'[i])
  BY <1>1, <1>2, <1>3 DEF Passed
<1>5. BytesTyped' /\ UNCHANGED <<cum, carried, late>>
  BY <1>1 DEF BytesTyped, traffic
<1>6. InstancesTyped /\ InstancesTyped'
  BY DEF ServedInv, KernelShape
<1>7. ASSUME NEW n \in Nodes
      PROVE  /\ cum[n] + Total(Held(inst', n), Ids) <= carried[n]
             /\ carried[n] - late[n] <= cum[n] + Total(Fresh(inst', n), Ids)
  <2> DEFINE h == Held(inst, n)
             k == Held(inst', n)
  <2>1. Fresh(inst', n) = Fresh(inst, n)
    <3>1. \A j \in Ids : Fresh(inst', n)[j] = Fresh(inst, n)[j]
      BY <1>3, <1>4 DEF Fresh, Held
    <3>2. QED
      BY <3>1 DEF Fresh
  <2>2. \A j \in Ids : h[j] \in Nat
    BY <1>6, HeldIs
  <2>3. \A j \in Ids : k[j] = h[j] \/ k[j] = 0
    BY <1>2, <1>3 DEF Held
  <2> HIDE DEF h, k
  <2>4. \A j \in Ids : k[j] \in Nat /\ h[j] \in Nat /\ k[j] <= h[j]
    BY <2>2, <2>3
  <2>5. IsFiniteSet(Ids)
    BY <1>6, IdsOf
  <2>6. Total(k, Ids) <= Total(h, Ids)
    BY ONLY <2>4, <2>5, TotalAtMost
  <2>7. Total(k, Ids) \in Nat /\ Total(h, Ids) \in Nat
    BY ONLY <2>4, <2>5, TotalNat
  <2>8. cum[n] \in Nat /\ carried[n] \in Nat
    BY DEF BytesTyped
  <2>9. cum[n] + Total(h, Ids) <= carried[n] /\ carried[n] - late[n] <= cum[n] + Total(Fresh(inst, n), Ids)
    BY DEF BytesKept, h
  <2>10. cum[n] + Total(k, Ids) <= carried[n]
    BY <2>6, <2>7, <2>8, <2>9
  <2>11. QED
    BY <2>1, <2>9, <2>10 DEF k
<1>8. QED
  BY <1>5, <1>7 DEF BytesKept

\* A byte is carried for the node of the configuration its instance was created with.
LEMMA CarryCounts ==
  ASSUME ServedInv, ServedInv', BytesTyped, BytesKept, NEW i \in Ids, Carry(i)
  PROVE  BytesTyped' /\ BytesKept'
<1> DEFINE r == [inst[i] EXCEPT !.unread = @ + 1]
           m == NodeOf[inst[i].config]
<1>1. /\ inst[i].conns > 0 /\ inst' = [inst EXCEPT ![i] = r] /\ UNCHANGED cum
      /\ carried' = [carried EXCEPT ![m] = @ + 1]
      /\ late' = [late EXCEPT ![m] = IF Passed(inst[i]) THEN @ + 1 ELSE @]
  BY DEF Carry, Passed
<1>2. InstancesTyped /\ InstancesTyped' /\ InstancesKept
  BY DEF ServedInv, KernelShape
<1>3. IsInstance(inst[i]) /\ inst[i].conns \in Nat /\ inst[i].unread \in Nat
  BY InstanceIs DEF IsInstance
<1>4. m \in Nodes
  <2>1. ~Uncounted(i)
    BY <1>1, <1>3 DEF Uncounted
  <2>2. inst[i].config \in Configs
    BY <1>2, <2>1 DEF InstancesKept
  <2>3. QED
    BY <2>2, KernelConstants
<1>5. inst'[i] = r /\ r.unread = inst[i].unread + 1 /\ r.config = inst[i].config /\ r.state = inst[i].state
      /\ \A j \in Ids : j # i => inst'[j] = inst[j]
  BY <1>1, <1>3, InstanceIs DEF IsInstance
<1> HIDE DEF r
<1>6. Passed(inst'[i]) = Passed(inst[i])
  BY <1>5 DEF Passed
<1>7. BytesTyped'
  BY <1>1, <1>4 DEF BytesTyped
<1>8. ASSUME NEW n \in Nodes
      PROVE  /\ cum'[n] + Total(Held(inst', n), Ids) <= carried'[n]
             /\ carried'[n] - late'[n] <= cum'[n] + Total(Fresh(inst', n), Ids)
  <2> DEFINE h == Held(inst, n)
             k == Held(inst', n)
             f == Fresh(inst, n)
             g == Fresh(inst', n)
  <2>1. cum[n] \in Nat /\ carried[n] \in Nat /\ late[n] \in Nat /\ cum'[n] = cum[n]
    BY <1>1 DEF BytesTyped
  <2>2. cum[n] + Total(h, Ids) <= carried[n] /\ carried[n] - late[n] <= cum[n] + Total(f, Ids)
    BY DEF BytesKept
  <2>3. /\ IsFiniteSet(Ids) /\ Total(h, Ids) \in Nat /\ Total(f, Ids) \in Nat
        /\ \A j \in Ids : h[j] \in Nat /\ f[j] \in Nat
    BY <1>2, IdsOf, HeldIs
  <2>4. \A j \in Ids : j # i => k[j] = h[j] /\ g[j] = f[j]
    <3>1. \A j \in Ids : j # i => k[j] = h[j]
      BY <1>5 DEF Held
    <3>2. QED
      BY <1>5, <3>1 DEF Fresh
  <2>5. CASE n # m
    <3>1. k[i] = h[i]
      BY <1>5, <2>5 DEF Held
    <3>2. g[i] = f[i]
      BY <1>6, <3>1 DEF Fresh
    <3>3. carried'[n] = carried[n] /\ late'[n] = late[n]
      BY <1>1, <2>5 DEF BytesTyped
    <3>4. k = h /\ g = f
      <4>1. \A j \in Ids : k[j] = h[j] /\ g[j] = f[j]
        BY <2>4, <3>1, <3>2
      <4>2. k = [j \in Ids |-> k[j]] /\ h = [j \in Ids |-> h[j]] /\ g = [j \in Ids |-> g[j]] /\ f = [j \in Ids |-> f[j]]
        BY DEF Held, Fresh
      <4>3. QED
        BY <4>1, <4>2
    <3>5. QED
      BY <2>1, <2>2, <3>3, <3>4
  <2>6. CASE n = m
    <3>1. k[i] = h[i] + 1
      BY <1>3, <1>5, <2>6 DEF Held
    <3>2. g[i] = IF Passed(inst[i]) THEN f[i] ELSE f[i] + 1
      BY <1>6, <3>1 DEF Fresh
    <3>3. carried'[n] = carried[n] + 1 /\ late'[n] = IF Passed(inst[i]) THEN late[n] + 1 ELSE late[n]
      BY <1>1, <1>4, <2>6 DEF BytesTyped
    <3> HIDE DEF h, k, f, g
    <3> DEFINE R == Ids \ {i}
    <3>4. IsFiniteSet(R) /\ \A j \in R : h[j] \in Nat /\ k[j] = h[j] /\ f[j] \in Nat /\ g[j] = f[j]
      BY <2>3, <2>4, FS_Subset
    <3>5. \A j \in Ids : k[j] \in Nat /\ g[j] \in Nat
      BY <2>3, <2>4, <3>1, <3>2
    <3>6. Total(h, R) = Total(k, R) /\ Total(f, R) = Total(g, R) /\ Total(h, R) \in Nat /\ Total(f, R) \in Nat
      <4> HIDE DEF R
      <4>1. QED
        BY ONLY <3>4, TotalSame, TotalNat
    <3>7. /\ Total(h, Ids) = h[i] + Total(h, R) /\ Total(k, Ids) = k[i] + Total(k, R)
          /\ Total(f, Ids) = f[i] + Total(f, R) /\ Total(g, Ids) = g[i] + Total(g, R)
      BY ONLY <2>3, <3>5, TotalTake, i \in Ids
    <3>8. Total(k, Ids) = Total(h, Ids) + 1
      BY <2>3, <3>1, <3>6, <3>7
    <3>9. Total(g, Ids) = IF Passed(inst[i]) THEN Total(f, Ids) ELSE Total(f, Ids) + 1
      BY <2>3, <3>2, <3>6, <3>7
    <3>10. QED
      BY <2>1, <2>2, <2>3, <3>3, <3>8, <3>9 DEF k, g
  <2>7. QED
    BY <2>5, <2>6
<1>9. QED
  BY <1>7, <1>8 DEF BytesKept

\* Steps that leave the counters alone: those that do not touch the instances, and those that change one
\* of them otherwise.
LEMMA IdleCounts ==
  ASSUME BytesTyped, BytesKept, UNCHANGED inst, UNCHANGED traffic
  PROVE  BytesTyped' /\ BytesKept'
  BY BytesSame DEF BytesTyped, traffic

LEMMA OneCounts ==
  ASSUME ServedInv, BytesTyped, BytesKept, UNCHANGED traffic, NEW i \in Ids, NEW r, inst' = [inst EXCEPT ![i] = r],
         r.unread = inst[i].unread, r.config = inst[i].config,
         inst[i].state \in {"closing", "closed"} => r.state = inst[i].state,
         r.state \in {"closing", "closed"} => r.state = inst[i].state
  PROVE  BytesTyped' /\ BytesKept'
<1>1. inst'[i] = r /\ \A j \in Ids : j # i => inst'[j] = inst[j]
  BY InstanceIs
<1>2. Passed(r) = Passed(inst[i])
  BY DEF Passed
<1>3. \A j \in Ids : /\ inst'[j].unread = inst[j].unread /\ Passed(inst'[j]) = Passed(inst[j])
                     /\ inst[j].unread > 0 => inst'[j].config = inst[j].config
  BY <1>1, <1>2
<1>4. QED
  BY <1>3, BytesSame DEF BytesTyped, traffic

\* The instance built last holds no bytes: it takes the place of one that nobody used.
LEMMA BuildCounts == ASSUME ServedInv, BytesTyped, BytesKept, Build PROVE BytesTyped' /\ BytesKept'
<1>1. /\ created < MaxStarts /\ created' = created + 1 /\ UNCHANGED traffic
      /\ inst' = [i \in Ids |->
           IF i = created' THEN [Blank EXCEPT !.state = "created", !.config = op.config,
                                              !.manager = Creds(op.users), !.limits = op.users]
           ELSE IF i = instance THEN [inst[i] EXCEPT !.listening = FALSE] ELSE inst[i]]
  BY DEF Build
<1>2. InstancesTyped /\ InstancesKept
  BY DEF ServedInv, KernelShape
<1> DEFINE new == [Blank EXCEPT !.state = "created", !.config = op.config, !.manager = Creds(op.users),
                                !.limits = op.users]
<1>3. new.unread = 0 /\ new.state = "created"
  BY DEF Blank
<1>4. created' \in Ids /\ created' \notin retired \cup {instance, created}
  BY <1>1, <1>2, KernelConstants DEF InstancesTyped, Ids
<1>5. inst[created'].unread = 0 /\ inst[created'].state \notin {"closing", "closed"}
  BY <1>2, <1>4 DEF InstancesKept, Uncounted
<1>6. inst'[created'] = new
  BY <1>1, <1>4
<1> HIDE DEF new
<1>7. ASSUME NEW j \in Ids, j # created'
      PROVE  inst'[j].unread = inst[j].unread /\ inst'[j].state = inst[j].state /\ inst'[j].config = inst[j].config
  <2>1. IsInstance(inst[j]) /\ (inst'[j] = inst[j] \/ inst'[j] = [inst[j] EXCEPT !.listening = FALSE])
    BY <1>1, <1>2, <1>7 DEF InstancesTyped
  <2>2. QED
    BY <2>1 DEF IsInstance
<1>8. \A j \in Ids : /\ inst'[j].unread = inst[j].unread /\ Passed(inst'[j]) = Passed(inst[j])
                     /\ inst[j].unread > 0 => inst'[j].config = inst[j].config
  <2>1. ASSUME NEW j \in Ids, j = created'
        PROVE  inst'[j].unread = inst[j].unread /\ Passed(inst'[j]) = Passed(inst[j]) /\ ~ (inst[j].unread > 0)
    BY <1>3, <1>5, <1>6, <2>1 DEF Passed
  <2>2. ASSUME NEW j \in Ids, j # created'
        PROVE  /\ inst'[j].unread = inst[j].unread /\ Passed(inst'[j]) = Passed(inst[j])
               /\ inst'[j].config = inst[j].config
    BY <1>7, <2>2 DEF Passed
  <2>3. QED
    BY <2>1, <2>2
<1>9. QED
  BY <1>1, <1>8, BytesSame DEF BytesTyped, traffic

LEMMA StartCounts ==
  ASSUME ServedInv, BytesTyped, BytesKept, StartSucceeds \/ StartFails
  PROVE  BytesTyped' /\ BytesKept'
<1>1. /\ op.at = "start" /\ UNCHANGED traffic
      /\ \/ inst' = [inst EXCEPT ![created].state = "up", ![created].listening = TRUE]
         \/ inst' = [inst EXCEPT ![created].state = "gone"]
  BY DEF StartSucceeds, StartFails
<1>2. created \in Ids /\ inst[created].state = "created"
  BY <1>1, IdsOf DEF ServedInv, KernelShape, InstancesKept
<1>3. IsInstance(inst[created]) /\ inst = [j \in Ids |-> inst[j]]
  BY <1>2, InstanceIs
<1>4. PICK r : /\ inst' = [inst EXCEPT ![created] = r] /\ r.unread = inst[created].unread
               /\ r.config = inst[created].config /\ r.state \in {"up", "gone"}
  <2> DEFINE u == [[inst[created] EXCEPT !.state = "up"] EXCEPT !.listening = TRUE]
             g == [inst[created] EXCEPT !.state = "gone"]
  <2>1. inst' = [inst EXCEPT ![created] = u] \/ inst' = [inst EXCEPT ![created] = g]
    BY <1>1, <1>3
  <2>2. u.unread = inst[created].unread /\ u.config = inst[created].config /\ u.state = "up"
    BY <1>3 DEF IsInstance
  <2>3. g.unread = inst[created].unread /\ g.config = inst[created].config /\ g.state = "gone"
    BY <1>3 DEF IsInstance
  <2> HIDE DEF u, g
  <2>4. QED
    BY <2>1, <2>2, <2>3
<1>5. QED
  BY <1>1, <1>2, <1>4, OneCounts

LEMMA RecycledCounts ==
  ASSUME ServedInv, BytesTyped, BytesKept, CloseOld \/ Signal
  PROVE  BytesTyped' /\ BytesKept'
<1>1. /\ op.at \in {"close", "signal"} /\ UNCHANGED traffic
      /\ inst' = (IF op.old = 0 THEN inst ELSE [inst EXCEPT ![op.old].listening = FALSE, ![op.old].state = "draining"])
  BY DEF CloseOld, Signal, Recycled
<1>2. CASE op.old = 0
  BY <1>1, <1>2, IdleCounts
<1>3. CASE op.old # 0
  <2>1. op.old \in Ids /\ inst[op.old].state = "up"
    BY <1>1, <1>3, IdsOf DEF ServedInv, KernelShape, InstancesKept
  <2>2. IsInstance(inst[op.old]) /\ inst = [j \in Ids |-> inst[j]]
    BY <2>1, InstanceIs
  <2> DEFINE r == [[inst[op.old] EXCEPT !.listening = FALSE] EXCEPT !.state = "draining"]
  <2>3. inst' = [inst EXCEPT ![op.old] = r]
    BY <1>1, <1>3, <2>2
  <2>4. r.unread = inst[op.old].unread /\ r.config = inst[op.old].config /\ r.state = "draining"
    BY <2>2 DEF IsInstance
  <2> HIDE DEF r
  <2>5. QED
    BY <1>1, <2>1, <2>3, <2>4, OneCounts
<1>4. QED
  BY <1>2, <1>3

LEMMA EditCounts ==
  ASSUME ServedInv, BytesTyped, BytesKept, RemoveOne \/ AddOne \/ UpdateLimits
  PROVE  BytesTyped' /\ BytesKept'
<1>1. /\ op.at \in {"edit", "limits"} /\ UNCHANGED traffic
      /\ \/ UNCHANGED inst
         \/ \E l : inst' = [inst EXCEPT ![instance].manager = l]
         \/ inst' = [inst EXCEPT ![instance].limits = op.users]
  BY DEF RemoveOne, AddOne, UpdateLimits, Manager
<1>2. CASE UNCHANGED inst
  BY <1>1, <1>2, IdleCounts
<1>3. CASE inst' # inst
  <2>1. instance \in Ids
    BY <1>1, IdsOf DEF ServedInv, KernelShape, ServesStages, Switched, Up
  <2>2. IsInstance(inst[instance]) /\ inst = [j \in Ids |-> inst[j]]
    BY <2>1, InstanceIs
  <2>3. PICK r : /\ inst' = [inst EXCEPT ![instance] = r] /\ r.unread = inst[instance].unread
                 /\ r.config = inst[instance].config /\ r.state = inst[instance].state
    <3>1. CASE \E l : inst' = [inst EXCEPT ![instance].manager = l]
      <4>1. PICK l : inst' = [inst EXCEPT ![instance].manager = l]
        BY <3>1
      <4> DEFINE r == [inst[instance] EXCEPT !.manager = l]
      <4>2. inst' = [inst EXCEPT ![instance] = r]
        BY <2>2, <4>1
      <4>3. r.unread = inst[instance].unread /\ r.config = inst[instance].config /\ r.state = inst[instance].state
        BY <2>2 DEF IsInstance
      <4> HIDE DEF r
      <4>4. QED
        BY <4>2, <4>3
    <3>2. CASE inst' = [inst EXCEPT ![instance].limits = op.users]
      <4> DEFINE r == [inst[instance] EXCEPT !.limits = op.users]
      <4>2. inst' = [inst EXCEPT ![instance] = r]
        BY <2>2, <3>2
      <4>3. r.unread = inst[instance].unread /\ r.config = inst[instance].config /\ r.state = inst[instance].state
        BY <2>2 DEF IsInstance
      <4> HIDE DEF r
      <4>4. QED
        BY <4>2, <4>3
    <3>3. QED
      BY <1>1, <1>3, <3>1, <3>2
  <2>4. QED
    BY <1>1, <2>1, <2>3, OneCounts
<1>4. QED
  BY <1>2, <1>3

LEMMA ConnectionCounts ==
  ASSUME ServedInv, BytesTyped, BytesKept, NEW i \in Ids, Accept(i) \/ Hangup(i)
  PROVE  BytesTyped' /\ BytesKept'
<1>1. PICK n : inst' = [inst EXCEPT ![i] = [inst[i] EXCEPT !.conns = n]] /\ UNCHANGED traffic
  BY DEF Accept, Hangup
<1> DEFINE r == [inst[i] EXCEPT !.conns = n]
<1>2. r.unread = inst[i].unread /\ r.config = inst[i].config /\ r.state = inst[i].state
  BY InstanceIs DEF IsInstance
<1>3. inst' = [inst EXCEPT ![i] = r]
  BY <1>1
<1> HIDE DEF r
<1>4. QED
  BY <1>1, <1>2, <1>3, OneCounts

KernelInv == ServedInv /\ BytesTyped /\ BytesKept

LEMMA KernelStart == ASSUME KernelInit PROVE KernelInv
<1>1. ServedInv
  BY ServedStart
<1>2. BytesTyped
  BY DEF KernelInit, BytesTyped
<1>3. BytesKept
  <2>1. inst = [i \in Ids |-> Blank] /\ \A n \in Nodes : cum[n] = 0 /\ carried[n] = 0 /\ late[n] = 0
    BY DEF KernelInit
  <2>2. \A i \in Ids : inst[i].unread = 0
    BY <2>1 DEF Blank
  <2>3. ASSUME NEW n PROVE Total(Held(inst, n), Ids) = 0 /\ Total(Fresh(inst, n), Ids) = 0
    <3>1. \A i \in Ids : Held(inst, n)[i] = 0
      BY <2>2 DEF Held
    <3>2. \A i \in Ids : Fresh(inst, n)[i] = 0
      BY <3>1 DEF Fresh
    <3>3. IsFiniteSet(Ids)
      BY <1>1, IdsOf DEF ServedInv, KernelShape
    <3>4. QED
      BY <3>1, <3>2, <3>3, TotalZero
  <2>4. QED
    BY <2>1, <2>3 DEF BytesKept
<1>4. QED
  BY <1>1, <1>2, <1>3 DEF KernelInv

LEMMA KernelStep == ASSUME KernelInv, [KernelNext]_kvars PROVE KernelInv'
<1>1. ServedInv /\ ServedInv' /\ BytesTyped /\ BytesKept
  BY ServedStep DEF KernelInv
<1>2. CASE UNCHANGED kvars
  <2>1. UNCHANGED inst /\ UNCHANGED traffic
    BY <1>2 DEF kvars, traffic
  <2>2. QED
    BY <1>1, <2>1, IdleCounts DEF KernelInv
<1>3. CASE \/ AskConfig \/ AskUsers \/ AskAdd \/ AskRemove \/ BuildFails \/ Swap \/ Book \/ Answer \/ Stop \/ Await
  <2>1. UNCHANGED inst /\ UNCHANGED traffic
    <3>1. CASE AskConfig \/ AskUsers \/ AskAdd \/ AskRemove
      BY <1>1, <3>1, AskConfigKeeps, AskUsersKeeps, AskAddKeeps, AskRemoveKeeps DEF core
    <3>2. CASE BuildFails \/ Answer \/ Await
      BY <1>1, <3>2, BuildFailsKeeps, AnswerKeeps, AwaitKeeps DEF core
    <3>3. CASE Swap \/ Book \/ Stop
      BY <3>3 DEF Swap, Book, Stop
    <3>4. QED
      BY <1>3, <3>1, <3>2, <3>3
  <2>2. QED
    BY <1>1, <2>1, IdleCounts DEF KernelInv
<1>4. CASE Build \/ StartSucceeds \/ StartFails \/ CloseOld \/ Signal \/ RemoveOne \/ AddOne \/ UpdateLimits
  BY <1>1, <1>4, BuildCounts, StartCounts, RecycledCounts, EditCounts DEF KernelInv
<1>5. CASE Sample
  BY <1>1, <1>5, SampleCounts DEF KernelInv
<1>6. ASSUME NEW i \in Ids, Recycle(i) \/ Accept(i) \/ Carry(i) \/ Hangup(i) PROVE KernelInv'
  BY <1>1, <1>6, LastReadingCounts, CloseInstanceCounts, ForgetRetiredCounts, CarryCounts, ConnectionCounts
  DEF KernelInv, Recycle
<1>7. QED
  BY <1>2, <1>3, <1>4, <1>5, <1>6 DEF KernelNext, Serve

\* What the accounts and the readable counters know of a node's bytes.
LEMMA KernelSettled == ASSUME KernelInv PROVE SettledOnce
<1>1. InstancesTyped /\ InstancesKept /\ BytesTyped /\ BytesKept
  BY DEF KernelInv, ServedInv, KernelShape
<1>2. ASSUME NEW n \in Nodes
      PROVE  LET read == {i \in retired \cup {instance, created} : i # 0 /\ NodeOf[inst[i].config] = n}
                 known == cum[n] + MapThenSumSet(LAMBDA i : inst[i].unread, read)
             IN carried[n] - late[n] <= known /\ known <= carried[n]
  <2> DEFINE read == {i \in retired \cup {instance, created} : i # 0 /\ NodeOf[inst[i].config] = n}
             h == Held(inst, n)
             f == [i \in read |-> inst[i].unread]
             sum == MapThenSumSet(LAMBDA i : inst[i].unread, read)
  <2>1. read \in SUBSET Ids /\ IsFiniteSet(Ids)
    BY <1>1, IdsOf
  <2>2. IsFiniteSet(read)
    BY <2>1, FS_Subset
  <2>3. \A i \in Ids : inst[i].unread \in Nat /\ h[i] \in Nat
    BY <1>1, HeldIs DEF InstancesTyped, IsInstance
  <2>4. \A i \in read : f[i] \in Nat /\ f[i] = h[i]
    BY <2>1, <2>3 DEF Held
  <2>5. \A i \in Ids \ read : h[i] = 0
    <3>1. ASSUME NEW i \in Ids, h[i] # 0 PROVE i \in read
      <4>1. inst[i].unread > 0 /\ NodeOf[inst[i].config] = n
        BY <3>1 DEF Held
      <4>2. ~Uncounted(i)
        BY <4>1 DEF Uncounted
      <4>3. i \in retired \cup {instance, created} /\ i # 0
        BY <1>1, <4>2 DEF InstancesKept, Ids
      <4>4. QED
        BY <4>1, <4>3
    <3>2. QED
      BY <3>1
  <2>6. sum = Total(f, read)
    BY UnreadTotal
  <2> HIDE DEF h, f, sum
  <2>7. Total(f, read) = Total(h, read) /\ Total(h, Ids) = Total(h, read)
    <3> HIDE DEF read
    <3>1. QED
      BY <2>1, <2>2, <2>3, <2>4, <2>5, TotalSame, TotalWithout
  <2>8. /\ Total(h, Ids) \in Nat /\ Total(Fresh(inst, n), Ids) \in Nat /\ Total(Fresh(inst, n), Ids) <= Total(h, Ids)
        /\ cum[n] + Total(h, Ids) <= carried[n] /\ carried[n] - late[n] <= cum[n] + Total(Fresh(inst, n), Ids)
    BY <1>1, HeldIs DEF BytesKept, h
  <2>9. cum[n] \in Nat /\ carried[n] \in Nat /\ late[n] \in Nat
    BY <1>1 DEF BytesTyped
  <2>10. sum = Total(h, Ids)
    BY <2>6, <2>7
  <2>11. carried[n] - late[n] <= cum[n] + sum /\ cum[n] + sum <= carried[n]
    BY ONLY <2>8, <2>9, <2>10
  <2>12. QED
    BY <2>11 DEF sum
<1>3. QED
  BY <1>2 DEF SettledOnce

LEMMA KernelTyped == ASSUME KernelInv PROVE KernelTypeOK
  BY DEF KernelInv, ServedInv, KernelShape, InstancesTyped, IsInstance, InstanceStates, WishTyped, BytesTyped, KernelTypeOK

---------------------------------------------------------------------------
(* The parts together *)

LifecyclesInv ==
  /\ part = "kernel" => KernelInv
  /\ part = "firewall" => ServeInv
  /\ part = "process" => ProcInv /\ HealthInv /\ ProcContained /\ ProcCounted

LEMMA LifecyclesStart == LifecyclesInit => LifecyclesInv
  BY KernelStart, ServeStart, ProcStart, HealthStart, ContainedStart DEF LifecyclesInit, LifecyclesInv

LEMMA LifecyclesStep == LifecyclesInv /\ [LifecyclesNext]_lifecyclesVars => LifecyclesInv'
<1>1. SUFFICES ASSUME LifecyclesInv, [LifecyclesNext]_lifecyclesVars PROVE LifecyclesInv'
  OBVIOUS
<1>2. part' = part
  BY <1>1 DEF LifecyclesNext, lifecyclesVars
<1>3. CASE part = "kernel"
  <2>1. [KernelNext]_kvars
    BY <1>1, <1>3 DEF LifecyclesNext, lifecyclesVars
  <2>2. QED
    BY <1>1, <1>2, <1>3, <2>1, KernelStep DEF LifecyclesInv
<1>4. CASE part = "firewall"
  <2>1. [Next]_vars
    BY <1>1, <1>4 DEF LifecyclesNext, lifecyclesVars
  <2>2. QED
    BY <1>1, <1>2, <1>4, <2>1, ServeStep DEF LifecyclesInv
<1>5. CASE part = "process"
  <2>1. [ProcNext]_procVars
    BY <1>1, <1>5 DEF LifecyclesNext, lifecyclesVars
  <2>2. ProcInv /\ HealthInv /\ ProcContained /\ ProcCounted
    BY <1>1, <1>5 DEF LifecyclesInv
  <2>3. ProcContained'
    BY <2>1, <2>2, ContainedStep
  <2>4. QED
    BY <1>2, <1>5, <2>1, <2>2, <2>3, ProcStep, HealthStep, CountedStep DEF LifecyclesInv
<1>6. QED
  BY <1>2, <1>3, <1>4, <1>5 DEF LifecyclesInv

LEMMA LifecyclesAlways == LifecyclesSpec => []LifecyclesInv
BY LifecyclesStart, LifecyclesStep, PTL DEF LifecyclesSpec

\* The record of what is ours goes with it as long as a save is safe.
LEMMA RecordAlways == ASSUME SaveIsSafe PROVE LifecyclesSpec => [](part = "firewall" => FireInv)
<1>1. LifecyclesInit => (part = "firewall" => FireInv)
  BY FireStart DEF LifecyclesInit
<1>2. ASSUME part = "firewall" => FireInv, [LifecyclesNext]_lifecyclesVars PROVE (part = "firewall" => FireInv)'
  <2>1. SUFFICES ASSUME part' = "firewall" PROVE FireInv'
    OBVIOUS
  <2>2. part = "firewall" /\ [Next]_vars
    BY <1>2, <2>1 DEF LifecyclesNext, lifecyclesVars
  <2>3. QED
    BY <1>2, <2>2, FireStep
<1>3. QED
  BY <1>1, <1>2, PTL DEF LifecyclesSpec

\* The types of the three parts, for all constants; a process restarts at most once for every edit.
THEOREM LifecyclesTyped == LifecyclesSpec => []LifecyclesTypeOK
<1>1. LifecyclesInv => LifecyclesTypeOK
  BY KernelTyped, FireTypes, ProcTypes DEF LifecyclesInv, KernelInv, LifecyclesTypeOK
<1>2. QED
  BY <1>1, LifecyclesAlways, PTL

\* However instances are replaced, fail to start, are edited, drain and close, a byte is accounted at most
\* once, to the node it was carried for, and none is lost that came before its instance's last reading;
\* and when the service's call has returned, a running kernel serves what was asked for last, through one
\* instance, and one that does not run has no port.
THEOREM KernelSettlesHolds == LifecyclesSpec => []KernelSettles
<1>1. LifecyclesInv => KernelSettles
  BY KernelSettled, ServedSound DEF LifecyclesInv, KernelInv, KernelSettles
<1>2. QED
  BY <1>1, LifecyclesAlways, PTL

\* Services of two generations never run together, nor do their firewall and clock managers, and /healthz
\* is about the services that run.
THEOREM GenerationSoundHolds == LifecyclesSpec => []GenerationSound
<1>1. LifecyclesInv => GenerationSound
  BY InvGivesOneGeneration, BookedIsCurrent DEF LifecyclesInv, GenerationSound
<1>2. QED
  BY <1>1, LifecyclesAlways, PTL

\* While one node's plan is applied, changed, refused or given back, half done or failing, the ports and
\* redirects that other nodes were promised stay, whatever the plans, the rules and the failures: a call
\* removes only what is not wanted, after everything wanted is in, and wanted rules cover every plan.
THEOREM AckedStayServedHolds == LifecyclesSpec => [](part = "firewall" => AckedStayServed)
<1>1. LifecyclesInv => (part = "firewall" => AckedStayServed)
  BY DEF LifecyclesInv, ServeInv, Promised, AckedStayServed
<1>2. QED
  BY <1>1, LifecyclesAlways, PTL

\* Together with the record, as long as a save that reports an error has left the old file.
THEOREM RulesHoldAlways == ASSUME SaveIsSafe PROVE LifecyclesSpec => []RulesHold
<1>1. LifecyclesInv /\ (part = "firewall" => FireInv) => RulesHold
  BY DEF LifecyclesInv, ServeInv, Promised, AckedStayServed, FireInv, RulesHold
<1>2. QED
  BY <1>1, LifecyclesAlways, RecordAlways, PTL
====
