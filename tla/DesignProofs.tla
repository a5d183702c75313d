---------------------------- MODULE DesignProofs ----------------------------
(***************************************************************************)
(* Inductive invariants of the smaller systems, for every value of their   *)
(* constants.  They share nothing, so that each argument is about one      *)
(* module: XStarts, XSteps and XShows say that the invariant of X holds at *)
(* the start, is kept by every step of X, and gives the property of X.     *)
(* Here are most systems under reasoning/, reflection/, action/,           *)
(* observability/ and cmd/; MemoryProofs has the others, and MCDesigns,    *)
(* which runs the systems one at a time, concludes its properties from     *)
(* all.                                                                    *)
(***************************************************************************)
EXTENDS FiniteSets, Integers, Sequences, TLAPS, WellFoundedInduction,
  FiniteSetTheorems, SequenceTheorems

CONSTANTS MaxMessages, Pushers, MaxIterations, MaxTaskID, BeamSize, MaxDepth, NSim,
  ForestSize, MaxOptions, FullReward, Versions, SkillTenants, SkillRuns, MinimumSamples,
  Window, MaxEvents, MaxClock, MaxClaims, MaxSteps, Threshold, Sure, Batch, CompareWindow,
  MaxLessons, MaxTraces, MaxUses, MaxCritiques, QualityThreshold, Perfect, Tools,
  AllowedTools, Risk, AutoApprove, RequireHuman, MaxToolRounds, StateKeys, ToolCalls,
  RefsOf, OutputsOf, GivenBy, SaaSTenants, LockedTenants, Flags, SecurityFlags, Operators,
  MaxEffects, Decisions, TaskSamples, MaxDecisions, MaxSamples, Objects, Proses, Fences

\* A list of tasks has room for one task.
ASSUME DesignsAssumption == MaxTaskID \in Nat \ {0}
\* Calls and keys are names; what a call refers to and binds are mechanical keys.
ASSUME OrchestratorAssumption ==
  /\ "" \notin ToolCalls /\ "setup" \notin ToolCalls
  /\ \A c \in ToolCalls : RefsOf[c] \subseteq StateKeys /\ OutputsOf[c] \in Seq(StateKeys)
\* The samples a skill is judged by are compared with a number.
ASSUME HealthAssumption == MinimumSamples \in Int
\* How many lessons are shown, and how many traces lie between two extractions, are numbers.
ASSUME ReplayAssumption == Batch \in Int /\ MaxLessons \in Int /\ MaxTraces \in Nat
\* The calls of a task are finitely many, and each was skipped or has a ToolExecutionStatus.
ASSUME MetricsAssumption ==
  \A s \in TaskSamples :
    /\ IsFiniteSet(DOMAIN s.expected) /\ IsFiniteSet(DOMAIN s.actual)
    /\ \A i \in DOMAIN s.actual : s.actual[i].status \in {"success", "error", "timeout", "skipped"}
\* A beam holds a thought, there is a simulation, and a full reward is a number of parts
ASSUME TreeAssumption == BeamSize \in Nat \ {0} /\ NSim \in Nat \ {0} /\ FullReward \in Nat
\* that up to NSim answers can share, so that the mean is not rounded.
ASSUME SharesAssumption == \A k \in 1..NSim : \E q \in 0..FullReward : q * k = FullReward
\* A confidence is compared with a number.
ASSUME ReasoningAssumption == Threshold \in Int
\* Messages, tool rounds and heal iterations are counted up to a bound.
ASSUME MessagesAssumption == MaxMessages \in Nat
ASSUME GuardAssumption == MaxToolRounds \in Nat \ {0}
ASSUME HealAssumption == MaxIterations \in Nat \ {0}
\* reflection/critique: a plan is reviewed once at least.
ASSUME CritiqueAssumption == MaxCritiques \in Nat \ {0}

---------------------------------------------------------------------------
(* Positions and sequences.                                                *)

\* A set of positions has a last one.
LEMMA HasLargest ==
  ASSUME NEW n \in Nat, NEW items, items \subseteq 1..n, items # {}
  PROVE  \E m \in items : \A k \in items : k <= m
<1> DEFINE Gaps == {n - k : k \in items}
<1>1. Gaps \subseteq Nat /\ Gaps # {}
  <2>1. \A k \in 1..n : n - k \in Nat
    OBVIOUS
  <2> QED  BY <2>1
<1>2. PICK g \in Gaps : \A h \in Gaps : ~(<<h, g>> \in OpToRel(<, Nat))
  <2> HIDE DEF Gaps
  <2> QED  BY <1>1, NatLessThanWellFounded, WFMin
<1>3. PICK m \in items : g = n - m
  BY <1>2
<1>4. ASSUME NEW k \in items PROVE k <= m
  <2>1. n - k \in Gaps /\ n - k \in Nat /\ g \in Nat
    BY <1>1, <1>2
  <2>2. ~(n - k < g)
    BY <1>2, <2>1 DEF OpToRel
  <2> QED  BY <1>3, <2>2
<1> QED  BY <1>4

LEMMA WithoutLast ==
  ASSUME NEW S, NEW q \in Seq(S), Len(q) > 0
  PROVE  LET r == SubSeq(q, 1, Len(q) - 1)
         IN  r \in Seq(S) /\ Len(r) = Len(q) - 1 /\ \A k \in 1..Len(q) - 1 : r[k] = q[k]
<1>1. Len(q) \in Nat
  OBVIOUS
<1> DEFINE n == Len(q) - 1
<1>2. n \in Int /\ \A k \in 1..n : q[k] \in S
  BY <1>1
<1>3. /\ SubSeq(q, 1, n) \in Seq(S)
      /\ Len(SubSeq(q, 1, n)) = IF 1 <= n THEN n - 1 + 1 ELSE 0
      /\ \A k \in 1..n - 1 + 1 : SubSeq(q, 1, n)[k] = q[1 + k - 1]
  <2> HIDE DEF n
  <2> QED  BY <1>2, SubSeqProperties
<1>4. n - 1 + 1 = n /\ n >= 0 /\ \A k \in 1..n : 1 + k - 1 = k
  BY <1>1
<1> QED  BY <1>3, <1>4

\* How many of S come before i in the order R.
Preceding(S, R, i) == {j \in S : <<j, i>> \in R}
Place(S, R, i) == Cardinality(Preceding(S, R, i))

IsRanking(S, R) ==
  /\ IsFiniteSet(S)
  /\ \A i \in S : <<i, i>> \notin R
  /\ \A i, j \in S : i # j => <<i, j>> \in R \/ <<j, i>> \in R
  /\ \A i, j, k \in S : <<i, j>> \in R /\ <<j, k>> \in R => <<i, k>> \in R

LEMMA PlacesFollowTheOrder ==
  ASSUME NEW S, NEW R, IsRanking(S, R)
  PROVE  /\ \A i \in S : Place(S, R, i) \in 0..(Cardinality(S) - 1)
         /\ \A i, j \in S : <<i, j>> \in R <=> Place(S, R, i) < Place(S, R, j)
<1>1. IsFiniteSet(S) /\ Cardinality(S) \in Nat
  BY FS_CardinalityType DEF IsRanking
<1>2. ASSUME NEW i \in S PROVE IsFiniteSet(Preceding(S, R, i)) /\ Place(S, R, i) \in 0..(Cardinality(S) - 1)
  <2>1. Preceding(S, R, i) \subseteq S \ {i}
    BY DEF Preceding, IsRanking
  <2>2. IsFiniteSet(S \ {i}) /\ Cardinality(S \ {i}) = Cardinality(S) - 1
    BY <1>1, FS_RemoveElement
  <2>3. /\ IsFiniteSet(Preceding(S, R, i)) /\ Cardinality(Preceding(S, R, i)) <= Cardinality(S \ {i})
        /\ Cardinality(Preceding(S, R, i)) \in Nat
    <3>1. IsFiniteSet(Preceding(S, R, i)) /\ Cardinality(Preceding(S, R, i)) <= Cardinality(S \ {i})
      BY <2>1, <2>2, FS_Subset
    <3> QED  BY <3>1, FS_CardinalityType
  <2> QED  BY <1>1, <2>2, <2>3 DEF Place
<1>3. ASSUME NEW i \in S, NEW j \in S, <<i, j>> \in R PROVE Place(S, R, i) < Place(S, R, j)
  <2>1. Preceding(S, R, i) \cup {i} \subseteq Preceding(S, R, j) /\ i \notin Preceding(S, R, i)
    BY <1>3 DEF Preceding, IsRanking
  <2>2. IsFiniteSet(Preceding(S, R, i)) /\ IsFiniteSet(Preceding(S, R, j))
    BY <1>2
  <2>3. Cardinality(Preceding(S, R, i) \cup {i}) = Place(S, R, i) + 1
    BY <2>1, <2>2, FS_AddElement DEF Place
  <2>4. Cardinality(Preceding(S, R, i) \cup {i}) <= Cardinality(Preceding(S, R, j))
    BY <2>1, <2>2, FS_Subset
  <2>5. Place(S, R, i) \in Nat /\ Place(S, R, j) \in Nat
    BY <1>2
  <2> QED  BY <2>3, <2>4, <2>5 DEF Place
<1>4. ASSUME NEW i \in S, NEW j \in S, Place(S, R, i) < Place(S, R, j) PROVE <<i, j>> \in R
  <2>1. Place(S, R, i) \in Int /\ Place(S, R, j) \in Int
    BY <1>2
  <2>2. i # j
    BY <1>4, <2>1
  <2>3. ~(<<j, i>> \in R)
    BY <1>3, <1>4, <2>1
  <2> QED  BY <2>2, <2>3 DEF IsRanking
<1> QED  BY <1>2, <1>3, <1>4

LEMMA HasLastPlaced ==
  ASSUME NEW S, NEW R, IsRanking(S, R), NEW T, T \subseteq S, T # {}
  PROVE  \E m \in T : \A k \in T : Place(S, R, k) <= Place(S, R, m)
<1> DEFINE places == {Place(S, R, k) + 1 : k \in T}
<1>1. Cardinality(S) \in Nat
  BY FS_CardinalityType DEF IsRanking
<1>2. \A k \in T : Place(S, R, k) \in 0..(Cardinality(S) - 1)
  BY PlacesFollowTheOrder
<1>3. places \subseteq 1..Cardinality(S) /\ places # {}
  BY <1>1, <1>2
<1>4. PICK p \in places : \A q \in places : q <= p
  <2> HIDE DEF places
  <2> QED  BY <1>1, <1>3, HasLargest
<1>5. PICK m \in T : p = Place(S, R, m) + 1
  OBVIOUS
<1>6. \A k \in T : Place(S, R, k) + 1 <= Place(S, R, m) + 1
  BY <1>4, <1>5
<1> QED  BY <1>2, <1>6

\* Every place up to the size of the set is somebody's.
LEMMA EveryPlaceIsTaken ==
  ASSUME NEW S, NEW R, IsRanking(S, R)
  PROVE  \A r \in 0..(Cardinality(S) - 1) : \E i \in S : Place(S, R, i) = r
<1>1. IsFiniteSet(S) /\ Cardinality(S) \in Nat
  BY FS_CardinalityType DEF IsRanking
<1>2. \A i \in S : Place(S, R, i) \in 0..(Cardinality(S) - 1) /\ IsFiniteSet(Preceding(S, R, i))
  <2>1. \A i \in S : Preceding(S, R, i) \subseteq S
    BY DEF Preceding
  <2> QED  BY <1>1, <2>1, PlacesFollowTheOrder, FS_Subset
<1>3. ASSUME NEW T, T \subseteq S, NEW m \in T, \A k \in T : Place(S, R, k) <= Place(S, R, m),
             Preceding(S, R, m) \subseteq T
      PROVE  Cardinality(T) = Place(S, R, m) + 1
  <2>1. T = Preceding(S, R, m) \cup {m} /\ m \notin Preceding(S, R, m)
    <3>1. ASSUME NEW k \in T, k # m PROVE k \in Preceding(S, R, m)
      <4>1. ~(<<m, k>> \in R)
        <5>1. Place(S, R, m) \in Int /\ Place(S, R, k) \in Int /\ Place(S, R, k) <= Place(S, R, m)
          BY <1>2, <1>3
        <5>2. <<m, k>> \in R <=> Place(S, R, m) < Place(S, R, k)
          BY <1>3, PlacesFollowTheOrder
        <5> QED  BY <5>1, <5>2
      <4> QED  BY <1>3, <3>1, <4>1 DEF Preceding, IsRanking
    <3> QED  BY <1>3, <3>1 DEF Preceding, IsRanking
  <2>2. IsFiniteSet(Preceding(S, R, m))
    BY <1>2, <1>3
  <2> QED  BY <2>1, <2>2, FS_AddElement DEF Place
<1>4. ASSUME NEW i \in S, Place(S, R, i) > 0 PROVE \E m \in S : Place(S, R, m) = Place(S, R, i) - 1
  <2>1. Preceding(S, R, i) # {} /\ Preceding(S, R, i) \subseteq S
    <3>1. CASE Preceding(S, R, i) = {}
      <4>1. Place(S, R, i) = 0
        BY <3>1, FS_EmptySet DEF Place
      <4> QED  BY <1>4, <4>1
    <3> QED  BY <3>1 DEF Preceding
  <2>2. PICK m \in Preceding(S, R, i) : \A k \in Preceding(S, R, i) : Place(S, R, k) <= Place(S, R, m)
    BY <2>1, HasLastPlaced
  <2>3. Preceding(S, R, m) \subseteq Preceding(S, R, i)
    BY <2>1, <2>2 DEF Preceding, IsRanking
  <2>4. Place(S, R, i) = Place(S, R, m) + 1
    BY <1>3, <2>1, <2>2, <2>3 DEF Place
  <2>5. Place(S, R, m) \in Int
    BY <1>2, <2>1
  <2> QED  BY <2>1, <2>4, <2>5
<1>5. SUFFICES ASSUME NEW r \in 0..(Cardinality(S) - 1), \A i \in S : Place(S, R, i) # r PROVE FALSE
  OBVIOUS
<1> DEFINE missing == {q \in 1..Cardinality(S) : \A i \in S : Place(S, R, i) # q - 1}
<1>6. r + 1 \in missing
  BY <1>1, <1>5
<1>7. PICK q \in missing : \A p \in missing : p <= q
  <2>1. missing \subseteq 1..Cardinality(S) /\ missing # {}
    BY <1>6
  <2> HIDE DEF missing
  <2> QED  BY <1>1, <2>1, HasLargest
<1>8. q \in 1..Cardinality(S) /\ \A i \in S : Place(S, R, i) # q - 1
  OBVIOUS
<1>9. CASE q = Cardinality(S)
  <2>1. S # {}
    BY <1>1, <1>8, <1>9, FS_EmptySet
  <2>2. PICK m \in S : \A k \in S : Place(S, R, k) <= Place(S, R, m)
    BY <2>1, HasLastPlaced
  <2>3. Cardinality(S) = Place(S, R, m) + 1
    <3>1. Preceding(S, R, m) \subseteq S
      BY DEF Preceding
    <3> QED  BY <1>3, <2>2, <3>1
  <2>4. Place(S, R, m) \in Int
    BY <1>2
  <2> QED  BY <1>8, <1>9, <2>3, <2>4
<1>10. CASE q # Cardinality(S)
  <2>1. q + 1 \in 1..Cardinality(S) /\ ~(q + 1 <= q)
    BY <1>1, <1>8, <1>10
  <2>2. q + 1 \notin missing
    BY <1>7, <2>1
  <2>3. PICK i \in S : Place(S, R, i) = q + 1 - 1
    BY <2>1, <2>2
  <2>4. Place(S, R, i) > 0 /\ Place(S, R, i) - 1 = q - 1
    BY <1>8, <2>3
  <2>5. PICK m \in S : Place(S, R, m) = Place(S, R, i) - 1
    BY <1>4, <2>4
  <2> QED  BY <1>8, <2>4, <2>5
<1> QED  BY <1>9, <1>10

\* The sequence of a set in an order: everything once, whatever comes before earlier.
InOrder(S, R) == [r \in 1..Cardinality(S) |-> CHOOSE i \in S : Place(S, R, i) = r - 1]

LEMMA OrderedHasAll ==
  ASSUME NEW S, NEW R, IsRanking(S, R)
  PROVE  /\ Cardinality(S) \in Nat /\ InOrder(S, R) \in [1..Cardinality(S) -> S]
         /\ \A r \in 1..Cardinality(S) : Place(S, R, InOrder(S, R)[r]) = r - 1
         /\ \A i \in S : \E r \in 1..Cardinality(S) : InOrder(S, R)[r] = i /\ Place(S, R, i) = r - 1
         /\ \A q, r \in 1..Cardinality(S) : q < r <=> <<InOrder(S, R)[q], InOrder(S, R)[r]>> \in R
<1> DEFINE n == Cardinality(S)  seq == InOrder(S, R)
<1>1. n \in Nat
  BY FS_CardinalityType DEF IsRanking
<1>2. \A r \in 1..n : \E i \in S : Place(S, R, i) = r - 1
  <2>1. \A r \in 1..n : r - 1 \in 0..(n - 1)
    <3> HIDE DEF n
    <3> QED  BY <1>1
  <2> QED  BY <2>1, EveryPlaceIsTaken
<1>3. \A r \in 1..n : seq[r] \in S /\ Place(S, R, seq[r]) = r - 1
  BY <1>2 DEF InOrder
<1>4. seq \in [1..n -> S]
  BY <1>3 DEF InOrder
<1> HIDE DEF seq
<1>5. ASSUME NEW i \in S PROVE \E r \in 1..n : seq[r] = i /\ Place(S, R, i) = r - 1
  <2>1. PICK p \in 0..(n - 1) : p = Place(S, R, i)
    BY PlacesFollowTheOrder
  <2>2. PICK r \in 1..n : p = r - 1
    <3>1. p + 1 \in 1..n /\ p = p + 1 - 1
      <4> HIDE DEF n
      <4> QED  BY <1>1
    <3> QED  BY <3>1
  <2>3. seq[r] \in S /\ Place(S, R, seq[r]) = p
    BY <1>3, <2>2
  <2>4. ~(Place(S, R, i) < Place(S, R, seq[r])) /\ ~(Place(S, R, seq[r]) < Place(S, R, i))
    BY <2>1, <2>3
  <2>5. seq[r] = i
    BY <2>3, <2>4, PlacesFollowTheOrder DEF IsRanking
  <2> QED  BY <2>1, <2>2, <2>5
<1>6. ASSUME NEW q \in 1..n, NEW r \in 1..n PROVE q < r <=> <<seq[q], seq[r]>> \in R
  <2>1. <<seq[q], seq[r]>> \in R <=> Place(S, R, seq[q]) < Place(S, R, seq[r])
    BY <1>3, PlacesFollowTheOrder
  <2>2. Place(S, R, seq[q]) = q - 1 /\ Place(S, R, seq[r]) = r - 1
    BY <1>3
  <2> QED  BY <2>1, <2>2
<1> QED  BY <1>1, <1>3, <1>4, <1>5, <1>6 DEF seq

\* Where somebody's place is k or more, k places come before it.
LEMMA FirstPlaces ==
  ASSUME NEW S, NEW R, IsRanking(S, R), NEW k \in Nat, NEW i \in S, Place(S, R, i) >= k
  PROVE  Cardinality({j \in S : Place(S, R, j) < k}) = k
<1>1. Cardinality(S) \in Nat /\ Place(S, R, i) \in 0..(Cardinality(S) - 1)
  BY FS_CardinalityType, PlacesFollowTheOrder DEF IsRanking
<1>2. k \in 0..(Cardinality(S) - 1)
  BY <1>1
<1>3. PICK m \in S : Place(S, R, m) = k
  BY <1>2, EveryPlaceIsTaken
<1>4. {j \in S : Place(S, R, j) < k} = Preceding(S, R, m)
  BY <1>3, PlacesFollowTheOrder DEF Preceding
<1> QED  BY <1>3, <1>4 DEF Place


\* Induction along positions, with the set of those for which it holds.
LEMMA AllPositions ==
  ASSUME NEW n \in Nat, NEW P, 0 \in P, \A i \in 1..n : i - 1 \in P => i \in P
  PROVE  0..n \subseteq P
<1> SUFFICES ASSUME NEW i \in 0..n, i \notin P PROVE FALSE
  OBVIOUS
<1> DEFINE missing == {k \in 1..(n + 1) : n - k + 1 \notin P}
<1>1. missing \subseteq 1..(n + 1) /\ n + 1 - i \in missing
  <2>1. n + 1 - i \in 1..(n + 1) /\ n - (n + 1 - i) + 1 = i
    OBVIOUS
  <2> QED  BY <2>1
<1>2. PICK m \in missing : \A k \in missing : k <= m
  <2> HIDE DEF missing
  <2>1. missing # {} /\ n + 1 \in Nat
    BY <1>1
  <2> QED  BY <1>1, <2>1, HasLargest
<1>3. m \in 1..(n + 1) /\ n - m + 1 \notin P
  OBVIOUS
<1>4. n - m + 1 \in 1..n
  <2>1. n - m + 1 # 0
    BY <1>3
  <2> QED  BY <1>3, <2>1
<1>5. n - m + 1 - 1 \notin P
  BY <1>3, <1>4
<1>6. m + 1 \in missing
  <2>1. m + 1 \in 1..(n + 1) /\ n - (m + 1) + 1 = n - m + 1 - 1
    BY <1>3, <1>4
  <2> QED  BY <1>5, <2>1
<1> QED  BY <1>2, <1>3, <1>6

\* What is defined step by step along positions is defined.
StepsIn(n, S) == [1..n -> [S -> S]]
FollowsSteps(f, n, S, a, g) ==
  f \in [0..n -> S] /\ f[0] = a /\ \A i \in 1..n : f[i] = g[i][f[i - 1]]

LEMMA StepByStep ==
  ASSUME NEW n \in Nat, NEW S, NEW a \in S, NEW g \in StepsIn(n, S)
  PROVE  \E f : FollowsSteps(f, n, S, a, g)
<1> DEFINE Upto(f, m) == f[0] = a /\ \A i \in 1..m : f[i] = g[i][f[i - 1]]
           P == {m \in 0..n : \E f \in [0..m -> S] : Upto(f, m)}
<1> USE DEF StepsIn
<1>1. 0 \in P
  <2> DEFINE first == [i \in 0..0 |-> a]
  <2>1. first \in [0..0 -> S] /\ Upto(first, 0) /\ 0 \in 0..n
    OBVIOUS
  <2> HIDE DEF first
  <2> QED  BY <2>1
<1>2. ASSUME NEW m \in 1..n, m - 1 \in P PROVE m \in P
  <2>1. PICK f \in [0..(m - 1) -> S] : Upto(f, m - 1)
    BY <1>2
  <2>2. m - 1 \in 0..(m - 1) /\ f[m - 1] \in S
    OBVIOUS
  <2>3. g[m][f[m - 1]] \in S
    BY <2>2
  <2> DEFINE h == [i \in 0..m |-> IF i <= m - 1 THEN f[i] ELSE g[m][f[m - 1]]]
  <2>4. h \in [0..m -> S]
    <3>1. \A i \in 0..m : i <= m - 1 => f[i] \in S
      OBVIOUS
    <3> QED  BY <2>3, <3>1
  <2>5. /\ \A i \in 0..(m - 1) : h[i] = f[i]
        /\ h[m] = g[m][f[m - 1]]
    OBVIOUS
  <2> HIDE DEF h
  <2>6. h[0] = a
    BY <2>1, <2>5
  <2>7. \A i \in 1..m : h[i] = g[i][h[i - 1]]
    <3> TAKE i \in 1..m
    <3>1. i - 1 \in 0..(m - 1) /\ h[i - 1] = f[i - 1]
      BY <2>5
    <3>2. CASE i = m
      BY <2>5, <3>1, <3>2
    <3>3. CASE i # m
      <4>1. i \in 1..(m - 1) /\ i \in 0..(m - 1)
        BY <3>3
      <4> QED  BY <2>1, <2>5, <3>1, <4>1
    <3> QED  BY <3>2, <3>3
  <2>8. m \in 0..n
    OBVIOUS
  <2> QED  BY <2>4, <2>6, <2>7, <2>8
<1>3. n \in P
  <2> HIDE DEF P
  <2>1. 0..n \subseteq P
    BY <1>1, <1>2, AllPositions
  <2> QED  BY <2>1
<1> QED  BY <1>3 DEF FollowsSteps

\* Sums.
Total(weights) ==
  LET Upto[i \in 0..Len(weights)] == IF i = 0 THEN 0 ELSE Upto[i - 1] + weights[i]
  IN Upto[Len(weights)]

LEMMA TotalsAddUp ==
  ASSUME NEW w \in Seq(Nat)
  PROVE  \E f \in [0..Len(w) -> Nat] :
           /\ f[0] = 0 /\ \A i \in 1..Len(w) : f[i] = f[i - 1] + w[i]
           /\ Total(w) = f[Len(w)]
<1> DEFINE n == Len(w)
           g == [i \in 1..n |-> [k \in Nat |-> k + w[i]]]
           step(f) == [i \in 0..n |-> IF i = 0 THEN 0 ELSE f[i - 1] + w[i]]
           upto == CHOOSE f : f = step(f)
<1>1. n \in Nat /\ \A i \in 1..n : w[i] \in Nat
  OBVIOUS
<1>2. g \in [1..n -> [Nat -> Nat]] /\ \A i \in 1..n, k \in Nat : g[i][k] = k + w[i]
  <2> HIDE DEF n
  <2>1. \A i \in 1..n, k \in Nat : k + w[i] \in Nat
    BY <1>1
  <2> QED  BY <2>1
<1> HIDE DEF g, n
<1>3. PICK f \in [0..n -> Nat] : f[0] = 0 /\ \A i \in 1..n : f[i] = g[i][f[i - 1]]
  <2>1. 0 \in Nat /\ g \in StepsIn(n, Nat)
    BY <1>2 DEF StepsIn
  <2>2. \E f : FollowsSteps(f, n, Nat, 0, g)
    BY <1>1, <2>1, StepByStep, Zenon
  <2> QED  BY <2>2 DEF FollowsSteps
<1>4. \A i \in 1..n : f[i] = f[i - 1] + w[i]
  <2> TAKE i \in 1..n
  <2>1. i - 1 \in 0..n
    BY <1>1
  <2> QED  BY <1>2, <1>3, <2>1
<1>5. f = step(f)
  <2>1. \A i \in 0..n : f[i] = IF i = 0 THEN 0 ELSE f[i - 1] + w[i]
    <3> TAKE i \in 0..n
    <3>1. i = 0 \/ i \in 1..n
      BY <1>1
    <3> QED  BY <1>3, <1>4, <3>1
  <2> QED  BY <2>1
<1>6. upto = step(upto)
  BY <1>5
<1>7. Total(w) = upto[n]
  BY DEF Total, n
<1> HIDE DEF upto
<1>8. \A i \in 0..n : upto[i] = f[i]
  <2> DEFINE P == {i \in 0..n : upto[i] = f[i]}
  <2>1. 0 \in P
    <3>1. 0 \in 0..n
      BY <1>1
    <3> QED  BY <1>3, <1>6, <3>1
  <2>2. ASSUME NEW i \in 1..n, i - 1 \in P PROVE i \in P
    <3>1. i \in 0..n /\ i # 0
      BY <1>1
    <3>2. upto[i] = upto[i - 1] + w[i]
      BY <1>6, <3>1
    <3> QED  BY <1>4, <2>2, <3>1, <3>2
  <2>3. 0..n \subseteq P
    <3> HIDE DEF P
    <3> QED  BY <1>1, <2>1, <2>2, AllPositions
  <2> QED  BY <2>3
<1>9. n \in 0..n
  BY <1>1
<1> QED  BY <1>3, <1>4, <1>7, <1>8, <1>9 DEF n

LEMMA TotalOfNone == Total(<<>>) = 0
<1>1. PICK f \in [0..Len(<<>>) -> Nat] : f[0] = 0 /\ Total(<<>>) = f[Len(<<>>)]
  BY TotalsAddUp, <<>> \in Seq(Nat)
<1> QED  BY <1>1

LEMMA TotalOfMore ==
  ASSUME NEW w \in Seq(Nat), NEW t \in Nat
  PROVE  Total(w) \in Nat /\ Total(Append(w, t)) = Total(w) + t
<1> DEFINE v == Append(w, t)
           n == Len(w)
<1>1. n \in Nat /\ v \in Seq(Nat) /\ Len(v) = n + 1 /\ v[n + 1] = t /\ \A i \in 1..n : v[i] = w[i]
  OBVIOUS
<1>2. PICK f \in [0..n -> Nat] :
        f[0] = 0 /\ (\A i \in 1..n : f[i] = f[i - 1] + w[i]) /\ Total(w) = f[n]
  BY TotalsAddUp
<1>3. PICK h \in [0..(n + 1) -> Nat] :
        h[0] = 0 /\ (\A i \in 1..(n + 1) : h[i] = h[i - 1] + v[i]) /\ Total(v) = h[n + 1]
  BY <1>1, TotalsAddUp
<1> HIDE DEF v, n
<1>4. \A i \in 0..n : h[i] = f[i]
  <2> DEFINE P == {i \in 0..n : h[i] = f[i]}
  <2>1. 0 \in P
    BY <1>1, <1>2, <1>3
  <2>2. ASSUME NEW i \in 1..n, i - 1 \in P PROVE i \in P
    <3>1. i \in 0..n /\ i \in 1..(n + 1)
      BY <1>1
    <3> QED  BY <1>1, <1>2, <1>3, <2>2, <3>1
  <2>3. 0..n \subseteq P
    <3> HIDE DEF P
    <3> QED  BY <1>1, <2>1, <2>2, AllPositions
  <2> QED  BY <2>3
<1>5. n \in 0..n /\ n + 1 \in 1..(n + 1) /\ n + 1 - 1 = n
  BY <1>1
<1>6. h[n + 1] = h[n] + v[n + 1]
  BY <1>3, <1>5
<1>7. Total(v) = Total(w) + t /\ Total(w) \in Nat
  BY <1>1, <1>2, <1>3, <1>4, <1>5, <1>6
<1> QED  BY <1>7 DEF v

---------------------------------------------------------------------------
(* validateAcyclicDependencies of memory/claude_tasklist.                  *)

VARIABLES tasks, states, stack, pending, verdict
dfs == <<tasks, states, stack, pending, verdict>>
DFS == INSTANCE TaskDependencyDFS

Visited == {i \in DFS!TaskID : states[i] = "visited"}
State == {"unvisited", "visiting", "visited"}

\* A graph whose edges are recorded on both sides, without self references.
GraphInv ==
  /\ DOMAIN tasks = DFS!TaskID
  /\ \A i \in DFS!TaskID : /\ tasks[i].blocks \subseteq DFS!TaskID \ {i}
                           /\ tasks[i].blockedBy \subseteq DFS!TaskID \ {i}
  /\ \A i, j \in DFS!TaskID : j \in tasks[i].blocks <=> i \in tasks[j].blockedBy

WalkTypes ==
  /\ states \in [DFS!TaskID -> State]
  /\ stack \in Seq(DFS!TaskID)
  /\ pending \in [DFS!TaskID -> SUBSET DFS!TaskID]
  /\ verdict \in {"idle", "running", "ok", "cycle"}
  /\ verdict = "idle" => stack = << >> /\ \A i \in DFS!TaskID : states[i] = "unvisited"

\* The stack is a path of the graph, and the tasks on it are those being visited.
StackIsPath ==
  /\ \A k \in 1..Len(stack) : states[stack[k]] = "visiting"
  /\ \A i \in DFS!TaskID : states[i] = "visiting" => \E k \in 1..Len(stack) : stack[k] = i
  /\ \A k, l \in 1..Len(stack) : stack[k] = stack[l] => k = l
  /\ \A k \in 1..Len(stack) - 1 : stack[k + 1] \in tasks[stack[k]].blocks

\* What a task being visited blocks was visited, is the next on the stack, or is to come.
LoopsKeepTrack ==
  \A k \in 1..Len(stack) :
    /\ pending[stack[k]] \subseteq tasks[stack[k]].blocks
    /\ \A j \in tasks[stack[k]].blocks :
         \/ j \in pending[stack[k]]
         \/ states[j] = "visited"
         \/ k < Len(stack) /\ j = stack[k + 1]

\* All that a visited task blocks is visited, and no cycle lies among the visited.
VisitedIsClosed ==
  /\ \A i \in Visited : tasks[i].blocks \subseteq Visited
  /\ \A S \in SUBSET Visited : S # {} => \E i \in S : tasks[i].blockedBy \cap S = {}

WalkInv ==
  /\ GraphInv /\ WalkTypes /\ StackIsPath /\ LoopsKeepTrack /\ VisitedIsClosed
  /\ verdict = "ok" => Visited = DFS!TaskID
  /\ verdict = "cycle" => ~DFS!Acyclic(tasks)

LEMMA SnapshotIsGraph ==
  ASSUME NEW edges \in SUBSET {e \in DFS!TaskID \X DFS!TaskID : e[1] # e[2]},
         tasks' = DFS!Snapshot(edges)
  PROVE  GraphInv'
<1>1. DOMAIN tasks' = DFS!TaskID
  BY DEF DFS!Snapshot
<1>2. \A i \in DFS!TaskID : /\ tasks'[i].blocks = {j \in DFS!TaskID : <<i, j>> \in edges}
                            /\ tasks'[i].blockedBy = {j \in DFS!TaskID : <<j, i>> \in edges}
  BY DEF DFS!Snapshot
<1>3. \A i \in DFS!TaskID : <<i, i>> \notin edges
  OBVIOUS
<1>4. ASSUME NEW i \in DFS!TaskID
      PROVE  /\ tasks'[i].blocks \subseteq DFS!TaskID \ {i}
             /\ tasks'[i].blockedBy \subseteq DFS!TaskID \ {i}
  <2>1. ASSUME NEW j \in tasks'[i].blocks PROVE j \in DFS!TaskID /\ j # i
    BY <1>2, <1>3
  <2>2. ASSUME NEW j \in tasks'[i].blockedBy PROVE j \in DFS!TaskID /\ j # i
    BY <1>2, <1>3
  <2> QED  BY <2>1, <2>2
<1>5. ASSUME NEW i \in DFS!TaskID, NEW j \in DFS!TaskID
      PROVE  j \in tasks'[i].blocks <=> i \in tasks'[j].blockedBy
  BY <1>2
<1> QED  BY <1>1, <1>4, <1>5 DEF GraphInv, DFS!TaskID

LEMMA WalkStarts == DFS!Init => WalkInv
<1> SUFFICES ASSUME DFS!Init PROVE WalkInv
  OBVIOUS
<1>1. /\ DOMAIN tasks = DFS!TaskID
      /\ \A i \in DFS!TaskID : tasks[i].blocks = {} /\ tasks[i].blockedBy = {}
  BY DEF DFS!Init, DFS!Snapshot
<1>2. GraphInv
  BY <1>1 DEF GraphInv
<1>3. /\ states \in [DFS!TaskID -> State] /\ \A i \in DFS!TaskID : states[i] = "unvisited"
      /\ stack = << >> /\ verdict = "idle"
  BY <1>1 DEF DFS!Init, State
<1>4. pending \in [DFS!TaskID -> SUBSET DFS!TaskID]
  BY <1>1 DEF DFS!Init
<1>5. stack \in Seq(DFS!TaskID) /\ Len(stack) = 0
  BY <1>3
<1>6. Visited = {}
  BY <1>3 DEF Visited
<1>7. WalkTypes
  BY <1>3, <1>4, <1>5 DEF WalkTypes
<1>8. StackIsPath /\ LoopsKeepTrack
  BY <1>3, <1>5 DEF StackIsPath, LoopsKeepTrack
<1>9. VisitedIsClosed
  BY <1>6 DEF VisitedIsClosed
<1> QED  BY <1>2, <1>3, <1>7, <1>8, <1>9 DEF WalkInv

\* Entering a task that was not seen, as a root or from the task on top of the stack.
LEMMA EnterKeepsPath ==
  ASSUME WalkInv, verdict = "running", NEW i \in DFS!TaskID, states[i] = "unvisited",
         DFS!Enter(i), UNCHANGED <<tasks, verdict>>,
         stack # << >> => i \in tasks[DFS!Top].blocks
  PROVE  StackIsPath' /\ VisitedIsClosed' /\ states' \in [DFS!TaskID -> State]
         /\ stack' \in Seq(DFS!TaskID) /\ Len(stack') = Len(stack) + 1
         /\ stack'[Len(stack')] = i
         /\ \A k \in 1..Len(stack) : stack'[k] = stack[k] /\ stack[k] # i
         /\ \A j \in DFS!TaskID : states[j] = "visited" <=> states'[j] = "visited"
<1>1. /\ states \in [DFS!TaskID -> State] /\ stack \in Seq(DFS!TaskID)
      /\ states' = [states EXCEPT ![i] = "visiting"]
      /\ stack' = Append(stack, i)
  BY DEF WalkInv, WalkTypes, DFS!Enter
<1>2. states' \in [DFS!TaskID -> State] /\ states'[i] = "visiting"
      /\ \A j \in DFS!TaskID : j # i => states'[j] = states[j]
  BY <1>1 DEF State
<1>3. /\ stack' \in Seq(DFS!TaskID) /\ Len(stack') = Len(stack) + 1 /\ Len(stack) \in Nat
      /\ stack'[Len(stack) + 1] = i /\ \A k \in 1..Len(stack) : stack'[k] = stack[k]
  BY <1>1
<1>4. \A k \in 1..Len(stack) : stack[k] \in DFS!TaskID /\ stack[k] # i
                               /\ states[stack[k]] = "visiting"
  BY <1>1 DEF WalkInv, StackIsPath
<1>5. \A k \in 1..Len(stack') : k \in 1..Len(stack) \/ k = Len(stack) + 1
  BY <1>3
<1>6. Visited' = Visited
  BY <1>2 DEF Visited
<1>7. VisitedIsClosed'
  BY <1>6 DEF WalkInv, VisitedIsClosed
<1>8. StackIsPath'
  <2>1. \A k \in 1..Len(stack') : states'[stack'[k]] = "visiting"
    BY <1>2, <1>3, <1>4, <1>5
  <2>2. ASSUME NEW j \in DFS!TaskID, states'[j] = "visiting"
        PROVE  \E k \in 1..Len(stack') : stack'[k] = j
    <3>1. CASE j = i
      BY <1>3, <3>1
    <3>2. CASE j # i
      <4>1. PICK k \in 1..Len(stack) : stack[k] = j
        BY <1>2, <2>2, <3>2 DEF WalkInv, StackIsPath
      <4>2. k \in 1..Len(stack') /\ stack'[k] = j
        BY <1>3, <4>1
      <4> QED  BY <4>2
    <3> QED  BY <3>1, <3>2
  <2>3. ASSUME NEW k \in 1..Len(stack'), NEW l \in 1..Len(stack'), stack'[k] = stack'[l]
        PROVE  k = l
    <3>1. CASE k \in 1..Len(stack) /\ l \in 1..Len(stack)
      BY <1>3, <2>3, <3>1 DEF WalkInv, StackIsPath
    <3>2. CASE k = Len(stack) + 1 \/ l = Len(stack) + 1
      BY <1>3, <1>4, <1>5, <2>3, <3>2
    <3> QED  BY <1>5, <3>1, <3>2
  <2>4. ASSUME NEW k \in 1..Len(stack') - 1
        PROVE  stack'[k + 1] \in tasks'[stack'[k]].blocks
    <3>1. CASE k = Len(stack)
      <4>1. stack # << >> /\ stack'[k] = DFS!Top /\ stack'[k + 1] = i
        BY <1>1, <1>3, <3>1 DEF DFS!Top
      <4> QED  BY <4>1
    <3>2. CASE k # Len(stack)
      <4>1. k \in 1..Len(stack) - 1 /\ k \in 1..Len(stack) /\ k + 1 \in 1..Len(stack)
        BY <1>3, <3>2
      <4> QED  BY <1>3, <4>1 DEF WalkInv, StackIsPath
    <3> QED  BY <3>1, <3>2
  <2> QED  BY <2>1, <2>2, <2>3, <2>4 DEF StackIsPath
<1> QED  BY <1>2, <1>3, <1>4, <1>6, <1>7, <1>8 DEF Visited

\* The loop of the task on top picks a task of its blocks that it has not ranged over.
LEMMA NextIsPending ==
  ASSUME NEW T, T \subseteq DFS!TaskID, T # {}
  PROVE  (CHOOSE k \in T : \A l \in T : k <= l) \in T
<1>1. T \subseteq Nat
  BY DesignsAssumption DEF DFS!TaskID
<1>2. PICK k \in T : \A l \in T : ~(<<l, k>> \in OpToRel(<, Nat))
  BY <1>1, NatLessThanWellFounded, WFMin
<1>3. \A l \in T : ~(l < k)
  BY <1>1, <1>2 DEF OpToRel
<1>4. \A l \in T : k <= l
  BY <1>1, <1>3
<1> QED  BY <1>4

LEMMA TopIsVisiting ==
  ASSUME WalkInv, stack # << >>
  PROVE  /\ Len(stack) \in Nat /\ Len(stack) \in 1..Len(stack)
         /\ DFS!Top = stack[Len(stack)] /\ DFS!Top \in DFS!TaskID
         /\ states[DFS!Top] = "visiting"
         /\ pending[DFS!Top] \subseteq tasks[DFS!Top].blocks
         /\ pending[DFS!Top] \subseteq DFS!TaskID
         /\ \A j \in tasks[DFS!Top].blocks : j \in pending[DFS!Top] \/ states[j] = "visited"
<1>1. stack \in Seq(DFS!TaskID)
  BY DEF WalkInv, WalkTypes
<1>2. /\ Len(stack) \in Nat /\ Len(stack) \in 1..Len(stack)
      /\ DFS!Top = stack[Len(stack)] /\ DFS!Top \in DFS!TaskID
  BY <1>1 DEF DFS!Top
<1>3. states[DFS!Top] = "visiting"
  BY <1>2 DEF WalkInv, StackIsPath
<1>4. /\ pending[DFS!Top] \subseteq tasks[DFS!Top].blocks
      /\ \A j \in tasks[DFS!Top].blocks : j \in pending[DFS!Top] \/ states[j] = "visited"
  BY <1>2 DEF WalkInv, LoopsKeepTrack
<1>5. pending[DFS!Top] \subseteq DFS!TaskID
  BY <1>2 DEF WalkInv, WalkTypes
<1> QED  BY <1>2, <1>3, <1>4, <1>5

\* A back edge closes a cycle: the part of the stack from the task it leads to.
LEMMA BackEdgeIsCycle ==
  ASSUME WalkInv, stack # << >>, NEW j \in tasks[DFS!Top].blocks, states[j] = "visiting"
  PROVE  ~DFS!Acyclic(tasks)
<1>1. stack \in Seq(DFS!TaskID) /\ GraphInv
  BY DEF WalkInv, WalkTypes
<1>2. j \in DFS!TaskID
  BY <1>1, TopIsVisiting DEF GraphInv
<1>3. PICK p \in 1..Len(stack) : stack[p] = j
  BY <1>2 DEF WalkInv, StackIsPath
<1> DEFINE S == {stack[k] : k \in p..Len(stack)}
<1>4. S \subseteq DFS!TaskID /\ DOMAIN tasks = DFS!TaskID
  BY <1>1, <1>3 DEF GraphInv
<1>5. DFS!Top \in S
  BY <1>3, TopIsVisiting
<1>6. ASSUME NEW i \in S PROVE tasks[i].blockedBy \cap S # {}
  <2>1. PICK k \in p..Len(stack) : i = stack[k]
    OBVIOUS
  <2>2. CASE k = p
    <3>1. i = j
      BY <1>3, <2>1, <2>2
    <3>2. DFS!Top \in tasks[i].blockedBy
      BY <1>1, <1>2, <3>1, TopIsVisiting DEF GraphInv
    <3> QED  BY <1>5, <3>2
  <2>3. CASE k # p
    <3>1. k - 1 \in p..Len(stack) /\ k - 1 \in 1..Len(stack) - 1 /\ k - 1 \in 1..Len(stack)
          /\ k \in 1..Len(stack) /\ (k - 1) + 1 = k
      BY <1>1, <1>3, <2>1, <2>3
    <3>2. i \in tasks[stack[k - 1]].blocks
      BY <2>1, <3>1 DEF WalkInv, StackIsPath
    <3>3. stack[k - 1] \in DFS!TaskID /\ i \in DFS!TaskID
      BY <1>1, <1>4, <3>1
    <3>4. stack[k - 1] \in tasks[i].blockedBy
      BY <1>1, <3>2, <3>3 DEF GraphInv
    <3>5. stack[k - 1] \in S
      BY <3>1
    <3> QED  BY <3>4, <3>5
  <2> QED  BY <2>2, <2>3
<1> HIDE DEF S
<1>7. S \in SUBSET DOMAIN tasks /\ S # {}
  BY <1>4, <1>5
<1> QED  BY <1>6, <1>7 DEF DFS!Acyclic

LEMMA RootKeepsWalk ==
  ASSUME WalkInv, NEW i \in DOMAIN tasks, DFS!NextRoot(i)
  PROVE  WalkInv'
<1>1. i \in DFS!TaskID /\ GraphInv /\ tasks[i].blocks \subseteq DFS!TaskID
  BY DEF WalkInv, GraphInv
<1>2. /\ verdict = "running" /\ stack = << >> /\ states[i] = "unvisited" /\ DFS!Enter(i)
      /\ pending' = [pending EXCEPT ![i] = tasks[i].blocks]
      /\ UNCHANGED <<tasks, verdict>>
  BY DEF DFS!NextRoot
<1>3. /\ StackIsPath' /\ VisitedIsClosed' /\ states' \in [DFS!TaskID -> State]
      /\ stack' \in Seq(DFS!TaskID) /\ Len(stack') = Len(stack) + 1
      /\ stack'[Len(stack')] = i
  BY <1>1, <1>2, EnterKeepsPath
<1>4. GraphInv'
  BY <1>1, <1>2 DEF GraphInv
<1>5. pending' \in [DFS!TaskID -> SUBSET DFS!TaskID] /\ pending'[i] = tasks[i].blocks
  BY <1>1, <1>2 DEF WalkInv, WalkTypes
<1>6. WalkTypes'
  BY <1>2, <1>3, <1>5 DEF WalkInv, WalkTypes
<1>7. LoopsKeepTrack'
  <2>1. Len(stack') = 1 /\ stack'[1] = i
    BY <1>2, <1>3
  <2> QED  BY <1>2, <1>5, <2>1 DEF LoopsKeepTrack
<1> QED  BY <1>2, <1>3, <1>4, <1>6, <1>7 DEF WalkInv

LEMMA LoopKeepsWalk ==
  ASSUME WalkInv, DFS!VisitBlocked
  PROVE  WalkInv'
<1> DEFINE t == DFS!Top
           j == CHOOSE k \in pending[t] : \A l \in pending[t] : k <= l
<1>1. /\ verdict = "running" /\ stack # << >> /\ pending[t] # {} /\ UNCHANGED tasks
      /\ \/ /\ states[j] = "unvisited" /\ DFS!Enter(j)
            /\ pending' = [pending EXCEPT ![t] = @ \ {j}, ![j] = tasks[j].blocks]
            /\ UNCHANGED verdict
         \/ /\ states[j] = "visited"
            /\ pending' = [pending EXCEPT ![t] = @ \ {j}]
            /\ UNCHANGED <<states, stack, verdict>>
         \/ /\ states[j] = "visiting" /\ verdict' = "cycle"
            /\ UNCHANGED <<states, stack, pending>>
  BY DEF DFS!VisitBlocked
<1>2. /\ Len(stack) \in Nat /\ Len(stack) \in 1..Len(stack)
      /\ t = stack[Len(stack)] /\ t \in DFS!TaskID
      /\ states[t] = "visiting"
      /\ pending[t] \subseteq tasks[t].blocks /\ pending[t] \subseteq DFS!TaskID
  BY <1>1, TopIsVisiting
<1>3. j \in pending[t] /\ j \in DFS!TaskID /\ j \in tasks[t].blocks
  BY <1>1, <1>2, NextIsPending
<1>4. GraphInv /\ GraphInv' /\ j # t /\ tasks[j].blocks \subseteq DFS!TaskID
  BY <1>1, <1>2, <1>3 DEF WalkInv, GraphInv
<1>5. /\ pending \in [DFS!TaskID -> SUBSET DFS!TaskID] /\ states \in [DFS!TaskID -> State]
      /\ stack \in Seq(DFS!TaskID)
  BY DEF WalkInv, WalkTypes
<1> HIDE DEF t, j
<1>6. ASSUME states[j] = "unvisited", DFS!Enter(j), UNCHANGED verdict,
             pending' = [pending EXCEPT ![t] = @ \ {j}, ![j] = tasks[j].blocks]
      PROVE  WalkInv'
  <2>1. /\ StackIsPath' /\ VisitedIsClosed' /\ states' \in [DFS!TaskID -> State]
        /\ stack' \in Seq(DFS!TaskID) /\ Len(stack') = Len(stack) + 1
        /\ stack'[Len(stack')] = j
        /\ \A k \in 1..Len(stack) : stack'[k] = stack[k] /\ stack[k] # j
        /\ \A n \in DFS!TaskID : states[n] = "visited" <=> states'[n] = "visited"
    BY <1>1, <1>3, <1>6, EnterKeepsPath DEF t
  <2>2. /\ pending' \in [DFS!TaskID -> SUBSET DFS!TaskID]
        /\ pending'[j] = tasks[j].blocks /\ pending'[t] = pending[t] \ {j}
        /\ \A n \in DFS!TaskID : n # j /\ n # t => pending'[n] = pending[n]
    BY <1>2, <1>3, <1>4, <1>5, <1>6
  <2>3. WalkTypes'
    BY <1>1, <1>6, <2>1, <2>2 DEF WalkTypes
  <2>4. ASSUME NEW k \in 1..Len(stack'), NEW n \in tasks'[stack'[k]].blocks
        PROVE  \/ n \in pending'[stack'[k]] \/ states'[n] = "visited"
               \/ k < Len(stack') /\ n = stack'[k + 1]
    <3>1. CASE k = Len(stack')
      BY <1>1, <2>1, <2>2, <2>4, <3>1
    <3>2. CASE k = Len(stack)
      <4>1. stack'[k] = t /\ stack'[k + 1] = j /\ k < Len(stack')
        BY <1>2, <2>1, <3>2
      <4>2. n \in pending[t] \/ states[n] = "visited"
        BY <1>1, <2>4, <4>1, TopIsVisiting DEF t
      <4>3. n \in DFS!TaskID
        BY <1>1, <1>2, <1>4, <2>4, <4>1 DEF GraphInv
      <4> QED  BY <2>1, <2>2, <4>1, <4>2, <4>3
    <3>3. CASE k # Len(stack') /\ k # Len(stack)
      <4>1. k \in 1..Len(stack) /\ k + 1 \in 1..Len(stack) /\ k < Len(stack) /\ k < Len(stack')
        BY <1>2, <2>1, <3>3
      <4>2. stack'[k] = stack[k] /\ stack'[k + 1] = stack[k + 1] /\ stack[k] # j
            /\ stack[k] \in DFS!TaskID
        BY <1>5, <2>1, <4>1
      <4>3. stack[k] # t
        BY <1>2, <4>1 DEF WalkInv, StackIsPath
      <4>4. n \in pending[stack[k]] \/ states[n] = "visited" \/ n = stack[k + 1]
        BY <1>1, <2>4, <4>1, <4>2 DEF WalkInv, LoopsKeepTrack
      <4>5. n \in DFS!TaskID
        BY <1>1, <1>4, <2>4, <4>2 DEF GraphInv
      <4> QED  BY <2>1, <2>2, <4>1, <4>2, <4>3, <4>4, <4>5
    <3> QED  BY <3>1, <3>2, <3>3
  <2>5. ASSUME NEW k \in 1..Len(stack')
        PROVE  pending'[stack'[k]] \subseteq tasks'[stack'[k]].blocks
    <3>1. CASE k = Len(stack')
      BY <1>1, <2>1, <2>2, <3>1
    <3>2. CASE k # Len(stack')
      <4>1. k \in 1..Len(stack) /\ stack'[k] = stack[k] /\ stack[k] # j
            /\ stack[k] \in DFS!TaskID
        BY <1>2, <1>5, <2>1, <3>2
      <4>2. pending[stack[k]] \subseteq tasks[stack[k]].blocks
        BY <4>1 DEF WalkInv, LoopsKeepTrack
      <4> QED  BY <1>1, <2>2, <4>1, <4>2
    <3> QED  BY <3>1, <3>2
  <2>6. LoopsKeepTrack'
    BY <2>4, <2>5 DEF LoopsKeepTrack
  <2> QED  BY <1>1, <1>4, <1>6, <2>1, <2>3, <2>6 DEF WalkInv
<1>7. ASSUME states[j] = "visited", UNCHANGED <<states, stack, verdict>>,
             pending' = [pending EXCEPT ![t] = @ \ {j}]
      PROVE  WalkInv'
  <2>1. /\ pending' \in [DFS!TaskID -> SUBSET DFS!TaskID]
        /\ pending'[t] = pending[t] \ {j}
        /\ \A n \in DFS!TaskID : n # t => pending'[n] = pending[n]
    BY <1>2, <1>5, <1>7
  <2>2. WalkTypes' /\ StackIsPath' /\ VisitedIsClosed'
    BY <1>1, <1>7, <2>1 DEF WalkInv, WalkTypes, StackIsPath, VisitedIsClosed, Visited
  <2>3. ASSUME NEW k \in 1..Len(stack)
        PROVE  /\ pending'[stack[k]] \subseteq pending[stack[k]]
               /\ \A n \in pending[stack[k]] : n \in pending'[stack[k]] \/ states[n] = "visited"
    <3>1. stack[k] \in DFS!TaskID
      BY <1>5
    <3> QED  BY <1>7, <2>1, <3>1
  <2>4. LoopsKeepTrack'
    <3>1. LoopsKeepTrack
      BY DEF WalkInv
    <3> QED  BY <1>1, <1>7, <2>3, <3>1 DEF LoopsKeepTrack
  <2> QED  BY <1>1, <1>4, <1>7, <2>2, <2>4 DEF WalkInv
<1>8. ASSUME states[j] = "visiting", verdict' = "cycle", UNCHANGED <<states, stack, pending>>
      PROVE  WalkInv'
  <2>1. ~DFS!Acyclic(tasks)
    BY <1>1, <1>3, <1>8, BackEdgeIsCycle DEF t
  <2>2. ~DFS!Acyclic(tasks)'
    BY <1>1, <2>1 DEF DFS!Acyclic
  <2>3. WalkTypes' /\ StackIsPath' /\ LoopsKeepTrack' /\ VisitedIsClosed'
    BY <1>1, <1>8 DEF WalkInv, WalkTypes, StackIsPath, LoopsKeepTrack, VisitedIsClosed, Visited
  <2> QED  BY <1>4, <1>8, <2>2, <2>3 DEF WalkInv
<1> QED  BY <1>1, <1>6, <1>7, <1>8

\* The task on top has ended its loop: all it blocks is visited, and nothing visited
\* blocks it, so that no cycle goes through it.
LEMMA LeaveKeepsWalk ==
  ASSUME WalkInv, DFS!Leave
  PROVE  WalkInv'
<1> DEFINE t == DFS!Top
           m == Len(stack)
<1>1. /\ verdict = "running" /\ stack # << >> /\ pending[t] = {}
      /\ states' = [states EXCEPT ![t] = "visited"]
      /\ stack' = SubSeq(stack, 1, m - 1)
      /\ UNCHANGED <<tasks, pending, verdict>>
  BY DEF DFS!Leave
<1>2. /\ m \in Nat /\ m \in 1..m /\ t = stack[m] /\ t \in DFS!TaskID
      /\ states[t] = "visiting"
      /\ \A j \in tasks[t].blocks : states[j] = "visited"
  BY <1>1, TopIsVisiting
<1>3. /\ pending \in [DFS!TaskID -> SUBSET DFS!TaskID] /\ states \in [DFS!TaskID -> State]
      /\ stack \in Seq(DFS!TaskID) /\ GraphInv /\ StackIsPath /\ LoopsKeepTrack
      /\ VisitedIsClosed
  BY DEF WalkInv, WalkTypes
<1>4. GraphInv'
  BY <1>1, <1>3 DEF GraphInv
<1>5. /\ stack' \in Seq(DFS!TaskID) /\ Len(stack') = m - 1
      /\ \A k \in 1..m - 1 : stack'[k] = stack[k]
  BY <1>1, <1>2, <1>3, WithoutLast
<1> HIDE DEF t
<1>6. /\ states' \in [DFS!TaskID -> State] /\ states'[t] = "visited"
      /\ \A j \in DFS!TaskID : j # t => states'[j] = states[j]
  BY <1>1, <1>2, <1>3 DEF State
<1>7. \A k \in 1..m - 1 : k \in 1..m /\ stack[k] # t /\ stack[k] \in DFS!TaskID
  BY <1>2, <1>3 DEF StackIsPath
<1>8. WalkTypes'
  BY <1>1, <1>3, <1>5, <1>6 DEF WalkInv, WalkTypes
<1>9. StackIsPath'
  <2>1. \A k \in 1..Len(stack') : states'[stack'[k]] = "visiting"
    BY <1>3, <1>5, <1>6, <1>7 DEF StackIsPath
  <2>2. ASSUME NEW j \in DFS!TaskID, states'[j] = "visiting"
        PROVE  \E k \in 1..Len(stack') : stack'[k] = j
    <3>1. states[j] = "visiting" /\ j # t
      BY <1>6, <2>2
    <3>2. PICK k \in 1..m : stack[k] = j
      BY <1>3, <3>1 DEF StackIsPath
    <3>3. k \in 1..m - 1
      BY <1>2, <3>1, <3>2
    <3> QED  BY <1>5, <3>2, <3>3
  <2>3. \A k, l \in 1..Len(stack') : stack'[k] = stack'[l] => k = l
    BY <1>3, <1>5, <1>7 DEF StackIsPath
  <2>4. ASSUME NEW k \in 1..Len(stack') - 1 PROVE stack'[k + 1] \in tasks'[stack'[k]].blocks
    <3>1. k \in 1..m - 1 /\ k + 1 \in 1..m - 1
      BY <1>2, <1>5
    <3> QED  BY <1>1, <1>3, <1>5, <3>1 DEF StackIsPath
  <2> QED  BY <2>1, <2>2, <2>3, <2>4 DEF StackIsPath
<1>10. LoopsKeepTrack'
  <2>1. ASSUME NEW k \in 1..Len(stack')
        PROVE  /\ pending'[stack'[k]] \subseteq tasks'[stack'[k]].blocks
               /\ \A j \in tasks'[stack'[k]].blocks :
                    \/ j \in pending'[stack'[k]] \/ states'[j] = "visited"
                    \/ k < Len(stack') /\ j = stack'[k + 1]
    <3>1. k \in 1..m - 1 /\ k \in 1..m /\ stack'[k] = stack[k] /\ stack[k] \in DFS!TaskID
      BY <1>2, <1>5, <1>7
    <3>2. pending[stack[k]] \subseteq tasks[stack[k]].blocks
      BY <1>3, <3>1 DEF LoopsKeepTrack
    <3>3. ASSUME NEW j \in tasks[stack[k]].blocks
          PROVE  \/ j \in pending[stack[k]] \/ states'[j] = "visited"
                 \/ k < Len(stack') /\ j = stack'[k + 1]
      <4>1. j \in DFS!TaskID
        BY <1>3, <3>1 DEF GraphInv
      <4>2. j \in pending[stack[k]] \/ states[j] = "visited" \/ j = stack[k + 1]
        BY <1>3, <3>1 DEF LoopsKeepTrack
      <4>3. CASE states[j] = "visited"
        BY <1>6, <4>1, <4>3
      <4>4. CASE j = stack[k + 1]
        <5>1. CASE k + 1 = m
          BY <1>2, <1>6, <4>4, <5>1
        <5>2. CASE k + 1 # m
          <6>1. k < Len(stack') /\ k + 1 \in 1..m - 1
            BY <1>2, <1>5, <3>1, <5>2
          <6> QED  BY <1>5, <4>4, <6>1
        <5> QED  BY <5>1, <5>2
      <4> QED  BY <4>2, <4>3, <4>4
    <3> QED  BY <1>1, <3>1, <3>2, <3>3
  <2> QED  BY <2>1 DEF LoopsKeepTrack
<1>11. Visited' = Visited \cup {t}
  BY <1>2, <1>6 DEF Visited
<1>12. VisitedIsClosed'
  <2>1. \A i \in Visited : tasks[i].blocks \subseteq Visited /\ i \in DFS!TaskID /\ i # t
    BY <1>2, <1>3 DEF VisitedIsClosed, Visited
  <2>2. tasks[t].blocks \subseteq Visited
    BY <1>2, <1>3 DEF GraphInv, Visited
  <2>3. \A i \in Visited' : tasks'[i].blocks \subseteq Visited'
    BY <1>1, <1>11, <2>1, <2>2
  <2>4. \A i \in Visited : i \notin tasks[t].blockedBy
    <3>1. \A i \in Visited : i \in tasks[t].blockedBy => t \in tasks[i].blocks
      BY <1>2, <1>3, <2>1 DEF GraphInv
    <3>2. t \notin Visited
      BY <2>1
    <3> QED  BY <2>1, <3>1, <3>2
  <2>5. ASSUME NEW S \in SUBSET Visited', S # {}
        PROVE  \E i \in S : tasks'[i].blockedBy \cap S = {}
    <3>1. CASE t \in S
      <4>1. t \notin tasks[t].blockedBy
        BY <1>2, <1>3 DEF GraphInv
      <4>2. tasks'[t].blockedBy \cap S = {}
        BY <1>1, <1>11, <2>4, <2>5, <4>1
      <4> QED  BY <3>1, <4>2
    <3>2. CASE t \notin S
      <4>1. S \in SUBSET Visited
        BY <1>11, <3>2
      <4> QED  BY <1>1, <1>3, <2>5, <4>1 DEF VisitedIsClosed
    <3> QED  BY <3>1, <3>2
  <2> QED  BY <2>3, <2>5 DEF VisitedIsClosed
<1> QED  BY <1>1, <1>4, <1>8, <1>9, <1>10, <1>12 DEF WalkInv

LEMMA WalkSteps == ASSUME WalkInv, [DFS!Next]_dfs PROVE WalkInv'
<1>1. CASE DFS!Load
  <2>1. PICK edges \in SUBSET {e \in DFS!TaskID \X DFS!TaskID : e[1] # e[2]} :
          tasks' = DFS!Snapshot(edges)
    BY <1>1 DEF DFS!Load
  <2>2. GraphInv'
    BY <2>1, SnapshotIsGraph
  <2>3. verdict = "idle" /\ verdict' = "running" /\ UNCHANGED <<states, stack, pending>>
    BY <1>1 DEF DFS!Load
  <2>4. stack = << >> /\ Len(stack) = 0 /\ \A i \in DFS!TaskID : states[i] = "unvisited"
    BY <2>3 DEF WalkInv, WalkTypes
  <2>5. WalkTypes'
    BY <2>3 DEF WalkInv, WalkTypes
  <2>6. StackIsPath' /\ LoopsKeepTrack'
    BY <2>3, <2>4 DEF StackIsPath, LoopsKeepTrack
  <2>7. Visited' = {}
    BY <2>3, <2>4 DEF Visited
  <2>8. VisitedIsClosed'
    BY <2>7 DEF VisitedIsClosed
  <2> QED  BY <2>2, <2>3, <2>5, <2>6, <2>8 DEF WalkInv
<1>2. ASSUME NEW i \in DOMAIN tasks, DFS!NextRoot(i) PROVE WalkInv'
  BY <1>2, RootKeepsWalk
<1>3. CASE DFS!VisitBlocked
  BY <1>3, LoopKeepsWalk
<1>4. CASE DFS!Leave
  BY <1>4, LeaveKeepsWalk
<1>5. CASE DFS!Accept
  <2>1. /\ verdict' = "ok" /\ verdict = "running" /\ stack = << >>
        /\ \A i \in DOMAIN tasks : states[i] # "unvisited"
        /\ UNCHANGED <<tasks, states, stack, pending>>
    BY <1>5 DEF DFS!Accept
  <2>2. \A i \in DFS!TaskID : states[i] # "visiting"
    BY <2>1 DEF WalkInv, StackIsPath
  <2>3. Visited = DFS!TaskID
    BY <2>1, <2>2 DEF WalkInv, WalkTypes, GraphInv, Visited, State
  <2>4. Visited' = Visited
    BY <2>1 DEF Visited
  <2>5. GraphInv' /\ WalkTypes' /\ StackIsPath' /\ LoopsKeepTrack'
    BY <2>1 DEF WalkInv, GraphInv, WalkTypes, StackIsPath, LoopsKeepTrack
  <2>6. VisitedIsClosed'
    BY <2>1, <2>4 DEF WalkInv, VisitedIsClosed
  <2> QED  BY <2>1, <2>3, <2>4, <2>5, <2>6 DEF WalkInv
<1>6. CASE UNCHANGED dfs
  <2>1. UNCHANGED <<tasks, states, stack, pending, verdict>>
    BY <1>6 DEF dfs
  <2>2. GraphInv' /\ WalkTypes' /\ StackIsPath' /\ LoopsKeepTrack'
    BY <2>1 DEF WalkInv, GraphInv, WalkTypes, StackIsPath, LoopsKeepTrack
  <2>3. Visited' = Visited /\ (DFS!Acyclic(tasks))' = DFS!Acyclic(tasks)
    BY <2>1 DEF Visited, DFS!Acyclic
  <2> QED  BY <2>1, <2>2, <2>3 DEF WalkInv, VisitedIsClosed
<1> QED  BY <1>1, <1>2, <1>3, <1>4, <1>5, <1>6 DEF DFS!Next, DFS!Search

LEMMA WalkShows == WalkInv => DFS!VerdictIsAcyclic
<1> SUFFICES ASSUME WalkInv PROVE DFS!VerdictIsAcyclic
  OBVIOUS
<1>1. ASSUME verdict = "ok" PROVE DFS!Acyclic(tasks)
  <2>1. Visited = DOMAIN tasks /\ VisitedIsClosed
    BY <1>1 DEF WalkInv, GraphInv
  <2> QED  BY <2>1 DEF VisitedIsClosed, DFS!Acyclic
<1> QED  BY <1>1 DEF WalkInv, DFS!VerdictIsAcyclic

-----------------------------------------------------------------------------
(* reasoning/tot: a search through thoughts.                               *)

VARIABLES method, tree, leaves, fresh, finals, node, thought
treeVars == <<method, tree, leaves, fresh, finals, node, thought>>
TT == INSTANCE ThoughtTree

TreeNode ==
  [parent : Nat, above : SUBSET Nat, depth : Nat, terminate : BOOLEAN,
   kind : {"thought", "answer"}, value : Nat, rated : BOOLEAN, visits : Nat,
   beam : {"new", "kept", "cut"}]

Thoughts ==
  [at : {"search", "rollout", "merge", "answered", "no answer", "failed"}, answers : Nat]

TreeTypes ==
  /\ method \in {"beam", "mcts"} /\ thought \in Thoughts
  /\ tree \in Seq(TreeNode) /\ \A i \in DOMAIN tree : tree[i].above \subseteq 1..(i - 1)
  /\ leaves \in Seq(Nat) /\ fresh \in Seq(Nat) /\ finals \in Seq(Nat)
  /\ TT!NodesOf(leaves) \cup TT!NodesOf(fresh) \cup TT!NodesOf(finals) \cup {node} \subseteq DOMAIN tree
  /\ Len(leaves) + Len(finals) <= BeamSize

\* The leaves of a round stand side by side, and nothing below them has been compared.
SideBySide(d) ==
  /\ \A n \in TT!NodesOf(leaves) : tree[n].depth = d /\ tree[n].beam # "cut"
  /\ \A n \in TT!NodesOf(fresh) : tree[n].depth = d + 1 /\ tree[n].beam = "new"
  /\ \A n \in DOMAIN tree : tree[n].beam # "new" => tree[n].depth <= d
KeptIsNoWorse ==
  \A m, n \in DOMAIN tree :
    tree[m].beam = "kept" /\ tree[n].beam = "cut" /\ tree[m].depth = tree[n].depth
      /\ m \notin TT!NodesOf(finals)
      => tree[m].value >= tree[n].value
BeamInv == KeptIsNoWorse /\ \E d \in Nat : SideBySide(d)

AnswersBelow(n) == {a \in TT!AnswerNodes : n \in tree[a].above}
FullBelow(n) == {a \in AnswersBelow(n) : tree[a].value = FullReward}
ScoreOf(n) ==
  /\ tree[n].visits = Cardinality(AnswersBelow(n))
  /\ tree[n].value * tree[n].visits = FullReward * Cardinality(FullBelow(n))
SimulationInv ==
  /\ tree[node].kind = "thought" /\ tree[1].kind = "thought"
  /\ \A n \in DOMAIN tree :
       /\ tree[n].beam = "new" /\ tree[n].above \cap TT!AnswerNodes = {}
       /\ tree[n].kind = "answer" => \E p \in DOMAIN tree : p = tree[n].parent /\ TT!IsTerminal(p)
  /\ thought.at \in {"search", "rollout"} => Cardinality(TT!AnswerNodes) < NSim
  /\ \A n \in DOMAIN tree : ScoreOf(n)

TreeInv ==
  /\ TreeTypes
  /\ method = "beam" => BeamInv
  /\ method = "mcts" => SimulationInv

LEMMA RootIsATree ==
  /\ TT!Root \in TreeNode /\ TT!Root.above = {} /\ TT!Root.kind = "thought"
  /\ TT!Root.depth = 0 /\ TT!Root.beam = "new" /\ TT!Root.visits = 0 /\ TT!Root.value = 0
BY DEF TT!Root, TreeNode

FreshStart ==
  /\ tree = <<TT!Root>> /\ leaves = <<1>> /\ fresh = <<>> /\ finals = <<>> /\ node = 1
  /\ method \in {"beam", "mcts"} /\ thought \in Thoughts

LEMMA FreshTree == FreshStart => TreeInv
<1> SUFFICES ASSUME FreshStart PROVE TreeInv
  OBVIOUS
<1> USE DEF FreshStart
<1>1. tree \in Seq(TreeNode) /\ DOMAIN tree = {1} /\ tree[1] = TT!Root
  BY RootIsATree
<1>2. TT!NodesOf(leaves) = {1} /\ TT!NodesOf(fresh) = {} /\ TT!NodesOf(finals) = {}
  BY DEF TT!NodesOf
<1>3. TreeTypes
  <2>1. Len(leaves) + Len(finals) <= BeamSize
    BY TreeAssumption
  <2> QED  BY <1>1, <1>2, <2>1, RootIsATree DEF TreeTypes
<1>4. BeamInv
  <2>1. SideBySide(0)
    BY <1>1, <1>2, RootIsATree DEF SideBySide
  <2> QED  BY <1>1, <2>1, RootIsATree DEF BeamInv, KeptIsNoWorse
<1>5. SimulationInv
  <2>1. TT!AnswerNodes = {}
    BY <1>1, RootIsATree DEF TT!AnswerNodes
  <2>2. AnswersBelow(1) = {} /\ FullBelow(1) = {} /\ Cardinality({}) = 0
    BY <2>1, FS_EmptySet DEF AnswersBelow, FullBelow
  <2>3. ScoreOf(1)
    <3>1. tree[1].visits = 0 /\ tree[1].value = 0 /\ FullReward * 0 = 0
      BY <1>1, RootIsATree, TreeAssumption
    <3>2. tree[1].visits = Cardinality(AnswersBelow(1)) /\ tree[1].value * tree[1].visits = 0
      <4>1. tree[1].visits = Cardinality(AnswersBelow(1))
        BY <2>2, <3>1
      <4>2. tree[1].value * tree[1].visits = 0 * 0 /\ 0 * 0 = 0
        BY <3>1
      <4> QED  BY <4>1, <4>2
    <3>3. FullReward * Cardinality(FullBelow(1)) = 0
      BY <2>2, <3>1
    <3> QED  BY <3>2, <3>3 DEF ScoreOf
  <2> QED  BY <1>1, <2>1, <2>2, <2>3, RootIsATree, TreeAssumption DEF SimulationInv
<1> QED  BY <1>3, <1>4, <1>5 DEF TreeInv

LEMMA TreeStarts == TT!Init => TreeInv
<1> SUFFICES ASSUME TT!Init PROVE TreeInv
  OBVIOUS
<1>1. thought \in Thoughts
  BY DEF TT!Init, Thoughts
<1> QED  BY <1>1, FreshTree DEF TT!Init, FreshStart

\* What remains of a search once it is over or given up.
LEMMA OverKeepsScore ==
  ASSUME TreeInv, UNCHANGED <<method, tree, leaves, fresh, finals, node>>,
         thought' \in Thoughts, thought'.at \notin {"search", "rollout"}
  PROVE  TreeInv'
<1>1. TreeTypes'
  BY DEF TreeInv, TreeTypes, TT!NodesOf
<1>2. BeamInv => BeamInv'
  BY DEF BeamInv, KeptIsNoWorse, SideBySide, TT!NodesOf
<1>3. SimulationInv => SimulationInv'
  BY DEF SimulationInv, ScoreOf, AnswersBelow, FullBelow, TT!AnswerNodes, TT!IsTerminal
<1> QED  BY <1>1, <1>2, <1>3 DEF TreeInv

LEMMA NextTreeKeepsScore == ASSUME TreeInv, TT!NextTree PROVE TreeInv'
<1>1. method \in {"beam", "mcts"} /\ thought \in Thoughts
  BY DEF TreeInv, TreeTypes
<1>2. CASE thought.answers < ForestSize
  <2>1. FreshStart'
    BY <1>1, <1>2 DEF TT!NextTree, FreshStart, TT!Root, Thoughts
  <2>2. (FreshStart => TreeInv)'
    BY FreshTree, PTL
  <2> QED  BY <2>1, <2>2
<1>3. CASE ~(thought.answers < ForestSize)
  <2>1. /\ UNCHANGED <<method, tree, leaves, fresh, finals, node>>
        /\ thought' = [thought EXCEPT !.at = "answered"]
    BY <1>3 DEF TT!NextTree
  <2> QED  BY <1>1, <2>1, OverKeepsScore DEF Thoughts
<1> QED  BY <1>2, <1>3

LEMMA CallKeepsScore == ASSUME TreeInv, TT!CallFails PROVE TreeInv'
<1>1. thought \in Thoughts
  BY DEF TreeInv, TreeTypes
<1>2. /\ UNCHANGED <<method, tree, leaves, fresh, finals, node>>
      /\ thought' = [thought EXCEPT !.at = "failed"]
  BY DEF TT!CallFails
<1> QED  BY <1>1, <1>2, OverKeepsScore DEF Thoughts

LEMMA AnswersKeepScore == ASSUME TreeInv, TT!BeamAnswers PROVE TreeInv'
<1>1. thought \in Thoughts
  BY DEF TreeInv, TreeTypes
<1>2. /\ UNCHANGED <<method, tree, leaves, fresh, finals, node>>
      /\ thought' = [at |-> IF finals = <<>> THEN "no answer" ELSE "merge", answers |-> thought.answers + 1]
  BY DEF TT!BeamAnswers
<1>3. thought' \in Thoughts /\ thought'.at \in {"merge", "no answer"}
  <2> DEFINE end == IF finals = <<>> THEN "no answer" ELSE "merge"
  <2>1. end \in {"merge", "no answer"}
    OBVIOUS
  <2>2. thought' = [at |-> end, answers |-> thought.answers + 1] /\ thought.answers \in Nat
    BY <1>1, <1>2 DEF Thoughts
  <2> HIDE DEF end
  <2>3. thought.answers + 1 \in Nat
    BY <2>2
  <2>4. thought'.at = end /\ thought'.answers = thought.answers + 1
    BY <2>2
  <2> QED  BY <2>1, <2>2, <2>3, <2>4 DEF Thoughts
<1> QED  BY <1>2, <1>3, OverKeepsScore


LEMMA AcceptKeepsScore == ASSUME TreeInv, TT!AcceptFinal PROVE TreeInv'
<1> DEFINE l == Head(leaves)
<1>1. /\ tree \in Seq(TreeNode) /\ leaves \in Seq(Nat) /\ leaves # <<>> /\ finals \in Seq(Nat)
      /\ method = "beam" /\ UNCHANGED <<method, fresh, node, thought>>
      /\ leaves' = Tail(leaves) /\ finals' = Append(finals, l)
      /\ TT!NodesOf(leaves) \subseteq DOMAIN tree /\ Len(leaves) + Len(finals) <= BeamSize
  BY DEF TreeInv, TreeTypes, TT!AcceptFinal
<1>2. l \in Nat /\ l \in TT!NodesOf(leaves) /\ l \in DOMAIN tree
  BY <1>1 DEF TT!NodesOf
<1> HIDE DEF l
<1>3. PICK reward \in Nat : tree' = [tree EXCEPT ![l].value = reward, ![l].rated = TRUE]
  <2>1. tree[l] \in TreeNode
    BY <1>1, <1>2
  <2>2. tree[l].value \in Nat
    BY <2>1 DEF TreeNode
  <2>3. 0 \in Nat /\ FullReward \in Nat
    BY TreeAssumption
  <2> QED  BY <2>2, <2>3 DEF TT!AcceptFinal, TT!Reward, l
<1>4. /\ tree' \in Seq(TreeNode) /\ DOMAIN tree' = DOMAIN tree
      /\ \A n \in DOMAIN tree : n # l => tree'[n] = tree[n]
      /\ \A n \in DOMAIN tree : /\ tree'[n].above = tree[n].above /\ tree'[n].depth = tree[n].depth
                                /\ tree'[n].beam = tree[n].beam
  <2> DEFINE u == [tree[l] EXCEPT !.value = reward, !.rated = TRUE]
  <2>1. tree' = [tree EXCEPT ![l] = u]
    BY <1>3
  <2>2. tree[l] \in TreeNode /\ TRUE \in BOOLEAN
    BY <1>1, <1>2
  <2>3. u \in TreeNode /\ u.depth = tree[l].depth /\ u.above = tree[l].above /\ u.beam = tree[l].beam
    <3>1. u = [tree[l] EXCEPT !.value = reward, !.rated = TRUE]
      OBVIOUS
    <3>2. PICK t \in TreeNode : t = tree[l]
      BY <2>2
    <3>3. u = [t EXCEPT !.value = reward, !.rated = TRUE]
      BY <3>1, <3>2
    <3> HIDE DEF u
    <3>4. /\ u \in TreeNode /\ u.depth = t.depth /\ u.above = t.above /\ u.beam = t.beam
      BY <3>3 DEF TreeNode
    <3> QED  BY <3>2, <3>4
  <2> HIDE DEF u
  <2> QED  BY <1>1, <1>2, <2>1, <2>3
<1>5. /\ leaves' \in Seq(Nat) /\ finals' \in Seq(Nat)
      /\ TT!NodesOf(leaves)' \subseteq TT!NodesOf(leaves)
      /\ TT!NodesOf(finals)' = TT!NodesOf(finals) \cup {l}
      /\ Len(leaves') + Len(finals') = Len(leaves) + Len(finals)
  <2>1. leaves' \in Seq(Nat) /\ Len(leaves') = Len(leaves) - 1 /\ \A i \in DOMAIN leaves' : i + 1 \in DOMAIN leaves /\ leaves'[i] = leaves[i + 1]
    BY <1>1
  <2>2. finals' \in Seq(Nat) /\ Len(finals') = Len(finals) + 1 /\ finals'[Len(finals) + 1] = l
        /\ \A i \in 1..Len(finals) : finals'[i] = finals[i]
    BY <1>1, <1>2
  <2>3. TT!NodesOf(leaves)' \subseteq TT!NodesOf(leaves)
    BY <2>1 DEF TT!NodesOf
  <2>4. TT!NodesOf(finals)' = TT!NodesOf(finals) \cup {l}
    <3>1. DOMAIN finals' = DOMAIN finals \cup {Len(finals) + 1} /\ DOMAIN finals = 1..Len(finals)
      BY <1>1, <2>2
    <3> QED  BY <2>2, <3>1 DEF TT!NodesOf
  <2>5. Len(leaves) \in Nat /\ Len(finals) \in Nat
    BY <1>1
  <2> QED  BY <2>1, <2>2, <2>3, <2>4, <2>5
<1>6. TreeTypes'
  <2>1. TreeTypes
    BY DEF TreeInv
  <2>2. TT!NodesOf(fresh)' = TT!NodesOf(fresh)
    BY <1>1 DEF TT!NodesOf
  <2>3. (TT!NodesOf(leaves) \cup TT!NodesOf(fresh) \cup TT!NodesOf(finals) \cup {node})' \subseteq DOMAIN tree'
    BY <1>1, <1>2, <1>4, <1>5, <2>1, <2>2 DEF TreeTypes
  <2>4. \A i \in DOMAIN tree' : tree'[i].above \subseteq 1..(i - 1)
    BY <1>4, <2>1 DEF TreeTypes
  <2> QED  BY <1>1, <1>4, <1>5, <2>1, <2>3, <2>4 DEF TreeTypes
<1>7. BeamInv'
  <2>1. BeamInv
    BY <1>1 DEF TreeInv
  <2>2. PICK d \in Nat : SideBySide(d)
    BY <2>1 DEF BeamInv
  <2>3. SideBySide(d)'
    <3>1. TT!NodesOf(fresh)' = TT!NodesOf(fresh) /\ TT!NodesOf(fresh) \subseteq DOMAIN tree
      BY <1>1 DEF TT!NodesOf, TreeInv, TreeTypes
    <3> QED  BY <1>1, <1>4, <1>5, <2>2, <3>1 DEF SideBySide
  <2>4. KeptIsNoWorse'
    <3>1. tree[l].beam # "cut"
      BY <1>2, <2>2 DEF SideBySide
    <3> QED  BY <1>2, <1>4, <1>5, <2>1, <3>1 DEF BeamInv, KeptIsNoWorse
  <2> QED  BY <2>3, <2>4 DEF BeamInv
<1> QED  BY <1>1, <1>6, <1>7 DEF TreeInv


LEMMA ExpandedTree ==
  ASSUME TreeTypes, NEW n \in DOMAIN tree, NEW options \in TT!Options
  PROVE  LET larger == TT!Expanded(n, options) IN
         /\ larger \in Seq(TreeNode) /\ Len(options) \in Nat
         /\ DOMAIN larger = 1..(Len(tree) + Len(options)) /\ DOMAIN tree = 1..Len(tree)
         /\ \A i \in DOMAIN tree : larger[i] = tree[i]
         /\ \A i \in DOMAIN larger \ DOMAIN tree :
              /\ larger[i].parent = n /\ larger[i].above = tree[n].above \cup {n}
              /\ larger[i].depth = tree[n].depth + 1 /\ larger[i].kind = "thought"
              /\ larger[i].beam = "new" /\ larger[i].visits = 0 /\ larger[i].value = 0
<1> DEFINE new == [i \in DOMAIN options |-> TT!ThinkNode(n, options[i], "thought")]
<1>1. tree \in Seq(TreeNode) /\ tree[n] \in TreeNode /\ n \in Nat
  BY DEF TreeTypes
<1>2. PICK k \in Nat : options \in [1..k -> BOOLEAN]
  BY DEF TT!Options
<1>3. options \in Seq(BOOLEAN) /\ Len(options) \in Nat /\ DOMAIN options = 1..Len(options)
      /\ \A i \in DOMAIN options : options[i] \in BOOLEAN
  BY <1>2
<1>4. ASSUME NEW b \in BOOLEAN
      PROVE  /\ TT!ThinkNode(n, b, "thought") \in TreeNode
             /\ TT!ThinkNode(n, b, "thought").parent = n
             /\ TT!ThinkNode(n, b, "thought").above = tree[n].above \cup {n}
             /\ TT!ThinkNode(n, b, "thought").depth = tree[n].depth + 1
             /\ TT!ThinkNode(n, b, "thought").kind = "thought"
             /\ TT!ThinkNode(n, b, "thought").beam = "new"
             /\ TT!ThinkNode(n, b, "thought").visits = 0
             /\ TT!ThinkNode(n, b, "thought").value = 0
  BY <1>1 DEF TT!ThinkNode, TreeNode
<1>5. new \in Seq(TreeNode) /\ Len(new) = Len(options)
      /\ \A i \in 1..Len(options) : new[i] = TT!ThinkNode(n, options[i], "thought")
  <2>1. \A i \in 1..Len(options) : TT!ThinkNode(n, options[i], "thought") \in TreeNode
    BY <1>3, <1>4
  <2> QED  BY <1>3, <2>1
<1> HIDE DEF new
<1>6. TT!Expanded(n, options) = tree \o new
  BY DEF TT!Expanded, new
<1> DEFINE larger == tree \o new
<1>7. larger \in Seq(TreeNode) /\ Len(larger) = Len(tree) + Len(options)
      /\ DOMAIN larger = 1..(Len(tree) + Len(options)) /\ DOMAIN tree = 1..Len(tree)
      /\ (\A i \in DOMAIN tree : larger[i] = tree[i])
      /\ (\A i \in DOMAIN larger \ DOMAIN tree : i - Len(tree) \in 1..Len(options) /\ larger[i] = new[i - Len(tree)])
  BY <1>1, <1>3, <1>5
<1> HIDE DEF larger
<1>8. ASSUME NEW i \in DOMAIN larger \ DOMAIN tree
      PROVE  \E b \in BOOLEAN : larger[i] = TT!ThinkNode(n, b, "thought")
  BY <1>3, <1>5, <1>7
<1>9. \A i \in DOMAIN larger \ DOMAIN tree :
        /\ larger[i].parent = n /\ larger[i].above = tree[n].above \cup {n}
        /\ larger[i].depth = tree[n].depth + 1 /\ larger[i].kind = "thought"
        /\ larger[i].beam = "new" /\ larger[i].visits = 0 /\ larger[i].value = 0
  BY <1>4, <1>8
<1> QED  BY <1>3, <1>6, <1>7, <1>9 DEF larger

\* A tree that has only grown has the nodes it had, and what is above its new nodes is in it.
LEMMA ExpandedTypes ==
  ASSUME TreeTypes, NEW n \in DOMAIN tree, NEW options \in TT!Options, tree' = TT!Expanded(n, options)
  PROVE  /\ tree' \in Seq(TreeNode) /\ DOMAIN tree \subseteq DOMAIN tree'
         /\ \A i \in DOMAIN tree' : tree'[i].above \subseteq 1..(i - 1)
<1>1. tree \in Seq(TreeNode) /\ tree[n].above \subseteq 1..(n - 1) /\ n \in 1..Len(tree) /\ Len(tree) \in Nat
  BY DEF TreeTypes
<1>2. /\ tree' \in Seq(TreeNode) /\ Len(options) \in Nat
      /\ DOMAIN tree' = 1..(Len(tree) + Len(options)) /\ DOMAIN tree = 1..Len(tree)
      /\ \A i \in DOMAIN tree : tree'[i] = tree[i]
      /\ \A i \in DOMAIN tree' \ DOMAIN tree : tree'[i].above = tree[n].above \cup {n}
  BY ExpandedTree
<1>3. ASSUME NEW i \in DOMAIN tree' \ DOMAIN tree PROVE tree'[i].above \subseteq 1..(i - 1)
  <2>1. i \in Nat /\ i > Len(tree)
    BY <1>1, <1>2
  <2>2. n \in 1..(i - 1) /\ \A m \in 1..(n - 1) : m \in 1..(i - 1)
    BY <1>1, <2>1
  <2> QED  BY <1>1, <1>2, <2>2
<1>4. \A i \in DOMAIN tree : tree'[i].above \subseteq 1..(i - 1)
  BY <1>2 DEF TreeTypes
<1>5. DOMAIN tree \subseteq DOMAIN tree'
  BY <1>1, <1>2
<1> QED  BY <1>2, <1>3, <1>4, <1>5

LEMMA ExpandKeepsScore == ASSUME TreeInv, TT!ExpandLeaf PROVE TreeInv'
<1> DEFINE l == Head(leaves)
<1>1. /\ TreeTypes /\ BeamInv /\ method = "beam" /\ leaves # <<>>
      /\ UNCHANGED <<method, finals, node, thought>> /\ leaves' = Tail(leaves)
  BY DEF TreeInv, TT!ExpandLeaf
<1>2. tree \in Seq(TreeNode) /\ leaves \in Seq(Nat) /\ fresh \in Seq(Nat) /\ finals \in Seq(Nat)
  BY <1>1 DEF TreeTypes
<1>3. l \in TT!NodesOf(leaves) /\ l \in DOMAIN tree /\ l \in Nat
  BY <1>1, <1>2 DEF TT!NodesOf, TreeTypes
<1> HIDE DEF l
<1>4. PICK options \in TT!Options :
        /\ tree' = TT!Expanded(l, options)
        /\ fresh' = fresh \o [i \in DOMAIN options |-> Len(tree) + i]
  BY DEF TT!ExpandLeaf, l
<1>5. /\ tree' \in Seq(TreeNode) /\ Len(options) \in Nat
      /\ DOMAIN tree' = 1..(Len(tree) + Len(options)) /\ DOMAIN tree = 1..Len(tree)
      /\ \A i \in DOMAIN tree : tree'[i] = tree[i]
      /\ \A i \in DOMAIN tree' \ DOMAIN tree : tree'[i].depth = tree[l].depth + 1 /\ tree'[i].beam = "new"
  BY <1>1, <1>3, <1>4, ExpandedTree
<1>6. tree' \in Seq(TreeNode) /\ DOMAIN tree \subseteq DOMAIN tree'
      /\ \A i \in DOMAIN tree' : tree'[i].above \subseteq 1..(i - 1)
  BY <1>1, <1>3, <1>4, ExpandedTypes
<1>7. fresh' \in Seq(Nat) /\ \A n \in TT!NodesOf(fresh)' : n \in TT!NodesOf(fresh) \/ n \in DOMAIN tree' \ DOMAIN tree
  <2> DEFINE made == [i \in 1..Len(options) |-> Len(tree) + i]
  <2>1. DOMAIN options = 1..Len(options)
    BY <1>4 DEF TT!Options
  <2>2. fresh' = fresh \o made
    BY <1>4, <2>1
  <2>3. Len(tree) \in Nat
    BY <1>2
  <2>4. made \in Seq(Nat) /\ Len(made) = Len(options)
        /\ \A i \in 1..Len(options) : made[i] = Len(tree) + i /\ made[i] \in Nat
    BY <1>5, <2>3
  <2>5. \A i \in 1..Len(options) : made[i] \in DOMAIN tree' \ DOMAIN tree
    BY <1>5, <2>3, <2>4
  <2> HIDE DEF made
  <2>6. fresh \o made \in Seq(Nat) /\ Len(fresh \o made) = Len(fresh) + Len(made)
        /\ \A i \in 1..(Len(fresh) + Len(made)) :
             (fresh \o made)[i] = IF i <= Len(fresh) THEN fresh[i] ELSE made[i - Len(fresh)]
    BY <1>2, <2>4, ConcatProperties
  <2>7. ASSUME NEW i \in DOMAIN fresh'
        PROVE  (i \in DOMAIN fresh /\ fresh'[i] = fresh[i])
               \/ \E j \in 1..Len(options) : fresh'[i] = made[j]
    <3>1. i \in 1..(Len(fresh) + Len(options)) /\ Len(fresh) \in Nat /\ DOMAIN fresh = 1..Len(fresh)
      BY <1>2, <2>2, <2>4, <2>6
    <3>2. CASE i <= Len(fresh)
      BY <2>2, <2>4, <2>6, <3>1, <3>2
    <3>3. CASE ~(i <= Len(fresh))
      <4>1. i - Len(fresh) \in 1..Len(options)
        BY <1>5, <3>1, <3>3
      <4> QED  BY <2>2, <2>4, <2>6, <3>1, <3>3, <4>1
    <3> QED  BY <3>2, <3>3
  <2>8. ASSUME NEW n \in TT!NodesOf(fresh)' PROVE n \in TT!NodesOf(fresh) \/ n \in DOMAIN tree' \ DOMAIN tree
    <3>1. PICK i \in DOMAIN fresh' : n = fresh'[i]
      BY DEF TT!NodesOf
    <3>2. CASE i \in DOMAIN fresh /\ fresh'[i] = fresh[i]
      BY <3>1, <3>2 DEF TT!NodesOf
    <3>3. CASE \E j \in 1..Len(options) : fresh'[i] = made[j]
      BY <2>5, <3>1, <3>3
    <3> QED  BY <2>7, <3>2, <3>3
  <2> QED  BY <2>2, <2>6, <2>8
<1>8. leaves' \in Seq(Nat) /\ TT!NodesOf(leaves)' \subseteq TT!NodesOf(leaves) /\ Len(leaves') <= Len(leaves)
  <2>1. leaves' \in Seq(Nat) /\ Len(leaves') = Len(leaves) - 1
        /\ \A i \in DOMAIN leaves' : i + 1 \in DOMAIN leaves /\ leaves'[i] = leaves[i + 1]
    BY <1>1, <1>2
  <2> QED  BY <1>2, <2>1 DEF TT!NodesOf
<1>9. TreeTypes'
  <2>1. TT!NodesOf(finals)' = TT!NodesOf(finals)
    BY <1>1 DEF TT!NodesOf
  <2>2. (TT!NodesOf(leaves) \cup TT!NodesOf(fresh) \cup TT!NodesOf(finals) \cup {node})' \subseteq DOMAIN tree'
    BY <1>1, <1>6, <1>7, <1>8, <2>1 DEF TreeTypes
  <2>3. Len(leaves') + Len(finals') <= BeamSize
    <3>1. Len(leaves) + Len(finals) <= BeamSize
      BY <1>1 DEF TreeTypes
    <3> QED  BY <1>1, <1>2, <1>8, <3>1, TreeAssumption
  <2> QED  BY <1>1, <1>6, <1>7, <1>8, <2>2, <2>3 DEF TreeTypes
<1>10. BeamInv'
  <2>1. PICK d \in Nat : SideBySide(d)
    BY <1>1 DEF BeamInv
  <2>2. TT!NodesOf(leaves) \subseteq DOMAIN tree /\ TT!NodesOf(fresh) \subseteq DOMAIN tree
    BY <1>1 DEF TreeTypes
  <2>3. SideBySide(d)'
    <3>1. \A n \in DOMAIN tree' \ DOMAIN tree : tree'[n].depth = d + 1 /\ tree'[n].beam = "new"
      BY <1>3, <1>5, <2>1 DEF SideBySide
    <3>2. \A n \in TT!NodesOf(leaves)' : tree'[n].depth = d /\ tree'[n].beam # "cut"
      BY <1>5, <1>8, <2>1, <2>2 DEF SideBySide
    <3>3. \A n \in TT!NodesOf(fresh)' : tree'[n].depth = d + 1 /\ tree'[n].beam = "new"
      BY <1>5, <1>7, <2>1, <2>2, <3>1 DEF SideBySide
    <3>4. \A n \in DOMAIN tree' : tree'[n].beam # "new" => tree'[n].depth <= d
      BY <1>5, <2>1, <3>1 DEF SideBySide
    <3> QED  BY <3>2, <3>3, <3>4 DEF SideBySide
  <2>4. KeptIsNoWorse'
    <3>1. TT!NodesOf(finals)' = TT!NodesOf(finals)
      BY <1>1 DEF TT!NodesOf
    <3>2. \A n \in DOMAIN tree' : tree'[n].beam # "new" => n \in DOMAIN tree /\ tree'[n] = tree[n]
      BY <1>5
    <3>3. KeptIsNoWorse
      BY <1>1 DEF BeamInv
    <3> QED  BY <3>1, <3>2, <3>3 DEF KeptIsNoWorse
  <2> QED  BY <2>3, <2>4 DEF BeamInv
<1> QED  BY <1>1, <1>9, <1>10 DEF TreeInv


LEMMA ThoughtsCount == \A S : TT!Cardinality(S) = Cardinality(S)
BY DEF TT!Cardinality, Cardinality

\* The stable sort: what is cut is behind what is kept.
LEMMA BestOfFresh ==
  ASSUME TreeTypes, NEW rewards \in [TT!NodesOf(fresh) -> TT!Reward], TT!Keep \in 1..Len(fresh)
  PROVE  LET best == TT!Best(rewards) IN
         /\ best \in Seq(Nat) /\ Len(best) = TT!Keep /\ TT!NodesOf(best) \subseteq TT!NodesOf(fresh)
         /\ \A m \in TT!NodesOf(best), n \in TT!NodesOf(fresh) \ TT!NodesOf(best) : rewards[m] >= rewards[n]
<1> DEFINE S == DOMAIN fresh
           R == {e \in S \X S : TT!Ahead(rewards, e[1], e[2])}
           best == [r \in 1..TT!Keep |-> fresh[InOrder(S, R)[r]]]
<1>1. fresh \in Seq(Nat) /\ S = 1..Len(fresh) /\ Len(fresh) \in Nat
  BY DEF TreeTypes
<1>2. \A i \in S : fresh[i] \in TT!NodesOf(fresh) /\ fresh[i] \in Nat /\ rewards[fresh[i]] \in Nat
  <2>1. \A i \in S : fresh[i] \in TT!NodesOf(fresh) /\ fresh[i] \in Nat
    BY <1>1 DEF TT!NodesOf
  <2>2. \A w \in TT!Reward : w \in Nat
    BY TreeAssumption DEF TT!Reward
  <2> QED  BY <2>1, <2>2
<1>3. \A i, j \in S : <<i, j>> \in R <=> TT!Ahead(rewards, i, j)
  OBVIOUS
<1>4. IsRanking(S, R) /\ Cardinality(S) = Len(fresh)
  <2>1. IsFiniteSet(S) /\ Cardinality(S) = Len(fresh)
    <3>1. PICK l \in Nat : l = Len(fresh)
      BY <1>1
    <3>2. IsFiniteSet(1..l) /\ Cardinality(1..l) = l
      BY FS_Interval
    <3> HIDE DEF S
    <3> QED  BY <1>1, <3>1, <3>2
  <2>2. \A i \in S : <<i, i>> \notin R
    BY <1>1, <1>2, <1>3 DEF TT!Ahead
  <2>3. \A i, j \in S : i # j => <<i, j>> \in R \/ <<j, i>> \in R
    BY <1>1, <1>2, <1>3 DEF TT!Ahead
  <2>4. ASSUME NEW i \in S, NEW j \in S, NEW k \in S, <<i, j>> \in R, <<j, k>> \in R PROVE <<i, k>> \in R
    BY <1>1, <1>2, <1>3, <2>4 DEF TT!Ahead
  <2> HIDE DEF S, R
  <2> QED  BY <2>1, <2>2, <2>3, <2>4 DEF IsRanking
<1>5. TT!Best(rewards) = best
  <2>1. \A i \in S : {j \in S : TT!Ahead(rewards, j, i)} = Preceding(S, R, i)
    BY <1>3 DEF Preceding
  <2>2. \A r \in 1..TT!Keep : r \in 1..Cardinality(S)
    BY <1>1, <1>4
  <2>3. ASSUME NEW r \in 1..TT!Keep PROVE TT!Ranked(rewards, r) = InOrder(S, R)[r]
    <3>1. InOrder(S, R)[r] = CHOOSE i \in S : Place(S, R, i) = r - 1
      BY <2>2 DEF InOrder
    <3>2. \A i \in S : TT!Cardinality({j \in S : TT!Ahead(rewards, j, i)}) = Place(S, R, i)
      BY <2>1, ThoughtsCount DEF Place
    <3>3. TT!Ranked(rewards, r) = CHOOSE i \in S : TT!Cardinality({j \in S : TT!Ahead(rewards, j, i)}) = r - 1
      BY DEF TT!Ranked
    <3> HIDE DEF S, R
    <3> QED  BY <3>1, <3>2, <3>3
  <2> QED  BY <2>3 DEF TT!Best
<1> HIDE DEF S, R
<1>6. /\ \A r \in 1..Len(fresh) : InOrder(S, R)[r] \in S
      /\ \A i \in S : \E r \in 1..Len(fresh) : InOrder(S, R)[r] = i
      /\ \A q, r \in 1..Len(fresh) : q < r => <<InOrder(S, R)[q], InOrder(S, R)[r]>> \in R
  BY <1>4, OrderedHasAll
<1>7. \A r \in 1..TT!Keep : r \in 1..Len(fresh)
  BY <1>1
<1>8. best \in Seq(Nat) /\ Len(best) = TT!Keep /\ \A r \in 1..TT!Keep : best[r] = fresh[InOrder(S, R)[r]]
  <2>1. \A r \in 1..TT!Keep : fresh[InOrder(S, R)[r]] \in Nat
    BY <1>2, <1>6, <1>7
  <2> QED  BY <2>1
<1> HIDE DEF best
<1>9. TT!NodesOf(best) = {best[r] : r \in 1..TT!Keep}
  <2>1. DOMAIN best = 1..TT!Keep
    BY <1>8
  <2> QED  BY <2>1, Zenon DEF TT!NodesOf
<1>10. TT!NodesOf(best) \subseteq TT!NodesOf(fresh)
  BY <1>2, <1>6, <1>7, <1>8, <1>9
<1>11. ASSUME NEW m \in TT!NodesOf(best), NEW n \in TT!NodesOf(fresh) \ TT!NodesOf(best)
       PROVE  rewards[m] >= rewards[n]
  <2>1. PICK r \in 1..TT!Keep : m = fresh[InOrder(S, R)[r]]
    BY <1>8, <1>9
  <2>2. PICK j \in S : n = fresh[j]
    BY DEF TT!NodesOf, S
  <2>3. PICK q \in 1..Len(fresh) : InOrder(S, R)[q] = j
    BY <1>6
  <2>4. q \notin 1..TT!Keep
    BY <1>8, <1>9, <2>2, <2>3
  <2>5. r \in 1..Len(fresh) /\ r < q
    BY <1>1, <1>7, <2>4
  <2>6. <<InOrder(S, R)[r], j>> \in R /\ InOrder(S, R)[r] \in S
    BY <1>6, <2>3, <2>5
  <2>7. TT!Ahead(rewards, InOrder(S, R)[r], j)
    BY <1>3, <2>6
  <2> QED  BY <1>2, <2>1, <2>2, <2>6, <2>7 DEF TT!Ahead
<1> QED  BY <1>5, <1>8, <1>10, <1>11


LEMMA RoundKeepsScore == ASSUME TreeInv, TT!NextRound PROVE TreeInv'
<1>1. /\ TreeTypes /\ BeamInv /\ method = "beam" /\ leaves = <<>> /\ fresh # <<>> /\ Len(finals) < BeamSize
      /\ fresh' = <<>> /\ UNCHANGED <<method, finals, node, thought>>
  BY DEF TreeInv, TT!NextRound
<1>2. /\ tree \in Seq(TreeNode) /\ fresh \in Seq(Nat) /\ finals \in Seq(Nat) /\ thought \in Thoughts
      /\ TT!NodesOf(fresh) \subseteq DOMAIN tree /\ TT!NodesOf(finals) \subseteq DOMAIN tree /\ node \in DOMAIN tree
      /\ \A i \in DOMAIN tree : tree[i].above \subseteq 1..(i - 1)
  BY <1>1 DEF TreeTypes
<1>3. Len(fresh) \in Nat /\ Len(finals) \in Nat /\ BeamSize \in Nat
  BY <1>2, TreeAssumption
<1>4. PICK d \in Nat : SideBySide(d)
  BY <1>1 DEF BeamInv
<1>5. TT!NodesOf(fresh)' = {} /\ TT!NodesOf(finals)' = TT!NodesOf(finals)
  BY <1>1 DEF TT!NodesOf
<1>6. \A n \in TT!NodesOf(fresh) : tree[n].depth = d + 1 /\ tree[n].beam = "new"
  BY <1>4 DEF SideBySide
<1>7. \A n \in DOMAIN tree : tree[n].beam # "new" => tree[n].depth <= d
  BY <1>4 DEF SideBySide
<1>8. KeptIsNoWorse
  BY <1>1 DEF BeamInv
<1>9. \A n \in DOMAIN tree : tree[n] \in TreeNode /\ tree[n].depth \in Nat
  <2>1. \A n \in DOMAIN tree : tree[n] \in TreeNode
    BY <1>2
  <2> QED  BY <2>1 DEF TreeNode
<1>10. CASE Len(fresh) + Len(finals) > BeamSize
  <2>1. PICK rewards \in [TT!NodesOf(fresh) -> TT!Reward],
             unparsed \in SUBSET {tree[n].parent : n \in TT!NodesOf(fresh)} :
          /\ leaves' = TT!Best(rewards)
          /\ tree' = [n \in DOMAIN tree |-> IF n \notin TT!NodesOf(fresh) THEN tree[n]
               ELSE [tree[n] EXCEPT !.value = rewards[n], !.rated = tree[n].parent \notin unparsed,
                       !.beam = IF n \in TT!NodesOf(leaves') THEN "kept" ELSE "cut"]]
    BY <1>10 DEF TT!NextRound
  <2>2. TT!Keep \in 1..Len(fresh) /\ TT!Keep = BeamSize - Len(finals)
    BY <1>1, <1>3, <1>10 DEF TT!Keep
  <2>3. /\ leaves' \in Seq(Nat) /\ Len(leaves') = TT!Keep /\ TT!NodesOf(leaves') \subseteq TT!NodesOf(fresh)
        /\ \A m \in TT!NodesOf(leaves'), n \in TT!NodesOf(fresh) \ TT!NodesOf(leaves') : rewards[m] >= rewards[n]
    BY <1>1, <2>1, <2>2, BestOfFresh
  <2> DEFINE kept == TT!NodesOf(leaves')
  <2>4. TT!NodesOf(leaves)' = kept
    BY DEF TT!NodesOf
  <2> HIDE DEF kept
  <2>5. ASSUME NEW n \in TT!NodesOf(fresh)
        PROVE  /\ tree'[n] \in TreeNode /\ tree'[n].value = rewards[n] /\ tree'[n].depth = tree[n].depth
               /\ tree'[n].above = tree[n].above /\ tree'[n].beam = IF n \in kept THEN "kept" ELSE "cut"
    <3>1. n \in DOMAIN tree /\ rewards[n] \in Nat
      <4>1. rewards[n] \in TT!Reward
        BY <2>1
      <4>2. TT!Reward \subseteq Nat
        BY TreeAssumption DEF TT!Reward
      <4> QED  BY <1>2, <4>1, <4>2
    <3>2. PICK t \in TreeNode : t = tree[n]
      BY <1>9, <3>1
    <3> DEFINE rated == tree[n].parent \notin unparsed
               beam == IF n \in kept THEN "kept" ELSE "cut"
    <3>3. rated \in BOOLEAN /\ beam \in {"kept", "cut"}
      OBVIOUS
    <3>4. tree'[n] = [t EXCEPT !.value = rewards[n], !.rated = rated, !.beam = beam]
      BY <2>1, <3>1, <3>2 DEF kept
    <3> HIDE DEF rated, beam
    <3>5. /\ tree'[n] \in TreeNode /\ tree'[n].value = rewards[n] /\ tree'[n].depth = t.depth
          /\ tree'[n].above = t.above /\ tree'[n].beam = beam
      BY <3>1, <3>3, <3>4 DEF TreeNode
    <3> QED  BY <3>2, <3>5 DEF beam
  <2>6. /\ DOMAIN tree' = DOMAIN tree /\ \A n \in DOMAIN tree \ TT!NodesOf(fresh) : tree'[n] = tree[n]
    BY <2>1
  <2>7. tree' \in Seq(TreeNode)
    <3>1. PICK k \in Nat : DOMAIN tree = 1..k
      BY <1>2
    <3>2. tree' = [n \in 1..k |-> tree'[n]]
      BY <2>1, <3>1
    <3>3. \A n \in 1..k : tree'[n] \in TreeNode
      BY <1>9, <2>5, <2>6, <3>1
    <3> QED  BY <3>2, <3>3
  <2>8. \A n \in DOMAIN tree' : tree'[n].above = tree[n].above /\ tree'[n].depth = tree[n].depth
    BY <2>5, <2>6
  <2>9. TreeTypes'
    <3>1. (TT!NodesOf(leaves) \cup TT!NodesOf(fresh) \cup TT!NodesOf(finals) \cup {node})' \subseteq DOMAIN tree'
      BY <1>1, <1>2, <1>5, <2>3, <2>4, <2>6 DEF kept
    <3>2. Len(leaves') + Len(finals') <= BeamSize
      BY <1>1, <1>3, <2>2, <2>3
    <3>3. \A i \in DOMAIN tree' : tree'[i].above \subseteq 1..(i - 1)
      BY <1>2, <2>6, <2>8
    <3> QED  BY <1>1, <1>2, <2>3, <2>7, <3>1, <3>2, <3>3 DEF TreeTypes
  <2>10. SideBySide(d + 1)'
    <3>1. \A n \in TT!NodesOf(leaves)' : tree'[n].depth = d + 1 /\ tree'[n].beam # "cut"
      BY <1>6, <2>3, <2>4, <2>5 DEF kept
    <3>2. \A n \in DOMAIN tree' : tree'[n].beam # "new" => tree'[n].depth <= d + 1
      <4> SUFFICES ASSUME NEW n \in DOMAIN tree', tree'[n].beam # "new" PROVE tree'[n].depth <= d + 1
        OBVIOUS
      <4>1. CASE n \in TT!NodesOf(fresh)
        BY <1>6, <2>5, <4>1
      <4>2. CASE n \notin TT!NodesOf(fresh)
        BY <1>7, <1>9, <2>6, <4>2
      <4> QED  BY <4>1, <4>2
    <3> QED  BY <1>5, <3>1, <3>2 DEF SideBySide
  <2>11. KeptIsNoWorse'
    <3> SUFFICES ASSUME NEW m \in DOMAIN tree', NEW n \in DOMAIN tree', tree'[m].beam = "kept", tree'[n].beam = "cut",
                        tree'[m].depth = tree'[n].depth, m \notin TT!NodesOf(finals)
                 PROVE  tree'[m].value >= tree'[n].value
      BY <1>5 DEF KeptIsNoWorse
    <3>1. tree[m].depth = tree[n].depth
      BY <2>8
    <3>2. CASE m \in TT!NodesOf(fresh) /\ n \in TT!NodesOf(fresh)
      BY <2>3, <2>5, <3>2 DEF kept
    <3>3. CASE m \notin TT!NodesOf(fresh) /\ n \notin TT!NodesOf(fresh)
      BY <1>8, <2>6, <3>1, <3>3 DEF KeptIsNoWorse
    <3>4. CASE m \in TT!NodesOf(fresh) /\ n \notin TT!NodesOf(fresh)
      BY <1>6, <1>7, <1>9, <2>6, <3>1, <3>4
    <3>5. CASE m \notin TT!NodesOf(fresh) /\ n \in TT!NodesOf(fresh)
      BY <1>6, <1>7, <1>9, <2>6, <3>1, <3>5
    <3> QED  BY <3>2, <3>3, <3>4, <3>5
  <2> QED  BY <1>1, <2>9, <2>10, <2>11 DEF TreeInv, BeamInv
<1>11. CASE ~(Len(fresh) + Len(finals) > BeamSize)
  <2>1. leaves' = fresh /\ tree' = tree
    BY <1>11 DEF TT!NextRound
  <2>2. TT!NodesOf(leaves)' = TT!NodesOf(fresh)
    BY <2>1 DEF TT!NodesOf
  <2>3. TreeTypes'
    <3>1. Len(leaves') + Len(finals') <= BeamSize
      BY <1>1, <1>3, <1>11, <2>1
    <3> QED  BY <1>1, <1>2, <1>5, <2>1, <2>2, <3>1 DEF TreeTypes
  <2>4. SideBySide(d + 1)'
    BY <1>5, <1>6, <1>7, <1>9, <2>1, <2>2 DEF SideBySide
  <2>5. KeptIsNoWorse'
    BY <1>5, <1>8, <2>1 DEF KeptIsNoWorse
  <2> QED  BY <1>1, <2>3, <2>4, <2>5 DEF TreeInv, BeamInv
<1> QED  BY <1>10, <1>11


LEMMA SharesAreWhole == ASSUME NEW p \in Nat, NEW m \in Nat \ {0} PROVE (p * m) \div m = p
OBVIOUS

(* What a further reward does to a mean v of k answers, c of them full: the
   mean stays whole, and mean times count counts the full ones.              *)
MeanGrows(v, k, c, u, reward) ==
  v * k = FullReward * c /\ reward = FullReward * u
    => /\ (v * k + reward) \div (k + 1) \in Nat
       /\ ((v * k + reward) \div (k + 1)) * (k + 1) = FullReward * (c + u)

LEMMA MeanOfMore ==
  \A v, c, reward \in Nat : \A k \in 0..(NSim - 1) : \A u \in {0, 1} : MeanGrows(v, k, c, u, reward)
<1> SUFFICES ASSUME NEW v \in Nat, NEW c \in Nat, NEW reward \in Nat, NEW k \in 0..(NSim - 1), NEW u \in {0, 1}
             PROVE  MeanGrows(v, k, c, u, reward)
  OBVIOUS
<1> SUFFICES ASSUME v * k = FullReward * c, reward = FullReward * u
             PROVE  /\ (v * k + reward) \div (k + 1) \in Nat
                    /\ ((v * k + reward) \div (k + 1)) * (k + 1) = FullReward * (c + u)
  BY Zenon DEF MeanGrows
<1>1. k + 1 \in 1..NSim /\ k + 1 \in Nat \ {0} /\ FullReward \in Nat /\ c + u \in Nat
  BY TreeAssumption
<1>2. PICK q \in Nat : q * (k + 1) = FullReward
  BY <1>1, SharesAssumption
<1>3. v * k + reward = FullReward * (c + u)
  <2>1. FullReward * c + FullReward * u = FullReward * (c + u)
    BY <1>1
  <2> QED  BY <2>1
<1> DEFINE m == k + 1  p == q * (c + u)
<1>4. m \in Nat \ {0} /\ p \in Nat
  BY <1>1, <1>2
<1>5. FullReward * (c + u) = p * m
  BY <1>1, <1>2
<1> HIDE DEF m, p
<1>6. (p * m) \div m = p
  BY <1>4, SharesAreWhole
<1>7. v * k + reward = p * m
  BY <1>3, <1>5
<1>8. (v * k + reward) \div m = p
  BY <1>6, <1>7
<1>9. (v * k + reward) \div (k + 1) = p /\ p * (k + 1) = FullReward * (c + u)
  BY <1>5, <1>8 DEF m
<1> QED  BY <1>4, <1>9


\* A step that leaves answers, what is above the nodes and their scores as they are.
LEMMA SelectKeepsScore == ASSUME TreeInv, TT!Select PROVE TreeInv'
<1>1. /\ TreeTypes /\ SimulationInv /\ method = "mcts" /\ thought.at = "search"
      /\ UNCHANGED <<method, tree, leaves, fresh, finals>>
  BY DEF TreeInv, TT!Select
<1>2. \/ node' \in TT!Children(node) /\ ~TT!IsTerminal(node) /\ thought' = thought
      \/ node' = node /\ thought' = [thought EXCEPT !.at = "rollout"]
  BY DEF TT!Select
<1>3. node' \in DOMAIN tree /\ tree[node'].kind = "thought"
  <2>1. CASE node' \in TT!Children(node) /\ ~TT!IsTerminal(node)
    <3>1. node' \in DOMAIN tree /\ tree[node'].parent = node
      BY <2>1 DEF TT!Children
    <3>2. tree[node'].kind # "answer"
      BY <1>1, <2>1, <3>1 DEF SimulationInv
    <3>3. tree[node'] \in TreeNode
      BY <1>1, <3>1 DEF TreeTypes
    <3> QED  BY <3>1, <3>2, <3>3 DEF TreeNode
  <2>2. CASE node' = node
    BY <1>1, <2>2 DEF TreeTypes, SimulationInv
  <2> QED  BY <1>2, <2>1, <2>2
<1>4. thought' \in Thoughts
  BY <1>1, <1>2 DEF TreeTypes, Thoughts
<1>5. TreeTypes'
  BY <1>1, <1>3, <1>4 DEF TreeTypes, TT!NodesOf
<1>6. SimulationInv'
  <2>1. /\ TT!AnswerNodes' = TT!AnswerNodes
        /\ \A n : (TT!IsTerminal(n) <=> TT!IsTerminal(n)') /\ (ScoreOf(n) <=> ScoreOf(n)')
    BY <1>1 DEF TT!AnswerNodes, TT!IsTerminal, ScoreOf, AnswersBelow, FullBelow
  <2>2. Cardinality(TT!AnswerNodes') < NSim
    BY <1>1, <2>1 DEF SimulationInv
  <2> QED  BY <1>1, <1>3, <2>1, <2>2 DEF SimulationInv
<1> QED  BY <1>1, <1>5, <1>6 DEF TreeInv

LEMMA RolloutGrows ==
  ASSUME TreeTypes, SimulationInv, NEW options \in TT!Options, tree' = TT!Expanded(node, options),
         node' \in (Len(tree) + 1)..(Len(tree) + Len(options)),
         UNCHANGED <<method, leaves, fresh, finals, thought>>
  PROVE  TreeTypes' /\ SimulationInv'
<1>1. tree \in Seq(TreeNode) /\ node \in DOMAIN tree /\ node \in Nat
  <2>1. tree \in Seq(TreeNode) /\ node \in DOMAIN tree
    BY DEF TreeTypes
  <2> QED  BY <2>1
<1>2. /\ tree' \in Seq(TreeNode) /\ Len(options) \in Nat
      /\ DOMAIN tree' = 1..(Len(tree) + Len(options)) /\ DOMAIN tree = 1..Len(tree)
      /\ \A i \in DOMAIN tree : tree'[i] = tree[i]
      /\ \A i \in DOMAIN tree' \ DOMAIN tree :
           /\ tree'[i].above = tree[node].above \cup {node} /\ tree'[i].kind = "thought"
           /\ tree'[i].beam = "new" /\ tree'[i].visits = 0
  BY <1>1, ExpandedTree
<1>3. tree' \in Seq(TreeNode) /\ DOMAIN tree \subseteq DOMAIN tree'
      /\ \A i \in DOMAIN tree' : tree'[i].above \subseteq 1..(i - 1)
  BY <1>1, ExpandedTypes
<1>4. node' \in DOMAIN tree' \ DOMAIN tree
  BY <1>1, <1>2
<1>5. TreeTypes'
  BY <1>3, <1>4 DEF TreeTypes, TT!NodesOf
<1>6. TT!AnswerNodes' = TT!AnswerNodes
  BY <1>2, <1>3 DEF TT!AnswerNodes
<1>7. TT!AnswerNodes \subseteq DOMAIN tree /\ \A a \in TT!AnswerNodes : tree'[a] = tree[a] /\ tree[a].above \subseteq 1..(a - 1)
  BY <1>2 DEF TT!AnswerNodes, TreeTypes
<1>8. ASSUME NEW n \in DOMAIN tree' PROVE ScoreOf(n)'
  <2>1. AnswersBelow(n)' = AnswersBelow(n) /\ FullBelow(n)' = FullBelow(n)
    BY <1>6, <1>7 DEF AnswersBelow, FullBelow
  <2>2. CASE n \in DOMAIN tree
    BY <1>2, <2>1, <2>2 DEF SimulationInv, ScoreOf
  <2>3. CASE n \notin DOMAIN tree
    <3>1. AnswersBelow(n) = {}
      <4> SUFFICES ASSUME NEW a \in TT!AnswerNodes, n \in tree[a].above PROVE FALSE
        BY DEF AnswersBelow
      <4>1. n \in 1..(a - 1) /\ a \in 1..Len(tree) /\ Len(tree) \in Nat
        BY <1>1, <1>2, <1>7
      <4> QED  BY <1>2, <2>3, <4>1
    <3>2. FullBelow(n) = {}
      BY <3>1 DEF FullBelow
    <3>3. Cardinality(AnswersBelow(n)) = 0 /\ Cardinality(FullBelow(n)) = 0
      BY <3>1, <3>2, FS_EmptySet
    <3>4. tree'[n].visits = 0 /\ tree'[n] \in TreeNode
      BY <1>2, <2>3
    <3>5. tree'[n].value * 0 = 0 /\ FullReward * 0 = 0
      BY <3>4, TreeAssumption DEF TreeNode
    <3>6. tree'[n].value * tree'[n].visits = 0
      BY <3>4, <3>5
    <3>7. FullReward * Cardinality(FullBelow(n)) = 0
      BY <3>3, <3>5
    <3> QED  BY <2>1, <3>3, <3>4, <3>6, <3>7 DEF ScoreOf
  <2> QED  BY <2>2, <2>3
<1>9. \A n \in DOMAIN tree : TT!IsTerminal(n)' <=> TT!IsTerminal(n)
  BY <1>2 DEF TT!IsTerminal
<1>10. tree[node].kind = "thought" /\ node \notin TT!AnswerNodes
  BY DEF SimulationInv, TT!AnswerNodes
<1>11. ASSUME NEW n \in DOMAIN tree'
       PROVE  /\ tree'[n].beam = "new" /\ tree'[n].above \cap TT!AnswerNodes = {}
              /\ tree'[n].kind = "answer" => \E p \in DOMAIN tree' : p = tree'[n].parent /\ TT!IsTerminal(p)'
  <2>1. CASE n \in DOMAIN tree
    BY <1>2, <1>3, <1>9, <2>1 DEF SimulationInv
  <2>2. CASE n \notin DOMAIN tree
    BY <1>1, <1>2, <1>10, <2>2 DEF SimulationInv
  <2> QED  BY <2>1, <2>2
<1>12. thought'.at \in {"search", "rollout"} => Cardinality(TT!AnswerNodes') < NSim
  BY <1>6 DEF SimulationInv
<1>13. tree'[node'].kind = "thought" /\ tree'[1].kind = "thought"
  <2>1. 1 \in DOMAIN tree
    BY <1>1, <1>2
  <2> QED  BY <1>2, <1>4, <2>1 DEF SimulationInv
<1>14. SimulationInv'
  BY <1>6, <1>8, <1>11, <1>12, <1>13 DEF SimulationInv
<1> QED  BY <1>5, <1>14

LEMMA RolloutKeepsScore == ASSUME TreeInv, TT!Rollout PROVE TreeInv'
<1>1. /\ TreeTypes /\ SimulationInv /\ method = "mcts" /\ UNCHANGED <<method, leaves, fresh, finals, thought>>
  BY DEF TreeInv, TT!Rollout
<1>2. CASE \E options \in TT!Options \ {<<>>} :
             /\ tree' = TT!Expanded(node, options)
             /\ node' \in (Len(tree) + 1)..(Len(tree) + Len(options))
  BY <1>1, <1>2, RolloutGrows DEF TreeInv
<1>3. CASE tree' = [tree EXCEPT ![node].terminate = TRUE] /\ UNCHANGED node
  <2>1. tree \in Seq(TreeNode) /\ node \in DOMAIN tree
    BY <1>1 DEF TreeTypes
  <2> DEFINE u == [tree[node] EXCEPT !.terminate = TRUE]
  <2>2. /\ u \in TreeNode /\ u.above = tree[node].above /\ u.kind = tree[node].kind /\ u.parent = tree[node].parent
        /\ u.beam = tree[node].beam /\ u.visits = tree[node].visits /\ u.value = tree[node].value
        /\ u.terminate = TRUE
    <3>1. PICK t \in TreeNode : t = tree[node]
      BY <2>1
    <3>2. u = [t EXCEPT !.terminate = TRUE]
      BY <3>1
    <3> HIDE DEF u
    <3>3. /\ u \in TreeNode /\ u.above = t.above /\ u.kind = t.kind /\ u.parent = t.parent
          /\ u.beam = t.beam /\ u.visits = t.visits /\ u.value = t.value /\ u.terminate = TRUE
      BY <3>2 DEF TreeNode
    <3> QED  BY <3>1, <3>3
  <2>3. tree' = [tree EXCEPT ![node] = u]
    BY <1>3
  <2> HIDE DEF u
  <2>4. /\ tree' \in Seq(TreeNode) /\ DOMAIN tree' = DOMAIN tree
        /\ \A n \in DOMAIN tree : n # node => tree'[n] = tree[n]
        /\ tree'[node] = u
    BY <2>1, <2>2, <2>3
  <2>5. \A n \in DOMAIN tree :
          /\ tree'[n].above = tree[n].above /\ tree'[n].kind = tree[n].kind /\ tree'[n].parent = tree[n].parent
          /\ tree'[n].beam = tree[n].beam /\ tree'[n].visits = tree[n].visits /\ tree'[n].value = tree[n].value
    BY <2>2, <2>4
  <2>6. TreeTypes'
    BY <1>1, <1>3, <2>4, <2>5 DEF TreeTypes, TT!NodesOf
  <2>7. TT!AnswerNodes' = TT!AnswerNodes /\ TT!AnswerNodes \subseteq DOMAIN tree
    BY <2>4, <2>5 DEF TT!AnswerNodes
  <2>8. \A n \in DOMAIN tree : TT!IsTerminal(n) => TT!IsTerminal(n)'
    <3>1. \A n \in DOMAIN tree : n # node => (TT!IsTerminal(n) => TT!IsTerminal(n)')
      BY <2>4 DEF TT!IsTerminal
    <3>2. TT!IsTerminal(node)'
      BY <1>3, <2>2, <2>4 DEF TT!IsTerminal
    <3> QED  BY <3>1, <3>2, <1>3
  <2>9. ASSUME NEW n \in DOMAIN tree PROVE ScoreOf(n)'
    <3>1. AnswersBelow(n)' = AnswersBelow(n) /\ FullBelow(n)' = FullBelow(n)
      BY <2>5, <2>7 DEF AnswersBelow, FullBelow
    <3> QED  BY <1>1, <2>5, <3>1 DEF SimulationInv, ScoreOf
  <2>10. SimulationInv'
    <3>1. \A n \in DOMAIN tree' :
            /\ tree'[n].beam = "new" /\ tree'[n].above \cap TT!AnswerNodes' = {}
            /\ tree'[n].kind = "answer" => \E p \in DOMAIN tree' : p = tree'[n].parent /\ TT!IsTerminal(p)'
      BY <1>1, <2>4, <2>5, <2>7, <2>8 DEF SimulationInv
    <3>2. 1 \in DOMAIN tree
      BY <2>1
    <3> QED  BY <1>1, <1>3, <2>1, <2>4, <2>5, <2>7, <2>9, <3>1, <3>2 DEF SimulationInv
  <2> QED  BY <1>1, <2>6, <2>10 DEF TreeInv
<1> QED  BY <1>2, <1>3 DEF TT!Rollout


LEMMA EndKeepsScore == ASSUME TreeInv, TT!SimulationEnds PROVE TreeInv'
<1> DEFINE a == Len(tree) + 1
           path == tree[node].above \cup {node}
<1>1. /\ TreeTypes /\ SimulationInv /\ method = "mcts" /\ thought.at = "rollout" /\ TT!IsTerminal(node)
      /\ UNCHANGED <<method, leaves, fresh, finals>> /\ node' = 1
      /\ thought' = IF TT!Cardinality(TT!AnswerNodes) + 1 < NSim THEN [thought EXCEPT !.at = "search"]
                    ELSE [at |-> "merge", answers |-> thought.answers + 1]
  BY DEF TreeInv, TT!SimulationEnds
<1>2. tree \in Seq(TreeNode) /\ node \in DOMAIN tree /\ thought \in Thoughts
  BY <1>1 DEF TreeTypes
<1>3. Len(tree) \in Nat /\ DOMAIN tree = 1..Len(tree) /\ node \in Nat /\ a \in Nat /\ a \notin DOMAIN tree
  BY <1>2
<1>4. tree[node] \in TreeNode /\ tree[node].above \subseteq 1..(node - 1) /\ tree[node].depth \in Nat
  <2>1. tree[node] \in TreeNode
    BY <1>2
  <2> QED  BY <1>1, <1>2, <2>1 DEF TreeTypes, TreeNode
<1>5. path \subseteq DOMAIN tree /\ path \subseteq Nat
  BY <1>2, <1>3, <1>4
<1> DEFINE new == TT!ThinkNode(node, FALSE, "answer")
           answer(reward) == [new EXCEPT !.value = reward, !.rated = TRUE]
<1>6. PICK reward \in TT!Reward :
        tree' = TT!Backpropagate(Append(tree, answer(reward)), node, reward)
  BY DEF TT!SimulationEnds
<1>7. reward \in Nat
  BY TreeAssumption DEF TT!Reward
<1> DEFINE s == answer(reward)
<1>8. /\ s \in TreeNode /\ s.parent = node /\ s.above = path /\ s.kind = "answer" /\ s.value = reward
      /\ s.visits = 0 /\ s.beam = "new"
  <2>1. /\ new \in TreeNode /\ new.parent = node /\ new.above = path /\ new.kind = "answer"
        /\ new.visits = 0 /\ new.beam = "new"
    BY <1>3, <1>4, <1>5 DEF TreeNode, TT!ThinkNode
  <2>2. s = [new EXCEPT !.value = reward, !.rated = TRUE]
    OBVIOUS
  <2> HIDE DEF s, new, path
  <2> QED  BY <1>7, <2>1, <2>2 DEF TreeNode
<1> HIDE DEF new
<1> HIDE DEF s, answer, path
<1> DEFINE larger == Append(tree, s)
<1>9. /\ larger \in Seq(TreeNode) /\ DOMAIN larger = 1..a /\ larger[a] = s /\ a \in 1..a
      /\ \A i \in DOMAIN tree : i \in 1..a /\ larger[i] = tree[i]
      /\ \A i \in 1..a : i = a \/ i \in DOMAIN tree
  BY <1>2, <1>3, <1>8
<1>10. tree' = TT!Backpropagate(larger, node, reward)
  BY <1>6 DEF s
<1> HIDE DEF larger
<1> DEFINE mean(i) == (tree[i].value * tree[i].visits + reward) \div (tree[i].visits + 1)
<1>11. larger[node].above \cup {node} = path
  BY <1>2, <1>9 DEF path
<1>12. tree' = [i \in 1..a |-> IF i \notin path THEN larger[i]
                 ELSE [larger[i] EXCEPT !.visits = larger[i].visits + 1,
                         !.value = (larger[i].value * larger[i].visits + reward) \div (larger[i].visits + 1)]]
  BY <1>9, <1>10, <1>11 DEF TT!Backpropagate
<1>13. DOMAIN tree' = 1..a /\ tree'[a] = s /\ \A i \in DOMAIN tree \ path : tree'[i] = tree[i]
  BY <1>3, <1>5, <1>9, <1>12
<1>14. \A i \in DOMAIN tree : tree[i] \in TreeNode /\ ScoreOf(i)
  BY <1>1, <1>2 DEF SimulationInv
<1>15. /\ IsFiniteSet(TT!AnswerNodes) /\ Cardinality(TT!AnswerNodes) \in 0..(NSim - 1)
       /\ \A T : T \subseteq TT!AnswerNodes =>
            IsFiniteSet(T) /\ Cardinality(T) \in Nat /\ Cardinality(T) <= Cardinality(TT!AnswerNodes)
  <2>1. IsFiniteSet(DOMAIN tree)
    BY <1>3, FS_Interval
  <2>2. IsFiniteSet(TT!AnswerNodes)
    <3>1. TT!AnswerNodes \subseteq DOMAIN tree
      BY DEF TT!AnswerNodes
    <3> QED  BY <2>1, <3>1, FS_Subset
  <2>3. Cardinality(TT!AnswerNodes) \in Nat /\ Cardinality(TT!AnswerNodes) < NSim
    BY <1>1, <2>2, FS_CardinalityType DEF SimulationInv
  <2> QED  BY <2>2, <2>3, FS_Subset, FS_CardinalityType, TreeAssumption
<1>16. \A i \in DOMAIN tree : /\ tree[i].visits \in 0..(NSim - 1) /\ tree[i].value \in Nat
                              /\ AnswersBelow(i) \subseteq TT!AnswerNodes /\ FullBelow(i) \subseteq AnswersBelow(i)
  <2> SUFFICES ASSUME NEW i \in DOMAIN tree
               PROVE  /\ tree[i].visits \in 0..(NSim - 1) /\ tree[i].value \in Nat
                      /\ AnswersBelow(i) \subseteq TT!AnswerNodes /\ FullBelow(i) \subseteq AnswersBelow(i)
    OBVIOUS
  <2>1. AnswersBelow(i) \subseteq TT!AnswerNodes /\ FullBelow(i) \subseteq AnswersBelow(i)
    BY DEF AnswersBelow, FullBelow
  <2>2. tree[i].visits = Cardinality(AnswersBelow(i))
    BY <1>14 DEF ScoreOf
  <2>3. tree[i].value \in Nat
    BY <1>14 DEF TreeNode
  <2> QED  BY <1>15, <2>1, <2>2, <2>3, TreeAssumption
<1>17. ASSUME NEW i \in path
       PROVE  /\ tree'[i] \in TreeNode /\ tree'[i].parent = tree[i].parent /\ tree'[i].above = tree[i].above
              /\ tree'[i].depth = tree[i].depth /\ tree'[i].terminate = tree[i].terminate
              /\ tree'[i].kind = tree[i].kind /\ tree'[i].beam = tree[i].beam
              /\ tree'[i].visits = tree[i].visits + 1 /\ tree'[i].value = mean(i)
              /\ tree'[i].value * tree'[i].visits
                   = FullReward * (Cardinality(FullBelow(i)) + IF reward = FullReward THEN 1 ELSE 0)
  <2>1. i \in DOMAIN tree /\ larger[i] = tree[i] /\ i \in 1..a
    BY <1>5, <1>9
  <2> DEFINE v == tree[i].value  k == tree[i].visits  c == Cardinality(FullBelow(i))
             u == IF reward = FullReward THEN 1 ELSE 0
  <2>2. v \in Nat /\ k \in 0..(NSim - 1) /\ c \in Nat /\ v * k = FullReward * c
    <3>1. FullBelow(i) \subseteq TT!AnswerNodes
      BY <1>16, <2>1
    <3> QED  BY <1>14, <1>15, <1>16, <2>1, <3>1 DEF ScoreOf
  <2> HIDE DEF v, k, c
  <2>3. u \in {0, 1} /\ reward = FullReward * u
    <3>1. CASE reward = FullReward
      <4>1. FullReward * 1 = FullReward /\ u = 1
        BY <3>1, TreeAssumption
      <4> QED  BY <3>1, <4>1
    <3>2. CASE reward # FullReward
      <4>1. FullReward * 0 = 0 /\ u = 0 /\ reward = 0
        BY <3>2, TreeAssumption DEF TT!Reward
      <4> QED  BY <4>1
    <3> QED  BY <3>1, <3>2
  <2> HIDE DEF u
  <2> DEFINE m == (v * k + reward) \div (k + 1)
  <2>4. m \in Nat /\ m * (k + 1) = FullReward * (c + u)
    <3>1. PICK w \in Nat, d \in Nat, l \in 0..(NSim - 1), z \in {0, 1} : w = v /\ d = c /\ l = k /\ z = u
      BY <2>2, <2>3
    <3>2. w * l = FullReward * d /\ reward = FullReward * z
      BY <2>2, <2>3, <3>1
    <3>3. /\ (w * l + reward) \div (l + 1) \in Nat
          /\ ((w * l + reward) \div (l + 1)) * (l + 1) = FullReward * (d + z)
      <4>1. MeanGrows(w, l, d, z, reward)
        BY <1>7, MeanOfMore
      <4> QED  BY <3>2, <4>1, Zenon DEF MeanGrows
    <3> QED  BY <3>1, <3>3
  <2>5. PICK t \in TreeNode : t = tree[i]
    BY <1>14, <2>1
  <2>6. tree'[i] = [t EXCEPT !.visits = k + 1, !.value = m]
    BY <1>12, <2>1, <2>5 DEF v, k
  <2>7. m \in Nat /\ k + 1 \in Nat
    BY <2>2, <2>4
  <2>8. mean(i) = m
    BY DEF v, k
  <2> HIDE DEF m, mean
  <2>9. /\ tree'[i] \in TreeNode /\ tree'[i].parent = t.parent /\ tree'[i].above = t.above
        /\ tree'[i].depth = t.depth /\ tree'[i].terminate = t.terminate
        /\ tree'[i].kind = t.kind /\ tree'[i].beam = t.beam
        /\ tree'[i].visits = k + 1 /\ tree'[i].value = m
    BY <2>6, <2>7 DEF TreeNode
  <2>10. tree'[i].value * tree'[i].visits = FullReward * (c + u)
    BY <2>4, <2>9
  <2> QED  BY <2>5, <2>8, <2>9, <2>10 DEF k, u, c
<1> HIDE DEF mean
<1>18. \A i \in DOMAIN tree :
         /\ tree'[i] \in TreeNode /\ tree'[i].parent = tree[i].parent /\ tree'[i].above = tree[i].above
         /\ tree'[i].depth = tree[i].depth /\ tree'[i].terminate = tree[i].terminate
         /\ tree'[i].kind = tree[i].kind /\ tree'[i].beam = tree[i].beam
  BY <1>13, <1>14, <1>17
<1>19. TreeTypes'
  <2>1. tree' \in Seq(TreeNode)
    <3>1. tree' = [i \in 1..a |-> tree'[i]]
      BY <1>12
    <3>2. \A i \in 1..a : tree'[i] \in TreeNode
      BY <1>8, <1>9, <1>13, <1>18
    <3> QED  BY <1>3, <3>1, <3>2
  <2>2. \A i \in DOMAIN tree' : tree'[i].above \subseteq 1..(i - 1)
    <3>1. path \subseteq 1..(a - 1)
      BY <1>3, <1>5
    <3> QED  BY <1>1, <1>8, <1>9, <1>13, <1>18, <3>1 DEF TreeTypes
  <2>3. thought' \in Thoughts
    <3>0. thought.answers \in Nat
      BY <1>2 DEF Thoughts
    <3>1. thought.answers + 1 \in Nat
      BY <3>0
    <3>2. thought' \in {[thought EXCEPT !.at = "search"], [at |-> "merge", answers |-> thought.answers + 1]}
      BY <1>1
    <3>3. [thought EXCEPT !.at = "search"] \in Thoughts
      BY <1>2 DEF Thoughts
    <3>4. [at |-> "merge", answers |-> thought.answers + 1] \in Thoughts
      BY <3>1 DEF Thoughts
    <3> QED  BY <3>2, <3>3, <3>4
  <2>4. (TT!NodesOf(leaves) \cup TT!NodesOf(fresh) \cup TT!NodesOf(finals))' \subseteq DOMAIN tree'
    BY <1>1, <1>9, <1>13 DEF TreeTypes, TT!NodesOf
  <2>5. node' \in DOMAIN tree'
    BY <1>1, <1>3, <1>13
  <2> QED  BY <1>1, <2>1, <2>2, <2>3, <2>4, <2>5 DEF TreeTypes
<1>20. TT!AnswerNodes' = TT!AnswerNodes \cup {a} /\ a \notin TT!AnswerNodes
  BY <1>3, <1>8, <1>9, <1>13, <1>18 DEF TT!AnswerNodes
<1>21. path \cap TT!AnswerNodes = {}
  BY <1>1, <1>2 DEF SimulationInv, TT!AnswerNodes, path
<1>22. \A b \in TT!AnswerNodes : tree'[b] = tree[b] /\ tree[b].above \subseteq DOMAIN tree
  <2>1. \A b \in TT!AnswerNodes : b \in DOMAIN tree \ path
    BY <1>21 DEF TT!AnswerNodes
  <2> QED  BY <1>1, <1>3, <1>13, <2>1 DEF TreeTypes
<1>23. ASSUME NEW n \in DOMAIN tree' PROVE ScoreOf(n)'
  <2>1. CASE n \in path
    <3>1. AnswersBelow(n)' = AnswersBelow(n) \cup {a} /\ a \notin AnswersBelow(n)
      BY <1>8, <1>13, <1>20, <1>22, <2>1 DEF AnswersBelow
    <3>2. FullBelow(n)' = IF reward = FullReward THEN FullBelow(n) \cup {a} ELSE FullBelow(n)
      BY <1>8, <1>13, <1>20, <1>22, <3>1 DEF FullBelow, AnswersBelow
    <3>3. n \in DOMAIN tree /\ AnswersBelow(n) \subseteq TT!AnswerNodes /\ FullBelow(n) \subseteq TT!AnswerNodes /\ a \notin FullBelow(n)
      BY <1>5, <1>16, <2>1, <3>1
    <3>4. /\ IsFiniteSet(AnswersBelow(n)) /\ Cardinality(AnswersBelow(n)) \in Nat
          /\ IsFiniteSet(FullBelow(n)) /\ Cardinality(FullBelow(n)) \in Nat
      BY <1>15, <3>3
    <3>5. Cardinality(AnswersBelow(n) \cup {a}) = Cardinality(AnswersBelow(n)) + 1
      BY <3>1, <3>4, FS_AddElement
    <3>6. Cardinality(FullBelow(n) \cup {a}) = Cardinality(FullBelow(n)) + 1
      BY <3>3, <3>4, FS_AddElement
    <3>7. tree[n].visits = Cardinality(AnswersBelow(n))
      BY <1>14, <3>3 DEF ScoreOf
    <3>8. tree'[n].visits = Cardinality(AnswersBelow(n)')
      BY <1>17, <2>1, <3>1, <3>5, <3>7
    <3>9. Cardinality(FullBelow(n)') = Cardinality(FullBelow(n)) + IF reward = FullReward THEN 1 ELSE 0
      BY <3>2, <3>4, <3>6
    <3>10. tree'[n].value * tree'[n].visits = FullReward * Cardinality(FullBelow(n)')
      BY <1>17, <2>1, <3>9
    <3> QED  BY <3>8, <3>10 DEF ScoreOf
  <2>2. CASE n \in DOMAIN tree \ path
    <3>1. AnswersBelow(n)' = AnswersBelow(n)
      BY <1>8, <1>13, <1>20, <1>22, <2>2 DEF AnswersBelow
    <3>2. FullBelow(n)' = FullBelow(n)
      BY <1>22, <3>1 DEF FullBelow, AnswersBelow
    <3> QED  BY <1>13, <1>14, <2>2, <3>1, <3>2 DEF ScoreOf
  <2>3. CASE n = a
    <3>1. AnswersBelow(n)' = {}
      BY <1>3, <1>5, <1>8, <1>13, <1>20, <1>22, <2>3 DEF AnswersBelow
    <3>2. FullBelow(n)' = {}
      BY <3>1 DEF FullBelow
    <3>3. Cardinality(AnswersBelow(n)') = 0 /\ Cardinality(FullBelow(n)') = 0
      BY <3>1, <3>2, FS_EmptySet
    <3>4. tree'[n].visits = 0 /\ tree'[n].value = reward /\ reward * 0 = 0 /\ FullReward * 0 = 0
      BY <1>7, <1>8, <1>13, <2>3, TreeAssumption
    <3>5. tree'[n].value * tree'[n].visits = 0
      BY <3>4
    <3>6. FullReward * Cardinality(FullBelow(n)') = 0
      BY <3>3, <3>4
    <3> QED  BY <3>3, <3>4, <3>5, <3>6 DEF ScoreOf
  <2> QED  BY <1>9, <1>13, <2>1, <2>2, <2>3
<1>24. \A n \in DOMAIN tree : TT!IsTerminal(n)' <=> TT!IsTerminal(n)
  BY <1>18 DEF TT!IsTerminal
<1>25. ASSUME NEW n \in DOMAIN tree'
       PROVE  /\ tree'[n].beam = "new" /\ tree'[n].above \cap TT!AnswerNodes' = {}
              /\ tree'[n].kind = "answer" => \E p \in DOMAIN tree' : p = tree'[n].parent /\ TT!IsTerminal(p)'
  <2>1. CASE n \in DOMAIN tree
    <3>1. tree[n].above \subseteq DOMAIN tree
      BY <1>1, <1>3, <2>1 DEF TreeTypes
    <3>2. tree'[n].beam = "new" /\ tree'[n].above \cap TT!AnswerNodes' = {}
      BY <1>1, <1>3, <1>18, <1>20, <2>1, <3>1 DEF SimulationInv
    <3>3. tree'[n].kind = "answer" => \E p \in DOMAIN tree' : p = tree'[n].parent /\ TT!IsTerminal(p)'
      BY <1>1, <1>9, <1>13, <1>18, <1>24, <2>1 DEF SimulationInv
    <3> QED  BY <3>2, <3>3
  <2>2. CASE n = a
    <3>1. tree'[n].above = path /\ tree'[n].beam = "new" /\ tree'[n].parent = node
      BY <1>8, <1>13, <2>2
    <3>2. \E p \in DOMAIN tree' : p = node /\ TT!IsTerminal(p)'
      <4>1. PICK p \in DOMAIN tree : p = node
        BY <1>2
      <4>2. p \in DOMAIN tree' /\ TT!IsTerminal(p)'
        BY <1>1, <1>9, <1>13, <1>24, <4>1
      <4> QED  BY <4>1, <4>2
    <3> QED  BY <1>3, <1>5, <1>20, <1>21, <3>1, <3>2
  <2> QED  BY <1>9, <1>13, <2>1, <2>2
<1>26. thought'.at \in {"search", "rollout"} => Cardinality(TT!AnswerNodes') < NSim
  <2>1. Cardinality(TT!AnswerNodes') = Cardinality(TT!AnswerNodes) + 1
    BY <1>15, <1>20, FS_AddElement
  <2>2. TT!Cardinality(TT!AnswerNodes) = Cardinality(TT!AnswerNodes)
    BY ThoughtsCount
  <2> QED  BY <1>1, <1>2, <2>1, <2>2 DEF Thoughts
<1>27. tree'[node'].kind = "thought" /\ tree'[1].kind = "thought"
  <2>1. 1 \in DOMAIN tree
    BY <1>2, <1>3
  <2> QED  BY <1>1, <1>18, <2>1 DEF SimulationInv
<1>28. SimulationInv'
  BY <1>23, <1>25, <1>26, <1>27 DEF SimulationInv
<1> QED  BY <1>1, <1>19, <1>28 DEF TreeInv

LEMMA TreeSteps == TreeInv /\ [TT!Next]_treeVars => TreeInv'
<1> SUFFICES ASSUME TreeInv, [TT!Next]_treeVars PROVE TreeInv'
  OBVIOUS
<1>1. CASE UNCHANGED treeVars
  <2>1. TreeTypes'
    BY <1>1 DEF TreeInv, TreeTypes, treeVars, TT!NodesOf
  <2>2. BeamInv => BeamInv'
    BY <1>1 DEF BeamInv, KeptIsNoWorse, SideBySide, treeVars, TT!NodesOf
  <2>3. SimulationInv => SimulationInv'
    BY <1>1 DEF SimulationInv, ScoreOf, AnswersBelow, FullBelow, treeVars, TT!AnswerNodes, TT!IsTerminal
  <2> QED  BY <1>1, <2>1, <2>2, <2>3 DEF TreeInv, treeVars
<1> QED  BY <1>1, AcceptKeepsScore, ExpandKeepsScore, RoundKeepsScore, AnswersKeepScore, SelectKeepsScore,
            RolloutKeepsScore, EndKeepsScore, NextTreeKeepsScore, CallKeepsScore DEF TT!Next

LEMMA TreeShows == TreeInv => TT!SearchKeepsScore
<1> SUFFICES ASSUME TreeInv PROVE TT!SearchKeepsScore
  OBVIOUS
<1>1. Len(leaves) + Len(finals) <= BeamSize
  BY DEF TreeInv, TreeTypes
<1>2. KeptIsNoWorse
  <2>1. CASE method = "beam"
    BY <2>1 DEF TreeInv, BeamInv
  <2>2. CASE method = "mcts"
    BY <2>2 DEF TreeInv, SimulationInv, KeptIsNoWorse
  <2> QED  BY <2>1, <2>2 DEF TreeInv, TreeTypes
<1>3. ASSUME method = "mcts", NEW n \in DOMAIN tree
      PROVE  LET below == {a \in TT!AnswerNodes : n \in tree[a].above}
             IN /\ tree[n].visits = TT!Cardinality(below)
                /\ tree[n].value * tree[n].visits
                     = FullReward * TT!Cardinality({a \in below : tree[a].value = FullReward})
  <2>1. ScoreOf(n)
    BY <1>3 DEF TreeInv, SimulationInv
  <2> QED  BY <2>1, ThoughtsCount DEF ScoreOf, AnswersBelow, FullBelow
<1> QED  BY <1>1, <1>2, <1>3 DEF TT!SearchKeepsScore, KeptIsNoWorse

\* A node hangs below an earlier one, and no value is above a full reward.
Rewarded ==
  \A n \in DOMAIN tree : tree[n].parent \in 0..(n - 1) /\ tree[n].value \in 0..FullReward

LEMMA RewardsFit == TT!Reward \subseteq 0..FullReward
BY TreeAssumption DEF TT!Reward

LEMMA RewardedStart == TreeInv /\ tree = <<TT!Root>> => Rewarded
<1> SUFFICES ASSUME tree = <<TT!Root>> PROVE Rewarded
  OBVIOUS
<1>1. TT!Root.parent = 0 /\ TT!Root.value = 0 /\ 0 \in 0..FullReward
  BY TreeAssumption DEF TT!Root
<1>2. DOMAIN tree = {1} /\ tree[1] = TT!Root
  OBVIOUS
<1> QED  BY <1>1, <1>2 DEF Rewarded

LEMMA AcceptRewards == ASSUME TreeInv, Rewarded, TT!AcceptFinal PROVE Rewarded'
<1> DEFINE l == Head(leaves)
<1>1. tree \in Seq(TreeNode) /\ l \in DOMAIN tree
  <2>1. leaves # <<>> /\ leaves \in Seq(Nat) /\ TT!NodesOf(leaves) \subseteq DOMAIN tree /\ tree \in Seq(TreeNode)
    BY DEF TreeInv, TreeTypes, TT!AcceptFinal
  <2>2. 1 \in DOMAIN leaves /\ l = leaves[1]
    BY <2>1
  <2> QED  BY <2>1, <2>2 DEF TT!NodesOf
<1> HIDE DEF l
<1>2. PICK reward \in 0..FullReward : tree' = [tree EXCEPT ![l].value = reward, ![l].rated = TRUE]
  <2>1. tree[l].value \in 0..FullReward
    BY <1>1 DEF Rewarded
  <2> QED  BY <2>1, RewardsFit DEF TT!AcceptFinal, l
<1>3. PICK t \in TreeNode : t = tree[l]
  BY <1>1
<1> DEFINE u == [t EXCEPT !.value = reward, !.rated = TRUE]
<1>4. u.value = reward /\ u.parent = t.parent
  BY DEF TreeNode
<1>5. tree' = [tree EXCEPT ![l] = u]
  BY <1>2, <1>3
<1> HIDE DEF u
<1>6. DOMAIN tree' = DOMAIN tree /\ \A n \in DOMAIN tree : tree'[n] = IF n = l THEN u ELSE tree[n]
  BY <1>1, <1>5
<1> QED  BY <1>3, <1>4, <1>6 DEF Rewarded

LEMMA ExpandedRewards ==
  ASSUME TreeTypes, Rewarded, NEW n \in DOMAIN tree, NEW options \in TT!Options,
         tree' = TT!Expanded(n, options)
  PROVE  Rewarded'
<1>1. tree \in Seq(TreeNode)
  BY DEF TreeTypes
<1>2. /\ Len(options) \in Nat
      /\ DOMAIN tree' = 1..(Len(tree) + Len(options)) /\ DOMAIN tree = 1..Len(tree)
      /\ \A i \in DOMAIN tree : tree'[i] = tree[i]
      /\ \A i \in DOMAIN tree' \ DOMAIN tree : tree'[i].parent = n /\ tree'[i].value = 0
  BY ExpandedTree
<1>3. \A i \in DOMAIN tree' \ DOMAIN tree : n \in 0..(i - 1) /\ 0 \in 0..FullReward
  BY <1>1, <1>2, TreeAssumption
<1> QED  BY <1>2, <1>3 DEF Rewarded

LEMMA RoundRewards == ASSUME TreeInv, Rewarded, TT!NextRound PROVE Rewarded'
<1>1. tree \in Seq(TreeNode)
  BY DEF TreeInv, TreeTypes
<1>2. CASE tree' = tree
  BY <1>2 DEF Rewarded
<1>3. CASE tree' # tree
  <2>1. PICK rewards \in [TT!NodesOf(fresh) -> TT!Reward],
             unparsed \in SUBSET {tree[n].parent : n \in TT!NodesOf(fresh)} :
          tree' = [n \in DOMAIN tree |-> IF n \notin TT!NodesOf(fresh) THEN tree[n]
               ELSE [tree[n] EXCEPT !.value = rewards[n], !.rated = tree[n].parent \notin unparsed,
                       !.beam = IF n \in TT!NodesOf(leaves') THEN "kept" ELSE "cut"]]
    BY <1>3 DEF TT!NextRound
  <2>2. ASSUME NEW n \in DOMAIN tree, n \in TT!NodesOf(fresh)
        PROVE  tree'[n].parent = tree[n].parent /\ tree'[n].value \in 0..FullReward
    <3>1. PICK t \in TreeNode : t = tree[n]
      BY <1>1
    <3> DEFINE rated == tree[n].parent \notin unparsed
               beam == IF n \in TT!NodesOf(leaves') THEN "kept" ELSE "cut"
    <3>2. tree'[n] = [t EXCEPT !.value = rewards[n], !.rated = rated, !.beam = beam]
      BY <2>1, <2>2, <3>1
    <3> HIDE DEF rated, beam
    <3>3. rewards[n] \in 0..FullReward
      BY <2>1, <2>2, RewardsFit
    <3>4. tree'[n].value = rewards[n] /\ tree'[n].parent = t.parent
      BY <3>2 DEF TreeNode
    <3> QED  BY <3>1, <3>3, <3>4
  <2>3. DOMAIN tree' = DOMAIN tree /\ \A n \in DOMAIN tree \ TT!NodesOf(fresh) : tree'[n] = tree[n]
    BY <2>1
  <2> QED  BY <2>2, <2>3 DEF Rewarded
<1> QED  BY <1>2, <1>3

LEMMA RolloutRewards == ASSUME TreeInv, Rewarded, TT!Rollout PROVE Rewarded'
<1>1. TreeTypes /\ node \in DOMAIN tree /\ tree \in Seq(TreeNode)
  BY DEF TreeInv, TreeTypes
<1>2. CASE \E options \in TT!Options \ {<<>>} : tree' = TT!Expanded(node, options)
  BY <1>1, <1>2, ExpandedRewards
<1>3. CASE tree' = [tree EXCEPT ![node].terminate = TRUE]
  <2>1. PICK t \in TreeNode : t = tree[node]
    BY <1>1
  <2> DEFINE u == [t EXCEPT !.terminate = TRUE]
  <2>2. u.value = t.value /\ u.parent = t.parent
    BY DEF TreeNode
  <2>3. tree' = [tree EXCEPT ![node] = u]
    BY <1>3, <2>1
  <2> HIDE DEF u
  <2>4. DOMAIN tree' = DOMAIN tree /\ \A n \in DOMAIN tree : tree'[n] = IF n = node THEN u ELSE tree[n]
    BY <1>1, <2>3
  <2> QED  BY <2>1, <2>2, <2>4 DEF Rewarded
<1> QED  BY <1>2, <1>3 DEF TT!Rollout

\* The sum of visits rewards is at most visits full ones.
LEMMA MeanIsNoMore ==
  ASSUME NEW v \in Nat, NEW k \in Nat \ {0}, NEW F \in Nat, NEW c \in Nat, c <= k, v * k = F * c
  PROVE  v <= F
<1> SUFFICES ASSUME v > F PROVE FALSE
  OBVIOUS
<1>1. PICK d \in Nat, e \in Nat : v = F + 1 + d /\ k = c + e
  <2>1. v - F - 1 \in Nat /\ k - c \in Nat /\ v = F + 1 + (v - F - 1) /\ k = c + (k - c)
    OBVIOUS
  <2> QED  BY <2>1
<1>2. v * k = F * c + F * e + k + d * k
  <2>1. (F + 1 + d) * k = F * k + k + d * k /\ F * (c + e) = F * c + F * e
    OBVIOUS
  <2> QED  BY <1>1, <2>1
<1>3. F * e \in Nat /\ d * k \in Nat /\ F * c \in Nat
  OBVIOUS
<1> QED  BY <1>2, <1>3

LEMMA VisitedIsRewarded ==
  TreeInv /\ method = "mcts" =>
    \A n \in DOMAIN tree : tree[n].visits # 0 => tree[n].value \in 0..FullReward
<1> SUFFICES ASSUME TreeInv, method = "mcts", NEW n \in DOMAIN tree, tree[n].visits # 0
             PROVE  tree[n].value \in 0..FullReward
  OBVIOUS
<1>1. tree[n] \in TreeNode /\ ScoreOf(n) /\ tree \in Seq(TreeNode)
  BY DEF TreeInv, TreeTypes, SimulationInv
<1>2. IsFiniteSet(AnswersBelow(n))
  <2>1. Len(tree) \in Nat /\ DOMAIN tree = 1..Len(tree)
    BY <1>1
  <2>2. AnswersBelow(n) \subseteq 1..Len(tree)
    BY <2>1 DEF AnswersBelow, TT!AnswerNodes
  <2>3. IsFiniteSet(1..Len(tree))
    BY <2>1, FS_Interval
  <2> QED  BY <2>2, <2>3, FS_Subset
<1>3. FullBelow(n) \subseteq AnswersBelow(n)
  BY DEF FullBelow
<1>4. Cardinality(FullBelow(n)) \in Nat /\ Cardinality(FullBelow(n)) <= Cardinality(AnswersBelow(n))
  BY <1>2, <1>3, FS_Subset, FS_CardinalityType
<1> DEFINE v == tree[n].value  k == tree[n].visits  c == Cardinality(FullBelow(n))
<1>5. v \in Nat /\ k \in Nat \ {0} /\ c \in Nat /\ c <= k /\ v * k = FullReward * c
  BY <1>1, <1>4 DEF ScoreOf, TreeNode
<1> HIDE DEF v, k, c
<1>6. v <= FullReward
  BY <1>5, MeanIsNoMore, TreeAssumption
<1> QED  BY <1>5, <1>6, TreeAssumption DEF v

LEMMA EndRewards == ASSUME TreeInv, Rewarded, TT!SimulationEnds PROVE Rewarded'
<1>1. TreeInv' /\ method' = "mcts" /\ TreeTypes
  BY EndKeepsScore DEF TreeInv, TT!SimulationEnds
<1>2. \A n \in DOMAIN tree' : tree'[n].visits # 0 => tree'[n].value \in 0..FullReward
  <2>1. (TreeInv /\ method = "mcts" =>
           \A n \in DOMAIN tree : tree[n].visits # 0 => tree[n].value \in 0..FullReward)'
    BY VisitedIsRewarded, PTL
  <2> QED  BY <1>1, <2>1
<1>3. tree \in Seq(TreeNode) /\ node \in DOMAIN tree
  BY <1>1 DEF TreeTypes
<1> DEFINE a == Len(tree) + 1
           new == TT!ThinkNode(node, FALSE, "answer")
           answer(reward) == [new EXCEPT !.value = reward, !.rated = TRUE]
<1>4. PICK reward \in TT!Reward :
        tree' = TT!Backpropagate(Append(tree, answer(reward)), node, reward)
  BY DEF TT!SimulationEnds
<1>5. reward \in 0..FullReward /\ reward \in Nat
  BY RewardsFit
<1> DEFINE s == answer(reward)
<1>6. s.parent = node /\ s.value = reward /\ s.visits = 0
  BY DEF TT!ThinkNode
<1> HIDE DEF new
<1> HIDE DEF s, answer
<1> DEFINE larger == Append(tree, s)
<1>7. /\ DOMAIN larger = 1..a /\ larger[a] = s /\ DOMAIN tree = 1..(a - 1) /\ a \in Nat /\ node \in 1..(a - 1)
      /\ \A i \in DOMAIN tree : i \in 1..a /\ larger[i] = tree[i]
      /\ \A i \in 1..a : i = a \/ i \in DOMAIN tree
  BY <1>3, AppendProperties
<1>8. tree' = TT!Backpropagate(larger, node, reward)
  BY <1>4 DEF s
<1> HIDE DEF larger, a
<1> DEFINE path == larger[node].above \cup {node}
           count(i) == larger[i].visits + 1
           mean(i) == (larger[i].value * larger[i].visits + reward) \div (larger[i].visits + 1)
<1>9. tree' = [i \in 1..a |-> IF i \notin path THEN larger[i]
                 ELSE [larger[i] EXCEPT !.visits = count(i), !.value = mean(i)]]
  BY <1>7, <1>8 DEF TT!Backpropagate
<1> HIDE DEF path, mean
<1>10. ASSUME NEW i \in 1..a PROVE tree'[i].parent \in 0..(i - 1) /\ tree'[i].value \in 0..FullReward
  <2>1. CASE i \notin path
    <3>1. tree'[i] = larger[i]
      BY <1>9, <2>1
    <3>2. CASE i = a
      BY <1>5, <1>6, <1>7, <3>1, <3>2
    <3>3. CASE i \in DOMAIN tree
      BY <1>7, <3>1, <3>3 DEF Rewarded
    <3> QED  BY <1>7, <3>2, <3>3
  <2>2. CASE i \in path
    <3>1. i \in DOMAIN tree
      <4>1. larger[node].above \subseteq 1..(node - 1)
        BY <1>1, <1>3, <1>7 DEF TreeTypes
      <4> QED  BY <1>7, <2>2, <4>1 DEF path
    <3>2. PICK t \in TreeNode : t = larger[i]
      BY <1>3, <1>7, <3>1
    <3>3. tree'[i] = [t EXCEPT !.visits = count(i), !.value = mean(i)]
      BY <1>9, <2>2, <3>2
    <3>4. count(i) \in Nat \ {0}
      BY <3>2 DEF TreeNode
    <3> HIDE DEF count
    <3>5. tree'[i].visits = count(i) /\ tree'[i].parent = t.parent
      BY <3>3 DEF TreeNode
    <3>6. DOMAIN tree' = 1..a
      BY <1>9
    <3> QED  BY <1>2, <1>7, <3>1, <3>2, <3>4, <3>5, <3>6 DEF Rewarded
  <2> QED  BY <2>1, <2>2
<1>11. DOMAIN tree' = 1..a
  BY <1>9
<1> QED  BY <1>10, <1>11 DEF Rewarded

LEMMA RewardedStep == ASSUME TreeInv, Rewarded, [TT!Next]_treeVars PROVE Rewarded'
<1>1. CASE TT!ExpandLeaf
  <2>1. /\ leaves # <<>> /\ leaves \in Seq(Nat) /\ TT!NodesOf(leaves) \subseteq DOMAIN tree /\ TreeTypes
    BY <1>1 DEF TreeInv, TreeTypes, TT!ExpandLeaf
  <2>2. 1 \in DOMAIN leaves /\ Head(leaves) = leaves[1]
    BY <2>1
  <2>3. Head(leaves) \in DOMAIN tree
    BY <2>1, <2>2 DEF TT!NodesOf
  <2> QED  BY <1>1, <2>1, <2>3, ExpandedRewards DEF TT!ExpandLeaf
<1>2. CASE TT!NextTree
  <2>1. CASE tree' = <<TT!Root>>
    <3>1. (TreeInv /\ tree = <<TT!Root>> => Rewarded)'
      BY RewardedStart, PTL
    <3>2. TT!Root' = TT!Root
      BY DEF TT!Root
    <3> QED  BY <1>2, <2>1, <3>1, <3>2, NextTreeKeepsScore
  <2>2. CASE tree' = tree
    BY <2>2 DEF Rewarded
  <2> QED  BY <1>2, <2>1, <2>2 DEF TT!NextTree
<1>3. CASE tree' = tree
  BY <1>3 DEF Rewarded
<1>4. TT!BeamAnswers \/ TT!Select \/ TT!CallFails \/ UNCHANGED treeVars => tree' = tree
  BY DEF TT!BeamAnswers, TT!Select, TT!CallFails, treeVars
<1> QED  BY <1>1, <1>2, <1>3, <1>4, AcceptRewards, RoundRewards, RolloutRewards, EndRewards DEF TT!Next

LEMMA RewardedShow == TreeInv /\ Rewarded => TT!TypeOK
BY DEF TreeInv, TreeTypes, Rewarded, TT!TypeOK

---------------------------------------------------------------------------
(* memory/progress_tracking/v2_orchestrator.go.                            *)

VARIABLES mechanical, toolEvents, runs
orchestratorVars == <<mechanical, toolEvents, runs>>
TO == INSTANCE ToolOrchestrator

ToolAnswers == {"", "ok", "error"}
ToolRun == [at : {"idle", "resolve", "outputs", "failed", "partial", "done"},
  refs : SUBSET StateKeys, read : SUBSET StateKeys, tool : ToolAnswers,
  outputs : Seq(StateKeys), write : SUBSET StateKeys]
ToolEvent == [call : ToolCalls, read : SUBSET StateKeys, write : SUBSET StateKeys]

Bound(q) == {q[j] : j \in DOMAIN q}
Given(values, k) == values[k] # ""

\* How far call c is: it reads what it refers to before its tool runs, and what it has
\* bound and what is left to bind are its bindings.
Accounted(c, run) ==
  /\ run.at \in {"idle", "resolve", "failed"} => run.write = {}
  /\ run.at = "idle" => run.read = {}
  /\ run.at = "resolve" => run.refs \cup run.read = RefsOf[c]
  /\ run.at \in {"outputs", "partial", "done"} => run.tool = "ok" /\ run.read = RefsOf[c]
  /\ run.at = "outputs" => run.write \cup Bound(run.outputs) = Bound(OutputsOf[c])
Explained(e) == e.read = RefsOf[e.call] /\ e.write = Bound(OutputsOf[e.call])
ValuesInv ==
  /\ runs \in [ToolCalls -> ToolRun] /\ toolEvents \in Seq(ToolEvent) /\ DOMAIN mechanical = StateKeys
  /\ \A c \in ToolCalls : Accounted(c, runs[c])
  /\ \A c \in ToolCalls : \A k \in runs[c].read \cup runs[c].write : Given(mechanical, k)
  /\ \A i \in 1..Len(toolEvents) :
       /\ Explained(toolEvents[i])
       /\ \A k \in toolEvents[i].read \cup toolEvents[i].write : Given(mechanical, k)
  /\ \A k \in StateKeys : mechanical[k] \in ToolCalls =>
       /\ k \in runs[mechanical[k]].write
       /\ runs[mechanical[k]].at \in {"outputs", "partial", "done"}

LEMMA BoundByHead ==
  ASSUME NEW S, NEW q \in Seq(S), q # << >>
  PROVE  /\ Head(q) \in S /\ Tail(q) \in Seq(S)
         /\ Bound(q) = {Head(q)} \cup Bound(Tail(q))
<1>1. /\ Head(q) \in S /\ Tail(q) \in Seq(S) /\ Len(Tail(q)) = Len(q) - 1 /\ Head(q) = q[1]
      /\ \A i \in 1..Len(Tail(q)) : Tail(q)[i] = q[i + 1]
  BY HeadTailProperties
<1>2. Len(q) \in Nat /\ Len(q) # 0 /\ DOMAIN q = 1..Len(q) /\ DOMAIN Tail(q) = 1..Len(q) - 1
  BY <1>1, EmptySeq
<1>3. \A i \in 1..Len(q) : i = 1 \/ (i - 1 \in 1..Len(q) - 1 /\ i = (i - 1) + 1)
  BY <1>2
<1>4. 1 \in 1..Len(q) /\ \A i \in 1..Len(q) - 1 : i + 1 \in 1..Len(q)
  BY <1>2
<1>5. Bound(q) \subseteq {Head(q)} \cup Bound(Tail(q))
  <2> SUFFICES ASSUME NEW i \in 1..Len(q) PROVE q[i] \in {Head(q)} \cup Bound(Tail(q))
    BY <1>2 DEF Bound
  <2>1. CASE i = 1
    BY <1>1, <2>1
  <2>2. CASE i # 1
    <3>1. i - 1 \in 1..Len(q) - 1 /\ i = (i - 1) + 1
      BY <1>3, <2>2
    <3>2. Tail(q)[i - 1] = q[i]
      BY <1>1, <3>1
    <3> QED  BY <1>2, <3>1, <3>2 DEF Bound
  <2> QED  BY <2>1, <2>2
<1>6. {Head(q)} \cup Bound(Tail(q)) \subseteq Bound(q)
  BY <1>1, <1>2, <1>4 DEF Bound
<1> QED  BY <1>1, <1>5, <1>6

LEMMA NothingBound == Bound(<< >>) = {}
BY DEF Bound

LEMMA ValuesStart == TO!Init => ValuesInv
<1> SUFFICES ASSUME TO!Init PROVE ValuesInv
  OBVIOUS
<1>1. runs = [c \in ToolCalls |-> TO!NotCalled]
  BY DEF TO!Init
<1>2. PICK given \in SUBSET StateKeys :
        mechanical = [k \in StateKeys |-> IF k \in given THEN "setup" ELSE ""]
  BY DEF TO!Init
<1>3. TO!NotCalled \in ToolRun
  <2>1. << >> \in Seq(StateKeys)
    OBVIOUS
  <2> QED  BY <2>1 DEF TO!NotCalled, ToolRun, ToolAnswers
<1>4. TO!NotCalled.at = "idle" /\ TO!NotCalled.read = {} /\ TO!NotCalled.write = {}
  BY DEF TO!NotCalled
<1>5. \A c \in ToolCalls : Accounted(c, runs[c])
  BY <1>1, <1>4 DEF Accounted
<1>6. \A k \in StateKeys : mechanical[k] \notin ToolCalls
  BY <1>2, OrchestratorAssumption
<1>7. toolEvents = << >>
  BY DEF TO!Init
<1>8. toolEvents \in Seq(ToolEvent) /\ Len(toolEvents) = 0
  BY <1>7
<1>9. runs \in [ToolCalls -> ToolRun] /\ DOMAIN mechanical = StateKeys
  BY <1>1, <1>2, <1>3
<1>10. \A c \in ToolCalls : runs[c].read \cup runs[c].write = {}
  BY <1>1, <1>4
<1> QED  BY <1>5, <1>6, <1>8, <1>9, <1>10 DEF ValuesInv

\* Only call c goes on, it does not give up what it wrote, and no value changes.
LEMMA OnlyTheCallOfTool ==
  ASSUME ValuesInv, NEW c \in ToolCalls, NEW run \in ToolRun, runs' = [runs EXCEPT ![c] = run],
         mechanical' = mechanical, toolEvents' = toolEvents,
         Accounted(c, run), run.write = runs[c].write,
         runs[c].at \in {"outputs", "partial", "done"} => run.at \in {"outputs", "partial", "done"},
         \A k \in run.read : Given(mechanical, k)
  PROVE  ValuesInv'
<1>1. /\ runs' \in [ToolCalls -> ToolRun] /\ runs'[c] = run
      /\ \A d \in ToolCalls : d # c => runs'[d] = runs[d]
  BY DEF ValuesInv
<1>2. \A d \in ToolCalls : Accounted(d, runs'[d])
  BY <1>1 DEF ValuesInv
<1>3. ASSUME NEW d \in ToolCalls, NEW k \in runs'[d].read \cup runs'[d].write
      PROVE  Given(mechanical', k)
  BY <1>1 DEF ValuesInv
<1>4. ASSUME NEW k \in StateKeys, mechanical'[k] \in ToolCalls
      PROVE  /\ k \in runs'[mechanical'[k]].write
             /\ runs'[mechanical'[k]].at \in {"outputs", "partial", "done"}
  BY <1>1, <1>4 DEF ValuesInv
<1>5. toolEvents' \in Seq(ToolEvent) /\ DOMAIN mechanical' = StateKeys
  BY DEF ValuesInv
<1>6. ASSUME NEW i \in 1..Len(toolEvents')
      PROVE  /\ Explained(toolEvents'[i])
             /\ \A k \in toolEvents'[i].read \cup toolEvents'[i].write : Given(mechanical', k)
  BY DEF ValuesInv
<1> QED  BY <1>1, <1>2, <1>3, <1>4, <1>5, <1>6 DEF ValuesInv

\* One binding is written: the key is the call's now, and no other value is lost.
LEMMA WriteKeepsValues ==
  ASSUME ValuesInv, NEW c \in ToolCalls, TO!WriteMechanicalValue(c) PROVE ValuesInv'
<1> DEFINE k == Head(runs[c].outputs)
<1>1. /\ runs \in [ToolCalls -> ToolRun] /\ runs[c] \in ToolRun /\ Accounted(c, runs[c])
      /\ toolEvents \in Seq(ToolEvent) /\ DOMAIN mechanical = StateKeys
  BY DEF ValuesInv
<1>2. /\ runs[c].at = "outputs" /\ runs[c].outputs # << >> /\ toolEvents' = toolEvents
      /\ \/ /\ mechanical' = [mechanical EXCEPT ![k] = c]
            /\ runs' = [runs EXCEPT ![c].outputs = Tail(@), ![c].write = @ \cup {k}]
         \/ runs' = [runs EXCEPT ![c].at = "partial"] /\ mechanical' = mechanical
  BY DEF TO!WriteMechanicalValue
<1>3. runs[c].outputs \in Seq(StateKeys) /\ runs[c].write \in SUBSET StateKeys
  BY <1>1 DEF ToolRun
<1>4. /\ k \in StateKeys /\ Tail(runs[c].outputs) \in Seq(StateKeys)
      /\ Bound(runs[c].outputs) = {k} \cup Bound(Tail(runs[c].outputs))
  BY <1>2, <1>3, BoundByHead
<1>5. CASE runs' = [runs EXCEPT ![c].at = "partial"] /\ mechanical' = mechanical
  <2> DEFINE run == [runs[c] EXCEPT !.at = "partial"]
  <2>1. /\ run \in ToolRun /\ run.at = "partial" /\ run.write = runs[c].write
        /\ run.read = runs[c].read /\ run.tool = runs[c].tool
    BY <1>1 DEF ToolRun
  <2>2. runs' = [runs EXCEPT ![c] = run]
    BY <1>5
  <2> HIDE DEF run
  <2>3. Accounted(c, run)
    BY <1>1, <1>2, <2>1 DEF Accounted
  <2>4. \A key \in run.read : Given(mechanical, key)
    BY <2>1 DEF ValuesInv
  <2> QED  BY <1>2, <1>5, <2>1, <2>2, <2>3, <2>4, OnlyTheCallOfTool
<1>6. CASE /\ mechanical' = [mechanical EXCEPT ![k] = c]
           /\ runs' = [runs EXCEPT ![c].outputs = Tail(@), ![c].write = @ \cup {k}]
  <2> DEFINE run == [runs[c] EXCEPT !.outputs = Tail(@), !.write = @ \cup {k}]
  <2>1. /\ run \in ToolRun /\ run.at = "outputs" /\ run.write = runs[c].write \cup {k}
        /\ run.outputs = Tail(runs[c].outputs) /\ run.read = runs[c].read /\ run.tool = runs[c].tool
    <3>1. runs[c].write \cup {k} \in SUBSET StateKeys
      BY <1>3, <1>4
    <3> HIDE DEF k
    <3> QED  BY <1>1, <1>2, <1>4, <3>1 DEF ToolRun
  <2>2. runs' = [runs EXCEPT ![c] = run]
    BY <1>6
  <2> HIDE DEF run, k
  <2>3. Accounted(c, run)
    BY <1>1, <1>2, <1>4, <2>1 DEF Accounted
  <2>4. /\ runs' \in [ToolCalls -> ToolRun] /\ runs'[c] = run
        /\ \A d \in ToolCalls : d # c => runs'[d] = runs[d]
    BY <1>1, <2>1, <2>2
  <2>5. /\ DOMAIN mechanical' = StateKeys /\ mechanical'[k] = c
        /\ \A key \in StateKeys : key # k => mechanical'[key] = mechanical[key]
    BY <1>1, <1>4, <1>6
  <2>6. \A key \in StateKeys : Given(mechanical, key) \/ key = k => Given(mechanical', key)
    BY <2>5, OrchestratorAssumption DEF Given
  <2>7. ASSUME NEW d \in ToolCalls, NEW key \in runs'[d].read \cup runs'[d].write
        PROVE  Given(mechanical', key)
    <3>1. runs[d] \in ToolRun /\ runs'[d] \in ToolRun
      BY <1>1, <2>4
    <3>2. key \in StateKeys
      BY <3>1 DEF ToolRun
    <3>3. key \in runs[d].read \cup runs[d].write \/ key = k
      BY <2>1, <2>4
    <3> QED  BY <2>6, <3>2, <3>3 DEF ValuesInv
  <2>8. ASSUME NEW key \in StateKeys, mechanical'[key] \in ToolCalls
        PROVE  /\ key \in runs'[mechanical'[key]].write
               /\ runs'[mechanical'[key]].at \in {"outputs", "partial", "done"}
    <3>1. CASE key = k
      BY <2>1, <2>4, <2>5, <3>1
    <3>2. CASE key # k
      <4>1. /\ mechanical'[key] = mechanical[key] /\ key \in runs[mechanical[key]].write
            /\ runs[mechanical[key]].at \in {"outputs", "partial", "done"}
        BY <2>5, <2>8, <3>2 DEF ValuesInv
      <4> QED  BY <2>1, <2>4, <2>8, <4>1
    <3> QED  BY <3>1, <3>2
  <2>9. ASSUME NEW i \in 1..Len(toolEvents')
        PROVE  /\ Explained(toolEvents'[i])
               /\ \A key \in toolEvents'[i].read \cup toolEvents'[i].write : Given(mechanical', key)
    <3>1. toolEvents[i] \in ToolEvent /\ toolEvents' = toolEvents
      BY <1>1, <1>2
    <3>2. toolEvents[i].read \cup toolEvents[i].write \subseteq StateKeys
      BY <3>1 DEF ToolEvent
    <3> QED  BY <2>6, <3>1, <3>2 DEF ValuesInv
  <2>10. \A d \in ToolCalls : Accounted(d, runs'[d])
    BY <2>3, <2>4 DEF ValuesInv
  <2> QED  BY <1>1, <1>2, <2>4, <2>5, <2>7, <2>8, <2>9, <2>10 DEF ValuesInv
<1> QED  BY <1>2, <1>5, <1>6

LEMMA EventKeepsValues ==
  ASSUME ValuesInv, NEW c \in ToolCalls, TO!AppendToolEvent(c) PROVE ValuesInv'
<1>1. /\ runs \in [ToolCalls -> ToolRun] /\ runs[c] \in ToolRun /\ Accounted(c, runs[c])
      /\ toolEvents \in Seq(ToolEvent) /\ DOMAIN mechanical = StateKeys /\ Len(toolEvents) \in Nat
  BY DEF ValuesInv
<1> DEFINE e == [call |-> c, read |-> runs[c].read, write |-> runs[c].write]
           run == [runs[c] EXCEPT !.at = "done"]
<1>2. /\ runs[c].at = "outputs" /\ runs[c].outputs = << >> /\ mechanical' = mechanical
      /\ toolEvents' = Append(toolEvents, e) /\ runs' = [runs EXCEPT ![c] = run]
  BY DEF TO!AppendToolEvent
<1>3. /\ run \in ToolRun /\ run.at = "done" /\ run.write = runs[c].write
      /\ run.read = runs[c].read /\ run.tool = runs[c].tool
  BY <1>1 DEF ToolRun
<1>4. e \in ToolEvent /\ e.read = runs[c].read /\ e.write = runs[c].write /\ e.call = c
  BY <1>1 DEF ToolRun, ToolEvent
<1> HIDE DEF e, run
<1>5. e.read = RefsOf[c] /\ e.write = Bound(OutputsOf[c])
  BY <1>1, <1>2, <1>4, NothingBound DEF Accounted
<1>6. Accounted(c, run)
  BY <1>1, <1>2, <1>3 DEF Accounted
<1>7. /\ runs' \in [ToolCalls -> ToolRun] /\ runs'[c] = run
      /\ \A d \in ToolCalls : d # c => runs'[d] = runs[d]
  BY <1>1, <1>2, <1>3
<1>8. \A d \in ToolCalls : Accounted(d, runs'[d])
  BY <1>6, <1>7 DEF ValuesInv
<1>9. ASSUME NEW d \in ToolCalls, NEW k \in runs'[d].read \cup runs'[d].write
      PROVE  Given(mechanical', k)
  BY <1>2, <1>3, <1>7 DEF ValuesInv
<1>10. ASSUME NEW k \in StateKeys, mechanical'[k] \in ToolCalls
      PROVE  /\ k \in runs'[mechanical'[k]].write
             /\ runs'[mechanical'[k]].at \in {"outputs", "partial", "done"}
  BY <1>2, <1>3, <1>7, <1>10 DEF ValuesInv
<1>11. /\ toolEvents' \in Seq(ToolEvent) /\ Len(toolEvents') = Len(toolEvents) + 1
       /\ toolEvents'[Len(toolEvents) + 1] = e
       /\ \A i \in 1..Len(toolEvents) : toolEvents'[i] = toolEvents[i]
  BY <1>1, <1>2, <1>4
<1>12. ASSUME NEW i \in 1..Len(toolEvents')
       PROVE  /\ Explained(toolEvents'[i])
              /\ \A k \in toolEvents'[i].read \cup toolEvents'[i].write : Given(mechanical', k)
  <2>1. CASE i = Len(toolEvents) + 1
    <3>1. Explained(e)
      BY <1>4, <1>5 DEF Explained
    <3>2. \A k \in e.read \cup e.write : Given(mechanical', k)
      BY <1>2, <1>4 DEF ValuesInv
    <3> QED  BY <1>11, <2>1, <3>1, <3>2
  <2>2. CASE i # Len(toolEvents) + 1
    <3>1. i \in 1..Len(toolEvents)
      BY <1>1, <1>11, <2>2
    <3> QED  BY <1>2, <1>11, <3>1 DEF ValuesInv
  <2> QED  BY <2>1, <2>2
<1> QED  BY <1>1, <1>2, <1>7, <1>8, <1>9, <1>10, <1>11, <1>12 DEF ValuesInv

LEMMA ValuesStep == ASSUME ValuesInv, [TO!Next]_orchestratorVars PROVE ValuesInv'
<1>1. \A c \in ToolCalls : /\ runs[c] \in ToolRun /\ Accounted(c, runs[c])
                           /\ \A k \in runs[c].read : Given(mechanical, k)
  BY DEF ValuesInv
<1>2. ASSUME NEW c \in ToolCalls, TO!Execute(c) PROVE ValuesInv'
  <2> DEFINE run == [runs[c] EXCEPT !.at = "resolve", !.refs = RefsOf[c]]
  <2>1. /\ runs[c].at = "idle" /\ runs' = [runs EXCEPT ![c] = run]
        /\ mechanical' = mechanical /\ toolEvents' = toolEvents
    BY <1>2 DEF TO!Execute
  <2>2. /\ run \in ToolRun /\ run.at = "resolve" /\ run.refs = RefsOf[c]
        /\ run.read = runs[c].read /\ run.write = runs[c].write
    BY <1>1, OrchestratorAssumption DEF ToolRun
  <2> HIDE DEF run
  <2>3. runs[c].read = {} /\ runs[c].write = {}
    BY <1>1, <2>1 DEF Accounted
  <2>4. Accounted(c, run)
    BY <2>2, <2>3 DEF Accounted
  <2> QED  BY <1>1, <2>1, <2>2, <2>3, <2>4, OnlyTheCallOfTool
<1>3. ASSUME NEW c \in ToolCalls, TO!ResolveArg(c) PROVE ValuesInv'
  <2>1. PICK k \in runs[c].refs :
          runs' = IF mechanical[k] = "" THEN [runs EXCEPT ![c].at = "failed"]
                  ELSE [runs EXCEPT ![c].refs = @ \ {k}, ![c].read = @ \cup {k}]
    BY <1>3 DEF TO!ResolveArg
  <2>2. /\ runs[c].at = "resolve" /\ mechanical' = mechanical /\ toolEvents' = toolEvents
    BY <1>3 DEF TO!ResolveArg
  <2>3. CASE ~Given(mechanical, k)
    <3> DEFINE run == [runs[c] EXCEPT !.at = "failed"]
    <3>1. runs' = [runs EXCEPT ![c] = run]
      BY <2>1, <2>3 DEF Given
    <3>2. run \in ToolRun /\ run.at = "failed" /\ run.read = runs[c].read /\ run.write = runs[c].write
      BY <1>1 DEF ToolRun
    <3> HIDE DEF run
    <3>3. Accounted(c, run)
      BY <1>1, <2>2, <3>2 DEF Accounted
    <3> QED  BY <1>1, <2>2, <3>1, <3>2, <3>3, OnlyTheCallOfTool
  <2>4. CASE Given(mechanical, k)
    <3> DEFINE run == [runs[c] EXCEPT !.refs = @ \ {k}, !.read = @ \cup {k}]
    <3>1. runs' = [runs EXCEPT ![c] = run]
      BY <2>1, <2>4 DEF Given
    <3>2. /\ run \in ToolRun /\ run.at = "resolve" /\ run.read = runs[c].read \cup {k}
          /\ run.refs = runs[c].refs \ {k} /\ run.write = runs[c].write
      BY <1>1, <2>2 DEF ToolRun
    <3> HIDE DEF run
    <3>3. Accounted(c, run)
      BY <1>1, <2>2, <3>2 DEF Accounted
    <3>4. \A key \in run.read : Given(mechanical, key)
      BY <1>1, <2>4, <3>2
    <3> QED  BY <2>2, <3>1, <3>2, <3>3, <3>4, OnlyTheCallOfTool
  <2> QED  BY <2>3, <2>4
<1>4. ASSUME NEW c \in ToolCalls, TO!ExecuteStatefulTool(c) PROVE ValuesInv'
  <2>1. PICK answer \in {"ok", "error"} :
          runs' = [runs EXCEPT ![c].tool = answer, ![c].outputs = OutputsOf[c],
                      ![c].at = IF answer = "ok" THEN "outputs" ELSE "failed"]
    BY <1>4 DEF TO!ExecuteStatefulTool, TO!AfterError
  <2>2. /\ runs[c].at = "resolve" /\ runs[c].refs = {}
        /\ mechanical' = mechanical /\ toolEvents' = toolEvents
    BY <1>4 DEF TO!ExecuteStatefulTool
  <2> DEFINE at == IF answer = "ok" THEN "outputs" ELSE "failed"
             run == [runs[c] EXCEPT !.tool = answer, !.outputs = OutputsOf[c], !.at = at]
  <2>3. runs' = [runs EXCEPT ![c] = run]
    BY <2>1
  <2>4. at \in {"outputs", "failed"} /\ (at = "outputs" => answer = "ok")
    OBVIOUS
  <2> HIDE DEF at
  <2>5. /\ run \in ToolRun /\ run.at = at /\ run.tool = answer /\ run.outputs = OutputsOf[c]
        /\ run.read = runs[c].read /\ run.write = runs[c].write
    BY <1>1, <2>4, OrchestratorAssumption DEF ToolRun, ToolAnswers
  <2> HIDE DEF run
  <2>6. runs[c].read = RefsOf[c] /\ runs[c].write = {}
    BY <1>1, <2>2 DEF Accounted
  <2>7. Accounted(c, run)
    BY <2>4, <2>5, <2>6 DEF Accounted
  <2> QED  BY <1>1, <2>2, <2>3, <2>5, <2>6, <2>7, OnlyTheCallOfTool
<1>5. ASSUME NEW c \in ToolCalls, TO!StoreFails(c) PROVE ValuesInv'
  <2>1. /\ runs[c].at \in {"resolve", "outputs"} /\ mechanical' = mechanical /\ toolEvents' = toolEvents
        /\ runs' = [runs EXCEPT ![c].at = IF @ = "resolve" THEN "failed" ELSE "partial"]
    BY <1>5 DEF TO!StoreFails
  <2> DEFINE at == IF runs[c].at = "resolve" THEN "failed" ELSE "partial"
             run == [runs[c] EXCEPT !.at = at]
  <2>2. runs' = [runs EXCEPT ![c] = run]
    BY <2>1
  <2>3. at \in {"failed", "partial"} /\ (at = "failed" <=> runs[c].at = "resolve")
    OBVIOUS
  <2> HIDE DEF at
  <2>4. /\ run \in ToolRun /\ run.at = at /\ run.read = runs[c].read /\ run.write = runs[c].write
        /\ run.tool = runs[c].tool
    BY <1>1, <2>3 DEF ToolRun
  <2> HIDE DEF run
  <2>5. Accounted(c, run)
    BY <1>1, <2>1, <2>3, <2>4 DEF Accounted
  <2> QED  BY <1>1, <2>1, <2>2, <2>3, <2>4, <2>5, OnlyTheCallOfTool
<1>6. CASE UNCHANGED orchestratorVars
  BY <1>6 DEF orchestratorVars, ValuesInv
<1> QED
  BY <1>2, <1>3, <1>4, <1>5, <1>6, WriteKeepsValues, EventKeepsValues DEF TO!Next

LEMMA ValuesShow == ValuesInv => TO!ValuesAreExplained
<1> SUFFICES ASSUME ValuesInv PROVE TO!ValuesAreExplained
  OBVIOUS
<1>1. DOMAIN toolEvents = 1..Len(toolEvents)
  BY DEF ValuesInv
<1>2. \A i \in DOMAIN toolEvents :
        /\ toolEvents[i].read = RefsOf[toolEvents[i].call]
        /\ toolEvents[i].write =
             {OutputsOf[toolEvents[i].call][j] : j \in DOMAIN OutputsOf[toolEvents[i].call]}
        /\ \A k \in toolEvents[i].read \cup toolEvents[i].write : mechanical[k] # ""
  BY <1>1 DEF ValuesInv, Explained, Given, Bound
<1>3. \A c \in ToolCalls : runs[c].write # {} => runs[c].tool = "ok" /\ runs[c].read = RefsOf[c]
  <2> SUFFICES ASSUME NEW c \in ToolCalls, runs[c].write # {}
               PROVE  runs[c].tool = "ok" /\ runs[c].read = RefsOf[c]
    OBVIOUS
  <2>1. Accounted(c, runs[c]) /\ runs[c] \in ToolRun
    BY DEF ValuesInv
  <2>2. runs[c].at \in {"outputs", "partial", "done"}
    BY <2>1 DEF Accounted, ToolRun
  <2> QED  BY <2>1, <2>2 DEF Accounted
<1>4. \A k \in StateKeys : mechanical[k] \in ToolCalls =>
        /\ k \in runs[mechanical[k]].write
        /\ runs[mechanical[k]].at \in {"outputs", "partial", "done"}
  BY DEF ValuesInv
<1> QED  BY <1>2, <1>3, <1>4 DEF TO!ValuesAreExplained

\* Each value is the setup's or a call's, a call reads what it refers to and writes what its
\* result has, and the events are as many as the calls that are done.
Done == {c \in ToolCalls : runs[c].at = "done"}
Origins == ToolCalls \cup {"", "setup"}
ValuesTypes ==
  /\ mechanical \in [StateKeys -> Origins]
  /\ \A c \in ToolCalls : /\ runs[c].refs \subseteq RefsOf[c] /\ runs[c].read \subseteq RefsOf[c]
                          /\ runs[c].write \subseteq GivenBy[c]
  /\ IsFiniteSet(Done) /\ Len(toolEvents) = Cardinality(Done)

LEMMA SameCardinalityOfCalls == \A S : TO!Cardinality(S) = Cardinality(S)
BY DEF TO!Cardinality, Cardinality

LEMMA ValuesTypesStart == TO!Init => ValuesTypes
<1> SUFFICES ASSUME TO!Init PROVE ValuesTypes
  OBVIOUS
<1>1. /\ toolEvents = <<>> /\ runs = [c \in ToolCalls |-> TO!NotCalled]
      /\ mechanical \in [StateKeys -> Origins]
  <2>1. \A given \in SUBSET StateKeys :
          [key \in StateKeys |-> IF key \in given THEN "setup" ELSE ""] \in [StateKeys -> Origins]
    BY Zenon DEF Origins
  <2>2. toolEvents = <<>> /\ runs = [c \in ToolCalls |-> TO!NotCalled]
    BY Zenon DEF TO!Init
  <2>3. PICK given \in SUBSET StateKeys :
          mechanical = [k \in StateKeys |-> IF k \in given THEN "setup" ELSE ""]
    BY Zenon DEF TO!Init
  <2>4. mechanical \in [StateKeys -> Origins]
    BY <2>1, <2>3, Zenon
  <2> QED  BY <2>2, <2>4, Zenon
<1>2. /\ TO!NotCalled.at = "idle" /\ TO!NotCalled.refs = {} /\ TO!NotCalled.read = {}
      /\ TO!NotCalled.write = {}
  BY DEF TO!NotCalled
<1>3. Done = {}
  BY <1>1, <1>2 DEF Done
<1>4. IsFiniteSet(Done) /\ Cardinality(Done) = 0
  BY <1>3, FS_EmptySet
<1>5. Len(toolEvents) = 0
  BY <1>1
<1> QED  BY <1>1, <1>2, <1>4, <1>5 DEF ValuesTypes

\* Only call c goes on, and is not done yet.
LEMMA OneCallGoesOn ==
  ASSUME ValuesInv, ValuesTypes, NEW c \in ToolCalls, NEW run, runs' = [runs EXCEPT ![c] = run],
         runs[c].at # "done", run.at # "done", toolEvents' = toolEvents,
         mechanical' \in [StateKeys -> Origins],
         run.refs \subseteq RefsOf[c], run.read \subseteq RefsOf[c], run.write \subseteq GivenBy[c]
  PROVE  ValuesTypes'
<1>1. \A d \in ToolCalls : runs'[d] = IF d = c THEN run ELSE runs[d]
  BY DEF ValuesInv
<1>2. Done' = Done
  BY <1>1 DEF Done
<1> QED  BY <1>1, <1>2 DEF ValuesTypes, Origins

LEMMA ValuesTypesStep ==
  ASSUME ValuesInv, ValuesTypes, [TO!Next]_orchestratorVars PROVE ValuesTypes'
<1>1. CASE UNCHANGED orchestratorVars
  BY <1>1 DEF orchestratorVars, ValuesTypes, Done, Origins
<1>2. ASSUME NEW c \in ToolCalls, TO!Execute(c) PROVE ValuesTypes'
  <2> DEFINE run == [runs[c] EXCEPT !.at = "resolve", !.refs = RefsOf[c]]
  <2>1. /\ runs' = [runs EXCEPT ![c] = run] /\ runs[c].at = "idle" /\ UNCHANGED <<mechanical, toolEvents>>
    BY <1>2 DEF TO!Execute
  <2>2. runs[c] \in ToolRun
    BY DEF ValuesInv
  <2>3. run.at = "resolve" /\ run.refs = RefsOf[c] /\ run.read = runs[c].read /\ run.write = runs[c].write
    BY <2>2 DEF ToolRun
  <2> HIDE DEF run
  <2> QED  BY <2>1, <2>3, OneCallGoesOn DEF ValuesTypes
<1>3. ASSUME NEW c \in ToolCalls, TO!ResolveArg(c) PROVE ValuesTypes'
  <2>1. PICK k \in runs[c].refs :
          \/ runs' = [runs EXCEPT ![c].at = "failed"]
          \/ runs' = [runs EXCEPT ![c].refs = @ \ {k}, ![c].read = @ \cup {k}]
    BY <1>3, Zenon DEF TO!ResolveArg
  <2>2. runs[c] \in ToolRun /\ runs[c].at = "resolve" /\ UNCHANGED <<mechanical, toolEvents>>
    BY <1>3, Zenon DEF ValuesInv, TO!ResolveArg
  <2>3. CASE runs' = [runs EXCEPT ![c].at = "failed"]
    <3> DEFINE run == [runs[c] EXCEPT !.at = "failed"]
    <3>1. /\ runs' = [runs EXCEPT ![c] = run] /\ run.at = "failed" /\ run.refs = runs[c].refs
          /\ run.read = runs[c].read /\ run.write = runs[c].write
      BY <2>2, <2>3 DEF ToolRun
    <3> HIDE DEF run
    <3> QED  BY <2>2, <3>1, OneCallGoesOn DEF ValuesTypes
  <2>4. CASE runs' = [runs EXCEPT ![c].refs = @ \ {k}, ![c].read = @ \cup {k}]
    <3> DEFINE run == [runs[c] EXCEPT !.refs = @ \ {k}, !.read = @ \cup {k}]
    <3>1. /\ runs' = [runs EXCEPT ![c] = run] /\ run.at = "resolve" /\ run.refs = runs[c].refs \ {k}
          /\ run.read = runs[c].read \cup {k} /\ run.write = runs[c].write
      BY <2>2, <2>4 DEF ToolRun
    <3> HIDE DEF run
    <3>2. run.refs \subseteq RefsOf[c] /\ run.read \subseteq RefsOf[c] /\ run.write \subseteq GivenBy[c]
      BY <2>1, <3>1 DEF ValuesTypes
    <3> QED  BY <2>2, <3>1, <3>2, OneCallGoesOn DEF ValuesTypes
  <2> QED  BY <2>1, <2>3, <2>4
<1>4. ASSUME NEW c \in ToolCalls, TO!ExecuteStatefulTool(c) PROVE ValuesTypes'
  <2>1. PICK answer \in {"ok", "error"} :
          runs' = [runs EXCEPT ![c].tool = answer, ![c].outputs = OutputsOf[c],
                      ![c].at = IF answer = "ok" THEN "outputs" ELSE TO!AfterError]
    BY <1>4, Zenon DEF TO!ExecuteStatefulTool
  <2>2. runs[c] \in ToolRun /\ runs[c].at = "resolve" /\ UNCHANGED <<mechanical, toolEvents>>
    BY <1>4, Zenon DEF ValuesInv, TO!ExecuteStatefulTool
  <2> DEFINE next == IF answer = "ok" THEN "outputs" ELSE TO!AfterError
             run == [runs[c] EXCEPT !.tool = answer, !.outputs = OutputsOf[c], !.at = next]
  <2>3. next # "done"
    BY DEF TO!AfterError
  <2> HIDE DEF next
  <2>4. /\ runs' = [runs EXCEPT ![c] = run] /\ run.at = next /\ run.refs = runs[c].refs
        /\ run.read = runs[c].read /\ run.write = runs[c].write
    BY <2>1, <2>2 DEF ToolRun, next
  <2> HIDE DEF run
  <2> QED  BY <2>2, <2>3, <2>4, OneCallGoesOn DEF ValuesTypes
<1>5. ASSUME NEW c \in ToolCalls, TO!WriteMechanicalValue(c) PROVE ValuesTypes'
  <2> DEFINE k == Head(runs[c].outputs)
  <2>1. \/ /\ k \in GivenBy[c] /\ mechanical' = [mechanical EXCEPT ![k] = c]
           /\ runs' = [runs EXCEPT ![c].outputs = Tail(@), ![c].write = @ \cup {k}]
        \/ runs' = [runs EXCEPT ![c].at = "partial"] /\ UNCHANGED mechanical
    BY <1>5, Zenon DEF TO!WriteMechanicalValue
  <2>2. runs[c] \in ToolRun /\ runs[c].at = "outputs" /\ UNCHANGED toolEvents
        /\ DOMAIN mechanical = StateKeys
    BY <1>5, Zenon DEF ValuesInv, TO!WriteMechanicalValue
  <2>3. CASE runs' = [runs EXCEPT ![c].at = "partial"] /\ UNCHANGED mechanical
    <3> DEFINE run == [runs[c] EXCEPT !.at = "partial"]
    <3>1. /\ runs' = [runs EXCEPT ![c] = run] /\ run.at = "partial" /\ run.refs = runs[c].refs
          /\ run.read = runs[c].read /\ run.write = runs[c].write
      BY <2>2, <2>3 DEF ToolRun
    <3> HIDE DEF run
    <3> QED  BY <2>2, <2>3, <3>1, OneCallGoesOn DEF ValuesTypes
  <2>4. CASE /\ k \in GivenBy[c] /\ mechanical' = [mechanical EXCEPT ![k] = c]
             /\ runs' = [runs EXCEPT ![c].outputs = Tail(@), ![c].write = @ \cup {k}]
    <3> DEFINE run == [runs[c] EXCEPT !.outputs = Tail(@), !.write = @ \cup {k}]
    <3> HIDE DEF k
    <3>1. /\ runs' = [runs EXCEPT ![c] = run] /\ run.at = "outputs" /\ run.refs = runs[c].refs
          /\ run.read = runs[c].read /\ run.write = runs[c].write \cup {k}
      BY <2>2, <2>4 DEF ToolRun
    <3> HIDE DEF run
    <3>2. mechanical' \in [StateKeys -> Origins]
      <4>1. c \in Origins
        BY Zenon DEF Origins
      <4> QED  BY <2>4, <4>1 DEF ValuesTypes
    <3>3. run.write \subseteq GivenBy[c]
      BY <2>4, <3>1 DEF ValuesTypes
    <3> QED  BY <2>2, <3>1, <3>2, <3>3, OneCallGoesOn DEF ValuesTypes
  <2> QED  BY <2>1, <2>3, <2>4
<1>6. ASSUME NEW c \in ToolCalls, TO!StoreFails(c) PROVE ValuesTypes'
  <2> DEFINE next == IF runs[c].at = "resolve" THEN "failed" ELSE "partial"
             run == [runs[c] EXCEPT !.at = next]
  <2>1. runs[c] \in ToolRun /\ runs[c].at \in {"resolve", "outputs"} /\ UNCHANGED <<mechanical, toolEvents>>
        /\ runs' = [runs EXCEPT ![c] = run]
    BY <1>6 DEF ValuesInv, TO!StoreFails
  <2>2. next # "done"
    OBVIOUS
  <2> HIDE DEF next
  <2>3. run.at = next /\ run.refs = runs[c].refs /\ run.read = runs[c].read /\ run.write = runs[c].write
    BY <2>1 DEF ToolRun
  <2> HIDE DEF run
  <2> QED  BY <2>1, <2>2, <2>3, OneCallGoesOn DEF ValuesTypes
<1>7. ASSUME NEW c \in ToolCalls, TO!AppendToolEvent(c) PROVE ValuesTypes'
  <2> DEFINE e == [call |-> c, read |-> runs[c].read, write |-> runs[c].write]
             run == [runs[c] EXCEPT !.at = "done"]
  <2>1. /\ runs[c] \in ToolRun /\ runs[c].at = "outputs" /\ UNCHANGED mechanical
        /\ toolEvents' = Append(toolEvents, e) /\ runs' = [runs EXCEPT ![c] = run]
        /\ toolEvents \in Seq(ToolEvent)
    BY <1>7, Zenon DEF ValuesInv, TO!AppendToolEvent
  <2>2. /\ run.at = "done" /\ run.refs = runs[c].refs /\ run.read = runs[c].read /\ run.write = runs[c].write
    BY <2>1 DEF ToolRun
  <2>3. e \in ToolEvent
    BY <2>1 DEF ToolRun, ToolEvent
  <2> HIDE DEF e, run
  <2>4. Len(toolEvents') = Len(toolEvents) + 1
    BY <2>1, <2>3, AppendProperties
  <2>5. \A d \in ToolCalls : runs'[d] = IF d = c THEN run ELSE runs[d]
    BY <2>1 DEF ValuesInv
  <2>6. Done' = Done \cup {c} /\ c \notin Done
    BY <2>1, <2>2, <2>5 DEF Done
  <2>7. IsFiniteSet(Done') /\ Cardinality(Done') = Cardinality(Done) + 1
    BY <2>6, FS_AddElement DEF ValuesTypes
  <2> QED  BY <2>1, <2>2, <2>4, <2>5, <2>7 DEF ValuesTypes, Origins
<1> QED  BY <1>1, <1>2, <1>3, <1>4, <1>5, <1>6, <1>7 DEF TO!Next

LEMMA ValuesTypesShow == ValuesInv /\ ValuesTypes => TO!TypeOK
<1> SUFFICES ASSUME ValuesInv, ValuesTypes PROVE TO!TypeOK
  OBVIOUS
<1>1. mechanical \in [StateKeys -> Origins]
  BY DEF ValuesTypes
<1>2. \A c \in ToolCalls : runs[c].at \in {"idle", "resolve", "outputs", "failed", "partial", "done"}
  BY DEF ValuesInv, ToolRun
<1>3. TO!Cardinality({c \in ToolCalls : runs[c].at = "done"}) = Cardinality(Done)
  BY SameCardinalityOfCalls DEF Done
<1> QED  BY <1>1, <1>2, <1>3, Zenon DEF ValuesTypes, Origins, TO!TypeOK

---------------------------------------------------------------------------
(* reasoning/cot_v2.                                                       *)

VARIABLES drafts, steps, checking, stop, decided
claimVars == <<drafts, steps, checking, stop, decided>>
CL == INSTANCE ClaimTrace

Validators == {"evidence_exists", "decision_dependencies_gate", ""}
TraceStep == [kind : CL!Kinds, single : BOOLEAN, deps : SUBSET Nat, evidence : BOOLEAN,
  action : BOOLEAN, validator : Validators, status : {"draft", "passed", "needs_review"}]

TraceTypes ==
  drafts \in Seq(CL!Draft) /\ steps \in Seq(TraceStep) /\ checking \in Nat
\* The first step depends on nothing and the binding of every step was complete; the steps
\* already run have passed with a valid shape; and a trace that is still running has
\* decided nothing.
TraceInv ==
  /\ TraceTypes /\ checking <= Len(steps)
  /\ \A i \in 1..Len(steps) :
       /\ i = 1 => steps[i].deps = {}
       /\ steps[i].kind \in {"observe", "derive", "verify"} => steps[i].evidence
       /\ i < checking => steps[i].status = "passed" /\ CL!ValidateStepShape(steps[i])
  /\ decided # 0 => stop # ""
  /\ CL!DecisionIsGrounded

LEMMA ShapeTells ==
  ASSUME NEW s \in TraceStep, CL!ValidateStepShape(s), s.deps = {}
  PROVE  s.kind \in {"observe", "verify"} /\ s.evidence
<1>1. s.kind \in CL!Kinds
  BY DEF TraceStep
<1>2. s.kind \notin {"decompose", "derive", "decide"}
  BY DEF CL!ValidateStepShape
<1>3. s.kind \in {"observe", "verify"}
  BY <1>1, <1>2 DEF CL!Kinds
<1>4. s.kind = "observe" => s.evidence
  BY DEF CL!ValidateStepShape
<1>5. s.kind = "verify" => s.evidence
  BY DEF CL!ValidateStepShape
<1> QED  BY <1>3, <1>4, <1>5

\* The verdict on a step does not change its shape.
LEMMA ShapeIsOfTheStep ==
  ASSUME NEW s, NEW t, CL!ValidateStepShape(s),
         t.kind = s.kind, t.deps = s.deps, t.evidence = s.evidence, t.action = s.action,
         t.single = s.single, t.validator = s.validator
  PROVE  CL!ValidateStepShape(t)
BY DEF CL!ValidateStepShape

\* The step that is compiled.
LEMMA BuiltStep ==
  ASSUME CL!BuildStep, steps' # steps, TraceInv
  PROVE  \E s \in TraceStep :
           /\ steps' = Append(steps, s)
           /\ s.kind \in {"observe", "derive", "verify"} => s.evidence
           /\ Len(steps) = 0 => s.deps = {}
<1> DEFINE i == Len(steps) + 1
           d == drafts[i]
<1>1. PICK found \in BOOLEAN :
        LET b == CL!Binding(d.kind, found)
        IN /\ CL!ValidateBinding(d.kind, b)
           /\ steps' = Append(steps, [kind |-> d.kind, single |-> d.single,
                 deps |-> CL!DependsOn(i), evidence |-> b.evidence, action |-> b.action,
                 validator |-> b.validator, status |-> "draft"])
  BY DEF CL!BuildStep
<1> DEFINE b == CL!Binding(d.kind, found)
           s == [kind |-> d.kind, single |-> d.single, deps |-> CL!DependsOn(i),
                 evidence |-> b.evidence, action |-> b.action, validator |-> b.validator,
                 status |-> "draft"]
<1>2. Len(steps) \in Nat /\ i \in Nat
  <2>1. steps \in Seq(TraceStep)
    BY DEF TraceInv, TraceTypes
  <2> QED  BY <2>1
<1>3. d \in CL!Draft
  <2>1. Len(steps) < Len(drafts) /\ drafts \in Seq(CL!Draft)
    BY DEF CL!BuildStep, TraceInv, TraceTypes
  <2> QED  BY <1>2, <2>1
<1>4. CL!DependsOn(i) \in SUBSET Nat
  BY <1>2 DEF CL!DependsOn
<1>5. b.evidence \in BOOLEAN /\ b.action \in BOOLEAN /\ b.validator \in Validators
  <2>1. b.evidence \in BOOLEAN /\ b.action \in BOOLEAN
    BY DEF CL!Binding
  <2>2. b.validator \in Validators
    BY DEF CL!Binding, Validators
  <2> QED  BY <2>1, <2>2
<1>6. s \in TraceStep
  <2>1. d.kind \in CL!Kinds /\ d.single \in BOOLEAN
    BY <1>3 DEF CL!Draft
  <2>2. "draft" \in {"draft", "passed", "needs_review"}
    OBVIOUS
  <2> HIDE DEF b, d, i
  <2> QED  BY <1>4, <1>5, <2>1, <2>2 DEF TraceStep
<1>7. Len(steps) = 0 => s.deps = {}
  BY DEF CL!DependsOn
<1>8. s.kind \in {"observe", "derive", "verify"} => s.evidence
  BY <1>1 DEF CL!ValidateBinding
<1> QED  BY <1>1, <1>6, <1>7, <1>8

LEMMA TraceStarts == CL!Init => TraceInv
<1> SUFFICES ASSUME CL!Init PROVE TraceInv
  OBVIOUS
<1>1. drafts = << >> /\ steps = << >>
  BY DEF CL!Init
<1>2. checking = 0 /\ decided = 0
  BY DEF CL!Init
<1>3. drafts \in Seq(CL!Draft) /\ steps \in Seq(TraceStep) /\ Len(steps) = 0
  BY <1>1
<1> QED  BY <1>2, <1>3 DEF TraceInv, TraceTypes, CL!DecisionIsGrounded

\* What is decided is a decision among steps that have all passed.
LEMMA LastIsPassed ==
  ASSUME NEW n \in Nat, DOMAIN steps = 1..n, CL!LastPassedDecision # 0
  PROVE  /\ CL!LastPassedDecision \in 1..n
         /\ steps[CL!LastPassedDecision].kind = "decide"
<1> DEFINE passed == {i \in DOMAIN steps : steps[i].kind = "decide" /\ steps'[i].status = "passed"}
<1>1. passed # {} /\ passed \subseteq 1..n
  BY DEF CL!LastPassedDecision
<1>2. \E m \in passed : \A k \in passed : k <= m
  <2> HIDE DEF passed
  <2> QED  BY <1>1, HasLargest
<1>3. CL!LastPassedDecision \in passed
  BY <1>1, <1>2 DEF CL!LastPassedDecision
<1> QED  BY <1>1, <1>3

LEMMA RunKeepsTrace == ASSUME TraceInv, CL!RunStep PROVE TraceInv'
<1> DEFINE s == steps[checking]
           t == steps'[checking]
           n == Len(steps)
           reason == IF ~CL!ValidateStepShape(s) THEN "invalid_step_shape"
                     ELSE IF ~CL!DependenciesPassed(s) THEN "dependency_not_passed"
                     ELSE IF s.kind \in {"verify", "decide"} /\ ~CL!Validated(s) THEN "step_failed"
                     ELSE ""
           passes == reason = ""
<1>1. /\ drafts' = drafts /\ checking > 0 /\ stop = ""
      /\ steps' = [steps EXCEPT ![checking].status = IF passes THEN "passed" ELSE "needs_review"]
  BY DEF CL!RunStep
<1>2. checking' = IF (passes /\ checking = n) \/ ~passes THEN checking ELSE checking + 1
  BY DEF CL!RunStep
<1>3. /\ passes /\ checking = n => decided' = CL!LastPassedDecision /\ stop' # ""
      /\ ~(passes /\ checking = n) => decided' = 0
  BY DEF CL!RunStep, CL!DecisionAfter
<1>4. /\ steps \in Seq(TraceStep) /\ checking \in Nat /\ drafts \in Seq(CL!Draft)
  BY DEF TraceInv, TraceTypes
<1>5. passes => CL!ValidateStepShape(s)
  OBVIOUS
<1>6. /\ n \in Nat /\ DOMAIN steps = 1..n /\ checking \in 1..n /\ s \in TraceStep
  <2>1. n \in Nat /\ DOMAIN steps = 1..n
    BY <1>4
  <2>2. checking <= n
    BY DEF TraceInv
  <2>3. checking \in 1..n
    <3>1. checking > 0
      BY <1>1
    <3> QED  BY <1>4, <2>1, <2>2, <3>1
  <2> QED  BY <1>4, <2>1, <2>3
<1>7. PICK status \in {"passed", "needs_review"} :
        /\ steps' = [steps EXCEPT ![checking].status = status]
        /\ passes => status = "passed"
  BY <1>1
<1> HIDE DEF passes
<1>8. /\ steps' \in Seq(TraceStep) /\ Len(steps') = n /\ DOMAIN steps' = 1..n
      /\ t = [s EXCEPT !.status = status]
      /\ \A i \in 1..n : i # checking => steps'[i] = steps[i]
  <2>1. [s EXCEPT !.status = status] \in TraceStep
    BY <1>6 DEF TraceStep
  <2>2. steps' = [steps EXCEPT ![checking] = [s EXCEPT !.status = status]]
    BY <1>7
  <2> HIDE DEF n
  <2>3. steps' \in Seq(TraceStep) /\ Len(steps') = Len(steps)
    BY <1>4, <1>6, <2>1, <2>2, ExceptSeq
  <2> QED  BY <1>6, <2>2, <2>3 DEF n
<1>9. /\ t.kind = s.kind /\ t.deps = s.deps /\ t.evidence = s.evidence /\ t.action = s.action
      /\ t.single = s.single /\ t.validator = s.validator /\ t.status = status
  BY <1>6, <1>8 DEF TraceStep
<1>10. CL!ValidateStepShape(s) => CL!ValidateStepShape(t)
  BY <1>9, ShapeIsOfTheStep
<1>11. ASSUME NEW i \in 1..n
       PROVE  /\ i = 1 => steps'[i].deps = {}
              /\ steps'[i].kind \in {"observe", "derive", "verify"} => steps'[i].evidence
              /\ (i < checking \/ (i = checking /\ passes)) =>
                   steps'[i].status = "passed" /\ CL!ValidateStepShape(steps'[i])
  <2>1. /\ i = 1 => steps[i].deps = {}
        /\ steps[i].kind \in {"observe", "derive", "verify"} => steps[i].evidence
        /\ i < checking => steps[i].status = "passed" /\ CL!ValidateStepShape(steps[i])
    BY DEF TraceInv
  <2>2. CASE i = checking
    BY <1>5, <1>6, <1>7, <1>9, <1>10, <2>1, <2>2
  <2>3. CASE i # checking
    BY <1>8, <2>1, <2>3
  <2> QED  BY <2>2, <2>3
<1>12. checking' \in Nat /\ checking' <= n
  <2> HIDE DEF n
  <2> QED  BY <1>2, <1>6
<1>13. \A i \in 1..n : i < checking' => i < checking \/ (i = checking /\ passes)
  <2> HIDE DEF n
  <2> QED  BY <1>2, <1>6
<1>14. ASSUME decided' # 0
       PROVE  /\ stop' # "" /\ CL!DecisionIsGrounded'
  <2>1. passes /\ checking = n /\ decided' = CL!LastPassedDecision /\ stop' # ""
    <3> HIDE DEF n
    <3> QED  BY <1>14, <1>3
  <2>2. decided' \in 1..n /\ steps[decided'].kind = "decide"
    BY <1>6, <1>14, <2>1, LastIsPassed
  <2>3. \A i \in 1..n : i < checking \/ i = checking
    <3>1. checking = n
      BY <2>1
    <3> HIDE DEF n
    <3> QED  BY <1>6, <3>1
  <2>4. \A i \in 1..n : steps'[i].status = "passed" /\ CL!ValidateStepShape(steps'[i])
    BY <1>11, <2>1, <2>3
  <2>5. 1 \in 1..n
    BY <1>6
  <2>6. steps'[1].kind \in {"observe", "verify"} /\ steps'[1].evidence
    <3>1. steps'[1] \in TraceStep
      BY <1>8, <2>5
    <3>2. steps'[1].deps = {} /\ CL!ValidateStepShape(steps'[1])
      BY <1>11, <2>4, <2>5
    <3> QED  BY <3>1, <3>2, ShapeTells
  <2>7. steps'[decided'].kind = "decide"
    BY <1>8, <1>9, <2>2
  <2>8. decided' # 1
    BY <2>6, <2>7
  <2>9. decided' > 1
    BY <1>6, <2>2, <2>8
  <2> QED  BY <1>8, <1>11, <2>1, <2>4, <2>6, <2>9 DEF CL!DecisionIsGrounded
<1>15. CL!DecisionIsGrounded'
  BY <1>14 DEF CL!DecisionIsGrounded
<1>16. TraceTypes'
  BY <1>1, <1>4, <1>8, <1>12 DEF TraceTypes
<1> HIDE DEF n
<1>17. checking' <= Len(steps')
  BY <1>8, <1>12
<1>18. \A i \in 1..Len(steps') :
         /\ i = 1 => steps'[i].deps = {}
         /\ steps'[i].kind \in {"observe", "derive", "verify"} => steps'[i].evidence
         /\ i < checking' => steps'[i].status = "passed" /\ CL!ValidateStepShape(steps'[i])
  BY <1>8, <1>11, <1>13
<1>19. decided' # 0 => stop' # ""
  BY <1>14
<1> QED  BY <1>15, <1>16, <1>17, <1>18, <1>19 DEF TraceInv

LEMMA TraceSteps == ASSUME TraceInv, [CL!Next]_claimVars PROVE TraceInv'
<1>1. /\ TraceTypes /\ steps \in Seq(TraceStep) /\ drafts \in Seq(CL!Draft)
      /\ checking \in Nat /\ checking <= Len(steps)
  BY DEF TraceInv, TraceTypes
<1>2. CASE CL!Generate
  <2>1. drafts' \in Seq(CL!Draft)
    <3>1. CASE drafts' = drafts
      BY <1>1, <3>1
    <3>2. CASE \E n \in 1..MaxClaims : drafts' \in [1..n -> CL!Draft]
      <4>1. PICK m \in 1..MaxClaims : drafts' \in [1..m -> CL!Draft]
        BY <3>2
      <4>2. m \in Nat
        OBVIOUS
      <4> QED  BY <4>1, <4>2, SeqDef
    <3> QED  BY <1>2, <3>1, <3>2 DEF CL!Generate
  <2>2. /\ steps' = steps /\ checking' = checking /\ decided' = decided
        /\ stop = ""
    BY <1>2 DEF CL!Generate
  <2>3. decided = 0
    BY <2>2 DEF TraceInv
  <2>4. TraceTypes'
    BY <1>1, <2>1, <2>2 DEF TraceTypes
  <2> QED  BY <2>2, <2>3, <2>4 DEF TraceInv, CL!DecisionIsGrounded
<1>3. CASE CL!BuildStep
  <2>1. /\ checking = 0 /\ stop = "" /\ drafts' = drafts /\ checking' = checking
        /\ decided' = decided
    BY <1>3 DEF CL!BuildStep
  <2>2. decided = 0
    BY <2>1 DEF TraceInv
  <2>3. CASE steps' = steps
    BY <1>1, <2>1, <2>2, <2>3 DEF TraceInv, TraceTypes, CL!DecisionIsGrounded
  <2>4. CASE steps' # steps
    <3>1. PICK s \in TraceStep :
            /\ steps' = Append(steps, s)
            /\ s.kind \in {"observe", "derive", "verify"} => s.evidence
            /\ Len(steps) = 0 => s.deps = {}
      BY <1>3, <2>4, BuiltStep
    <3>2. /\ steps' \in Seq(TraceStep) /\ Len(steps') = Len(steps) + 1 /\ Len(steps) \in Nat
          /\ steps'[Len(steps) + 1] = s
          /\ \A i \in 1..Len(steps) : steps'[i] = steps[i]
      BY <1>1, <3>1
    <3>3. ASSUME NEW i \in 1..Len(steps')
          PROVE  /\ i = 1 => steps'[i].deps = {}
                 /\ steps'[i].kind \in {"observe", "derive", "verify"} => steps'[i].evidence
      <4>1. CASE i = Len(steps) + 1
        BY <3>1, <3>2, <4>1
      <4>2. CASE i # Len(steps) + 1
        <5>1. i \in 1..Len(steps)
          BY <3>2, <4>2
        <5> QED  BY <3>2, <5>1 DEF TraceInv
      <4> QED  BY <4>1, <4>2
    <3>4. TraceTypes'
      BY <1>1, <2>1, <3>2 DEF TraceTypes
    <3>5. /\ checking' <= Len(steps') /\ \A i \in 1..Len(steps') : ~(i < checking')
      <4>1. checking' = 0
        BY <2>1
      <4> QED  BY <3>2, <4>1
    <3> QED  BY <2>1, <2>2, <3>3, <3>4, <3>5 DEF TraceInv, CL!DecisionIsGrounded
  <2> QED  BY <2>3, <2>4
<1>4. CASE CL!StartRun
  <2>1. /\ checking' = 1 /\ drafts' = drafts /\ steps' = steps /\ stop' = stop /\ decided' = decided
        /\ drafts # << >> /\ Len(steps) = Len(drafts)
    BY <1>4 DEF CL!StartRun
  <2>2. Len(steps) >= 1 /\ \A i \in 1..Len(steps) : ~(i < 1)
    <3>1. Len(drafts) \in Nat /\ Len(drafts) # 0
      BY <1>1, <2>1, EmptySeq
    <3> QED  BY <2>1, <3>1
  <2>3. TraceTypes' /\ checking' <= Len(steps)'
    BY <1>1, <2>1, <2>2 DEF TraceTypes
  <2> QED  BY <2>1, <2>2, <2>3 DEF TraceInv, CL!DecisionIsGrounded
<1>5. CASE CL!RunStep
  BY <1>5, RunKeepsTrace
<1>6. CASE UNCHANGED claimVars
  BY <1>6 DEF claimVars, TraceInv, TraceTypes, CL!DecisionIsGrounded
<1> QED  BY <1>2, <1>3, <1>4, <1>5, <1>6 DEF CL!Next

LEMMA TraceShows == TraceInv => CL!DecisionIsGrounded
BY DEF TraceInv

ClaimTypes == Len(steps) <= Len(drafts) /\ decided \in {i \in DOMAIN steps : steps[i].kind = "decide"} \cup {0}

LEMMA TraceTypesStart == CL!Init => ClaimTypes
<1> SUFFICES ASSUME CL!Init PROVE ClaimTypes
  OBVIOUS
<1>1. drafts = <<>> /\ steps = <<>> /\ decided = 0
  BY DEF CL!Init
<1>2. Len(steps) <= Len(drafts)
  BY <1>1
<1> QED  BY <1>1, <1>2 DEF ClaimTypes

LEMMA TraceTypesStep ==
  ASSUME TraceInv, ClaimTypes, [CL!Next]_claimVars PROVE ClaimTypes'
<1>1. drafts \in Seq(CL!Draft) /\ steps \in Seq(TraceStep) /\ checking \in Nat
  BY DEF TraceInv, TraceTypes
<1>2. Len(drafts) \in Nat /\ Len(steps) \in Nat /\ DOMAIN steps = 1..Len(steps)
  BY <1>1, LenProperties
<1>3. Len(steps) <= Len(drafts) /\ decided \in {i \in DOMAIN steps : steps[i].kind = "decide"} \cup {0}
  BY DEF ClaimTypes
<1>4. CASE CL!Generate
  <2>1. drafts = <<>> /\ UNCHANGED <<steps, decided>>
    BY <1>4, Zenon DEF CL!Generate
  <2>2. Len(drafts') \in Nat
    <3>1. (\E n \in 1..MaxClaims : drafts' \in [1..n -> CL!Draft]) \/ drafts' = drafts
      BY <1>4, Zenon DEF CL!Generate
    <3>2. ASSUME NEW n \in 1..MaxClaims, drafts' \in [1..n -> CL!Draft] PROVE Len(drafts') \in Nat
      BY <3>2
    <3> QED  BY <1>2, <3>1, <3>2
  <2>3. Len(drafts) = 0
    BY <2>1
  <2>4. Len(steps) <= Len(drafts')
    BY <1>2, <1>3, <2>2, <2>3
  <2> QED  BY <1>3, <2>1, <2>4 DEF ClaimTypes
<1>5. CASE CL!BuildStep
  <2>1. UNCHANGED <<drafts, decided>> /\ Len(steps) < Len(drafts) /\ decided = 0
    BY <1>5, Zenon DEF CL!BuildStep, TraceInv
  <2>2. Len(steps') <= Len(drafts)
    <3>1. CASE steps' = steps
      BY <1>3, <3>1
    <3>2. CASE steps' # steps
      <4>1. PICK s \in TraceStep : steps' = Append(steps, s)
        BY <1>5, <3>2, BuiltStep
      <4>2. Len(steps') = Len(steps) + 1
        BY <1>1, <4>1, AppendProperties
      <4> QED  BY <1>2, <2>1, <4>2
    <3> QED  BY <3>1, <3>2
  <2> QED  BY <2>1, <2>2 DEF ClaimTypes
<1>6. CASE CL!StartRun
  BY <1>3, <1>6 DEF CL!StartRun, ClaimTypes
<1>7. CASE CL!RunStep
  <2>1. /\ drafts' = drafts /\ decided' \in {CL!LastPassedDecision, 0} /\ checking > 0
        /\ \E status \in {"passed", "needs_review"} : steps' = [steps EXCEPT ![checking].status = status]
    BY <1>7 DEF CL!RunStep, CL!DecisionAfter
  <2>2. checking \in 1..Len(steps)
    <3>1. checking <= Len(steps) /\ checking > 0
      BY <2>1, Zenon DEF TraceInv
    <3> QED  BY <1>1, <1>2, <3>1
  <2>3. PICK status \in {"passed", "needs_review"} : steps' = [steps EXCEPT ![checking].status = status]
    BY <2>1
  <2>4. [steps[checking] EXCEPT !.status = status] \in TraceStep
    <3>1. steps[checking] \in TraceStep
      BY <1>1, <2>2
    <3> QED  BY <3>1 DEF TraceStep
  <2>5. Len(steps') = Len(steps) /\ DOMAIN steps' = DOMAIN steps
    <3>1. steps' = [steps EXCEPT ![checking] = [steps[checking] EXCEPT !.status = status]]
      BY <2>3
    <3> QED  BY <1>1, <2>2, <2>4, <3>1, ExceptSeq
  <2>6. \A i \in DOMAIN steps : steps'[i].kind = steps[i].kind
    <3>1. \A i \in DOMAIN steps : steps[i] \in TraceStep
      BY <1>1, <1>2
    <3> QED  BY <2>3, <3>1 DEF TraceStep
  <2>7. ASSUME decided' # 0
        PROVE  decided' \in DOMAIN steps /\ steps[decided'].kind = "decide"
    BY <1>2, <2>1, <2>7, LastIsPassed
  <2>8. decided' \in {i \in DOMAIN steps' : steps'[i].kind = "decide"} \cup {0}
    BY <2>5, <2>6, <2>7
  <2>9. Len(steps') <= Len(drafts')
    BY <1>3, <2>1, <2>5
  <2> QED  BY <2>8, <2>9 DEF ClaimTypes
<1>8. CASE UNCHANGED claimVars
  BY <1>3, <1>8 DEF claimVars, ClaimTypes
<1> QED  BY <1>4, <1>5, <1>6, <1>7, <1>8 DEF CL!Next

LEMMA TraceTypesShow == TraceInv /\ ClaimTypes => CL!TypeOK
<1> SUFFICES ASSUME TraceInv, ClaimTypes PROVE CL!TypeOK
  OBVIOUS
<1>1. steps \in Seq(TraceStep) /\ checking \in Nat /\ checking <= Len(steps)
  BY DEF TraceInv, TraceTypes
<1>2. checking \in 0..Len(steps)
  BY <1>1, LenProperties
<1> QED  BY <1>2 DEF ClaimTypes, CL!TypeOK

---------------------------------------------------------------------------
(* reflection/skillmode.                                                   *)

VARIABLES aliases, outcomes, clock, skillRuns
skillVars == <<aliases, outcomes, clock, skillRuns>>
SK == INSTANCE SkillRegistry

MaybeVersion == Versions \cup {SK!NoAlias}
SkillRun == [at : {"idle", "load", "answer", "refused"}, resolved : MaybeVersion,
  served : MaybeVersion, seen : Nat, time : Nat]
SkillEvent == [version : MaybeVersion, outcome : {"success", "tool_error", "not_applicable"},
  at : Nat, served : MaybeVersion]

\* What a log says of the version a run resolves, up to where the run has seen it.
Reported(run, log) ==
  {i \in 1..run.seen : log[i].version = run.resolved /\ log[i].at \in (run.time - Window)..run.time}
ReportedWith(run, log, outcome) == {i \in Reported(run, log) : log[i].outcome = outcome}
ForCause(run, log) ==
  /\ Cardinality(ReportedWith(run, log, "tool_error")) > Cardinality(ReportedWith(run, log, "success"))
  /\ Cardinality(ReportedWith(run, log, "success") \cup ReportedWith(run, log, "tool_error")) >= MinimumSamples
\* A run is served what its backend resolves or nothing, and nothing before it loads it; it has
\* seen what was there, and is refused for cause.
RunFits(run, log) ==
  /\ run.served \in {SK!NoAlias, run.resolved}
  /\ run.at \in {"idle", "load"} => run.served = SK!NoAlias
  /\ run.seen <= Len(log)
  /\ run.at = "refused" => ForCause(run, log)
RunsFit == \A r \in SkillRuns : RunFits(skillRuns[r], outcomes)
SkillsInv ==
  /\ aliases \in [SK!Viewpoints -> MaybeVersion] /\ skillRuns \in [SkillRuns -> SkillRun]
  /\ outcomes \in Seq(SkillEvent) /\ clock \in Nat
  /\ RunsFit /\ SK!OutcomeGoesToTheServed

LEMMA SkillsStart == SK!Init => SkillsInv
<1> SUFFICES ASSUME SK!Init PROVE SkillsInv
  OBVIOUS
<1>1. SK!IdleRun \in SkillRun /\ RunFits(SK!IdleRun, << >>)
  BY DEF SK!IdleRun, SkillRun, MaybeVersion, RunFits
<1>2. skillRuns \in [SkillRuns -> SkillRun] /\ RunsFit
  BY <1>1 DEF SK!Init, RunsFit
<1>3. aliases \in [SK!Viewpoints -> MaybeVersion] /\ clock \in Nat
  BY DEF SK!Init, MaybeVersion
<1>4. outcomes = << >>
  BY DEF SK!Init
<1>5. outcomes \in Seq(SkillEvent) /\ DOMAIN outcomes = {}
  BY <1>4
<1>6. SK!OutcomeGoesToTheServed
  BY <1>5 DEF SK!OutcomeGoesToTheServed
<1> QED  BY <1>2, <1>3, <1>5, <1>6 DEF SkillsInv

\* What a run has seen of a log stays when the log grows.
LEMMA CauseStays ==
  ASSUME NEW log \in Seq(SkillEvent), NEW longer \in Seq(SkillEvent), NEW run \in SkillRun,
         run.seen <= Len(log), \A i \in 1..Len(log) : longer[i] = log[i], ForCause(run, log)
  PROVE  ForCause(run, longer)
<1>1. run.seen \in Nat /\ Len(log) \in Nat
  BY DEF SkillRun
<1>2. \A i \in 1..run.seen : longer[i] = log[i]
  BY <1>1
<1>3. Reported(run, longer) = Reported(run, log)
  BY <1>2 DEF Reported
<1>4. \A o : ReportedWith(run, longer, o) = ReportedWith(run, log, o)
  BY <1>2, <1>3 DEF ReportedWith, Reported
<1>5. /\ ReportedWith(run, longer, "success") = ReportedWith(run, log, "success")
      /\ ReportedWith(run, longer, "tool_error") = ReportedWith(run, log, "tool_error")
  BY <1>4
<1> QED  BY <1>5, Zenon DEF ForCause

LEMMA FitStays ==
  ASSUME NEW log \in Seq(SkillEvent), NEW longer \in Seq(SkillEvent), NEW run \in SkillRun,
         Len(log) <= Len(longer), \A i \in 1..Len(log) : longer[i] = log[i], RunFits(run, log)
  PROVE  RunFits(run, longer)
<1>1. run.seen \in Nat /\ Len(log) \in Nat /\ Len(longer) \in Nat /\ run.seen <= Len(log)
  BY DEF SkillRun, RunFits
<1>2. run.at = "refused" => ForCause(run, longer)
  BY <1>1, CauseStays DEF RunFits
<1>3. run.seen <= Len(longer)
  BY <1>1
<1> QED  BY <1>2, <1>3 DEF RunFits

LEMMA SkillsCount == \A S : SK!Cardinality(S) = Cardinality(S)
BY DEF SK!Cardinality, Cardinality

\* A version whose health is deprecated is refused for cause.
LEMMA DeprecatedForCause ==
  ASSUME outcomes \in Seq(SkillEvent), NEW run \in SkillRun, SK!Health(run.resolved) = "deprecated",
         run.seen = Len(outcomes), run.time = clock
  PROVE  ForCause(run, outcomes)
<1> DEFINE good == ReportedWith(run, outcomes, "success")
           bad == ReportedWith(run, outcomes, "tool_error")
           samples == SK!Evaluable(SK!InWindow(run.resolved))
<1>1. run.seen \in Nat /\ DOMAIN outcomes = 1..run.seen
  BY DEF SkillRun
<1>2. SK!InWindow(run.resolved) = Reported(run, outcomes)
  BY <1>1 DEF SK!InWindow, Reported
<1>3. \A i \in 1..run.seen : outcomes[i].outcome \in {"success", "tool_error", "not_applicable"}
  <2>1. \A i \in DOMAIN outcomes : outcomes[i] \in SkillEvent
    OBVIOUS
  <2> QED  BY <1>1, <2>1 DEF SkillEvent
<1>4. Reported(run, outcomes) \subseteq 1..run.seen
  BY DEF Reported
<1>5. samples = good \cup bad /\ {i \in samples : outcomes[i].outcome = "success"} = good
  BY <1>2, <1>3, <1>4 DEF SK!Evaluable, ReportedWith
<1>6. good \subseteq 1..run.seen /\ bad \subseteq 1..run.seen /\ good \cap bad = {}
  BY <1>4 DEF ReportedWith
<1>7. ~(Cardinality(samples) < MinimumSamples)
  BY SkillsCount DEF SK!Health
<1>8. 100 * Cardinality({i \in samples : outcomes[i].outcome = "success"}) < 50 * Cardinality(samples)
  BY SkillsCount, <1>7 DEF SK!Health
<1> HIDE DEF samples, good, bad
<1>9. IsFiniteSet(good) /\ IsFiniteSet(bad)
  <2>1. IsFiniteSet(1..run.seen)
    BY <1>1, FS_Interval
  <2> QED  BY <1>6, <2>1, FS_Subset
<1>10. Cardinality(good) \in Nat /\ Cardinality(bad) \in Nat
       /\ Cardinality(good \cup bad) = Cardinality(good) + Cardinality(bad)
  <2>1. Cardinality(good) \in Nat /\ Cardinality(bad) \in Nat
    BY <1>9, FS_CardinalityType
  <2>2. Cardinality(good \cup bad) = Cardinality(good) + Cardinality(bad) - Cardinality(good \cap bad)
    BY <1>9, FS_Union
  <2>3. Cardinality(good \cap bad) = 0
    BY <1>6, FS_EmptySet
  <2> QED  BY <2>1, <2>2, <2>3
<1>11. Cardinality(bad) > Cardinality(good)
  <2>1. 100 * Cardinality(good) < 50 * Cardinality(good \cup bad)
    BY <1>5, <1>8
  <2>2. \A g, b \in Nat : 100 * g < 50 * (g + b) => b > g
    OBVIOUS
  <2> QED  BY <1>10, <2>1, <2>2
<1>12. Cardinality(good \cup bad) >= MinimumSamples
  BY <1>5, <1>7, <1>10, HealthAssumption
<1> QED  BY <1>11, <1>12 DEF ForCause, good, bad

\* Only the run goes on, and the log only grows.
LogGrows ==
  /\ outcomes' \in Seq(SkillEvent) /\ Len(outcomes) <= Len(outcomes')
  /\ \A i \in 1..Len(outcomes) : outcomes'[i] = outcomes[i]
LEMMA OnlyTheRun ==
  ASSUME SkillsInv, LogGrows, NEW r \in SkillRuns, NEW run \in SkillRun,
         skillRuns' = [skillRuns EXCEPT ![r] = run], RunFits(run, outcomes')
  PROVE  skillRuns' \in [SkillRuns -> SkillRun] /\ RunsFit'
<1>1. /\ skillRuns \in [SkillRuns -> SkillRun] /\ outcomes \in Seq(SkillEvent)
      /\ \A s \in SkillRuns : RunFits(skillRuns[s], outcomes)
  BY DEF SkillsInv, RunsFit
<1>2. skillRuns' \in [SkillRuns -> SkillRun] /\ skillRuns'[r] = run
      /\ \A s \in SkillRuns : s # r => skillRuns'[s] = skillRuns[s]
  BY <1>1
<1>3. ASSUME NEW s \in SkillRuns PROVE RunFits(skillRuns[s], outcomes')
  BY <1>1, FitStays DEF LogGrows
<1>4. RunsFit'
  BY <1>2, <1>3 DEF RunsFit
<1> QED  BY <1>2, <1>4

LEMMA TheRunGoesOn ==
  ASSUME SkillsInv, NEW r \in SkillRuns, NEW run \in SkillRun,
         aliases' = aliases /\ outcomes' = outcomes /\ clock' = clock,
         skillRuns' = [skillRuns EXCEPT ![r] = run], RunFits(run, outcomes)
  PROVE  SkillsInv'
<1>1. outcomes \in Seq(SkillEvent) /\ Len(outcomes) \in Nat
  BY DEF SkillsInv
<1>2. LogGrows
  BY <1>1 DEF LogGrows
<1>3. RunFits(run, outcomes')
  OBVIOUS
<1>4. skillRuns' \in [SkillRuns -> SkillRun] /\ RunsFit'
  BY <1>2, <1>3, OnlyTheRun
<1> QED  BY <1>4 DEF SkillsInv, SK!OutcomeGoesToTheServed

LEMMA SkillsStep == ASSUME SkillsInv, [SK!Next]_skillVars PROVE SkillsInv'
<1>1. /\ aliases \in [SK!Viewpoints -> MaybeVersion] /\ skillRuns \in [SkillRuns -> SkillRun]
      /\ outcomes \in Seq(SkillEvent) /\ clock \in Nat /\ Len(outcomes) \in Nat
      /\ RunsFit /\ SK!OutcomeGoesToTheServed
  BY DEF SkillsInv
<1>2. CASE SK!Release
  <2>1. aliases' \in [SK!Viewpoints -> MaybeVersion]
    BY <1>2 DEF SK!Release, MaybeVersion
  <2>2. outcomes' = outcomes /\ clock' = clock /\ skillRuns' = skillRuns
    BY <1>2 DEF SK!Release
  <2> QED  BY <1>1, <2>1, <2>2 DEF SkillsInv, RunsFit, SK!OutcomeGoesToTheServed
<1>3. CASE SK!Tick
  <2>1. aliases' = aliases /\ outcomes' = outcomes /\ skillRuns' = skillRuns /\ clock' \in Nat
    BY <1>1, <1>3 DEF SK!Tick
  <2> QED  BY <1>1, <2>1 DEF SkillsInv, RunsFit, SK!OutcomeGoesToTheServed
<1>4. ASSUME NEW r \in SkillRuns, SK!StartRun(r) PROVE SkillsInv'
  <2>1. PICK t \in SK!Viewpoints :
          skillRuns' = [skillRuns EXCEPT
            ![r].at = IF SK!Health(SK!ResolveAlias(t)) = "deprecated" THEN "answer" ELSE "load",
            ![r].resolved = SK!ResolveAlias(t)]
    BY <1>4 DEF SK!StartRun
  <2>2. PICK at \in {"answer", "load"} :
          skillRuns' = [skillRuns EXCEPT ![r].at = at, ![r].resolved = SK!ResolveAlias(t)]
    BY <2>1
  <2> DEFINE version == SK!ResolveAlias(t)
             run == [skillRuns[r] EXCEPT !.at = at, !.resolved = version]
  <2>3. version \in MaybeVersion
    BY <1>1 DEF SK!ResolveAlias, SK!Viewpoints
  <2>4. /\ skillRuns[r] \in SkillRun /\ skillRuns[r].served = SK!NoAlias
        /\ skillRuns[r].seen <= Len(outcomes)
    BY <1>1, <1>4 DEF SK!StartRun, RunsFit, RunFits
  <2>5. skillRuns' = [skillRuns EXCEPT ![r] = run]
    BY <2>2
  <2> HIDE DEF version
  <2>6. /\ run \in SkillRun /\ run.served = SK!NoAlias /\ run.at # "refused"
        /\ run.seen = skillRuns[r].seen
    BY <2>3, <2>4 DEF SkillRun
  <2>7. aliases' = aliases /\ outcomes' = outcomes /\ clock' = clock
    BY <1>4 DEF SK!StartRun
  <2> HIDE DEF run
  <2>8. RunFits(run, outcomes)
    BY <2>4, <2>6 DEF RunFits
  <2> QED  BY <2>5, <2>6, <2>7, <2>8, TheRunGoesOn
<1>5. ASSUME NEW r \in SkillRuns, SK!GetSkill(r) PROVE SkillsInv'
  <2>1. aliases' = aliases /\ outcomes' = outcomes /\ clock' = clock /\ skillRuns[r].at = "load"
    BY <1>5 DEF SK!GetSkill
  <2>2. /\ skillRuns[r] \in SkillRun /\ skillRuns[r].served = SK!NoAlias
        /\ skillRuns[r].seen <= Len(outcomes)
    BY <1>1, <2>1 DEF RunsFit, RunFits
  <2>3. \E run \in SkillRun :
          skillRuns' = [skillRuns EXCEPT ![r] = run] /\ RunFits(run, outcomes)
    <3>1. CASE /\ SK!Health(skillRuns[r].resolved) = "deprecated"
               /\ skillRuns' = [skillRuns EXCEPT ![r] =
                    [skillRuns[r] EXCEPT !.at = "refused", !.seen = Len(outcomes), !.time = clock]]
      <4> DEFINE run == [skillRuns[r] EXCEPT !.at = "refused", !.seen = Len(outcomes), !.time = clock]
      <4>1. /\ run \in SkillRun /\ run.served = SK!NoAlias /\ run.at = "refused"
            /\ run.seen = Len(outcomes) /\ run.time = clock /\ run.resolved = skillRuns[r].resolved
        BY <1>1, <2>2 DEF SkillRun
      <4>2. skillRuns' = [skillRuns EXCEPT ![r] = run]
        BY <3>1
      <4> HIDE DEF run
      <4>3. ForCause(run, outcomes)
        BY <1>1, <3>1, <4>1, DeprecatedForCause
      <4>4. RunFits(run, outcomes)
        BY <1>1, <4>1, <4>3 DEF RunFits
      <4> QED  BY <4>1, <4>2, <4>4
    <3>2. CASE skillRuns' = [skillRuns EXCEPT ![r] =
                 [skillRuns[r] EXCEPT !.at = "answer", !.served = skillRuns[r].resolved]]
      <4> DEFINE run == [skillRuns[r] EXCEPT !.at = "answer", !.served = skillRuns[r].resolved]
      <4>1. /\ run \in SkillRun /\ run.served = run.resolved /\ run.at = "answer"
            /\ run.seen = skillRuns[r].seen
        BY <2>2 DEF SkillRun
      <4>2. skillRuns' = [skillRuns EXCEPT ![r] = run]
        BY <3>2
      <4> HIDE DEF run
      <4>3. RunFits(run, outcomes)
        BY <2>2, <4>1 DEF RunFits
      <4> QED  BY <4>1, <4>2, <4>3
    <3> QED  BY <1>5, <3>1, <3>2 DEF SK!GetSkill, SK!Resolved
  <2> QED  BY <2>1, <2>3, TheRunGoesOn
<1>6. ASSUME NEW r \in SkillRuns, SK!SkipSkill(r) PROVE SkillsInv'
  <2>1. /\ aliases' = aliases /\ outcomes' = outcomes /\ clock' = clock
        /\ skillRuns' = [skillRuns EXCEPT ![r].at = "answer"]
    BY <1>6 DEF SK!SkipSkill
  <2> DEFINE run == [skillRuns[r] EXCEPT !.at = "answer"]
  <2>2. /\ skillRuns[r] \in SkillRun /\ skillRuns[r].served \in {SK!NoAlias, skillRuns[r].resolved}
        /\ skillRuns[r].seen <= Len(outcomes)
    BY <1>1 DEF RunsFit, RunFits
  <2>3. /\ run \in SkillRun /\ run.served = skillRuns[r].served
        /\ run.resolved = skillRuns[r].resolved /\ run.at = "answer" /\ run.seen = skillRuns[r].seen
    BY <2>2 DEF SkillRun
  <2>4. skillRuns' = [skillRuns EXCEPT ![r] = run]
    BY <2>1
  <2> HIDE DEF run
  <2>5. RunFits(run, outcomes)
    BY <2>2, <2>3 DEF RunFits
  <2> QED  BY <2>1, <2>3, <2>4, <2>5, TheRunGoesOn
<1>7. ASSUME NEW r \in SkillRuns, SK!RecordOutcome(r) PROVE SkillsInv'
  <2>1. PICK result \in {"success", "tool_error", "not_applicable"} :
          outcomes' = Append(outcomes, [version |-> skillRuns[r].resolved, outcome |-> result,
                                  at |-> clock, served |-> skillRuns[r].served])
    BY <1>7 DEF SK!RecordOutcome, SK!Resolved
  <2> DEFINE e == [version |-> skillRuns[r].resolved, outcome |-> result,
                   at |-> clock, served |-> skillRuns[r].served]
  <2>2. aliases' = aliases /\ clock' = clock /\ skillRuns' = [skillRuns EXCEPT ![r] = SK!IdleRun]
    BY <1>7 DEF SK!RecordOutcome
  <2>3. skillRuns[r] \in SkillRun /\ skillRuns[r].served \in {SK!NoAlias, skillRuns[r].resolved}
    BY <1>1 DEF RunsFit, RunFits
  <2>4. e \in SkillEvent /\ e.served \in {SK!NoAlias, e.version}
    BY <1>1, <2>3 DEF SkillEvent, SkillRun
  <2> HIDE DEF e
  <2>5. /\ outcomes' \in Seq(SkillEvent) /\ DOMAIN outcomes' = 1..Len(outcomes) + 1
        /\ DOMAIN outcomes = 1..Len(outcomes) /\ outcomes'[Len(outcomes) + 1] = e
        /\ \A i \in 1..Len(outcomes) : outcomes'[i] = outcomes[i]
    BY <1>1, <2>1, <2>4 DEF e
  <2>6. ASSUME NEW i \in DOMAIN outcomes'
        PROVE  outcomes'[i].served \in {SK!NoAlias, outcomes'[i].version}
    <3>1. CASE i = Len(outcomes) + 1
      BY <2>4, <2>5, <3>1
    <3>2. CASE i # Len(outcomes) + 1
      <4>1. i \in DOMAIN outcomes
        BY <1>1, <2>5, <3>2
      <4> QED  BY <1>1, <2>5, <4>1 DEF SK!OutcomeGoesToTheServed
    <3> QED  BY <3>1, <3>2
  <2>7. Len(outcomes) <= Len(outcomes')
    BY <1>1, <2>1
  <2>8. SK!IdleRun \in SkillRun /\ RunFits(SK!IdleRun, outcomes')
    <3>1. Len(outcomes') \in Nat
      BY <2>5
    <3> QED  BY <3>1 DEF SK!IdleRun, SkillRun, MaybeVersion, RunFits
  <2>9. LogGrows
    BY <2>5, <2>7 DEF LogGrows
  <2>10. skillRuns' \in [SkillRuns -> SkillRun] /\ RunsFit'
    BY <2>2, <2>8, <2>9, OnlyTheRun
  <2>11. SK!OutcomeGoesToTheServed'
    BY <2>6 DEF SK!OutcomeGoesToTheServed
  <2> QED  BY <1>1, <2>2, <2>5, <2>10, <2>11 DEF SkillsInv
<1>8. CASE UNCHANGED skillVars
  BY <1>8 DEF skillVars, SkillsInv, RunsFit, SK!OutcomeGoesToTheServed
<1> QED  BY <1>2, <1>3, <1>4, <1>5, <1>6, <1>7, <1>8 DEF SK!Next

LEMMA SkillsShow == SkillsInv => SK!OutcomeGoesToTheServed /\ SK!RefusedForCause
<1> SUFFICES ASSUME SkillsInv PROVE SK!RefusedForCause
  BY DEF SkillsInv
<1> SUFFICES ASSUME NEW r \in SkillRuns, skillRuns[r].at = "refused"
             PROVE  LET said == {i \in 1..skillRuns[r].seen :
                               /\ outcomes[i].version = SK!Resolved(r)
                               /\ outcomes[i].at \in (skillRuns[r].time - Window)..skillRuns[r].time}
                        good == {i \in said : outcomes[i].outcome = "success"}
                        bad  == {i \in said : outcomes[i].outcome = "tool_error"}
                    IN /\ SK!Cardinality(bad) > SK!Cardinality(good)
                       /\ SK!Cardinality(good \cup bad) >= MinimumSamples
  BY DEF SK!RefusedForCause
<1>1. ForCause(skillRuns[r], outcomes)
  BY DEF SkillsInv, RunsFit, RunFits
<1> QED  BY <1>1, SkillsCount DEF ForCause, ReportedWith, Reported, SK!Resolved

LEMMA SkillsTypesShow == SkillsInv => SK!TypeOK
BY DEF SkillsInv, SkillRun, MaybeVersion, SK!TypeOK

---------------------------------------------------------------------------
(* reflection/replay.                                                      *)

VARIABLES traces, reflections, lessons, extractedAt, shown
replayVars == <<traces, reflections, lessons, extractedAt, shown>>
ER == INSTANCE ExperienceReplay

Lesson == [at : Nat, sources : SUBSET Nat, applied : Nat, succeeded : Nat]

\* Failures stay failures, and the last lesson is as old as the last extraction.
LessonsInv ==
  /\ traces \in Seq({"success", "failure"}) /\ extractedAt \in 0..Len(traces)
  /\ lessons \in Seq(Lesson)
  /\ \A i \in 1..Len(lessons) :
       /\ lessons[i].sources \subseteq ER!Failures(traces)
       /\ Cardinality(lessons[i].sources) >= 2 /\ lessons[i].at <= extractedAt
  /\ \A i, j \in 1..Len(lessons) : i < j => lessons[j].at - lessons[i].at >= Batch
  /\ shown \subseteq 1..Len(lessons)
  /\ \A i \in shown, j \in 1..Len(lessons) \ shown : ~ER!Better(lessons[j], lessons[i])

LEMMA LessonsStart == ER!Init => LessonsInv
BY DEF ER!Init, LessonsInv

LEMMA SameCardinalityOfLessons == \A S : ER!Cardinality(S) = Cardinality(S)
BY DEF ER!Cardinality, Cardinality

\* Products, for the fractions that are compared crosswise.
LEMMA TimesKeepsOrder ==
  ASSUME NEW x \in Int, NEW y \in Int, NEW z \in Int, z > 0
  PROVE  (x >= y => x * z >= y * z) /\ (x > y => x * z > y * z)
OBVIOUS

LEMMA TimesCancels ==
  ASSUME NEW x \in Int, NEW y \in Int, NEW z \in Int, x * z > y * z, z > 0
  PROVE  x > y
<1>1. CASE x <= y
  <2>1. y * z >= x * z
    BY <1>1, TimesKeepsOrder
  <2>2. x * z \in Int /\ y * z \in Int
    OBVIOUS
  <2> QED  BY <2>1, <2>2
<1> QED  BY <1>1

LEMMA TimesSwaps ==
  ASSUME NEW x \in Int, NEW y \in Int, NEW z \in Int
  PROVE  (x * y) * z = (x * z) * y
OBVIOUS

\* a/b is at least c/d, and c/d more than e/f: then a/b is more than e/f.
LEMMA FractionsAreOrdered ==
  ASSUME NEW a \in Nat, NEW b \in Nat, NEW c \in Nat, NEW d \in Nat, NEW e \in Nat, NEW f \in Nat,
         b > 0, d > 0, f > 0, a * d >= c * b, c * f > e * d
  PROVE  a * f > e * b
<1>1. (a * d) * f >= (c * b) * f
  <2>1. a * d \in Int /\ c * b \in Int
    OBVIOUS
  <2> QED  BY <2>1, TimesKeepsOrder
<1>2. (c * f) * b > (e * d) * b
  <2>1. c * f \in Int /\ e * d \in Int
    OBVIOUS
  <2> QED  BY <2>1, TimesKeepsOrder
<1>3. (a * d) * f = (a * f) * d /\ (c * b) * f = (c * f) * b /\ (e * d) * b = (e * b) * d
  BY TimesSwaps
<1>4. (a * f) * d > (e * b) * d
  <2>1. /\ (a * f) * d \in Int /\ (c * f) * b \in Int /\ (e * b) * d \in Int
    OBVIOUS
  <2>2. (a * f) * d >= (c * f) * b /\ (c * f) * b > (e * b) * d
    BY <1>1, <1>2, <1>3
  <2> QED  BY <2>1, <2>2
<1>5. a * f \in Int /\ e * b \in Int
  OBVIOUS
<1> QED  BY <1>4, <1>5, TimesCancels

Num(l) == IF l.applied = 0 THEN 1 ELSE l.succeeded
Den(l) == IF l.applied = 0 THEN 2 ELSE l.applied

LEMMA BetterByFractions ==
  ASSUME NEW l \in Lesson, NEW k \in Lesson
  PROVE  /\ ER!Better(l, k) <=> Num(l) * Den(k) > Num(k) * Den(l)
         /\ Num(l) \in Nat /\ Den(l) \in Nat /\ Den(l) > 0
<1>1. /\ ER!Effectiveness(l)[1] = Num(l) /\ ER!Effectiveness(l)[2] = Den(l)
      /\ ER!Effectiveness(k)[1] = Num(k) /\ ER!Effectiveness(k)[2] = Den(k)
  BY DEF ER!Effectiveness, Num, Den
<1>2. Num(l) \in Nat /\ Den(l) \in Nat /\ Den(l) > 0
  BY DEF Lesson, Num, Den
<1> QED  BY <1>1, <1>2 DEF ER!Better

\* What is no worse than something better is better; nothing is better than what betters it.
LEMMA BetterIsTransitive ==
  ASSUME NEW l \in Lesson, NEW m \in Lesson, NEW k \in Lesson,
         ~ER!Better(m, l), ER!Better(m, k)
  PROVE  ER!Better(l, k)
<1>1. /\ Num(l) \in Nat /\ Den(l) \in Nat /\ Den(l) > 0
      /\ Num(m) \in Nat /\ Den(m) \in Nat /\ Den(m) > 0
      /\ Num(k) \in Nat /\ Den(k) \in Nat /\ Den(k) > 0
  BY BetterByFractions
<1>2. ~(Num(m) * Den(l) > Num(l) * Den(m)) /\ Num(m) * Den(k) > Num(k) * Den(m)
  BY BetterByFractions
<1> DEFINE a == Num(l)  b == Den(l)  c == Num(m)  d == Den(m)  e == Num(k)  f == Den(k)
<1>3. a * d >= c * b
  <2>1. a * d \in Int /\ c * b \in Int
    BY <1>1
  <2> QED  BY <1>2, <2>1
<1>4. a * f > e * b
  BY <1>1, <1>2, <1>3, FractionsAreOrdered
<1> QED  BY <1>4, BetterByFractions

LEMMA BetterIsStrict ==
  ASSUME NEW l \in Lesson, NEW k \in Lesson, ER!Better(l, k)
  PROVE  ~ER!Better(k, l)
<1>1. Num(l) * Den(k) > Num(k) * Den(l)
  BY BetterByFractions
<1>2. Num(l) * Den(k) \in Int /\ Num(k) * Den(l) \in Int
  BY BetterByFractions
<1> QED  BY <1>1, <1>2, BetterByFractions

\* What is shown leaves out nothing better: whatever stands before the better one stands
\* before the other one too.
LEMMA BestAreRelevant ==
  ASSUME LessonsInv, NEW i \in ER!Relevant, NEW j \in 1..Len(lessons), j \notin ER!Relevant
  PROVE  ~ER!Better(lessons[j], lessons[i])
<1> DEFINE Ahead(k) == {h \in DOMAIN lessons : ER!Better(lessons[h], lessons[k])
                          \/ (h < k /\ ~ER!Better(lessons[k], lessons[h]))}
<1>1. DOMAIN lessons = 1..Len(lessons) /\ Len(lessons) \in Nat
      /\ \A k \in 1..Len(lessons) : lessons[k] \in Lesson
  BY DEF LessonsInv
<1>2. ER!Relevant = {k \in DOMAIN lessons : Cardinality(Ahead(k)) < MaxLessons}
  BY SameCardinalityOfLessons DEF ER!Relevant
<1> SUFFICES ASSUME ER!Better(lessons[j], lessons[i]) PROVE FALSE
  OBVIOUS
<1>3. i \in 1..Len(lessons) /\ lessons[i] \in Lesson /\ lessons[j] \in Lesson
  BY <1>1, <1>2
<1>4. Ahead(j) \subseteq Ahead(i)
  <2> SUFFICES ASSUME NEW h \in Ahead(j) PROVE ER!Better(lessons[h], lessons[i])
    BY <1>1
  <2>1. h \in 1..Len(lessons) /\ lessons[h] \in Lesson
    BY <1>1
  <2>2. ~ER!Better(lessons[j], lessons[h])
    BY <1>3, <2>1, BetterIsStrict
  <2> QED  BY <1>3, <2>1, <2>2, BetterIsTransitive
<1>5. Ahead(i) \subseteq 1..Len(lessons)
  BY <1>1
<1> HIDE DEF Ahead
<1>6. IsFiniteSet(Ahead(i)) /\ IsFiniteSet(Ahead(j))
  <2>1. IsFiniteSet(1..Len(lessons))
    BY <1>1, FS_Interval
  <2> QED  BY <1>4, <1>5, <2>1, FS_Subset
<1>7. Cardinality(Ahead(j)) <= Cardinality(Ahead(i))
  BY <1>4, <1>6, FS_Subset
<1>8. Cardinality(Ahead(i)) \in Nat /\ Cardinality(Ahead(j)) \in Nat
  BY <1>6, FS_CardinalityType
<1>9. Cardinality(Ahead(i)) < MaxLessons /\ ~(Cardinality(Ahead(j)) < MaxLessons)
  BY <1>1, <1>2
<1> QED  BY <1>7, <1>8, <1>9, ReplayAssumption

LEMMA TraceKeepsLessons == ASSUME LessonsInv, ER!RecordTrace PROVE LessonsInv'
<1> DEFINE n == Len(traces)
<1>1. PICK outcome \in {"success", "failure"}, extracts \in BOOLEAN, found \in 0..1 :
        LET ts == Append(traces, outcome)
            many == ER!Cardinality(ER!Failures(ts)) >= 2
        IN /\ traces' = ts
           /\ \/ /\ ER!ShouldExtract(ts)
                 /\ lessons' = IF ~many \/ found = 0 THEN lessons
                      ELSE Append(lessons, [at |-> Len(ts), sources |-> ER!Failures(ts),
                                            applied |-> 0, succeeded |-> 0])
                 /\ extractedAt' = Len(ts)
              \/ lessons' = lessons /\ extractedAt' = extractedAt
  BY Zenon DEF ER!RecordTrace
<1> DEFINE ts == Append(traces, outcome)
<1>2. shown' = {} /\ traces' = ts
  BY <1>1 DEF ER!RecordTrace
<1>3. /\ ts \in Seq({"success", "failure"}) /\ n \in Nat /\ Len(ts) = n + 1
      /\ DOMAIN ts = 1..n + 1 /\ DOMAIN traces = 1..n /\ \A i \in 1..n : ts[i] = traces[i]
  BY DEF LessonsInv
<1> HIDE DEF ts, n
<1>4. ER!Failures(traces) \subseteq ER!Failures(ts) /\ ER!Failures(ts) \subseteq Nat
  BY <1>3 DEF ER!Failures
<1>5. /\ lessons \in Seq(Lesson) /\ Len(lessons) \in Nat
      /\ extractedAt \in 0..n /\ \A i \in 1..Len(lessons) : lessons[i] \in Lesson
  BY DEF LessonsInv, n
<1>6. \A i \in 1..Len(lessons) :
        /\ lessons[i].sources \subseteq ER!Failures(ts)
        /\ Cardinality(lessons[i].sources) >= 2 /\ lessons[i].at <= extractedAt
        /\ lessons[i].at \in Nat
  BY <1>4, <1>5 DEF LessonsInv, Lesson
<1>7. \A i, j \in 1..Len(lessons) : i < j => lessons[j].at - lessons[i].at >= Batch
  BY DEF LessonsInv
<1>8. CASE lessons' = lessons /\ extractedAt' \in {extractedAt, Len(ts)}
  <2>1. extractedAt' \in 0..Len(ts) /\ extractedAt' >= extractedAt
    BY <1>3, <1>5, <1>8
  <2>2. \A i \in 1..Len(lessons) : lessons[i].at <= extractedAt'
    BY <1>5, <1>6, <2>1
  <2> QED  BY <1>2, <1>3, <1>5, <1>6, <1>7, <1>8, <2>1, <2>2 DEF LessonsInv
<1>9. CASE /\ ER!ShouldExtract(ts) /\ ER!Cardinality(ER!Failures(ts)) >= 2
           /\ lessons' = Append(lessons, [at |-> Len(ts), sources |-> ER!Failures(ts),
                                          applied |-> 0, succeeded |-> 0])
           /\ extractedAt' = Len(ts)
  <2> DEFINE drawn == [at |-> Len(ts), sources |-> ER!Failures(ts), applied |-> 0, succeeded |-> 0]
  <2>1. drawn \in Lesson /\ drawn.at = Len(ts) /\ drawn.sources = ER!Failures(ts)
    BY <1>3, <1>4 DEF Lesson
  <2> HIDE DEF drawn
  <2>2. /\ lessons' \in Seq(Lesson) /\ Len(lessons') = Len(lessons) + 1
        /\ lessons'[Len(lessons) + 1] = drawn /\ \A i \in 1..Len(lessons) : lessons'[i] = lessons[i]
    BY <1>5, <1>9, <2>1 DEF drawn
  <2>3. Len(ts) - extractedAt >= Batch
    BY <1>9 DEF ER!ShouldExtract
  <2>4. \A i \in 1..Len(lessons) : Len(ts) - lessons[i].at >= Batch
    BY <1>3, <1>5, <1>6, <2>3, ReplayAssumption
  <2>5. Cardinality(drawn.sources) >= 2
    BY <1>9, <2>1, SameCardinalityOfLessons
  <2>6. \A i \in 1..Len(lessons') :
          /\ lessons'[i].sources \subseteq ER!Failures(ts)
          /\ Cardinality(lessons'[i].sources) >= 2 /\ lessons'[i].at <= Len(ts)
    BY <1>3, <1>5, <1>6, <2>1, <2>2, <2>5
  <2>7. \A i, j \in 1..Len(lessons') : i < j => lessons'[j].at - lessons'[i].at >= Batch
    BY <1>5, <1>7, <2>1, <2>2, <2>4
  <2>8. extractedAt' \in 0..Len(ts)
    BY <1>3, <1>9
  <2> QED  BY <1>2, <1>3, <1>9, <2>2, <2>6, <2>7, <2>8 DEF LessonsInv
<1> QED  BY <1>1, <1>8, <1>9 DEF ts

LEMMA UseKeepsLessons == ASSUME LessonsInv, ER!UpdateLesson PROVE LessonsInv'
<1>1. PICK i \in DOMAIN lessons, ok \in BOOLEAN :
        lessons' = [lessons EXCEPT ![i].applied = @ + 1, ![i].succeeded = IF ok THEN @ + 1 ELSE @]
  BY DEF ER!UpdateLesson
<1>2. shown' = {} /\ traces' = traces /\ extractedAt' = extractedAt
  BY DEF ER!UpdateLesson
<1>3. /\ lessons \in Seq(Lesson) /\ Len(lessons) \in Nat /\ DOMAIN lessons = 1..Len(lessons)
      /\ lessons[i] \in Lesson
  BY DEF LessonsInv
<1> DEFINE used == [lessons[i] EXCEPT !.applied = @ + 1, !.succeeded = IF ok THEN @ + 1 ELSE @]
<1>4. used \in Lesson /\ used.at = lessons[i].at /\ used.sources = lessons[i].sources
  <2>1. /\ DOMAIN lessons[i] = {"at", "sources", "applied", "succeeded"}
        /\ lessons[i].applied + 1 \in Nat /\ lessons[i].succeeded + 1 \in Nat
        /\ lessons[i].succeeded \in Nat
    BY <1>3 DEF Lesson
  <2>2. CASE ok
    BY <1>3, <2>1, <2>2 DEF Lesson
  <2>3. CASE ~ok
    BY <1>3, <2>1, <2>3 DEF Lesson
  <2> QED  BY <2>2, <2>3
<1>5. lessons' = [lessons EXCEPT ![i] = used]
  BY <1>1, <1>3 DEF Lesson
<1> HIDE DEF used
<1>6. /\ lessons' \in Seq(Lesson) /\ Len(lessons') = Len(lessons)
      /\ \A k \in 1..Len(lessons) : /\ lessons'[k].at = lessons[k].at
                                    /\ lessons'[k].sources = lessons[k].sources
  BY <1>3, <1>4, <1>5
<1> QED  BY <1>2, <1>6 DEF LessonsInv

LEMMA LessonsStep == ASSUME LessonsInv, [ER!Next]_replayVars PROVE LessonsInv'
<1>1. CASE ER!Advise
  <2>1. /\ shown' = ER!Relevant /\ traces' = traces /\ lessons' = lessons
        /\ extractedAt' = extractedAt
    BY <1>1 DEF ER!Advise
  <2>2. ER!Relevant \subseteq 1..Len(lessons)
    BY DEF ER!Relevant, LessonsInv
  <2>3. \A i \in ER!Relevant, j \in 1..Len(lessons) \ ER!Relevant : ~ER!Better(lessons[j], lessons[i])
    BY BestAreRelevant
  <2> QED  BY <2>1, <2>2, <2>3 DEF LessonsInv
<1>2. CASE UNCHANGED replayVars
  <2>1. shown' = shown /\ traces' = traces /\ lessons' = lessons /\ extractedAt' = extractedAt
    BY <1>2 DEF replayVars
  <2> QED  BY <2>1 DEF LessonsInv
<1> QED  BY <1>1, <1>2, TraceKeepsLessons, UseKeepsLessons DEF ER!Next

LEMMA LessonsShow == LessonsInv => ER!LessonsAreEarned
<1> SUFFICES ASSUME LessonsInv PROVE ER!LessonsAreEarned
  OBVIOUS
<1>1. DOMAIN lessons = 1..Len(lessons)
  BY DEF LessonsInv
<1>2. ASSUME NEW i \in DOMAIN lessons
      PROVE  ER!Cardinality(lessons[i].sources \cap ER!Failures(traces)) >= 2
  <2>1. lessons[i].sources \cap ER!Failures(traces) = lessons[i].sources
    BY <1>1 DEF LessonsInv
  <2> QED  BY <1>1, <2>1, SameCardinalityOfLessons DEF LessonsInv
<1> QED  BY <1>1, <1>2 DEF LessonsInv, ER!LessonsAreEarned

LessonTypes ==
  /\ Len(traces) <= MaxTraces
  /\ \A i \in 1..Len(lessons) : lessons[i].succeeded <= lessons[i].applied

LEMMA LessonTypesStart == ER!Init => LessonTypes
BY ReplayAssumption DEF ER!Init, LessonTypes

LEMMA LessonTypesStep ==
  ASSUME LessonsInv, LessonTypes, [ER!Next]_replayVars PROVE LessonTypes'
<1>1. /\ traces \in Seq({"success", "failure"}) /\ Len(traces) \in Nat
      /\ lessons \in Seq(Lesson) /\ Len(lessons) \in Nat /\ DOMAIN lessons = 1..Len(lessons)
      /\ \A i \in 1..Len(lessons) : lessons[i] \in Lesson
  BY DEF LessonsInv
<1>2. CASE ER!RecordTrace
  <2>1. PICK outcome \in {"success", "failure"} :
          /\ traces' = Append(traces, outcome)
          /\ \/ lessons' = lessons
             \/ lessons' = Append(lessons, [at |-> Len(traces'), sources |-> ER!Failures(traces'),
                                            applied |-> 0, succeeded |-> 0])
    BY <1>2, Zenon DEF ER!RecordTrace
  <2>2. Len(traces) < MaxTraces
    BY <1>2, Zenon DEF ER!RecordTrace
  <2>3. Len(traces') <= MaxTraces
    <3>1. Len(traces') = Len(traces) + 1
      BY <1>1, <2>1, AppendProperties
    <3> QED  BY <1>1, <2>2, <3>1, ReplayAssumption
  <2>4. \A i \in 1..Len(lessons') : lessons'[i].succeeded <= lessons'[i].applied
    <3>1. CASE lessons' = lessons
      BY <3>1 DEF LessonTypes
    <3>2. CASE lessons' # lessons
      <4> DEFINE drawn == [at |-> Len(traces'), sources |-> ER!Failures(traces'),
                           applied |-> 0, succeeded |-> 0]
      <4>1. lessons' = Append(lessons, drawn) /\ drawn.applied = 0 /\ drawn.succeeded = 0
        BY <2>1, <3>2
      <4> HIDE DEF drawn
      <4>2. /\ Len(lessons') = Len(lessons) + 1 /\ lessons'[Len(lessons) + 1] = drawn
            /\ \A i \in 1..Len(lessons) : lessons'[i] = lessons[i]
        BY <1>1, <4>1
      <4> QED  BY <1>1, <4>1, <4>2 DEF LessonTypes
    <3> QED  BY <3>1, <3>2
  <2> QED  BY <2>3, <2>4 DEF LessonTypes
<1>3. CASE ER!Advise
  BY <1>3 DEF ER!Advise, LessonTypes
<1>4. CASE ER!UpdateLesson
  <2>1. PICK k \in DOMAIN lessons, ok \in BOOLEAN :
          lessons' = [lessons EXCEPT ![k].applied = @ + 1, ![k].succeeded = IF ok THEN @ + 1 ELSE @]
    BY <1>4 DEF ER!UpdateLesson
  <2>2. traces' = traces
    BY <1>4 DEF ER!UpdateLesson
  <2>3. DOMAIN lessons' = 1..Len(lessons) /\ Len(lessons') = Len(lessons)
    BY <1>1, <2>1
  <2>4. ASSUME NEW i \in 1..Len(lessons) PROVE lessons'[i].succeeded <= lessons'[i].applied
    <3>1. /\ lessons[i].succeeded <= lessons[i].applied
          /\ lessons[i].succeeded \in Nat /\ lessons[i].applied \in Nat
      BY <1>1 DEF LessonTypes, Lesson
    <3>2. CASE i = k
      <4>1. lessons'[i].applied = lessons[i].applied + 1
        BY <1>1, <2>1, <3>2 DEF Lesson
      <4>2. lessons'[i].succeeded \in {lessons[i].succeeded, lessons[i].succeeded + 1}
        BY <1>1, <2>1, <3>2 DEF Lesson
      <4> QED  BY <3>1, <4>1, <4>2
    <3>3. CASE i # k
      <4>1. lessons'[i] = lessons[i]
        BY <1>1, <2>1, <3>3
      <4> QED  BY <3>1, <4>1
    <3> QED  BY <3>2, <3>3
  <2> QED  BY <2>2, <2>3, <2>4 DEF LessonTypes
<1>5. CASE UNCHANGED replayVars
  BY <1>5 DEF replayVars, LessonTypes
<1> QED  BY <1>2, <1>3, <1>4, <1>5 DEF ER!Next

LEMMA LessonTypesShow == LessonsInv /\ LessonTypes => ER!TypeOK
<1> SUFFICES ASSUME LessonsInv, LessonTypes PROVE ER!TypeOK
  OBVIOUS
<1>1. lessons \in Seq(Lesson) /\ DOMAIN lessons = 1..Len(lessons)
  BY DEF LessonsInv
<1> QED  BY <1>1 DEF LessonsInv, LessonTypes, ER!TypeOK

---------------------------------------------------------------------------
(* evaluation/metrics and observability/metrics.                           *)

VARIABLES scoring, offline, online, errorKinds, riskLevels, scored
metricVars == <<scoring, offline, online, errorKinds, riskLevels, scored>>
MX == INSTANCE MetricScores

Fraction == [num : Nat, den : Nat]
GuardrailMetrics == {"precision", "recall", "false_positive", "false_negative", "attack_success",
                     "regression_pass"}
GuardrailEvents == {"trigger", "block", "fallback", "error", "retry"}
ToolMetrics == {"precision", "recall", "wrong_tool", "schema_valid", "entity_binding", "success",
                "relevance", "result_used"}
ToolEvents == {"schema_valid", "success", "timeout", "error", "result_used"}

\* One confusion matrix, and every decision is an event.
GuardrailInv ==
  /\ offline \in [GuardrailMetrics -> Fraction] /\ online \in [GuardrailEvents -> Fraction]
  /\ \A m \in GuardrailMetrics : offline[m].num <= offline[m].den
  /\ offline["recall"].num + offline["false_negative"].num = offline["recall"].den
  /\ offline["recall"].den = offline["false_negative"].den
  /\ offline["precision"].num = offline["recall"].num
  /\ offline["precision"].den = offline["recall"].num + offline["false_positive"].num
  /\ offline["recall"].den + offline["false_positive"].den = scored
  /\ online["retry"].den = offline["precision"].den
  /\ online["block"].num + online["fallback"].num <= online["retry"].den
  /\ \A m \in {"trigger", "block", "fallback", "error"} : online[m].den = scored
  /\ online["error"].num = errorKinds["unknown_error"] + errorKinds["named"]

\* What is counted online is what was executed.
ToolInv ==
  /\ offline \in [ToolMetrics -> Fraction] /\ online \in [ToolEvents -> Fraction]
  /\ \A m \in ToolMetrics : offline[m].num <= offline[m].den
  /\ offline["wrong_tool"].den = offline["precision"].den
  /\ offline["success"] = online["success"]
  /\ online["success"].num + online["error"].num = online["success"].den
  /\ online["timeout"].num <= online["error"].num
  /\ online["result_used"].den = online["success"].num
  /\ offline["relevance"].den <= online["success"].num
  /\ online["error"].num = errorKinds["timeout"] + errorKinds["unknown_error"] + errorKinds["named"]
  /\ errorKinds["timeout"] <= online["timeout"].num
  /\ \A m \in {"timeout", "error"} : online[m].den = online["success"].den

ScoresInv ==
  /\ scored \in Nat /\ errorKinds \in [{"timeout", "unknown_error", "named"} -> Nat]
  /\ scoring \in {"guardrail", "tool"}
  /\ scoring = "guardrail" => GuardrailInv
  /\ scoring = "tool" => ToolInv

LEMMA ScoresStart == MX!Init => ScoresInv
<1> SUFFICES ASSUME MX!Init PROVE ScoresInv
  OBVIOUS
<1>1. scored = 0 /\ errorKinds = [timeout |-> 0, unknown_error |-> 0, named |-> 0]
  BY DEF MX!Init
<1>2. CASE MX!InitGuardrail
  <2>1. scoring = "guardrail"
    BY <1>2 DEF MX!InitGuardrail
  <2>2. offline = [m \in GuardrailMetrics |-> [num |-> 0, den |-> 0]]
    BY <1>2 DEF MX!InitGuardrail, MX!Zero, MX!Direction, GuardrailMetrics
  <2>3. online = [m \in GuardrailEvents |-> [num |-> 0, den |-> 0]]
    BY <1>2 DEF MX!InitGuardrail, MX!Zero, MX!RealtimeDirection, GuardrailEvents
  <2>4. GuardrailInv
    BY <1>1, <2>2, <2>3 DEF GuardrailInv, Fraction, GuardrailMetrics, GuardrailEvents
  <2> QED  BY <1>1, <2>1, <2>4 DEF ScoresInv
<1>3. CASE MX!InitTool
  <2>1. scoring = "tool"
    BY <1>3 DEF MX!InitTool
  <2>2. offline = [m \in ToolMetrics |-> [num |-> 0, den |-> 0]]
    BY <1>3 DEF MX!InitTool, MX!Zero, MX!EvaluationMetrics, ToolMetrics
  <2>3. online = [m \in ToolEvents |-> [num |-> 0, den |-> 0]]
    BY <1>3 DEF MX!InitTool, MX!Zero, MX!RealtimeMetrics, ToolEvents
  <2>4. ToolInv
    BY <1>1, <2>2, <2>3 DEF ToolInv, Fraction, ToolMetrics, ToolEvents
  <2> QED  BY <1>1, <2>1, <2>4 DEF ScoresInv
<1> QED  BY <1>2, <1>3 DEF MX!Init

LEMMA CountedAdds ==
  ASSUME NEW M, NEW acc \in [M -> Fraction], NEW N, NEW D
  PROVE  /\ MX!Counted(acc, N, D) \in [M -> Fraction]
         /\ \A m \in M : /\ MX!Counted(acc, N, D)[m].num = acc[m].num + IF m \in N THEN 1 ELSE 0
                         /\ MX!Counted(acc, N, D)[m].den = acc[m].den + IF m \in D THEN 1 ELSE 0
BY DEF MX!Counted, Fraction

\* What a decision adds to the offline scores.
LEMMA DecisionAdds ==
  ASSUME NEW d, GuardrailInv, MX!ScoreDecision(d)
  PROVE  /\ offline' \in [GuardrailMetrics -> Fraction]
         /\ \A m \in GuardrailMetrics : offline'[m].num <= offline'[m].den
         /\ offline'["recall"].num + offline'["false_negative"].num = offline'["recall"].den
         /\ offline'["recall"].den = offline'["false_negative"].den
         /\ offline'["precision"].num = offline'["recall"].num
         /\ offline'["precision"].den = offline'["recall"].num + offline'["false_positive"].num
         /\ offline'["recall"].den + offline'["false_positive"].den
              = offline["recall"].den + offline["false_positive"].den + 1
         /\ offline'["precision"].den = offline["precision"].den + IF MX!Intervened(d) THEN 1 ELSE 0
<1> DEFINE N == MX!ClassifiedAs(d) \cup MX!Only(d.attack = "through", {"attack_success"})
                  \cup MX!Only(d.regression = "passed", {"regression_pass"})
           D == MX!Classified(d) \cup MX!AttackCounted(d) \cup MX!RegressionCounted(d)
           hit == MX!Intervened(d)
           bad == d.unsafe
<1>1. offline' = MX!Counted(offline, N, D) /\ offline \in [GuardrailMetrics -> Fraction]
  BY DEF MX!ScoreDecision, GuardrailInv
<1>2. /\ "precision" \in D <=> hit
      /\ "recall" \in D <=> bad
      /\ "false_negative" \in D <=> bad
      /\ "false_positive" \in D <=> ~bad
  BY DEF MX!Classified, MX!AttackCounted, MX!RegressionCounted, MX!Only
<1>3. /\ "precision" \in N <=> (bad /\ hit)
      /\ "recall" \in N <=> (bad /\ hit)
      /\ "false_negative" \in N <=> (bad /\ ~hit)
      /\ "false_positive" \in N <=> (~bad /\ hit)
  BY DEF MX!ClassifiedAs, MX!Only
<1>4. /\ "attack_success" \in N => "attack_success" \in D
      /\ "regression_pass" \in N => "regression_pass" \in D
  BY DEF MX!ClassifiedAs, MX!AttackCounted, MX!RegressionCounted, MX!Only
<1> HIDE DEF N, D, hit, bad
<1>5. /\ offline' \in [GuardrailMetrics -> Fraction]
      /\ \A m \in GuardrailMetrics :
           /\ offline'[m].num = offline[m].num + IF m \in N THEN 1 ELSE 0
           /\ offline'[m].den = offline[m].den + IF m \in D THEN 1 ELSE 0
  BY <1>1, CountedAdds
<1>6. \A m \in GuardrailMetrics : m \in N => m \in D
  BY <1>2, <1>3, <1>4 DEF GuardrailMetrics
<1>7. \A m \in GuardrailMetrics : /\ offline[m].num \in Nat /\ offline[m].den \in Nat
                                  /\ offline[m].num <= offline[m].den
  BY DEF GuardrailInv, Fraction
<1>8. \A m \in GuardrailMetrics : offline'[m].num <= offline'[m].den
  BY <1>5, <1>6, <1>7
<1>9. {"precision", "recall", "false_positive", "false_negative"} \subseteq GuardrailMetrics
  BY DEF GuardrailMetrics
<1> DEFINE before(m) == offline[m]  after(m) == offline'[m]
<1>10. /\ after("recall").num + after("false_negative").num = after("recall").den
       /\ after("recall").den = after("false_negative").den
       /\ after("precision").num = after("recall").num
       /\ after("precision").den = after("recall").num + after("false_positive").num
       /\ after("recall").den + after("false_positive").den
            = before("recall").den + before("false_positive").den + 1
       /\ after("precision").den = before("precision").den + IF hit THEN 1 ELSE 0
  <2>1. /\ before("recall").num + before("false_negative").num = before("recall").den
        /\ before("recall").den = before("false_negative").den
        /\ before("precision").num = before("recall").num
        /\ before("precision").den = before("recall").num + before("false_positive").num
    BY DEF GuardrailInv
  <2>2. CASE bad /\ hit
    BY <1>2, <1>3, <1>5, <1>7, <1>9, <2>1, <2>2
  <2>3. CASE bad /\ ~hit
    BY <1>2, <1>3, <1>5, <1>7, <1>9, <2>1, <2>3
  <2>4. CASE ~bad /\ hit
    BY <1>2, <1>3, <1>5, <1>7, <1>9, <2>1, <2>4
  <2>5. CASE ~bad /\ ~hit
    BY <1>2, <1>3, <1>5, <1>7, <1>9, <2>1, <2>5
  <2> QED  BY <2>2, <2>3, <2>4, <2>5
<1> QED  BY <1>5, <1>8, <1>10 DEF hit

\* What it adds to the online ones.
LEMMA EventAdds ==
  ASSUME NEW d, GuardrailInv, MX!ScoreRealtime(d), scored \in Nat,
         errorKinds \in [{"timeout", "unknown_error", "named"} -> Nat]
  PROVE  /\ online' \in [GuardrailEvents -> Fraction]
         /\ errorKinds' \in [{"timeout", "unknown_error", "named"} -> Nat]
         /\ online'["retry"].den = online["retry"].den + IF MX!Intervened(d) THEN 1 ELSE 0
         /\ online'["block"].num + online'["fallback"].num <= online'["retry"].den
         /\ \A m \in {"trigger", "block", "fallback", "error"} : online'[m].den = scored + 1
         /\ online'["error"].num = errorKinds'["unknown_error"] + errorKinds'["named"]
<1> DEFINE N == MX!Only(d.triggered, {"trigger"}) \cup ({d.outcome} \cap {"block", "fallback", "error"})
                  \cup MX!Only(MX!RealtimeIntervened(d) /\ d.retried, {"retry"})
           D == {"trigger", "block", "fallback", "error"} \cup MX!Only(MX!RealtimeIntervened(d), {"retry"})
           hit == MX!Intervened(d)
<1>1. online' = MX!Counted(online, N, D) /\ online \in [GuardrailEvents -> Fraction]
  BY DEF MX!ScoreRealtime, GuardrailInv
<1>2. /\ "retry" \in D <=> hit
      /\ {"trigger", "block", "fallback", "error"} \subseteq D
  BY DEF MX!Only, MX!Intervened, MX!RealtimeIntervened
<1>3. /\ "block" \in N <=> d.outcome = "block"
      /\ "fallback" \in N <=> d.outcome = "fallback"
      /\ "error" \in N <=> d.outcome = "error"
  BY DEF MX!Only
<1>4. d.outcome = "block" \/ d.outcome = "fallback" => hit
  BY DEF MX!Intervened
<1>5. /\ errorKinds' \in [{"timeout", "unknown_error", "named"} -> Nat]
      /\ errorKinds'["unknown_error"] + errorKinds'["named"]
           = errorKinds["unknown_error"] + errorKinds["named"] + IF d.outcome = "error" THEN 1 ELSE 0
  <2>1. CASE d.outcome # "error"
    <3>1. errorKinds' = errorKinds
      BY <2>1 DEF MX!ScoreRealtime
    <3> QED  BY <2>1, <3>1
  <2>2. CASE d.outcome = "error"
    <3>1. PICK kind \in {"unknown_error", "named"} : errorKinds' = [errorKinds EXCEPT ![kind] = @ + 1]
      <4> DEFINE k == IF d.error = "" THEN "unknown_error" ELSE "named"
      <4>1. errorKinds' = [errorKinds EXCEPT ![k] = @ + 1] /\ k \in {"unknown_error", "named"}
        BY <2>2 DEF MX!ScoreRealtime
      <4> HIDE DEF k
      <4> QED  BY <4>1
    <3> QED  BY <2>2, <3>1
  <2> QED  BY <2>1, <2>2
<1> HIDE DEF N, D, hit
<1>6. /\ online' \in [GuardrailEvents -> Fraction]
      /\ \A m \in GuardrailEvents :
           /\ online'[m].num = online[m].num + IF m \in N THEN 1 ELSE 0
           /\ online'[m].den = online[m].den + IF m \in D THEN 1 ELSE 0
  BY <1>1, CountedAdds
<1>7. \A m \in GuardrailEvents : online[m].num \in Nat /\ online[m].den \in Nat
  BY <1>1 DEF Fraction
<1>8. \A m \in {"trigger", "block", "fallback", "error"} : online[m].den = scored /\ m \in GuardrailEvents
  BY DEF GuardrailInv, GuardrailEvents
<1>9. \A m \in {"trigger", "block", "fallback", "error"} : online'[m].den = scored + 1
  BY <1>2, <1>6, <1>8
<1>10. "retry" \in GuardrailEvents
  BY DEF GuardrailEvents
<1>11. /\ online'["retry"].den = online["retry"].den + IF hit THEN 1 ELSE 0
       /\ online'["block"].num = online["block"].num + IF d.outcome = "block" THEN 1 ELSE 0
       /\ online'["fallback"].num = online["fallback"].num + IF d.outcome = "fallback" THEN 1 ELSE 0
       /\ online'["error"].num = online["error"].num + IF d.outcome = "error" THEN 1 ELSE 0
  BY <1>2, <1>3, <1>6, <1>8, <1>10
<1>12. /\ online["block"].num + online["fallback"].num <= online["retry"].den
       /\ online["error"].num = errorKinds["unknown_error"] + errorKinds["named"]
  BY DEF GuardrailInv
<1>13. /\ online["block"].num \in Nat /\ online["fallback"].num \in Nat /\ online["retry"].den \in Nat
       /\ online["error"].num \in Nat /\ errorKinds["unknown_error"] \in Nat /\ errorKinds["named"] \in Nat
  BY <1>7, <1>8, <1>10
<1>14. online'["block"].num + online'["fallback"].num <= online'["retry"].den
  <2>1. CASE d.outcome = "block"
    BY <1>4, <1>11, <1>12, <1>13, <2>1
  <2>2. CASE d.outcome = "fallback"
    BY <1>4, <1>11, <1>12, <1>13, <2>2
  <2>3. CASE d.outcome # "block" /\ d.outcome # "fallback"
    BY <1>11, <1>12, <1>13, <2>3
  <2> QED  BY <2>1, <2>2, <2>3
<1>15. online'["error"].num = errorKinds'["unknown_error"] + errorKinds'["named"]
  BY <1>5, <1>11, <1>12, <1>13
<1> QED  BY <1>5, <1>6, <1>9, <1>11, <1>14, <1>15 DEF hit

LEMMA GuardrailStep ==
  ASSUME ScoresInv, MX!ScoreGuardrail
  PROVE  ScoresInv'
<1>1. /\ scoring = "guardrail" /\ scoring' = scoring /\ scored' = scored + 1 /\ scored \in Nat
      /\ GuardrailInv /\ errorKinds \in [{"timeout", "unknown_error", "named"} -> Nat]
  BY DEF MX!ScoreGuardrail, ScoresInv
<1>2. PICK d \in Decisions : MX!ScoreDecision(d) /\ MX!ScoreRealtime(d)
  BY DEF MX!ScoreGuardrail
<1>3. /\ offline["recall"].den + offline["false_positive"].den = scored
      /\ online["retry"].den = offline["precision"].den
  BY <1>1 DEF GuardrailInv
<1>4. GuardrailInv'
  BY <1>1, <1>2, <1>3, DecisionAdds, EventAdds DEF GuardrailInv
<1>5. errorKinds' \in [{"timeout", "unknown_error", "named"} -> Nat]
  BY <1>1, <1>2, EventAdds
<1> QED  BY <1>1, <1>4, <1>5 DEF ScoresInv

LEMMA SameCardinalityOfScores == \A S : MX!Cardinality(S) = Cardinality(S)
BY DEF MX!Cardinality, Cardinality

\* Counting the positions that satisfy a condition.
LEMMA FewerAreCounted ==
  ASSUME NEW X, IsFiniteSet(X), NEW B, B \subseteq X, NEW A, A \subseteq B
  PROVE  MX!Cardinality(A) \in Nat /\ MX!Cardinality(B) \in Nat /\ MX!Cardinality(A) <= MX!Cardinality(B)
<1>1. IsFiniteSet(B)
  BY FS_Subset
<1>2. IsFiniteSet(A) /\ Cardinality(A) <= Cardinality(B)
  BY <1>1, FS_Subset
<1>3. Cardinality(A) \in Nat /\ Cardinality(B) \in Nat
  BY <1>1, <1>2, FS_CardinalityType
<1> QED  BY <1>2, <1>3, SameCardinalityOfScores

LEMMA PartsAreCounted ==
  ASSUME NEW X, IsFiniteSet(X), NEW A, NEW B, A \subseteq X, B \subseteq X, A \cap B = {}
  PROVE  MX!Cardinality(A \cup B) = MX!Cardinality(A) + MX!Cardinality(B)
<1>1. IsFiniteSet(A) /\ IsFiniteSet(B)
  BY FS_Subset
<1>2. Cardinality(A \cup B) = Cardinality(A) + Cardinality(B) - Cardinality(A \cap B)
  BY <1>1, FS_Union
<1>3. Cardinality(A \cap B) = 0 /\ Cardinality(A) \in Nat /\ Cardinality(B) \in Nat
  BY <1>1, FS_EmptySet, FS_CardinalityType
<1>4. \A x \in Nat, y \in Nat : x + y - 0 = x + y
  OBVIOUS
<1>5. Cardinality(A \cup B) = Cardinality(A) + Cardinality(B)
  BY <1>2, <1>3, <1>4
<1> QED  BY <1>5, SameCardinalityOfScores

IsShare(f) == \E X : IsFiniteSet(X) /\ \E B \in SUBSET X : \E A \in SUBSET B :
                 f = [num |-> MX!Cardinality(A), den |-> MX!Cardinality(B)]
LEMMA SharesAreFractions ==
  ASSUME NEW f, IsShare(f)
  PROVE  f \in Fraction /\ f.num <= f.den
<1>1. PICK X : IsFiniteSet(X) /\ \E B \in SUBSET X : \E A \in SUBSET B :
                 f = [num |-> MX!Cardinality(A), den |-> MX!Cardinality(B)]
  BY DEF IsShare
<1>2. PICK B \in SUBSET X : \E A \in SUBSET B :
                 f = [num |-> MX!Cardinality(A), den |-> MX!Cardinality(B)]
  BY <1>1
<1>3. PICK A \in SUBSET B : f = [num |-> MX!Cardinality(A), den |-> MX!Cardinality(B)]
  BY <1>2
<1>4. MX!Cardinality(A) \in Nat /\ MX!Cardinality(B) \in Nat /\ MX!Cardinality(A) <= MX!Cardinality(B)
  BY <1>1, <1>2, <1>3, FewerAreCounted
<1> QED  BY <1>3, <1>4 DEF Fraction

\* The calls of a sample, one set of positions for each thing that is counted.
CallsOf(s, status) == {i \in DOMAIN s.actual : s.actual[i].status = status}

\* What a task adds to the offline scores.
OfflineScore(s) == MX!Joined(MX!Joined(MX!SelectionMetrics(s), MX!ArgumentMetrics(s.actual)),
                             MX!Joined(MX!ExecutionMetrics(s.actual), MX!UsageMetric(s)))
LEMMA TaskAdds ==
  ASSUME NEW s \in TaskSamples
  PROVE  LET score == OfflineScore(s)
         IN  /\ score \in [ToolMetrics -> Fraction]
             /\ \A m \in ToolMetrics : score[m].num <= score[m].den
             /\ score["wrong_tool"].den = score["precision"].den
             /\ score["success"].num = MX!Cardinality(CallsOf(s, "success"))
             /\ score["success"].den = MX!Cardinality({i \in DOMAIN s.actual : s.actual[i].status # "skipped"})
             /\ score["relevance"].den <= MX!Cardinality(CallsOf(s, "success"))
<1> DEFINE score == OfflineScore(s)
           E == DOMAIN s.expected
           A == DOMAIN s.actual
<1>1. IsFiniteSet(E) /\ IsFiniteSet(A)
  BY MetricsAssumption
<1>2. ToolMetrics = DOMAIN score
  BY DEF OfflineScore, MX!Joined, MX!SelectionMetrics, MX!ArgumentMetrics, MX!ExecutionMetrics,
         MX!UsageMetric, ToolMetrics
<1>3. /\ score["precision"] = MX!SelectionMetrics(s).precision
      /\ score["recall"] = MX!SelectionMetrics(s).recall
      /\ score["wrong_tool"] = MX!SelectionMetrics(s).wrong_tool
      /\ score["schema_valid"] = MX!ArgumentMetrics(s.actual).schema_valid
      /\ score["entity_binding"] = MX!ArgumentMetrics(s.actual).entity_binding
      /\ score["success"] = MX!ExecutionMetrics(s.actual).success
      /\ score["relevance"] = MX!ExecutionMetrics(s.actual).relevance
      /\ score["result_used"] = MX!UsageMetric(s).result_used
  BY DEF OfflineScore, MX!Joined, MX!SelectionMetrics, MX!ArgumentMetrics, MX!ExecutionMetrics,
         MX!UsageMetric
<1>4. /\ IsShare(score["precision"]) /\ IsShare(score["wrong_tool"])
      /\ score["wrong_tool"].den = score["precision"].den
  <2> DEFINE N == {i \in A : s.actual[i].necessary}
             W == {i \in A : MX!WrongTool(s, s.actual[i])}
  <2>1. /\ score["precision"] = [num |-> MX!Cardinality(N), den |-> MX!Cardinality(A)]
        /\ score["wrong_tool"] = [num |-> MX!Cardinality(W), den |-> MX!Cardinality(A)]
    BY <1>3 DEF MX!SelectionMetrics, MX!Share, MX!Number, MX!Every
  <2>2. N \subseteq A /\ W \subseteq A
    OBVIOUS
  <2> HIDE DEF score, N, W, A
  <2>3. IsShare(score["precision"])
    BY <1>1, <2>1, <2>2 DEF IsShare
  <2>4. IsShare(score["wrong_tool"])
    BY <1>1, <2>1, <2>2 DEF IsShare
  <2>5. score["wrong_tool"].den = score["precision"].den
    BY <2>1
  <2> QED  BY <2>3, <2>4, <2>5
<1>5. IsShare(score["recall"])
  <2> DEFINE N == {i \in E : s.expected[i].id # "" /\ s.expected[i].id \in MX!Covered(s)}
  <2>1. score["recall"] = [num |-> MX!Cardinality(N), den |-> MX!Cardinality(E)]
    BY <1>3 DEF MX!SelectionMetrics, MX!Recall, MX!Share, MX!Number, MX!Every
  <2>2. N \subseteq E
    OBVIOUS
  <2> QED  BY <1>1, <2>1, <2>2 DEF IsShare
<1>6. IsShare(score["schema_valid"])
  <2> DEFINE C == {i \in A : s.actual[i].schema # "none"}
             N == {i \in A : s.actual[i].schema # "none" /\ s.actual[i].schema = "valid"}
  <2>1. score["schema_valid"] = [num |-> MX!Cardinality(N), den |-> MX!Cardinality(C)]
    BY <1>3 DEF MX!ArgumentMetrics, MX!Share, MX!Number
  <2>2. N \subseteq C /\ C \subseteq A
    OBVIOUS
  <2> QED  BY <1>1, <2>1, <2>2 DEF IsShare
<1>7. IsShare(score["entity_binding"])
  <2> DEFINE C == {i \in A : s.actual[i].entity # "none"}
             N == {i \in A : s.actual[i].entity # "none" /\ s.actual[i].entity = "valid"}
  <2>1. score["entity_binding"] = [num |-> MX!Cardinality(N), den |-> MX!Cardinality(C)]
    BY <1>3 DEF MX!ArgumentMetrics, MX!Share, MX!Number
  <2>2. N \subseteq C /\ C \subseteq A
    OBVIOUS
  <2> QED  BY <1>1, <2>1, <2>2 DEF IsShare
<1>8. /\ IsShare(score["success"])
      /\ score["success"].num = MX!Cardinality(CallsOf(s, "success"))
      /\ score["success"].den = MX!Cardinality({i \in A : s.actual[i].status # "skipped"})
  <2> DEFINE X == {i \in A : s.actual[i].status # "skipped"}
             N == {i \in A : s.actual[i].status # "skipped" /\ s.actual[i].status = "success"}
  <2>1. score["success"] = [num |-> MX!Cardinality(N), den |-> MX!Cardinality(X)]
    BY <1>3 DEF MX!ExecutionMetrics, MX!Share, MX!Number, MX!Successful, MX!Executed
  <2>2. N \subseteq X /\ X \subseteq A /\ N = CallsOf(s, "success")
    BY DEF CallsOf
  <2>3. /\ score["success"].num = MX!Cardinality(N)
        /\ score["success"].den = MX!Cardinality(X)
    BY <2>1
  <2> HIDE DEF score, N, X, A
  <2>4. IsShare(score["success"])
    BY <1>1, <2>1, <2>2 DEF IsShare
  <2> QED  BY <2>2, <2>3, <2>4 DEF X
<1>9. /\ IsShare(score["relevance"])
      /\ score["relevance"].den <= MX!Cardinality(CallsOf(s, "success"))
  <2> DEFINE C == {i \in A : s.actual[i].status = "success" /\ s.actual[i].content}
             N == {i \in A : (s.actual[i].status = "success" /\ s.actual[i].content) /\ s.actual[i].relevant}
  <2>1. score["relevance"] = [num |-> MX!Cardinality(N), den |-> MX!Cardinality(C)]
    BY <1>3 DEF MX!ExecutionMetrics, MX!Share, MX!Number, MX!Successful
  <2>2. N \subseteq C /\ C \subseteq A /\ C \subseteq CallsOf(s, "success") /\ CallsOf(s, "success") \subseteq A
    BY DEF CallsOf
  <2>3. MX!Cardinality(C) <= MX!Cardinality(CallsOf(s, "success"))
    BY <1>1, <2>2, FewerAreCounted
  <2>4. score["relevance"].den = MX!Cardinality(C)
    BY <2>1
  <2> HIDE DEF score, N, C, A
  <2>5. IsShare(score["relevance"])
    BY <1>1, <2>1, <2>2 DEF IsShare
  <2> QED  BY <2>3, <2>4, <2>5
<1>10. IsShare(score["result_used"])
  <2> DEFINE T == DOMAIN <<s>>
             C == {i \in T : <<s>>[i].available}
             N == {i \in T : <<s>>[i].available /\ <<s>>[i].used}
  <2>1. score["result_used"] = [num |-> MX!Cardinality(N), den |-> MX!Cardinality(C)]
    BY <1>3 DEF MX!UsageMetric, MX!Share, MX!Number
  <2>2. N \subseteq C /\ C \subseteq T
    OBVIOUS
  <2>3. T = {1}
    OBVIOUS
  <2>4. IsFiniteSet(T)
    BY <2>3, FS_Singleton
  <2> QED  BY <2>1, <2>2, <2>4 DEF IsShare
<1> HIDE DEF score
<1>11. \A m \in ToolMetrics : IsShare(score[m])
  BY <1>4, <1>5, <1>6, <1>7, <1>8, <1>9, <1>10 DEF ToolMetrics
<1>12. score = [m \in ToolMetrics |-> score[m]]
  BY <1>2 DEF score, OfflineScore, MX!Joined
<1>13. score \in [ToolMetrics -> Fraction] /\ \A m \in ToolMetrics : score[m].num <= score[m].den
  BY <1>11, <1>12, SharesAreFractions
<1> QED  BY <1>4, <1>8, <1>9, <1>13 DEF score

\* What its calls add to the online ones, and to the kinds of errors.
OnlineScore(s) == MX!Joined(MX!RealtimeSchema(s.actual),
                            MX!Joined(MX!RealtimeExecution(s.actual), MX!RealtimeUsage(s.actual)))
ErrorsOf(s, kind) ==
  {i \in DOMAIN s.actual : MX!Errors(s.actual[i]) /\ MX!ErrorType(s.actual[i]) = kind}

LEMMA EventsAdd ==
  ASSUME NEW s \in TaskSamples
  PROVE  LET score == OnlineScore(s)
             kinds(k) == MX!Cardinality(ErrorsOf(s, k))
         IN  /\ score \in [ToolEvents -> Fraction]
             /\ \A m \in ToolEvents : score[m].num <= score[m].den
             /\ score["success"].num = MX!Cardinality(CallsOf(s, "success"))
             /\ score["success"].den = MX!Cardinality({i \in DOMAIN s.actual : s.actual[i].status # "skipped"})
             /\ score["success"].num + score["error"].num = score["success"].den
             /\ score["timeout"].num <= score["error"].num
             /\ score["result_used"].den = score["success"].num
             /\ score["timeout"].den = score["success"].den /\ score["error"].den = score["success"].den
             /\ \A k \in {"timeout", "unknown_error", "named"} : kinds(k) \in Nat
             /\ score["error"].num = kinds("timeout") + kinds("unknown_error") + kinds("named")
             /\ kinds("timeout") <= score["timeout"].num
<1> DEFINE score == OnlineScore(s)
           A == DOMAIN s.actual
           X == {i \in A : s.actual[i].status # "skipped"}
           S == CallsOf(s, "success")
           T == CallsOf(s, "timeout")
           R == {i \in A : MX!Errors(s.actual[i])}
           kind(k) == ErrorsOf(s, k)
<1>1. IsFiniteSet(A) /\ \A i \in A : s.actual[i].status \in {"success", "error", "timeout", "skipped"}
  BY MetricsAssumption
<1>2. ToolEvents = DOMAIN score
  BY DEF OnlineScore, MX!Joined, MX!RealtimeSchema, MX!RealtimeExecution, MX!RealtimeUsage, ToolEvents
<1>3. score = [m \in ToolEvents |-> score[m]]
  BY <1>2 DEF OnlineScore, MX!Joined
<1>4. /\ score["schema_valid"] = MX!RealtimeSchema(s.actual).schema_valid
      /\ score["success"] = MX!RealtimeExecution(s.actual).success
      /\ score["timeout"] = MX!RealtimeExecution(s.actual).timeout
      /\ score["error"] = MX!RealtimeExecution(s.actual).error
      /\ score["result_used"] = MX!RealtimeUsage(s.actual).result_used
  BY DEF OnlineScore, MX!Joined, MX!RealtimeSchema, MX!RealtimeExecution, MX!RealtimeUsage
<1>5. /\ S \subseteq X /\ R \subseteq X /\ T \subseteq R /\ X \subseteq A
      /\ S \cup R = X /\ S \cap R = {}
  BY <1>1 DEF CallsOf, MX!Errors
<1>6. /\ kind("timeout") \subseteq T /\ kind("unknown_error") \subseteq R /\ kind("named") \subseteq R
      /\ kind("timeout") \cap kind("unknown_error") = {}
      /\ (kind("timeout") \cup kind("unknown_error")) \cap kind("named") = {}
      /\ (kind("timeout") \cup kind("unknown_error")) \cup kind("named") = R
  <2>1. /\ kind("timeout") \subseteq R /\ kind("unknown_error") \subseteq R /\ kind("named") \subseteq R
        /\ kind("timeout") \cap kind("unknown_error") = {}
        /\ (kind("timeout") \cup kind("unknown_error")) \cap kind("named") = {}
    BY DEF ErrorsOf
  <2>2. \A i \in A : MX!ErrorType(s.actual[i]) \in {"timeout", "unknown_error", "named"}
    BY DEF MX!ErrorType
  <2>3. (kind("timeout") \cup kind("unknown_error")) \cup kind("named") = R
    BY <2>2 DEF ErrorsOf
  <2>4. \A i \in A : MX!ErrorType(s.actual[i]) = "timeout" => s.actual[i].status = "timeout"
    BY DEF MX!ErrorType
  <2>5. kind("timeout") \subseteq T
    BY <2>4 DEF ErrorsOf, CallsOf
  <2> QED  BY <2>1, <2>3, <2>5
<1>7. score["success"] = [num |-> MX!Cardinality(S), den |-> MX!Cardinality(X)]
  <2>1. score["success"] =
          [num |-> MX!Cardinality({i \in A : (s.actual[i].status # "skipped" /\ TRUE) /\ s.actual[i].status = "success"}),
           den |-> MX!Cardinality({i \in A : s.actual[i].status # "skipped" /\ TRUE})]
    BY <1>4 DEF MX!RealtimeExecution, MX!EventShare, MX!Share, MX!Number, MX!Executed, MX!Every, MX!Successful
  <2>2. /\ {i \in A : (s.actual[i].status # "skipped" /\ TRUE) /\ s.actual[i].status = "success"} = S
        /\ {i \in A : s.actual[i].status # "skipped" /\ TRUE} = X
    BY DEF CallsOf
  <2> QED  BY <2>1, <2>2
<1>8. score["timeout"] = [num |-> MX!Cardinality(T), den |-> MX!Cardinality(X)]
  <2>1. score["timeout"] =
          [num |-> MX!Cardinality({i \in A : (s.actual[i].status # "skipped" /\ TRUE) /\ s.actual[i].status = "timeout"}),
           den |-> MX!Cardinality({i \in A : s.actual[i].status # "skipped" /\ TRUE})]
    BY <1>4 DEF MX!RealtimeExecution, MX!EventShare, MX!Share, MX!Number, MX!Executed, MX!Every
  <2>2. /\ {i \in A : (s.actual[i].status # "skipped" /\ TRUE) /\ s.actual[i].status = "timeout"} = T
        /\ {i \in A : s.actual[i].status # "skipped" /\ TRUE} = X
    BY DEF CallsOf
  <2> QED  BY <2>1, <2>2
<1>9. score["error"] = [num |-> MX!Cardinality(R), den |-> MX!Cardinality(X)]
  <2>1. score["error"] =
          [num |-> MX!Cardinality({i \in A : (s.actual[i].status # "skipped" /\ TRUE) /\ MX!Errors(s.actual[i])}),
           den |-> MX!Cardinality({i \in A : s.actual[i].status # "skipped" /\ TRUE})]
    BY <1>4 DEF MX!RealtimeExecution, MX!EventShare, MX!Share, MX!Number, MX!Executed, MX!Every
  <2>2. /\ {i \in A : (s.actual[i].status # "skipped" /\ TRUE) /\ MX!Errors(s.actual[i])} = R
        /\ {i \in A : s.actual[i].status # "skipped" /\ TRUE} = X
    BY DEF MX!Errors
  <2> QED  BY <2>1, <2>2
<1>10. IsShare(score["result_used"]) /\ score["result_used"].den = MX!Cardinality(S)
  <2> DEFINE N == {i \in S : s.actual[i].used}
  <2>1. score["result_used"] =
          [num |-> MX!Cardinality({i \in A : (s.actual[i].status # "skipped" /\ s.actual[i].status = "success")
                                               /\ s.actual[i].used}),
           den |-> MX!Cardinality({i \in A : s.actual[i].status # "skipped" /\ s.actual[i].status = "success"})]
    BY <1>4 DEF MX!RealtimeUsage, MX!EventShare, MX!Share, MX!Number, MX!Executed, MX!Successful
  <2>2. /\ {i \in A : (s.actual[i].status # "skipped" /\ s.actual[i].status = "success")
                        /\ s.actual[i].used} = N
        /\ {i \in A : s.actual[i].status # "skipped" /\ s.actual[i].status = "success"} = S
    BY DEF CallsOf
  <2>3. score["result_used"] = [num |-> MX!Cardinality(N), den |-> MX!Cardinality(S)]
    BY <2>1, <2>2
  <2>4. N \subseteq S /\ S \subseteq A
    BY <1>5
  <2>5. score["result_used"].den = MX!Cardinality(S)
    BY <2>3
  <2> HIDE DEF score, N, S, A
  <2>6. IsShare(score["result_used"])
    BY <1>1, <2>3, <2>4 DEF IsShare
  <2> QED  BY <2>5, <2>6
<1>11. IsShare(score["schema_valid"])
  <2> DEFINE C == {i \in A : s.actual[i].status # "skipped" /\ s.actual[i].schema # "none"}
             N == {i \in A : (s.actual[i].status # "skipped" /\ s.actual[i].schema # "none")
                               /\ s.actual[i].schema = "valid"}
  <2>1. score["schema_valid"] = [num |-> MX!Cardinality(N), den |-> MX!Cardinality(C)]
    BY <1>4 DEF MX!RealtimeSchema, MX!EventShare, MX!Share, MX!Number, MX!Executed
  <2>2. N \subseteq C /\ C \subseteq A
    OBVIOUS
  <2> HIDE DEF score, N, C, A
  <2> QED  BY <1>1, <2>1, <2>2 DEF IsShare
<1> HIDE DEF score, A, X, S, T, R, kind
<1>12. IsShare(score["success"]) /\ IsShare(score["timeout"]) /\ IsShare(score["error"])
  <2>1. T \subseteq X
    BY <1>5
  <2>2. IsShare(score["success"])
    BY <1>1, <1>5, <1>7 DEF IsShare
  <2>3. IsShare(score["timeout"])
    BY <1>1, <1>5, <1>8, <2>1 DEF IsShare
  <2>4. IsShare(score["error"])
    BY <1>1, <1>5, <1>9 DEF IsShare
  <2> QED  BY <2>2, <2>3, <2>4
<1>13. \A m \in ToolEvents : IsShare(score[m])
  BY <1>10, <1>11, <1>12 DEF ToolEvents
<1>14. score \in [ToolEvents -> Fraction] /\ \A m \in ToolEvents : score[m].num <= score[m].den
  BY <1>3, <1>13, SharesAreFractions
<1>15. MX!Cardinality(X) = MX!Cardinality(S) + MX!Cardinality(R)
  <2>1. S \subseteq A /\ R \subseteq A
    BY <1>5
  <2>2. MX!Cardinality(S \cup R) = MX!Cardinality(S) + MX!Cardinality(R)
    BY <1>1, <1>5, <2>1, PartsAreCounted
  <2> QED  BY <1>5, <2>2
<1>16. MX!Cardinality(T) <= MX!Cardinality(R)
  BY <1>1, <1>5, FewerAreCounted
<1>17. /\ MX!Cardinality(kind("timeout")) <= MX!Cardinality(T)
       /\ \A k \in {"timeout", "unknown_error", "named"} : MX!Cardinality(kind(k)) \in Nat
  <2>1. T \subseteq A /\ kind("timeout") \subseteq A /\ kind("unknown_error") \subseteq A /\ kind("named") \subseteq A
    BY <1>5, <1>6
  <2>2. MX!Cardinality(kind("timeout")) <= MX!Cardinality(T)
    BY <1>1, <1>6, <2>1, FewerAreCounted
  <2>3. MX!Cardinality(kind("timeout")) \in Nat /\ MX!Cardinality(kind("unknown_error")) \in Nat
        /\ MX!Cardinality(kind("named")) \in Nat
    BY <1>1, <2>1, FewerAreCounted
  <2> QED  BY <2>2, <2>3
<1>18. MX!Cardinality(R) = MX!Cardinality(kind("timeout")) + MX!Cardinality(kind("unknown_error"))
                           + MX!Cardinality(kind("named"))
  <2> DEFINE U == kind("timeout") \cup kind("unknown_error")
  <2>1. kind("timeout") \subseteq A /\ kind("unknown_error") \subseteq A /\ kind("named") \subseteq A /\ U \subseteq A
    BY <1>5, <1>6
  <2>2. MX!Cardinality(U) = MX!Cardinality(kind("timeout")) + MX!Cardinality(kind("unknown_error"))
    BY <1>1, <1>6, <2>1, PartsAreCounted
  <2>3. U \cap kind("named") = {} /\ U \cup kind("named") = R
    BY <1>6
  <2> HIDE DEF U
  <2>4. MX!Cardinality(U \cup kind("named")) = MX!Cardinality(U) + MX!Cardinality(kind("named"))
    BY <1>1, <2>1, <2>3, PartsAreCounted
  <2> QED  BY <2>2, <2>3, <2>4
<1>19. /\ score["success"].num = MX!Cardinality(S) /\ score["success"].den = MX!Cardinality(X)
       /\ score["timeout"].num = MX!Cardinality(T) /\ score["timeout"].den = MX!Cardinality(X)
       /\ score["error"].num = MX!Cardinality(R) /\ score["error"].den = MX!Cardinality(X)
  BY <1>7, <1>8, <1>9
<1>20. /\ score["success"].num + score["error"].num = score["success"].den
       /\ score["timeout"].num <= score["error"].num
       /\ score["result_used"].den = score["success"].num
       /\ score["timeout"].den = score["success"].den /\ score["error"].den = score["success"].den
  BY <1>10, <1>15, <1>16, <1>19
<1>21. /\ score["error"].num = MX!Cardinality(kind("timeout")) + MX!Cardinality(kind("unknown_error"))
                               + MX!Cardinality(kind("named"))
       /\ MX!Cardinality(kind("timeout")) <= score["timeout"].num
  BY <1>17, <1>18, <1>19
<1> QED  BY <1>14, <1>17, <1>19, <1>20, <1>21 DEF score, X, S, A, kind

LEMMA ToolStep ==
  ASSUME ScoresInv, MX!ScoreTool
  PROVE  ScoresInv'
<1>1. /\ scoring = "tool" /\ scoring' = scoring /\ scored' \in Nat
      /\ ToolInv /\ errorKinds \in [{"timeout", "unknown_error", "named"} -> Nat]
  BY DEF MX!ScoreTool, ScoresInv
<1>2. PICK s \in TaskSamples : MX!ScoreSample(s) /\ MX!ScoreEvents(s)
  BY DEF MX!ScoreTool
<1> DEFINE off == OfflineScore(s)
           on == OnlineScore(s)
           kinds(k) == MX!Cardinality(ErrorsOf(s, k))
<1>3. offline' = [m \in DOMAIN offline |-> MX!Plus(offline[m], off[m])]
  BY <1>2 DEF MX!ScoreSample, OfflineScore
<1>4. online' = [m \in DOMAIN online |-> MX!Plus(online[m], on[m])]
  BY <1>2 DEF MX!ScoreEvents, OnlineScore
<1>5. errorKinds' = [k \in DOMAIN errorKinds |-> errorKinds[k] + kinds(k)]
  BY <1>2 DEF MX!ScoreEvents, MX!Number, ErrorsOf
<1>6. /\ off \in [ToolMetrics -> Fraction]
      /\ \A m \in ToolMetrics : off[m].num <= off[m].den
      /\ off["wrong_tool"].den = off["precision"].den
      /\ off["success"].num = on["success"].num /\ off["success"].den = on["success"].den
      /\ off["relevance"].den <= on["success"].num
  BY TaskAdds, EventsAdd
<1>7. /\ on \in [ToolEvents -> Fraction]
      /\ \A m \in ToolEvents : on[m].num <= on[m].den
      /\ on["success"].num + on["error"].num = on["success"].den
      /\ on["timeout"].num <= on["error"].num
      /\ on["result_used"].den = on["success"].num
      /\ on["timeout"].den = on["success"].den /\ on["error"].den = on["success"].den
      /\ \A k \in {"timeout", "unknown_error", "named"} : kinds(k) \in Nat
      /\ on["error"].num = kinds("timeout") + kinds("unknown_error") + kinds("named")
      /\ kinds("timeout") <= on["timeout"].num
  BY EventsAdd
<1> HIDE DEF off, on, kinds
<1>8. /\ offline' \in [ToolMetrics -> Fraction]
      /\ \A m \in ToolMetrics : /\ offline'[m].num = offline[m].num + off[m].num
                                /\ offline'[m].den = offline[m].den + off[m].den
                                /\ offline'[m].num <= offline'[m].den
  <2>1. offline \in [ToolMetrics -> Fraction] /\ \A m \in ToolMetrics : offline[m].num <= offline[m].den
    BY <1>1 DEF ToolInv
  <2>2. /\ offline' \in [ToolMetrics -> Fraction]
        /\ \A m \in ToolMetrics : /\ offline'[m].num = offline[m].num + off[m].num
                                  /\ offline'[m].den = offline[m].den + off[m].den
    BY <1>3, <1>6, <2>1 DEF MX!Plus, Fraction
  <2>3. \A m \in ToolMetrics : offline[m] \in Fraction /\ off[m] \in Fraction
    BY <1>6, <2>1
  <2>4. \A m \in ToolMetrics : offline'[m].num <= offline'[m].den
    BY <1>6, <2>1, <2>2, <2>3 DEF Fraction
  <2> QED  BY <2>2, <2>4
<1>9. /\ online' \in [ToolEvents -> Fraction]
      /\ \A m \in ToolEvents : /\ online'[m].num = online[m].num + on[m].num
                               /\ online'[m].den = online[m].den + on[m].den
  BY <1>1, <1>4, <1>7 DEF ToolInv, MX!Plus, Fraction
<1>10. /\ errorKinds' \in [{"timeout", "unknown_error", "named"} -> Nat]
       /\ \A k \in {"timeout", "unknown_error", "named"} : errorKinds'[k] = errorKinds[k] + kinds(k)
  BY <1>1, <1>5, <1>7
<1>11. /\ \A m \in ToolMetrics : /\ offline[m].num \in Nat /\ offline[m].den \in Nat
                                 /\ off[m].num \in Nat /\ off[m].den \in Nat
       /\ \A m \in ToolEvents : /\ online[m].num \in Nat /\ online[m].den \in Nat
                                /\ on[m].num \in Nat /\ on[m].den \in Nat
  BY <1>1, <1>6, <1>7 DEF ToolInv, Fraction
<1>12. /\ {"precision", "wrong_tool", "success", "relevance"} \subseteq ToolMetrics
       /\ {"success", "timeout", "error", "result_used"} \subseteq ToolEvents
  BY DEF ToolMetrics, ToolEvents
<1>13. /\ offline["wrong_tool"].den = offline["precision"].den
       /\ offline["success"].num = online["success"].num /\ offline["success"].den = online["success"].den
       /\ online["success"].num + online["error"].num = online["success"].den
       /\ online["timeout"].num <= online["error"].num
       /\ online["result_used"].den = online["success"].num
       /\ offline["relevance"].den <= online["success"].num
       /\ online["error"].num = errorKinds["timeout"] + errorKinds["unknown_error"] + errorKinds["named"]
       /\ errorKinds["timeout"] <= online["timeout"].num
       /\ online["timeout"].den = online["success"].den /\ online["error"].den = online["success"].den
  BY <1>1 DEF ToolInv
<1>14. /\ offline'["wrong_tool"].den = offline'["precision"].den
       /\ offline'["success"].num = online'["success"].num /\ offline'["success"].den = online'["success"].den
       /\ offline'["relevance"].den <= online'["success"].num
  BY <1>6, <1>8, <1>9, <1>11, <1>12, <1>13
<1>15. /\ online'["success"].num + online'["error"].num = online'["success"].den
       /\ online'["timeout"].num <= online'["error"].num
       /\ online'["result_used"].den = online'["success"].num
       /\ online'["timeout"].den = online'["success"].den /\ online'["error"].den = online'["success"].den
  BY <1>7, <1>9, <1>11, <1>12, <1>13
<1>16. /\ online'["error"].num = errorKinds'["timeout"] + errorKinds'["unknown_error"] + errorKinds'["named"]
       /\ errorKinds'["timeout"] <= online'["timeout"].num
  <2>1. \A k \in {"timeout", "unknown_error", "named"} : errorKinds[k] \in Nat /\ kinds(k) \in Nat
    BY <1>1, <1>7
  <2>2. /\ errorKinds'["timeout"] = errorKinds["timeout"] + kinds("timeout")
        /\ errorKinds'["unknown_error"] = errorKinds["unknown_error"] + kinds("unknown_error")
        /\ errorKinds'["named"] = errorKinds["named"] + kinds("named")
    BY <1>10
  <2>3. /\ online'["error"].num = online["error"].num + on["error"].num
        /\ online'["timeout"].num = online["timeout"].num + on["timeout"].num
    BY <1>9, <1>12
  <2>4. online["timeout"].num \in Nat /\ on["timeout"].num \in Nat
    BY <1>11, <1>12
  <2>5. errorKinds'["timeout"] <= online'["timeout"].num
    BY <1>7, <1>13, <2>1, <2>2, <2>3, <2>4
  <2>6. \A a, b, c, x, y, z \in Nat : (a + b + c) + (x + y + z) = (a + x) + (b + y) + (c + z)
    OBVIOUS
  <2>7. online'["error"].num = errorKinds'["timeout"] + errorKinds'["unknown_error"] + errorKinds'["named"]
    BY <1>7, <1>13, <2>1, <2>2, <2>3, <2>6
  <2> QED  BY <2>5, <2>7
<1>17. offline'["success"] = online'["success"]
  BY <1>8, <1>9, <1>12, <1>14 DEF Fraction
<1>18. ToolInv'
  BY <1>8, <1>9, <1>14, <1>15, <1>16, <1>17 DEF ToolInv
<1> QED  BY <1>1, <1>10, <1>18 DEF ScoresInv

LEMMA ScoresStep == ScoresInv /\ [MX!Next]_metricVars => ScoresInv'
<1>1. ASSUME ScoresInv, UNCHANGED metricVars PROVE ScoresInv'
  BY <1>1 DEF metricVars, ScoresInv, GuardrailInv, ToolInv
<1> QED  BY <1>1, GuardrailStep, ToolStep DEF MX!Next

\* The rank of the 95th percentile: the first that covers 95 of a hundred.
LEMMA RankOfPercentile ==
  ASSUME NEW n \in Nat, n > 0
  PROVE  LET rank == MX!PercentileIndex(n)
         IN  rank \in 1..n /\ 100 * rank >= 95 * n /\ ~(100 * (rank - 1) >= 95 * n)
<1> DEFINE nearest == (950000 * n + 999999) \div 1000000
<1>1. nearest \in Int /\ 1000000 * nearest <= 950000 * n + 999999 /\ 950000 * n + 999999 < 1000000 * nearest + 1000000
  OBVIOUS
<1> HIDE DEF nearest
<1>2. nearest >= 1 /\ nearest <= n
  BY <1>1
<1>3. MX!PercentileIndex(n) = nearest
  BY <1>1, <1>2 DEF MX!PercentileIndex, nearest
<1> QED  BY <1>1, <1>2, <1>3

LEMMA GatesAgree ==
  ASSUME GuardrailInv, scoring = "guardrail", NEW k \in 0..2
  PROVE  LET atLeast == {[metric |-> "recall", r |-> [num |-> k, den |-> 2]]}
             atMost == {[metric |-> "false_negative", r |-> [num |-> 2 - k, den |-> 2]]}
         IN  /\ MX!EvaluateGate(atLeast) <=> MX!EvaluateGate(atMost)
             /\ offline["recall"].den = 0 => ~MX!EvaluateGate(atLeast)
<1> DEFINE t == [metric |-> "recall", r |-> [num |-> k, den |-> 2]]
           u == [metric |-> "false_negative", r |-> [num |-> 2 - k, den |-> 2]]
<1>1. /\ MX!EvaluateGate({t}) <=> MX!Scored(offline["recall"]) /\ MX!ThresholdPassed("recall", t.r)
      /\ MX!EvaluateGate({u}) <=> MX!Scored(offline["false_negative"]) /\ MX!ThresholdPassed("false_negative", u.r)
  BY DEF MX!EvaluateGate
<1>2. MX!Directions["recall"] = "higher" /\ MX!Directions["false_negative"] = "lower"
  BY DEF MX!Directions, MX!Direction
<1>3. /\ MX!ThresholdPassed("recall", t.r) <=> offline["recall"].num * 2 >= k * offline["recall"].den
      /\ MX!ThresholdPassed("false_negative", u.r)
           <=> offline["false_negative"].num * 2 <= (2 - k) * offline["false_negative"].den
  BY <1>2 DEF MX!ThresholdPassed
<1>4. /\ MX!Scored(offline["recall"]) <=> offline["recall"].den > 0
      /\ MX!Scored(offline["false_negative"]) <=> offline["false_negative"].den > 0
  BY DEF MX!Scored
<1>5. /\ offline["recall"].num \in Nat /\ offline["recall"].den \in Nat /\ offline["false_negative"].num \in Nat
      /\ offline["recall"].num + offline["false_negative"].num = offline["recall"].den
      /\ offline["recall"].den = offline["false_negative"].den
  BY DEF GuardrailInv, GuardrailMetrics, Fraction
<1>6. \A a \in Nat, b \in Nat : a * 2 >= k * (a + b) <=> b * 2 <= (2 - k) * (a + b)
  <2>1. CASE k = 0
    BY <2>1
  <2>2. CASE k = 1
    BY <2>2
  <2>3. CASE k = 2
    BY <2>3
  <2> QED  BY <2>1, <2>2, <2>3
<1>7. offline["recall"].num * 2 >= k * offline["recall"].den
        <=> offline["false_negative"].num * 2 <= (2 - k) * offline["false_negative"].den
  BY <1>5, <1>6
<1> QED  BY <1>1, <1>3, <1>4, <1>5, <1>7

LEMMA ScoresShow == ScoresInv => MX!ScoresAgree /\ MX!SharesAgree
<1> SUFFICES ASSUME ScoresInv PROVE MX!ScoresAgree /\ MX!SharesAgree
  OBVIOUS
<1>1. MX!ScoresAgree
  <2> SUFFICES ASSUME scoring = "guardrail" PROVE MX!ScoresAgree
    BY DEF MX!ScoresAgree
  <2>1. GuardrailInv
    BY DEF ScoresInv
  <2>2. DOMAIN offline = GuardrailMetrics
    BY <2>1 DEF GuardrailInv
  <2>3. \A m \in {"trigger", "block", "fallback", "error"} : MX!Scored(online[m]) <=> scored > 0
    BY <2>1 DEF GuardrailInv, MX!Scored
  <2>4. \A k \in 0..2 :
          LET atLeast == {[metric |-> "recall", r |-> [num |-> k, den |-> 2]]}
              atMost == {[metric |-> "false_negative", r |-> [num |-> 2 - k, den |-> 2]]}
          IN  /\ MX!EvaluateGate(atLeast) <=> MX!EvaluateGate(atMost)
              /\ offline.recall.den = 0 => ~MX!EvaluateGate(atLeast)
    BY <2>1, GatesAgree
  <2>5. \A n \in 1..40 :
          LET covers(i) == 100 * i >= 95 * n
          IN  /\ MX!PercentileIndex(n) \in 1..n
              /\ covers(MX!PercentileIndex(n)) /\ ~covers(MX!PercentileIndex(n) - 1)
    <3> TAKE n \in 1..40
    <3>1. n \in Nat /\ n > 0
      OBVIOUS
    <3> QED  BY <3>1, RankOfPercentile
  <2>6. /\ \A m \in GuardrailMetrics : offline[m].num <= offline[m].den
        /\ offline["recall"].num + offline["false_negative"].num = offline["recall"].den
        /\ offline["recall"].den = offline["false_negative"].den
        /\ offline["precision"].num = offline["recall"].num
        /\ offline["precision"].den = offline["recall"].num + offline["false_positive"].num
        /\ offline["recall"].den + offline["false_positive"].den = scored
        /\ online["retry"].den = offline["precision"].den
        /\ online["block"].num + online["fallback"].num <= online["retry"].den
        /\ online["error"].num = errorKinds["unknown_error"] + errorKinds["named"]
    BY <2>1 DEF GuardrailInv
  <2> QED  BY <2>2, <2>3, <2>4, <2>5, <2>6, Zenon DEF MX!ScoresAgree
<1>2. MX!SharesAgree
  <2> SUFFICES ASSUME scoring = "tool" PROVE MX!SharesAgree
    BY DEF MX!SharesAgree
  <2>1. ToolInv
    BY DEF ScoresInv
  <2>2. DOMAIN offline = ToolMetrics
    BY <2>1 DEF ToolInv
  <2>3. \A m \in {"success", "timeout", "error"} : MX!Scored(online[m]) <=> MX!Scored(offline.success)
    BY <2>1 DEF ToolInv, MX!Scored
  <2>4. MX!EvaluateGate({[metric |-> "recall", r |-> [num |-> 1, den |-> 1]]})
          => offline.recall.num = offline.recall.den /\ offline.recall.den > 0
    <3> DEFINE t == [metric |-> "recall", r |-> [num |-> 1, den |-> 1]]
    <3>1. MX!EvaluateGate({t}) <=> MX!Scored(offline["recall"]) /\ MX!ThresholdPassed("recall", t.r)
      BY DEF MX!EvaluateGate
    <3>2. MX!Directions["recall"] = "higher"
      BY DEF MX!Directions, MX!EvaluationMetrics
    <3>3. MX!ThresholdPassed("recall", t.r) <=> offline["recall"].num * 1 >= 1 * offline["recall"].den
      BY <3>2 DEF MX!ThresholdPassed
    <3>4. /\ offline["recall"].num \in Nat /\ offline["recall"].den \in Nat
          /\ offline["recall"].num <= offline["recall"].den
      BY <2>1 DEF ToolInv, ToolMetrics, Fraction
    <3>5. MX!Scored(offline["recall"]) <=> offline["recall"].den > 0
      BY DEF MX!Scored
    <3> QED  BY <3>1, <3>3, <3>4, <3>5
  <2> QED  BY <2>1, <2>2, <2>3, <2>4 DEF MX!SharesAgree, ToolInv
<1> QED  BY <1>1, <1>2

\* What is counted online is counted among what it is a part of.
OnlineShares == \A m \in DOMAIN online : online[m].num <= online[m].den

LEMMA OnlineSharesStart == MX!Init => OnlineShares
<1> SUFFICES ASSUME MX!Init PROVE OnlineShares
  OBVIOUS
<1>1. \/ online = [m \in GuardrailEvents |-> [num |-> 0, den |-> 0]]
      \/ online = [m \in ToolEvents |-> [num |-> 0, den |-> 0]]
  BY DEF MX!Init, MX!InitGuardrail, MX!InitTool, MX!Zero, MX!RealtimeDirection, MX!RealtimeMetrics,
         GuardrailEvents, ToolEvents
<1> QED  BY <1>1 DEF OnlineShares

LEMMA OnlineSharesStep ==
  ASSUME ScoresInv, OnlineShares, [MX!Next]_metricVars PROVE OnlineShares'
<1>1. CASE UNCHANGED metricVars
  BY <1>1 DEF metricVars, OnlineShares
<1>2. CASE MX!ScoreGuardrail
  <2>1. online \in [GuardrailEvents -> Fraction]
    BY <1>2 DEF MX!ScoreGuardrail, ScoresInv, GuardrailInv
  <2>2. PICK d \in Decisions : MX!ScoreRealtime(d)
    BY <1>2 DEF MX!ScoreGuardrail
  <2> DEFINE N == MX!Only(d.triggered, {"trigger"}) \cup ({d.outcome} \cap {"block", "fallback", "error"})
                    \cup MX!Only(MX!RealtimeIntervened(d) /\ d.retried, {"retry"})
             D == {"trigger", "block", "fallback", "error"} \cup MX!Only(MX!RealtimeIntervened(d), {"retry"})
  <2>3. online' = MX!Counted(online, N, D)
    BY <2>2 DEF MX!ScoreRealtime
  <2>4. N \subseteq D
    BY DEF MX!Only
  <2> HIDE DEF N, D
  <2>5. /\ online' \in [GuardrailEvents -> Fraction]
        /\ \A m \in GuardrailEvents : /\ online'[m].num = online[m].num + IF m \in N THEN 1 ELSE 0
                                      /\ online'[m].den = online[m].den + IF m \in D THEN 1 ELSE 0
    BY <2>1, <2>3, CountedAdds
  <2>6. \A m \in GuardrailEvents : /\ online[m].num \in Nat /\ online[m].den \in Nat
                                   /\ online[m].num <= online[m].den
    BY <2>1 DEF OnlineShares, Fraction
  <2>7. \A m \in GuardrailEvents : online'[m].num <= online'[m].den
    BY <2>4, <2>5, <2>6
  <2> QED  BY <2>5, <2>7 DEF OnlineShares
<1>3. CASE MX!ScoreTool
  <2>1. online \in [ToolEvents -> Fraction]
    BY <1>3 DEF MX!ScoreTool, ScoresInv, ToolInv
  <2>2. PICK s \in TaskSamples : MX!ScoreEvents(s)
    BY <1>3 DEF MX!ScoreTool
  <2> DEFINE on == OnlineScore(s)
  <2>3. online' = [m \in DOMAIN online |-> MX!Plus(online[m], on[m])]
    BY <2>2 DEF MX!ScoreEvents, OnlineScore
  <2>4. on \in [ToolEvents -> Fraction] /\ \A m \in ToolEvents : on[m].num <= on[m].den
    BY EventsAdd
  <2> HIDE DEF on
  <2>5. \A m \in ToolEvents : online[m].num <= online[m].den
    BY <2>1 DEF OnlineShares
  <2>6. online' \in [ToolEvents -> Fraction] /\ \A m \in ToolEvents : online'[m].num <= online'[m].den
    <3>1. ASSUME NEW m \in ToolEvents
          PROVE  MX!Plus(online[m], on[m]) \in Fraction
                 /\ MX!Plus(online[m], on[m]).num <= MX!Plus(online[m], on[m]).den
      <4>1. online[m] \in Fraction /\ on[m] \in Fraction /\ on[m].num <= on[m].den
            /\ online[m].num <= online[m].den
        BY <2>1, <2>4, <2>5
      <4> QED  BY <4>1 DEF MX!Plus, Fraction
    <3>2. DOMAIN online = ToolEvents
      BY <2>1
    <3> QED  BY <2>3, <3>1, <3>2
  <2> QED  BY <2>6 DEF OnlineShares
<1> QED  BY <1>1, <1>2, <1>3 DEF MX!Next

LEMMA ScoresTypesShow == ScoresInv /\ OnlineShares => MX!TypeOK
<1> SUFFICES ASSUME ScoresInv, OnlineShares PROVE MX!TypeOK
  OBVIOUS
<1>1. \A m \in DOMAIN online : online[m].num \in Nat /\ online[m].den \in Nat
  BY DEF ScoresInv, GuardrailInv, ToolInv, Fraction
<1> QED  BY <1>1 DEF ScoresInv, OnlineShares, MX!TypeOK

---------------------------------------------------------------------------
(* reflection/selfheal.                                                    *)

VARIABLES policy, snapshots, proposal, commits, iteration, failure, outcome
heal == <<policy, snapshots, proposal, commits, iteration, failure, outcome>>
SH == INSTANCE SelfHeal

\* Every commit is the version it made, and its snapshot the policy before it.
CommitsChain ==
  /\ commits \in Seq(Nat)
  /\ policy.version = Len(commits) + 1
  /\ \A k \in 1..Len(commits) :
       /\ commits[k] = k + 1
       /\ commits[k] \in DOMAIN snapshots
       /\ snapshots[commits[k]].version = k
  /\ Len(commits) > 0 => snapshots[2] = SH!FirstPolicy
  /\ Len(commits) = 0 => policy = SH!FirstPolicy

\* No iteration begins on a policy that pays too much: the failure that Heal goes on
\* with is the gap it was called for, since against that gap a regression rolls back.
RegressionRollsBack ==
  /\ failure = SH!Gap
  /\ outcome = "propose" => SH!Replay(policy) # SH!Regression

HealInv ==
  /\ CommitsChain
  /\ RegressionRollsBack
  /\ outcome = "idle" => commits = << >>
  /\ outcome = "rolled_back" => commits = << >>
  /\ outcome = "fixed" => SH!Replay(policy) = SH!None
  /\ outcome \in {"blocked", "human_handoff"} => SH!Replay(policy) # SH!Regression

LEMMA FirstPolicyFallsShort == SH!Replay(SH!FirstPolicy) = SH!Gap
BY DEF SH!Replay, SH!FirstPolicy

LEMMA KindsDiffer ==
  /\ SH!Gap # SH!Regression /\ SH!None # SH!Regression /\ SH!None # SH!Gap
  /\ SH!Regression.kind # SH!Gap.kind
  /\ SH!IsRegression(SH!Gap, SH!Regression)
BY DEF SH!Gap, SH!Regression, SH!None, SH!IsRegression

LEMMA HealStarts == SH!Init => HealInv
<1> SUFFICES ASSUME SH!Init PROVE HealInv
  OBVIOUS
<1>1. policy = SH!FirstPolicy /\ commits = << >> /\ failure = SH!Gap /\ outcome = "idle"
  BY DEF SH!Init
<1>2. CommitsChain
  <2>1. commits \in Seq(Nat) /\ Len(commits) = 0
    BY <1>1
  <2>2. policy.version = 1
    BY <1>1 DEF SH!FirstPolicy
  <2> QED  BY <1>1, <2>1, <2>2 DEF CommitsChain
<1> QED  BY <1>1, <1>2 DEF HealInv, RegressionRollsBack

LEMMA HealSteps == ASSUME HealInv, [SH!Next]_heal PROVE HealInv'
<1> USE DEF HealInv
<1>1. CASE SH!Start
  <2>1. UNCHANGED <<policy, snapshots, commits, failure>> /\ outcome' = "propose"
        /\ outcome = "idle"
    BY <1>1 DEF SH!Start
  <2>2. CommitsChain'
    BY <2>1 DEF CommitsChain
  <2>3. policy = SH!FirstPolicy
    BY <2>1 DEF CommitsChain
  <2>4. SH!Replay(policy') # SH!Regression
    BY <2>1, <2>3, FirstPolicyFallsShort, KindsDiffer
  <2> QED  BY <2>1, <2>2, <2>4 DEF RegressionRollsBack
<1>2. CASE SH!Propose
  <2>1. UNCHANGED <<policy, snapshots, commits, failure>> /\ outcome = "propose"
        /\ outcome' \in {"apply", "error", "blocked"}
    BY <1>2 DEF SH!Propose
  <2>2. CommitsChain'
    BY <2>1 DEF CommitsChain
  <2> QED  BY <2>1, <2>2 DEF RegressionRollsBack
<1>3. CASE SH!Apply
  <2> DEFINE commit == policy.version + 1
  <2>1. /\ UNCHANGED failure
        /\ outcome' \in {"error", "verify"}
        /\ snapshots' = [v \in DOMAIN snapshots \cup {commit} |->
                          IF v = commit THEN policy ELSE snapshots[v]]
        /\ \/ UNCHANGED <<policy, commits>>
           \/ policy' = SH!Changed(policy, proposal) /\ commits' = Append(commits, commit)
    BY <1>3 DEF SH!Apply
  <2>2. commit = Len(commits) + 2 /\ commit \in Nat
    BY DEF CommitsChain
  <2>3. \A k \in 1..Len(commits) :
          /\ commits[k] \in DOMAIN snapshots'
          /\ snapshots'[commits[k]] = snapshots[commits[k]]
    <3> SUFFICES ASSUME NEW k \in 1..Len(commits)
                 PROVE  commits[k] \in DOMAIN snapshots' /\ snapshots'[commits[k]] = snapshots[commits[k]]
      OBVIOUS
    <3>1. commits[k] = k + 1 /\ commits[k] \in DOMAIN snapshots
      BY DEF CommitsChain
    <3>2. commits[k] # commit
      BY <2>2, <3>1
    <3> HIDE DEF commit
    <3> QED  BY <2>1, <3>1, <3>2
  <2>4. Len(commits) > 0 => snapshots'[2] = SH!FirstPolicy
    <3> SUFFICES ASSUME Len(commits) > 0 PROVE snapshots'[2] = SH!FirstPolicy
      OBVIOUS
    <3>1. 1 \in 1..Len(commits) /\ commits[1] = 2
      BY DEF CommitsChain
    <3> QED  BY <2>3, <3>1 DEF CommitsChain
  <2>5. commit \in DOMAIN snapshots' /\ snapshots'[commit] = policy
    <3> HIDE DEF commit
    <3> QED  BY <2>1
  <2>6. CommitsChain'
    <3>1. CASE UNCHANGED <<policy, commits>>
      BY <2>3, <2>4, <3>1 DEF CommitsChain
    <3>2. CASE policy' = SH!Changed(policy, proposal) /\ commits' = Append(commits, commit)
      <4>1. commits' \in Seq(Nat) /\ Len(commits') = Len(commits) + 1
            /\ commits'[Len(commits) + 1] = commit
            /\ \A k \in 1..Len(commits) : commits'[k] = commits[k]
        <5>1. commits \in Seq(Nat)
          BY DEF CommitsChain
        <5> HIDE DEF commit
        <5> QED  BY <3>2, <2>2, <5>1
      <4>2. policy'.version = Len(commits') + 1
        BY <3>2, <2>2, <4>1 DEF SH!Changed, CommitsChain
      <4>3. ASSUME NEW k \in 1..Len(commits')
            PROVE  commits'[k] = k + 1 /\ commits'[k] \in DOMAIN snapshots'
                   /\ snapshots'[commits'[k]].version = k
        <5>1. CASE k = Len(commits) + 1
          <6>1. commits'[k] = commit
            BY <5>1, <4>1
          <6>2. policy.version = k
            BY <5>1 DEF CommitsChain
          <6> QED  BY <6>1, <6>2, <2>2, <2>5, <5>1
        <5>2. CASE k # Len(commits) + 1
          <6>1. k \in 1..Len(commits)
            BY <5>2, <4>1 DEF CommitsChain
          <6> QED  BY <6>1, <4>1, <2>3 DEF CommitsChain
        <5> QED  BY <5>1, <5>2
      <4>4. snapshots'[2] = SH!FirstPolicy
        <5>1. CASE Len(commits) = 0
          <6>1. commit = 2
            BY <2>2, <5>1
          <6> QED  BY <5>1, <6>1, <2>5 DEF CommitsChain
        <5>2. CASE Len(commits) # 0
          BY <5>2, <2>4 DEF CommitsChain
        <5> QED  BY <5>1, <5>2
      <4>5. Len(commits) \in Nat
        BY DEF CommitsChain
      <4> QED  BY <4>1, <4>2, <4>3, <4>4, <4>5 DEF CommitsChain
    <3> QED  BY <2>1, <3>1, <3>2
  <2> QED  BY <2>1, <2>6 DEF RegressionRollsBack
<1>4. CASE SH!Verify
  <2>1. UNCHANGED <<policy, snapshots, commits>> /\ outcome = "verify"
    BY <1>4 DEF SH!Verify
  <2>2. CommitsChain'
    BY <2>1 DEF CommitsChain
  <2> DEFINE new == SH!Replay(policy)
  <2>3. new \in {SH!Gap, SH!Regression, SH!None}
    BY DEF SH!Replay
  <2>4. \/ new = SH!None /\ outcome' = "fixed" /\ UNCHANGED failure
        \/ outcome' = "rollback" /\ UNCHANGED failure
        \/ /\ new # SH!None /\ (new.kind = SH!Gap.kind \/ ~SH!IsRegression(failure, new))
           /\ failure' = new /\ outcome' \in {"human_handoff", "propose"}
    BY <1>4 DEF SH!Verify
  <2>5. failure = SH!Gap
    BY DEF RegressionRollsBack
  <2> HIDE DEF new
  <2>6. failure' = SH!Gap /\ (outcome' \in {"human_handoff", "propose"} => new = SH!Gap)
    BY <2>3, <2>4, <2>5, KindsDiffer
  <2>7. outcome' = "fixed" => new = SH!None
    BY <2>4
  <2>8. outcome' \in {"fixed", "rollback", "human_handoff", "propose"}
    BY <2>4
  <2>9. SH!Replay(policy)' = new
    BY <2>1 DEF new
  <2> QED  BY <2>2, <2>6, <2>7, <2>8, <2>9, KindsDiffer DEF RegressionRollsBack
<1>5. CASE SH!Rollback
  <2>1. UNCHANGED <<snapshots, failure>> /\ outcome = "rollback"
    BY <1>5 DEF SH!Rollback
  <2>2. CASE /\ commits # << >>
             /\ policy' = snapshots[commits[Len(commits)]]
             /\ commits' = SubSeq(commits, 1, Len(commits) - 1) /\ UNCHANGED outcome
    <3>1. commits \in Seq(Nat) /\ Len(commits) \in Nat /\ Len(commits) > 0
      BY <2>2 DEF CommitsChain
    <3>2. Len(commits) \in 1..Len(commits)
      BY <3>1
    <3>3. commits' \in Seq(Nat) /\ Len(commits') = Len(commits) - 1
          /\ \A k \in 1..Len(commits) - 1 : commits'[k] = commits[k]
      BY <2>2, <3>1, WithoutLast
    <3>4. policy'.version = Len(commits') + 1
      <4>1. policy'.version = Len(commits)
        BY <2>2, <3>2 DEF CommitsChain
      <4> QED  BY <3>1, <3>3, <4>1
    <3>5. Len(commits') = 0 => policy' = SH!FirstPolicy
      <4>1. Len(commits) = 1 => commits[1] = 2
        BY <3>2 DEF CommitsChain
      <4> QED  BY <2>2, <3>1, <3>3, <4>1 DEF CommitsChain
    <3>6. \A k \in 1..Len(commits') : k \in 1..Len(commits) /\ commits'[k] = commits[k]
      BY <3>1, <3>3
    <3>7. \A k \in 1..Len(commits') :
            /\ commits'[k] = k + 1 /\ commits'[k] \in DOMAIN snapshots'
            /\ snapshots'[commits'[k]].version = k
      BY <2>1, <3>6 DEF CommitsChain
    <3>8. Len(commits') > 0 => snapshots'[2] = SH!FirstPolicy
      BY <2>1, <3>1 DEF CommitsChain
    <3>9. CommitsChain'
      BY <3>3, <3>4, <3>5, <3>7, <3>8 DEF CommitsChain
    <3> QED  BY <2>1, <2>2, <3>9 DEF RegressionRollsBack
  <2>3. CASE outcome' = "error" /\ UNCHANGED <<policy, commits>>
    <3>1. CommitsChain'
      BY <2>1, <2>3 DEF CommitsChain
    <3> QED  BY <2>1, <2>3, <3>1 DEF RegressionRollsBack
  <2>4. CASE outcome' = "rolled_back" /\ commits = << >> /\ UNCHANGED <<policy, commits>>
    <3>1. CommitsChain'
      BY <2>1, <2>4 DEF CommitsChain
    <3> QED  BY <2>1, <2>4, <3>1 DEF RegressionRollsBack
  <2> QED  BY <1>5, <2>2, <2>3, <2>4 DEF SH!Rollback
<1>6. CASE UNCHANGED heal
  BY <1>6 DEF heal, CommitsChain, RegressionRollsBack
<1> QED  BY <1>1, <1>2, <1>3, <1>4, <1>5, <1>6 DEF SH!Next

LEMMA HealShows == HealInv => SH!OutcomeTellsThePolicy
<1> SUFFICES ASSUME HealInv PROVE SH!OutcomeTellsThePolicy
  OBVIOUS
<1>1. outcome = "rolled_back" => policy = SH!FirstPolicy
  BY DEF HealInv, CommitsChain
<1>2. outcome \in {"fixed", "rolled_back"} => SH!Replay(policy) # SH!Regression
  BY <1>1, FirstPolicyFallsShort, KindsDiffer DEF HealInv
<1> QED  BY <1>1, <1>2 DEF HealInv, SH!OutcomeTellsThePolicy, SH!Terminal


\* Heal goes on only while it has an iteration left.
HealTypes ==
  /\ iteration \in 0..MaxIterations /\ (outcome # "human_handoff" => iteration < MaxIterations)
  /\ outcome \in {"idle", "propose", "apply", "verify", "rollback"} \cup SH!Terminal

LEMMA HealTypesStart == SH!Init => HealTypes
BY HealAssumption DEF SH!Init, HealTypes

LEMMA HealTypesStep ==
  ASSUME HealTypes, [SH!Next]_heal PROVE HealTypes'
<1> USE DEF HealTypes, SH!Terminal
<1>1. CASE SH!Start
  BY <1>1 DEF SH!Start
<1>2. CASE SH!Propose
  BY <1>2 DEF SH!Propose
<1>3. CASE SH!Apply
  <2>1. outcome = "apply" /\ outcome' \in {"error", "verify"} /\ iteration' = iteration
    BY <1>3, Zenon DEF SH!Apply
  <2> QED  BY <2>1
<1>4. CASE SH!Verify
  <2>1. /\ outcome = "verify"
        /\ \/ outcome' \in {"fixed", "rollback"} /\ iteration' = iteration
           \/ /\ iteration' = iteration + 1
              /\ outcome' = IF iteration' = MaxIterations THEN "human_handoff" ELSE "propose"
    BY <1>4 DEF SH!Verify
  <2> QED  BY <2>1, HealAssumption
<1>5. CASE SH!Rollback
  <2>1. /\ outcome = "rollback" /\ outcome' \in {outcome, "error", "rolled_back"} /\ iteration' = iteration
    BY <1>5, Zenon DEF SH!Rollback
  <2> QED  BY <2>1
<1>6. CASE UNCHANGED heal
  BY <1>6 DEF heal
<1> QED  BY <1>1, <1>2, <1>3, <1>4, <1>5, <1>6 DEF SH!Next

LEMMA HealTypesShow == HealInv /\ HealTypes => SH!TypeOK
BY DEF HealInv, CommitsChain, RegressionRollsBack, HealTypes, SH!TypeOK

---------------------------------------------------------------------------
(* The production changes of action/claude_permissions.                    *)

VARIABLES permissions, featureFlags, notices, deleted, operations, approved
saasVars == <<permissions, featureFlags, notices, deleted, operations, approved>>
SA == INSTANCE SaaSChanges

\* A call that waits or may run was not refused by its own check, and one whose check
\* asks whatever the mode has been granted by a person before it runs.
HeedsItsCheck(operation) ==
  LET check == SA!Check(operation.args, permissions.mode)
  IN /\ operation.at \in {"ask", "allow"} =>
          operation.args \in SA!Arguments /\ check.behavior # "deny"
     /\ operation.at = "allow" /\ check.immune => operation.human
ChangesInv ==
  /\ featureFlags \in [SaaSTenants \X Flags -> {"on", "off", "unset"}]
  /\ DOMAIN operations = Operators
  /\ \A o \in Operators : HeedsItsCheck(operations[o])
  /\ SA!ChangesAreApproved

LEMMA EvaluateHeedsTheCheck ==
  ASSUME NEW c
  PROVE  /\ c.check.behavior = "deny" => SA!Evaluate(c) = "deny"
         /\ c.check.immune => SA!Evaluate(c) # "allow"
<1>1. c.check.behavior = "deny" => SA!Evaluate(c) = "deny"
  BY DEF SA!Evaluate
<1>2. c.check.immune => SA!Evaluate(c) # "allow"
  BY DEF SA!Evaluate, SA!ApplyDontAsk
<1> QED  BY <1>1, <1>2

LEMMA CheckTells ==
  ASSUME NEW a, NEW mode, SA!Check(a, mode).behavior # "deny"
  PROVE  /\ a.tool # "delete"
         /\ a.tool = "notice" => mode # "plan" /\ a.text # "secret" /\ SA!Check(a, mode).immune
         /\ a.tool = "apply" => /\ mode # "plan" /\ a.tenant \notin LockedTenants
                                /\ a.flag \in SecurityFlags => SA!Check(a, mode).immune
<1>1. ASSUME a.tool = "delete" PROVE FALSE
  <2>1. SA!Check(a, mode) = SA!Verdict("deny")
    BY <1>1 DEF SA!Check
  <2> QED  BY <2>1 DEF SA!Verdict
<1>2. ASSUME a.tool = "notice"
      PROVE  mode # "plan" /\ a.text # "secret" /\ SA!Check(a, mode).immune
  <2>1. SA!Check(a, mode) = SA!CheckNotice(a, mode)
    BY <1>2 DEF SA!Check
  <2>2. SA!CheckNotice(a, mode) # SA!Verdict("deny")
    BY <2>1 DEF SA!Verdict
  <2>3. mode # "plan" /\ a.text # "secret" /\ SA!CheckNotice(a, mode) = SA!ImmuneAsk
    BY <2>2 DEF SA!CheckNotice
  <2>4. SA!ImmuneAsk.immune
    BY DEF SA!ImmuneAsk
  <2> QED  BY <2>1, <2>3, <2>4
<1>3. ASSUME a.tool = "apply"
      PROVE  /\ mode # "plan" /\ a.tenant \notin LockedTenants
             /\ a.flag \in SecurityFlags => SA!Check(a, mode).immune
  <2>1. SA!Check(a, mode) = SA!CheckApply(a, mode)
    BY <1>3 DEF SA!Check
  <2>2. SA!CheckApply(a, mode) # SA!Verdict("deny")
    BY <2>1 DEF SA!Verdict
  <2>3. /\ mode # "plan" /\ a.tenant \notin LockedTenants
        /\ a.flag \in SecurityFlags => SA!CheckApply(a, mode) = SA!ImmuneAsk
    BY <2>2 DEF SA!CheckApply
  <2>4. SA!ImmuneAsk.immune
    BY DEF SA!ImmuneAsk
  <2> QED  BY <2>1, <2>3, <2>4
<1> QED  BY <1>1, <1>2, <1>3

LEMMA ChangesStart == SA!Init => ChangesInv
<1> SUFFICES ASSUME SA!Init PROVE ChangesInv
  OBVIOUS
<1>1. /\ featureFlags = [p \in SaaSTenants \X Flags |-> "unset"]
      /\ operations = [o \in Operators |-> SA!NoOperation]
      /\ notices = {} /\ deleted = {}
  BY DEF SA!Init
<1>2. ASSUME NEW o \in Operators PROVE operations[o].at = "idle"
  BY <1>1 DEF SA!NoOperation
<1>3. \A o \in Operators : HeedsItsCheck(operations[o])
  BY <1>2 DEF HeedsItsCheck
<1>4. \A t \in SaaSTenants, f \in Flags : featureFlags[<<t, f>>] = "unset"
  BY <1>1
<1>5. SA!ChangesAreApproved
  BY <1>1, <1>2, <1>4 DEF SA!ChangesAreApproved
<1> QED  BY <1>1, <1>3, <1>5 DEF ChangesInv

\* A call that changes nothing but itself.
LEMMA OnlyTheCall ==
  ASSUME ChangesInv, NEW o \in Operators, NEW operation,
         operations' = [operations EXCEPT ![o] = operation],
         UNCHANGED permissions, UNCHANGED featureFlags, UNCHANGED notices, UNCHANGED deleted,
         UNCHANGED approved,
         HeedsItsCheck(operation)
  PROVE  ChangesInv'
<1>1. DOMAIN operations' = Operators /\ operations'[o] = operation
      /\ \A p \in Operators : p # o => operations'[p] = operations[p]
  BY DEF ChangesInv
<1>2. ASSUME NEW p \in Operators PROVE HeedsItsCheck(operations[p])'
  <2>1. HeedsItsCheck(operations[p]) /\ permissions' = permissions
    BY DEF ChangesInv
  <2> QED  BY <1>1, <2>1 DEF HeedsItsCheck
<1>3. ASSUME NEW p \in Operators, operations'[p].at = "allow"
      PROVE  operations'[p].args.tool # "delete"
  BY <1>2, <1>3, CheckTells DEF HeedsItsCheck
<1>4. SA!ChangesAreApproved'
  BY <1>3 DEF ChangesInv, SA!ChangesAreApproved
<1> QED  BY <1>1, <1>2, <1>4 DEF ChangesInv

LEMMA AuthorizeKeeps == ASSUME ChangesInv, NEW o \in Operators, SA!Authorize(o) PROVE ChangesInv'
<1>1. PICK a \in SA!Arguments, hook \in {SA!Passthrough, "allow"} :
        LET decision == SA!Evaluate([mode |-> permissions.mode, hooks |-> <<hook>>,
                           rules |-> permissions.rules[a.tool],
                           check |-> SA!Check(a, permissions.mode)])
        IN /\ decision # "deny"
           /\ operations' = [operations EXCEPT ![o] = [at |-> decision, args |-> a, human |-> FALSE]]
  BY DEF SA!Authorize
<1> DEFINE call == [mode |-> permissions.mode, hooks |-> <<hook>>,
                    rules |-> permissions.rules[a.tool],
                    check |-> SA!Check(a, permissions.mode)]
           operation == [at |-> SA!Evaluate(call), args |-> a, human |-> FALSE]
<1>2. operations' = [operations EXCEPT ![o] = operation] /\ SA!Evaluate(call) # "deny"
  BY <1>1
<1>3. /\ SA!Check(a, permissions.mode).behavior # "deny"
      /\ SA!Check(a, permissions.mode).immune => SA!Evaluate(call) # "allow"
  <2>1. call.check = SA!Check(a, permissions.mode)
    OBVIOUS
  <2>2. SA!Evaluate(call) # "deny"
    BY <1>2
  <2> HIDE DEF call
  <2> QED  BY <2>1, <2>2, EvaluateHeedsTheCheck
<1>4. operation.at = SA!Evaluate(call) /\ operation.args = a
  OBVIOUS
<1>5. HeedsItsCheck(operation)
  <2> HIDE DEF operation, call
  <2> QED  BY <1>3, <1>4 DEF HeedsItsCheck
<1>6. /\ UNCHANGED permissions /\ UNCHANGED featureFlags /\ UNCHANGED notices
      /\ UNCHANGED deleted /\ UNCHANGED approved
  BY DEF SA!Authorize
<1> HIDE DEF operation
<1> QED  BY <1>2, <1>5, <1>6, OnlyTheCall

LEMMA AnswerKeeps == ASSUME ChangesInv, NEW o \in Operators, SA!Answer(o) PROVE ChangesInv'
<1>1. /\ UNCHANGED permissions /\ UNCHANGED featureFlags /\ UNCHANGED notices
      /\ UNCHANGED deleted /\ UNCHANGED approved
  BY DEF SA!Answer
<1>2. CASE operations' = [operations EXCEPT ![o] = SA!NoOperation]
  <2>1. SA!NoOperation.at = "idle"
    BY DEF SA!NoOperation
  <2>2. HeedsItsCheck(SA!NoOperation)
    BY <2>1 DEF HeedsItsCheck
  <2> QED  BY <1>1, <1>2, <2>2, OnlyTheCall
<1>3. CASE operations' = [operations EXCEPT ![o].at = "allow", ![o].human = TRUE]
  <2> DEFINE operation == [operations[o] EXCEPT !.at = "allow", !.human = TRUE]
  <2>1. operations' = [operations EXCEPT ![o] = operation]
    BY <1>3
  <2>2. operation.args = operations[o].args /\ operation.human
    OBVIOUS
  <2>3. HeedsItsCheck(operations[o]) /\ operations[o].at = "ask"
    BY DEF ChangesInv, SA!Answer
  <2> HIDE DEF operation
  <2>4. HeedsItsCheck(operation)
    BY <2>2, <2>3 DEF HeedsItsCheck
  <2> QED  BY <1>1, <2>1, <2>4, OnlyTheCall
<1> QED  BY <1>2, <1>3 DEF SA!Answer

\* What the executor does for a call that may run, whichever tool it is of.
LEMMA RunKeeps == ASSUME ChangesInv, NEW o \in Operators, SA!Run(o) PROVE ChangesInv'
<1> DEFINE a == operations[o].args
           check == SA!Check(a, permissions.mode)
<1>1. /\ operations' = [operations EXCEPT ![o] = SA!NoOperation] /\ permissions' = permissions
      /\ SA!ApplyFeatureFlag(a) \/ SA!SendChangeNotice(a) \/ SA!DeleteTenant(a) \/ SA!ReadOnly(a)
      /\ approved' = IF operations[o].human THEN approved \cup {a} ELSE approved
      /\ operations[o].at = "allow"
  BY DEF SA!Run
<1>2. a \in SA!Arguments /\ check.behavior # "deny" /\ (check.immune => operations[o].human)
  BY <1>1 DEF ChangesInv, HeedsItsCheck
<1>3. /\ a.tool # "delete"
      /\ a.tool = "notice" => permissions.mode # "plan" /\ a.text # "secret" /\ check.immune
      /\ a.tool = "apply" => /\ permissions.mode # "plan" /\ a.tenant \notin LockedTenants
                             /\ a.flag \in SecurityFlags => check.immune
  BY <1>2, CheckTells
<1>4. /\ DOMAIN operations' = Operators /\ operations'[o] = SA!NoOperation
      /\ \A p \in Operators : p # o => operations'[p] = operations[p]
  BY <1>1 DEF ChangesInv
<1>5. SA!NoOperation.at = "idle"
  BY DEF SA!NoOperation
<1>6. ASSUME NEW p \in Operators PROVE HeedsItsCheck(operations[p])'
  <2>1. HeedsItsCheck(operations[p])
    BY DEF ChangesInv
  <2> QED  BY <1>1, <1>4, <1>5, <2>1 DEF HeedsItsCheck
<1>7. ASSUME NEW p \in Operators, operations'[p].at = "allow"
      PROVE  operations'[p].args.tool # "delete"
  BY <1>6, <1>7, CheckTells DEF HeedsItsCheck
<1>8. approved \subseteq approved' /\ (check.immune => a \in approved')
  BY <1>1, <1>2
<1>9. CASE SA!ApplyFeatureFlag(a)
  <2>1. PICK value \in {"on", "off"} :
          featureFlags' = [featureFlags EXCEPT ![<<a.tenant, a.flag>>] = value]
    BY <1>9 DEF SA!ApplyFeatureFlag
  <2>2. a.tool = "apply" /\ notices' = notices /\ deleted' = deleted
    BY <1>9 DEF SA!ApplyFeatureFlag
  <2>3. featureFlags \in [SaaSTenants \X Flags -> {"on", "off", "unset"}]
    BY DEF ChangesInv
  <2>4. featureFlags' \in [SaaSTenants \X Flags -> {"on", "off", "unset"}]
    BY <2>1, <2>3
  <2>5. ASSUME NEW t \in SaaSTenants, NEW f \in Flags, featureFlags'[<<t, f>>] # "unset"
        PROVE  /\ t \notin LockedTenants /\ permissions'.mode # "plan"
               /\ f \in SecurityFlags =>
                    \E b \in approved' : b.tool = "apply" /\ b.tenant = t /\ b.flag = f
    <3>1. CASE t = a.tenant /\ f = a.flag
      BY <1>1, <1>3, <1>8, <2>2, <3>1
    <3>2. CASE ~(t = a.tenant /\ f = a.flag)
      <4>1. featureFlags'[<<t, f>>] = featureFlags[<<t, f>>]
        BY <2>1, <2>3, <3>2
      <4> QED  BY <1>1, <1>8, <2>5, <4>1 DEF ChangesInv, SA!ChangesAreApproved
    <3> QED  BY <3>1, <3>2
  <2>6. SA!ChangesAreApproved'
    BY <1>1, <1>7, <1>8, <2>2, <2>5 DEF ChangesInv, SA!ChangesAreApproved
  <2> QED  BY <1>4, <1>6, <2>4, <2>6 DEF ChangesInv
<1>10. CASE SA!SendChangeNotice(a)
  <2>1. a.tool = "notice" /\ notices' = notices \cup {a} /\ featureFlags' = featureFlags
        /\ deleted' = deleted
    BY <1>10 DEF SA!SendChangeNotice
  <2>2. SA!ChangesAreApproved'
    BY <1>1, <1>3, <1>7, <1>8, <2>1 DEF ChangesInv, SA!ChangesAreApproved
  <2> QED  BY <1>4, <1>6, <2>1, <2>2 DEF ChangesInv
<1>11. CASE SA!DeleteTenant(a)
  BY <1>3, <1>11 DEF SA!DeleteTenant
<1>12. CASE SA!ReadOnly(a)
  <2>1. SA!ChangesAreApproved'
    BY <1>1, <1>7, <1>8, <1>12 DEF ChangesInv, SA!ChangesAreApproved, SA!ReadOnly
  <2> QED  BY <1>4, <1>6, <1>12, <2>1 DEF ChangesInv, SA!ReadOnly
<1> QED  BY <1>1, <1>9, <1>10, <1>11, <1>12

LEMMA ChangesStep == ASSUME ChangesInv, [SA!Next]_saasVars PROVE ChangesInv'
<1>1. CASE SA!Next
  BY <1>1, AuthorizeKeeps, AnswerKeeps, RunKeeps DEF SA!Next
<1>2. CASE UNCHANGED saasVars
  BY <1>2 DEF saasVars, ChangesInv, HeedsItsCheck, SA!ChangesAreApproved
<1> QED  BY <1>1, <1>2

LEMMA ChangesShow == ChangesInv => SA!ChangesAreApproved
BY DEF ChangesInv

OperationsArePlaced == \A o \in Operators : operations[o].at \in {"idle", "ask", "allow"}

LEMMA EvaluateDecides == \A c : SA!Evaluate(c) \in {"deny", "ask", "allow"}
BY Zenon DEF SA!Evaluate, SA!ApplyDontAsk

LEMMA IdleIsPlaced == SA!NoOperation.at \in {"idle", "ask", "allow"}
BY DEF SA!NoOperation

LEMMA OperationsStart == SA!Init => OperationsArePlaced
BY DEF SA!Init, SA!NoOperation, OperationsArePlaced

LEMMA OperationsStep ==
  ASSUME ChangesInv, OperationsArePlaced, [SA!Next]_saasVars PROVE OperationsArePlaced'
<1>1. CASE UNCHANGED saasVars
  BY <1>1 DEF saasVars, OperationsArePlaced
<1>2. ASSUME NEW o \in Operators, SA!Authorize(o) \/ SA!Answer(o) \/ SA!Run(o)
      PROVE  \E operation : /\ operations' = [operations EXCEPT ![o] = operation]
                            /\ operation.at \in {"idle", "ask", "allow"}
  <2>1. CASE SA!Authorize(o)
    <3>1. PICK a \in SA!Arguments, hook \in {SA!Passthrough, "allow"} :
            LET decision == SA!Evaluate([mode |-> permissions.mode, hooks |-> <<hook>>,
                              rules |-> permissions.rules[a.tool],
                              check |-> SA!Check(a, permissions.mode)])
            IN /\ decision # "deny"
               /\ operations' = [operations EXCEPT ![o] = [at |-> decision, args |-> a, human |-> FALSE]]
      BY <2>1 DEF SA!Authorize
    <3> DEFINE decision == SA!Evaluate([mode |-> permissions.mode, hooks |-> <<hook>>,
                             rules |-> permissions.rules[a.tool],
                             check |-> SA!Check(a, permissions.mode)])
    <3>2. decision \in {"deny", "ask", "allow"}
      BY EvaluateDecides
    <3>3. /\ decision # "deny"
          /\ operations' = [operations EXCEPT ![o] = [at |-> decision, args |-> a, human |-> FALSE]]
      BY <3>1
    <3> HIDE DEF decision
    <3> DEFINE operation == [at |-> decision, args |-> a, human |-> FALSE]
    <3>4. operation.at \in {"idle", "ask", "allow"}
      BY <3>2, <3>3
    <3> QED  BY <3>3, <3>4
  <2>2. CASE SA!Answer(o)
    <3>1. CASE operations' = [operations EXCEPT ![o] = SA!NoOperation]
      BY <3>1, IdleIsPlaced
    <3>2. CASE operations' = [operations EXCEPT ![o].at = "allow", ![o].human = TRUE]
      <4> DEFINE operation == [operations[o] EXCEPT !.at = "allow", !.human = TRUE]
      <4>1. operations' = [operations EXCEPT ![o] = operation]
        BY <3>2
      <4>2. operation.at = "allow"
        OBVIOUS
      <4> HIDE DEF operation
      <4> QED  BY <4>1, <4>2
    <3> QED  BY <2>2, <3>1, <3>2 DEF SA!Answer
  <2>3. CASE SA!Run(o)
    BY <2>3, IdleIsPlaced DEF SA!Run
  <2> QED  BY <1>2, <2>1, <2>2, <2>3
<1>3. DOMAIN operations = Operators
  BY DEF ChangesInv
<1> QED  BY <1>1, <1>2, <1>3 DEF SA!Next, OperationsArePlaced

LEMMA OperationsTypesShow == ChangesInv /\ OperationsArePlaced => SA!TypeOK
BY DEF ChangesInv, OperationsArePlaced, SA!TypeOK

---------------------------------------------------------------------------
(* action/guardrail.                                                       *)

VARIABLES approver, offered, calls, transcript, guarded
guardVars == <<approver, offered, calls, transcript, guarded>>
GS == INSTANCE GuardrailSandwich

Judged == [tool : Tools, args : GS!Args, verdict : {"approved", "refused", "error"},
           executed : BOOLEAN]
Said == [role : {"user", "assistant", "tool"}, sensitive : BOOLEAN]

GuardInv ==
  /\ approver \in {"grants", "denies", "fails", "none"}
  /\ calls \in Seq(Judged) /\ transcript \in Seq(Said)
  /\ GS!ExecutedIsAllowed

LEMMA GuardStarts == GS!Init => GuardInv
<1> SUFFICES ASSUME GS!Init PROVE GuardInv
  OBVIOUS
<1>1. approver \in {"grants", "denies", "fails", "none"} /\ calls = << >> /\ guarded = "asking"
  BY DEF GS!Init
<1>2. PICK s \in BOOLEAN : transcript = <<[role |-> "user", sensitive |-> s]>>
  BY DEF GS!Init, GS!Message
<1>3. transcript \in Seq(Said) /\ DOMAIN transcript = {1} /\ transcript[1].role = "user"
  BY <1>2 DEF Said
<1>4. calls \in Seq(Judged) /\ DOMAIN calls = {}
  BY <1>1
<1> QED  BY <1>1, <1>3, <1>4 DEF GuardInv, GS!ExecutedIsAllowed

\* The verdict of the policy: nothing passes without its reason.
LEMMA ApprovedForCause ==
  ASSUME approver \in {"grants", "denies", "fails", "none"}, NEW tool, NEW args,
         GS!Evaluate(tool, args) = "approved"
  PROVE  /\ AllowedTools # {} => tool \in AllowedTools
         /\ args # "blocked"
         /\ Risk[<<tool, args>>] \in AutoApprove \/ approver = "grants"
BY DEF GS!Evaluate, GS!Allowed

LEMMA GuardSteps == ASSUME GuardInv, [GS!Next]_guardVars PROVE GuardInv'
<1>1. /\ approver \in {"grants", "denies", "fails", "none"}
      /\ calls \in Seq(Judged) /\ transcript \in Seq(Said)
      /\ DOMAIN calls = 1..Len(calls) /\ DOMAIN transcript = 1..Len(transcript)
      /\ Len(calls) \in Nat /\ Len(transcript) \in Nat
  BY DEF GuardInv
<1>2. ASSUME NEW m \in Said, ~m.sensitive, transcript' = Append(transcript, m), guarded' # "done"
      PROVE  /\ transcript' \in Seq(Said)
             /\ \A i \in DOMAIN transcript' :
                  guarded' = "done" \/ transcript'[i].role = "tool" => ~transcript'[i].sensitive
  <2>1. /\ transcript' \in Seq(Said) /\ DOMAIN transcript' = 1..Len(transcript) + 1
        /\ transcript'[Len(transcript) + 1] = m
        /\ \A i \in 1..Len(transcript) : transcript'[i] = transcript[i]
    BY <1>1, <1>2
  <2> QED  BY <1>1, <1>2, <2>1 DEF GuardInv, GS!ExecutedIsAllowed
<1>3. CASE GS!Ask
  <2>1. GS!Message("assistant", FALSE) \in Said /\ ~GS!Message("assistant", FALSE).sensitive
    BY DEF GS!Message, Said
  <2>2. transcript' = Append(transcript, GS!Message("assistant", FALSE)) /\ guarded' # "done"
        /\ UNCHANGED <<approver, calls>>
    BY <1>3 DEF GS!Ask
  <2> QED  BY <1>1, <1>2, <2>1, <2>2 DEF GuardInv, GS!ExecutedIsAllowed
<1>4. CASE GS!CallTool
  <2>1. PICK tool \in Tools, args \in GS!Args, fails \in BOOLEAN :
          LET answer == GS!Evaluate(tool, args)
              executed == answer = "approved"
          IN /\ calls' = Append(calls, [tool |-> tool, args |-> args, verdict |-> answer,
                                        executed |-> executed])
             /\ IF answer = "error" \/ (executed /\ fails)
                THEN guarded' = "failed" /\ UNCHANGED transcript
                ELSE /\ guarded' = IF Len(calls') >= MaxToolRounds THEN "failed" ELSE "asking"
                     /\ transcript' = Append(transcript, GS!Message("tool", FALSE))
    BY <1>4 DEF GS!CallTool
  <2> DEFINE v == GS!Evaluate(tool, args)
             c == [tool |-> tool, args |-> args, verdict |-> v, executed |-> (v = "approved")]
  <2>2. v \in {"approved", "refused", "error"}
    BY DEF GS!Evaluate
  <2>3. c \in Judged
    BY <2>2 DEF Judged
  <2>4. c.executed => /\ AllowedTools # {} => c.tool \in AllowedTools
                      /\ c.args # "blocked"
                      /\ Risk[<<c.tool, c.args>>] \in AutoApprove \/ approver = "grants"
    BY <1>1, ApprovedForCause
  <2>5. calls' = Append(calls, c) /\ UNCHANGED approver
    BY <1>4, <2>1 DEF GS!CallTool
  <2> HIDE DEF c
  <2>6. /\ calls' \in Seq(Judged) /\ DOMAIN calls' = 1..Len(calls) + 1
        /\ calls'[Len(calls) + 1] = c /\ \A i \in 1..Len(calls) : calls'[i] = calls[i]
    BY <1>1, <2>3, <2>5
  <2>7. \A i \in DOMAIN calls' : calls'[i].executed =>
          /\ AllowedTools # {} => calls'[i].tool \in AllowedTools
          /\ calls'[i].args # "blocked"
          /\ \/ Risk[<<calls'[i].tool, calls'[i].args>>] \in AutoApprove
                           \/ approver' = "grants"
    <3> SUFFICES ASSUME NEW i \in DOMAIN calls', calls'[i].executed
                 PROVE  /\ AllowedTools # {} => calls'[i].tool \in AllowedTools
                        /\ calls'[i].args # "blocked"
                        /\ \/ Risk[<<calls'[i].tool, calls'[i].args>>] \in AutoApprove
                           \/ approver' = "grants"
      OBVIOUS
    <3>1. CASE i = Len(calls) + 1
      BY <2>4, <2>5, <2>6, <3>1
    <3>2. CASE i # Len(calls) + 1
      <4>1. i \in DOMAIN calls /\ calls'[i] = calls[i] /\ calls[i].executed
        BY <1>1, <2>6, <3>2
      <4>2. /\ AllowedTools # {} => calls[i].tool \in AllowedTools
            /\ calls[i].args # "blocked"
            /\ Risk[<<calls[i].tool, calls[i].args>>] \in AutoApprove \/ approver = "grants"
        BY <4>1 DEF GuardInv, GS!ExecutedIsAllowed
      <4> QED  BY <2>5, <4>1, <4>2
    <3> QED  BY <3>1, <3>2
  <2>8. GS!Message("tool", FALSE) \in Said /\ ~GS!Message("tool", FALSE).sensitive
    BY DEF GS!Message, Said
  <2>9. /\ transcript' \in Seq(Said)
        /\ \A i \in DOMAIN transcript' :
             guarded' = "done" \/ transcript'[i].role = "tool" => ~transcript'[i].sensitive
    <3>1. guarded' \in {"failed", "asking"}
          /\ (transcript' = transcript \/ transcript' = Append(transcript, GS!Message("tool", FALSE)))
      BY <2>1
    <3>2. CASE transcript' = transcript
      BY <1>1, <3>1, <3>2 DEF GuardInv, GS!ExecutedIsAllowed
    <3>3. CASE transcript' = Append(transcript, GS!Message("tool", FALSE))
      BY <1>2, <2>8, <3>1, <3>3
    <3> QED  BY <3>1, <3>2, <3>3
  <2> QED  BY <1>1, <2>5, <2>6, <2>7, <2>9 DEF GuardInv, GS!ExecutedIsAllowed
<1>5. CASE GS!Finish
  <2>1. transcript' = [i \in DOMAIN transcript |-> [role |-> transcript[i].role, sensitive |-> FALSE]]
        /\ UNCHANGED <<approver, calls>>
    BY <1>5 DEF GS!Finish, GS!Redact, GS!Message
  <2>2. ASSUME NEW i \in DOMAIN transcript
        PROVE  [role |-> transcript[i].role, sensitive |-> FALSE] \in Said
    <3>1. transcript[i] \in Said
      BY <1>1
    <3> QED  BY <3>1 DEF Said
  <2>3. transcript' \in Seq(Said) /\ DOMAIN transcript' = DOMAIN transcript
    BY <1>1, <2>1, <2>2
  <2>4. \A i \in DOMAIN transcript' : ~transcript'[i].sensitive
    BY <2>1
  <2> QED  BY <1>1, <2>1, <2>3, <2>4 DEF GuardInv, GS!ExecutedIsAllowed
<1>6. CASE UNCHANGED guardVars
  BY <1>6 DEF guardVars, GuardInv, GS!ExecutedIsAllowed
<1> QED  BY <1>3, <1>4, <1>5, <1>6 DEF GS!Next

LEMMA GuardShows == GuardInv => GS!ExecutedIsAllowed
BY DEF GuardInv

\* Before the last round there is room for the call of the next one.
GuardTypes ==
  /\ offered \subseteq Tools /\ guarded \in {"asking", "calling", "final", "done", "failed"}
  /\ Len(calls) <= MaxToolRounds
  /\ guarded \in {"asking", "calling"} => Len(calls) < MaxToolRounds

LEMMA GuardTypesStart == GS!Init => GuardTypes
<1> SUFFICES ASSUME GS!Init PROVE GuardTypes
  OBVIOUS
<1>1. offered = Tools /\ calls = <<>> /\ guarded = "asking"
  BY DEF GS!Init
<1>2. Len(calls) = 0
  BY <1>1
<1> QED  BY <1>1, <1>2, GuardAssumption DEF GuardTypes

LEMMA GuardTypesStep ==
  ASSUME GuardInv, GuardTypes, [GS!Next]_guardVars PROVE GuardTypes'
<1>1. calls \in Seq(Judged) /\ Len(calls) \in Nat
  BY LenProperties DEF GuardInv
<1>2. CASE GS!Ask
  BY <1>2 DEF GS!Ask, GuardTypes
<1>3. CASE GS!CallTool
  <2>1. PICK tool \in Tools, args \in GS!Args, fails \in BOOLEAN :
          LET ruling == GS!Evaluate(tool, args)
          IN /\ calls' = Append(calls, [tool |-> tool, args |-> args, verdict |-> ruling,
                                        executed |-> ruling = "approved"])
             /\ guarded' = "failed" \/ guarded' = IF Len(calls') >= MaxToolRounds THEN "failed" ELSE "asking"
    BY <1>3, Zenon DEF GS!CallTool
  <2> DEFINE c == [tool |-> tool, args |-> args, verdict |-> GS!Evaluate(tool, args),
                   executed |-> GS!Evaluate(tool, args) = "approved"]
  <2>2. c \in Judged
    BY DEF GS!Evaluate, Judged
  <2>3. calls' = Append(calls, c) /\ guarded = "calling" /\ offered' = offered
    BY <1>3, <2>1 DEF GS!CallTool
  <2> HIDE DEF c
  <2>4. Len(calls') = Len(calls) + 1
    BY <1>1, <2>2, <2>3, AppendProperties
  <2>5. Len(calls) < MaxToolRounds
    BY <2>3 DEF GuardTypes
  <2>6. Len(calls') <= MaxToolRounds
    BY <1>1, <2>4, <2>5, GuardAssumption
  <2>7. guarded' = "failed" \/ (guarded' = "asking" /\ ~(Len(calls') >= MaxToolRounds))
    BY <2>1
  <2>8. guarded' = "asking" => Len(calls') < MaxToolRounds
    BY <1>1, <2>4, <2>7, GuardAssumption
  <2> QED  BY <2>3, <2>6, <2>7, <2>8 DEF GuardTypes
<1>4. CASE GS!Finish
  BY <1>4 DEF GS!Finish, GuardTypes
<1>5. CASE UNCHANGED guardVars
  BY <1>5 DEF guardVars, GuardTypes
<1> QED  BY <1>2, <1>3, <1>4, <1>5 DEF GS!Next

LEMMA GuardTypesShow == GuardTypes => GS!TypeOK
BY DEF GuardTypes, GS!TypeOK

---------------------------------------------------------------------------
(* cmd/turnloop-agent.                                                     *)

VARIABLES latestSequence, pushing, inbox, turn, preemptAsked, interrupted, final, answered,
  lost, loop
turnloop == <<latestSequence, pushing, inbox, turn, preemptAsked, interrupted, final,
  answered, lost, loop>>
TL == INSTANCE SalesTurnLoop

Held == pushing \cup inbox \cup turn \cup interrupted \cup final
Numbered == 1 .. latestSequence

\* A message is somewhere until it is answered or lost.
NoneFallsOut ==
  /\ latestSequence \in Nat
  /\ Held \cup answered \cup lost = Numbered

\* With one caller the newest message comes last: whoever has it has all there is.
NewestIsLast ==
  /\ pushing \subseteq {latestSequence}
  /\ latestSequence \in turn => pushing \cup inbox \cup interrupted = {}
  /\ latestSequence \in inbox \cup turn \cup interrupted \cup answered \cup lost => pushing = {}
  /\ final # {} => pushing \cup inbox \cup turn \cup interrupted = {}

ConversationInv == NoneFallsOut /\ NewestIsLast

\* A set of numbers below a bound has a largest.
LEMMA LatestIsLargest ==
  ASSUME NEW n \in Nat, NEW items, items \subseteq 1..n, items # {}
  PROVE  TL!Latest(items) \in items /\ \A k \in items : k <= TL!Latest(items)
BY HasLargest DEF TL!Latest

\* The instance has its own name for the operator of FiniteSets.
LEMMA SameCardinality == \A S : TL!Cardinality(S) = Cardinality(S)
BY DEF TL!Cardinality, Cardinality

\* One caller: no number is drawn while another is not pushed yet.
LEMMA OneCaller ==
  ASSUME Pushers = 1, ConversationInv, TL!Cardinality(pushing) < Pushers
  PROVE  pushing = {}
<1>1. CASE pushing = {latestSequence}
  <2>1. TL!Cardinality(pushing) = 1
    BY <1>1, SameCardinality, FS_Singleton
  <2> QED  BY <2>1
<1> QED  BY <1>1 DEF ConversationInv, NewestIsLast

LEMMA ConversationStarts == TL!Init => ConversationInv
BY DEF TL!Init, ConversationInv, NoneFallsOut, NewestIsLast, Held, Numbered

LEMMA ConversationSteps ==
  ASSUME Pushers = 1, ConversationInv, [TL!Next]_turnloop
  PROVE  ConversationInv'
<1>0. TL!NextItem => pushing = {}
  <2>1. TL!NextItem => TL!Cardinality(pushing) < Pushers
    BY DEF TL!NextItem
  <2> QED  BY <2>1, OneCaller
<1> USE DEF ConversationInv, NoneFallsOut, NewestIsLast, Held, Numbered
<1>1. CASE TL!NextItem
  <2>1. /\ pushing = {} /\ pushing' = {latestSequence'} /\ latestSequence' = latestSequence + 1
        /\ interrupted' = interrupted \cup final /\ final' = {}
        /\ UNCHANGED <<inbox, turn, answered, lost>>
    BY <1>0, <1>1 DEF TL!NextItem
  <2>2. latestSequence' \notin Numbered /\ Numbered' = Numbered \cup {latestSequence'}
        /\ latestSequence' \in Nat
    BY <2>1
  <2>3. inbox \cup turn \cup interrupted \cup final \cup answered \cup lost = Numbered
    BY <2>1
  <2> HIDE DEF Numbered
  <2> QED  BY <2>1, <2>2, <2>3
<1>2. ASSUME NEW n \in pushing, TL!Push(n) PROVE ConversationInv'
  <2>1. n = latestSequence /\ pushing' = {} /\ final = {} /\ latestSequence \notin turn
    BY <1>2 DEF TL!Push
  <2> QED  BY <1>2, <2>1 DEF TL!Push
<1>3. CASE TL!BeginTurn
  BY <1>3 DEF TL!BeginTurn
<1>4. CASE TL!TurnPreempted
  BY <1>4 DEF TL!TurnPreempted
<1>5. CASE TL!TurnCompleted
  <2>1. TL!Latest(turn) \in turn /\ final = {}
    BY <1>5, LatestIsLargest DEF TL!TurnCompleted
  <2>2. CASE TL!Latest(turn) = latestSequence
    <3>1. pushing \cup inbox \cup interrupted = {} /\ turn # {}
      BY <2>1, <2>2
    <3>2. final' = turn /\ interrupted' = interrupted
          /\ UNCHANGED <<latestSequence, pushing, inbox, answered, lost>> /\ turn' = {}
      BY <1>5, <2>1, <2>2 DEF TL!TurnCompleted
    <3> QED  BY <3>1, <3>2
  <2>3. CASE TL!Latest(turn) < latestSequence
    BY <1>5, <2>1, <2>3 DEF TL!TurnCompleted
  <2> QED  BY <1>5, <2>2, <2>3 DEF TL!TurnCompleted
<1>6. CASE TL!TurnFailed
  BY <1>6 DEF TL!TurnFailed
<1>7. CASE TL!WaitAnswer
  BY <1>7 DEF TL!WaitAnswer
<1>8. CASE TL!Stop
  BY <1>8 DEF TL!Stop, TL!conversation
<1>9. CASE UNCHANGED turnloop
  BY <1>9 DEF turnloop
<1> QED  BY <1>1, <1>2, <1>3, <1>4, <1>5, <1>6, <1>7, <1>8, <1>9 DEF TL!Next

LEMMA ConversationShows == ConversationInv => TL!AnswerIsComplete
BY DEF ConversationInv, NoneFallsOut, NewestIsLast, Held, Numbered, TL!AnswerIsComplete

\* However many messages are pushed at a time.
ConversationTypes ==
  /\ latestSequence \in 0..MaxMessages /\ Held \cup answered \cup lost \subseteq Numbered
  /\ preemptAsked \in BOOLEAN /\ loop \in {"running", "stopping", "ended"}

LEMMA ConversationTypesStart == TL!Init => ConversationTypes
<1> SUFFICES ASSUME TL!Init PROVE ConversationTypes
  OBVIOUS
<1>1. latestSequence = 0 /\ Held \cup answered \cup lost = {} /\ preemptAsked = FALSE /\ loop = "running"
  BY Zenon DEF TL!Init, Held
<1>2. latestSequence \in 0..MaxMessages
  BY <1>1, MessagesAssumption
<1> QED  BY <1>1, <1>2, Zenon DEF ConversationTypes

LEMMA ConversationTypesStep == ConversationTypes /\ [TL!Next]_turnloop => ConversationTypes'
<1> SUFFICES ASSUME ConversationTypes, [TL!Next]_turnloop PROVE ConversationTypes'
  OBVIOUS
<1> USE DEF ConversationTypes, Held
<1>1. CASE TL!NextItem
  <2>1. latestSequence < MaxMessages /\ latestSequence' = latestSequence + 1 /\ UNCHANGED <<preemptAsked, loop>>
    BY <1>1 DEF TL!NextItem
  <2>2. latestSequence' \in 0..MaxMessages /\ Numbered' = Numbered \cup {latestSequence'}
    BY <2>1, MessagesAssumption DEF Numbered
  <2>3. (Held \cup answered \cup lost)' \subseteq (Held \cup answered \cup lost) \cup {latestSequence'}
    BY <1>1, <2>1 DEF TL!NextItem
  <2> QED  BY <2>1, <2>2, <2>3
<1>2. ASSUME NEW n \in pushing, TL!Push(n) PROVE ConversationTypes'
  <2>1. /\ latestSequence' = latestSequence /\ loop' = loop
        /\ (preemptAsked' = (preemptAsked \/ turn # {}) \/ preemptAsked' = preemptAsked)
        /\ (Held \cup answered \cup lost)' \subseteq Held \cup answered \cup lost
    BY <1>2 DEF TL!Push
  <2>2. preemptAsked' \in BOOLEAN
    BY <2>1
  <2> QED  BY <2>1, <2>2 DEF Numbered
<1> USE DEF Numbered
<1>3. CASE TL!BeginTurn
  BY <1>3 DEF TL!BeginTurn
<1>4. CASE TL!TurnPreempted
  BY <1>4 DEF TL!TurnPreempted
<1>5. CASE TL!TurnCompleted
  BY <1>5 DEF TL!TurnCompleted
<1>6. CASE TL!TurnFailed
  BY <1>6 DEF TL!TurnFailed
<1>7. CASE TL!WaitAnswer
  BY <1>7 DEF TL!WaitAnswer
<1>8. CASE TL!Stop
  BY <1>8 DEF TL!Stop, TL!conversation
<1>9. CASE UNCHANGED turnloop
  BY <1>9 DEF turnloop
<1> QED  BY <1>1, <1>2, <1>3, <1>4, <1>5, <1>6, <1>7, <1>8, <1>9 DEF TL!Next

LEMMA ConversationTypesShow == ConversationTypes => TL!TypeOK
BY DEF ConversationTypes, Held, Numbered, TL!TypeOK

---------------------------------------------------------------------------
(* reasoning/compose.                                                      *)

VARIABLES route, chain, verified, bestPath, candidate, tested, path, reply
adaptiveVars == <<route, chain, verified, bestPath, candidate, tested, path, reply>>
AR == INSTANCE AdaptiveReasoning

PathKinds == {"direct completed", "cot completed", "tot completed", "tot confirmed",
  "tot not_confirmed", "hypothesis completed", "escalate completed"}
ChainStep == [confidence : Nat, invalid : BOOLEAN]

\* While nothing is answered no human has been asked, and what the hypothesis loop is
\* given is an answer of the chain or of the search.
ReasoningInv ==
  /\ chain \in Seq(ChainStep) /\ path \in Seq(PathKinds)
  /\ candidate \in {"", "chain", "search"}
  /\ reply = "" => "escalate completed" \notin AR!ToSet(path)
  /\ AR!NothingOnTrust

LEMMA PathOfOne ==
  ASSUME NEW e \in PathKinds PROVE <<e>> \in Seq(PathKinds) /\ AR!ToSet(<<e>>) = {e}
BY DEF AR!ToSet

LEMMA PathGrows ==
  ASSUME NEW p \in Seq(PathKinds), NEW q \in Seq(PathKinds)
  PROVE  p \o q \in Seq(PathKinds) /\ AR!ToSet(p \o q) = AR!ToSet(p) \cup AR!ToSet(q)
<1>1. p \o q \in Seq(PathKinds)
  BY ConcatProperties
<1>2. Range(p \o q) = Range(p) \cup Range(q)
  BY RangeConcatenation
<1>3. \A r : AR!ToSet(r) = Range(r)
  BY DEF AR!ToSet, Range
<1> QED  BY <1>1, <1>2, <1>3

LEMMA PathGrowsByOne ==
  ASSUME NEW p \in Seq(PathKinds), NEW e \in PathKinds
  PROVE  /\ Append(p, e) \in Seq(PathKinds)
         /\ AR!ToSet(Append(p, e)) = AR!ToSet(p) \cup {e}
<1>1. <<e>> \in Seq(PathKinds) /\ AR!ToSet(<<e>>) = {e}
  BY PathOfOne
<1>2. Append(p, e) = p \o <<e>>
  BY AppendIsConcat
<1> QED  BY <1>1, <1>2, PathGrows

LEMMA SureIsNat ==
  ASSUME chain \in Seq(ChainStep) PROVE \A i \in DOMAIN chain : chain[i].confidence \in Nat
<1>1. DOMAIN chain = 1..Len(chain) /\ \A i \in 1..Len(chain) : chain[i] \in ChainStep
  OBVIOUS
<1> QED  BY <1>1 DEF ChainStep

\* Every step is at least as sure as the weakest.
LEMMA WeakestIsLeast ==
  ASSUME chain \in Seq(ChainStep), chain # << >>
  PROVE  /\ AR!WeakestStep \in Nat
         /\ \A i \in DOMAIN chain : AR!WeakestStep <= chain[i].confidence
<1> DEFINE sure == {chain[i].confidence : i \in DOMAIN chain}
<1>1. DOMAIN chain # {}
  <2>1. Len(chain) \in Nat /\ Len(chain) # 0 /\ DOMAIN chain = 1..Len(chain)
    BY EmptySeq
  <2>2. 1 \in 1..Len(chain)
    BY <2>1
  <2> QED  BY <2>1, <2>2
<1>2. \A i \in DOMAIN chain : chain[i].confidence \in Nat
  BY SureIsNat
<1>3. sure \subseteq Nat /\ sure # {}
  BY <1>1, <1>2
<1>4. \E x \in sure : \A y \in sure : x <= y
  <2> HIDE DEF sure
  <2>1. PICK x \in sure : \A y \in sure : ~(<<y, x>> \in OpToRel(<, Nat))
    BY <1>3, NatLessThanWellFounded, WFMin
  <2>2. \A y \in sure : ~(y < x)
    BY <1>3, <2>1 DEF OpToRel
  <2>3. \A y \in sure : x <= y
    BY <1>3, <2>2
  <2> QED  BY <2>3
<1>5. AR!WeakestStep \in sure /\ \A y \in sure : AR!WeakestStep <= y
  BY <1>4 DEF AR!WeakestStep, AR!Min
<1> QED  BY <1>3, <1>5

LEMMA ReasoningStarts == AR!Init => ReasoningInv
<1> SUFFICES ASSUME AR!Init PROVE ReasoningInv
  OBVIOUS
<1>1. chain = << >> /\ path = << >>
  BY DEF AR!Init
<1>2. candidate = "" /\ reply = ""
  BY DEF AR!Init
<1>3. chain \in Seq(ChainStep) /\ path \in Seq(PathKinds)
  BY <1>1
<1>4. AR!ToSet(path) = {}
  BY <1>1 DEF AR!ToSet
<1> QED  BY <1>2, <1>3, <1>4 DEF ReasoningInv, AR!NothingOnTrust

LEMMA ReasoningSteps ==
  ASSUME ReasoningInv, [AR!Next]_adaptiveVars PROVE ReasoningInv'
<1>1. /\ chain \in Seq(ChainStep) /\ path \in Seq(PathKinds)
      /\ candidate \in {"", "chain", "search"}
  BY DEF ReasoningInv
<1>2. CASE AR!RouteQuery
  BY <1>2 DEF AR!RouteQuery, ReasoningInv, AR!NothingOnTrust, AR!ToSet
<1>3. CASE AR!ModelFails
  BY <1>3 DEF AR!ModelFails, ReasoningInv, AR!NothingOnTrust, AR!ToSet
<1>4. CASE AR!SolveSimple
  <2>1. path' = <<"direct completed">>
    BY <1>4 DEF AR!SolveSimple
  <2>2. path' \in Seq(PathKinds) /\ AR!ToSet(path') = {"direct completed"}
    <3>1. "direct completed" \in PathKinds
      BY DEF PathKinds
    <3> QED  BY <2>1, <3>1, PathOfOne
  <2>3. /\ chain' = chain /\ candidate' = candidate /\ reply' = "direct"
    BY <1>4 DEF AR!SolveSimple
  <2> QED  BY <1>1, <2>2, <2>3 DEF ReasoningInv, AR!NothingOnTrust
<1>5. CASE AR!ReasonWithCOT
  <2>1. /\ path' = path /\ candidate' = candidate /\ reply' = reply /\ reply = ""
    BY <1>5 DEF AR!ReasonWithCOT
  <2>2. chain' \in Seq(ChainStep)
    <3>1. PICK m \in 0..MaxSteps : chain' \in [1..m -> [confidence : 0..Sure, invalid : BOOLEAN]]
      BY <1>5 DEF AR!ReasonWithCOT, AR!BoundedSeq, AR!SeqOf
    <3>2. [confidence : 0..Sure, invalid : BOOLEAN] \subseteq ChainStep
      BY DEF ChainStep
    <3>3. chain' \in [1..m -> ChainStep] /\ m \in Nat
      BY <3>1, <3>2
    <3> QED  BY <3>3, SeqDef
  <2>3. AR!ToSet(path') = AR!ToSet(path)
    BY <2>1 DEF AR!ToSet
  <2> QED  BY <1>1, <2>1, <2>2, <2>3 DEF ReasoningInv, AR!NothingOnTrust
<1>6. CASE AR!VerifyStep
  BY <1>6 DEF AR!VerifyStep, ReasoningInv, AR!NothingOnTrust, AR!ToSet
<1>7. CASE AR!FinishChain
  <2>1. path' = <<"cot completed">> /\ chain' = chain /\ verified' = verified
    BY <1>7 DEF AR!FinishChain
  <2>2. path' \in Seq(PathKinds) /\ AR!ToSet(path') = {"cot completed"}
    <3>1. "cot completed" \in PathKinds
      BY DEF PathKinds
    <3> QED  BY <2>1, <3>1, PathOfOne
  <2>3. candidate' \in {"", "chain", "search"} /\ reply' \in {"", "chain"}
    BY <1>1, <1>7 DEF AR!FinishChain
  <2>4. ASSUME reply' = "chain"
        PROVE  /\ verified' = Len(chain)'
               /\ \A i \in DOMAIN chain' : ~chain'[i].invalid /\ chain'[i].confidence >= Threshold
    <3>1. AR!Issues = {} /\ AR!WeakestStep >= Threshold /\ verified = Len(chain) /\ chain # << >>
      BY <1>7, <2>4 DEF AR!FinishChain
    <3>2. \A i \in DOMAIN chain : chain[i].confidence >= Threshold
      <4>1. \A i \in DOMAIN chain : chain[i].confidence \in Nat
        BY <1>1, SureIsNat
      <4>2. \A i \in DOMAIN chain : AR!WeakestStep <= chain[i].confidence /\ AR!WeakestStep \in Nat
        BY <1>1, <3>1, WeakestIsLeast
      <4> QED  BY <3>1, <4>1, <4>2, ReasoningAssumption
    <3>3. \A i \in DOMAIN chain : ~chain[i].invalid
      BY <3>1 DEF AR!Issues
    <3> QED  BY <2>1, <3>1, <3>2, <3>3
  <2> QED  BY <1>1, <2>1, <2>2, <2>3, <2>4 DEF ReasoningInv, AR!NothingOnTrust
<1>8. CASE AR!Search
  <2>1. path' = <<"tot completed">>
    BY <1>8 DEF AR!Search
  <2>2. path' \in Seq(PathKinds) /\ AR!ToSet(path') = {"tot completed"}
    <3>1. "tot completed" \in PathKinds
      BY DEF PathKinds
    <3> QED  BY <2>1, <3>1, PathOfOne
  <2>3. chain' = chain /\ candidate' = candidate /\ reply' = reply /\ reply = ""
    BY <1>8 DEF AR!Search
  <2> QED  BY <1>1, <2>2, <2>3 DEF ReasoningInv, AR!NothingOnTrust
<1>9. CASE AR!ConfirmBestPath
  <2>1. PICK e \in {"tot confirmed", "tot not_confirmed"} : path' = Append(path, e)
    BY <1>9 DEF AR!ConfirmBestPath
  <2>2. path' \in Seq(PathKinds) /\ AR!ToSet(path') = AR!ToSet(path) \cup {e}
    BY <1>1, <2>1, PathGrowsByOne DEF PathKinds
  <2>3. chain' = chain /\ candidate' = "search" /\ reply' = reply /\ reply = ""
    BY <1>9 DEF AR!ConfirmBestPath
  <2> QED  BY <1>1, <2>2, <2>3 DEF ReasoningInv, AR!NothingOnTrust
<1>10. CASE AR!VerifyWithHypothesis
  <2>1. /\ chain' = chain /\ candidate' = candidate /\ candidate \in {"chain", "search"}
        /\ tested' \in {"converged", "standing", "human"} /\ reply = ""
    BY <1>1, <1>10 DEF AR!VerifyWithHypothesis
  <2>2. "escalate completed" \notin AR!ToSet(path)
    BY <2>1 DEF ReasoningInv
  <2>3. CASE tested' = "human"
    <3>1. path' = path \o <<"hypothesis completed", "escalate completed">> /\ reply' = "escalated"
      BY <1>10, <2>3 DEF AR!VerifyWithHypothesis
    <3>2. /\ <<"hypothesis completed", "escalate completed">> \in Seq(PathKinds)
          /\ "escalate completed" \in AR!ToSet(<<"hypothesis completed", "escalate completed">>)
      <4> DEFINE q == <<"hypothesis completed", "escalate completed">>
      <4>1. q \in Seq(PathKinds)
        BY DEF PathKinds
      <4>2. 2 \in DOMAIN q /\ q[2] = "escalate completed"
        OBVIOUS
      <4>3. "escalate completed" \in AR!ToSet(q)
        BY <4>2 DEF AR!ToSet
      <4> QED  BY <4>1, <4>3
    <3>3. path' \in Seq(PathKinds) /\ "escalate completed" \in AR!ToSet(path')
      BY <1>1, <3>1, <3>2, PathGrows
    <3> QED  BY <1>1, <2>1, <2>3, <3>1, <3>3 DEF ReasoningInv, AR!NothingOnTrust
  <2>4. CASE tested' # "human"
    <3>1. path' = Append(path, "hypothesis completed") /\ reply' = candidate
      BY <1>10, <2>4 DEF AR!VerifyWithHypothesis
    <3>2. path' \in Seq(PathKinds) /\ AR!ToSet(path') = AR!ToSet(path) \cup {"hypothesis completed"}
      BY <1>1, <3>1, PathGrowsByOne DEF PathKinds
    <3> QED  BY <1>1, <2>1, <2>2, <2>4, <3>1, <3>2 DEF ReasoningInv, AR!NothingOnTrust
  <2> QED  BY <2>3, <2>4
<1>11. CASE UNCHANGED adaptiveVars
  BY <1>11 DEF adaptiveVars, ReasoningInv, AR!NothingOnTrust, AR!ToSet
<1> QED  BY <1>2, <1>3, <1>4, <1>5, <1>6, <1>7, <1>8, <1>9, <1>10, <1>11 DEF AR!Next

LEMMA ReasoningShows == ReasoningInv => AR!NothingOnTrust
BY DEF ReasoningInv

\* Until a hypothesis is tested the path has at most the search and its confirmation.
Untested == tested = ""
ReasoningBounds == verified \in 0..Len(chain) /\ Len(path) <= 4 /\ (Untested => Len(path) <= 2)
ReasoningTypes ==
  /\ ReasoningBounds
  /\ reply \in {"", "error", "direct", "chain", "search", "escalated"}

LEMMA ReasoningTypesStart == AR!Init => ReasoningTypes
<1> SUFFICES ASSUME AR!Init PROVE ReasoningTypes
  OBVIOUS
<1>1. chain = <<>> /\ verified = 0 /\ path = <<>> /\ reply = ""
  BY DEF AR!Init
<1>2. Len(chain) = 0 /\ Len(path) = 0
  BY <1>1
<1>3. verified = 0
  BY <1>1
<1>4. ReasoningBounds
  BY <1>2, <1>3 DEF ReasoningBounds
<1> QED  BY <1>1, <1>4 DEF ReasoningTypes

LEMMA ReasoningTypesStep ==
  ASSUME ReasoningInv, ReasoningTypes, [AR!Next]_adaptiveVars PROVE ReasoningTypes'
<1>1. chain \in Seq(ChainStep) /\ path \in Seq(PathKinds) /\ candidate \in {"", "chain", "search"}
  BY DEF ReasoningInv
<1>2. Len(chain) \in Nat /\ Len(path) \in Nat
  BY <1>1, LenProperties
<1>3. ReasoningBounds
  BY DEF ReasoningTypes
<1>4. reply' \in {"", "error", "direct", "chain", "search", "escalated"}
  BY <1>1 DEF ReasoningTypes, AR!Next, AR!RouteQuery, AR!ModelFails, AR!SolveSimple, AR!ReasonWithCOT,
    AR!VerifyStep, AR!FinishChain, AR!Search, AR!ConfirmBestPath, AR!VerifyWithHypothesis, adaptiveVars
<1>5. ReasoningBounds'
  <2>1. CASE AR!RouteQuery \/ AR!ModelFails \/ UNCHANGED adaptiveVars
    <3>1. UNCHANGED <<chain, verified, path, tested>>
      BY <2>1 DEF AR!RouteQuery, AR!ModelFails, adaptiveVars
    <3>2. Untested' = Untested
      BY <3>1, Zenon DEF Untested
    <3> QED  BY <1>3, <3>1, <3>2 DEF ReasoningBounds
  <2>2. CASE AR!SolveSimple \/ AR!FinishChain \/ AR!Search
    <3>1. UNCHANGED <<chain, verified>> /\ \E e : path' = <<e>>
      BY <2>2 DEF AR!SolveSimple, AR!FinishChain, AR!Search
    <3>2. Len(path') = 1
      BY <3>1
    <3> QED  BY <1>3, <3>1, <3>2 DEF ReasoningBounds
  <2>3. CASE AR!ReasonWithCOT
    <3>1. chain = <<>> /\ UNCHANGED <<verified, path, tested>>
      BY <2>3 DEF AR!ReasonWithCOT
    <3>2. PICK m \in 0..MaxSteps : chain' \in [1..m -> [confidence : 0..Sure, invalid : BOOLEAN]]
      BY <2>3 DEF AR!ReasonWithCOT, AR!BoundedSeq, AR!SeqOf
    <3>3. Len(chain') \in Nat
      BY <3>2
    <3>4. verified = 0
      BY <1>3, <3>1 DEF ReasoningBounds
    <3>5. Untested' = Untested
      BY <3>1, Zenon DEF Untested
    <3> QED  BY <1>3, <3>1, <3>3, <3>4, <3>5 DEF ReasoningBounds
  <2>4. CASE AR!VerifyStep
    <3>1. verified < Len(chain) /\ verified' = verified + 1 /\ UNCHANGED <<chain, path, tested>>
      BY <2>4, Zenon DEF AR!VerifyStep
    <3>2. Untested' = Untested
      BY <3>1, Zenon DEF Untested
    <3> QED  BY <1>2, <1>3, <3>1, <3>2 DEF ReasoningBounds
  <2>5. CASE AR!ConfirmBestPath
    <3>1. Len(path) = 1 /\ UNCHANGED <<chain, verified>>
      BY <2>5, Zenon DEF AR!ConfirmBestPath
    <3>2. \E e \in {"tot confirmed", "tot not_confirmed"} : path' = Append(path, e)
      BY <2>5, Zenon DEF AR!ConfirmBestPath
    <3>3. PICK e \in PathKinds : path' = Append(path, e)
      BY <3>2 DEF PathKinds
    <3>4. Len(path') = Len(path) + 1
      BY <1>1, <3>3, AppendProperties
    <3>5. Len(path') = 2
      BY <3>1, <3>4
    <3> QED  BY <1>3, <3>1, <3>5 DEF ReasoningBounds
  <2>6. CASE AR!VerifyWithHypothesis
    <3>1. /\ Untested /\ UNCHANGED <<chain, verified>> /\ tested' \in {"converged", "standing", "human"}
          /\ \/ path' = path \o <<"hypothesis completed", "escalate completed">>
             \/ path' = Append(path, "hypothesis completed")
      BY <2>6, Zenon DEF AR!VerifyWithHypothesis, Untested
    <3>2. ~Untested'
      BY <3>1, Zenon DEF Untested
    <3>3. Len(path) <= 2
      BY <1>3, <3>1 DEF ReasoningBounds
    <3>4. Len(path') <= 4
      <4>1. ASSUME path' = path \o <<"hypothesis completed", "escalate completed">>
            PROVE  Len(path') = Len(path) + 2
        <5> DEFINE q == <<"hypothesis completed", "escalate completed">>
        <5>1. q \in Seq(PathKinds) /\ Len(q) = 2
          BY DEF PathKinds
        <5> QED  BY <1>1, <4>1, <5>1, ConcatProperties
      <4>2. ASSUME path' = Append(path, "hypothesis completed") PROVE Len(path') = Len(path) + 1
        <5>1. "hypothesis completed" \in PathKinds
          BY DEF PathKinds
        <5> QED  BY <1>1, <4>2, <5>1, AppendProperties
      <4>3. Len(path') = Len(path) + 1 \/ Len(path') = Len(path) + 2
        BY <3>1, <4>1, <4>2
      <4> QED  BY <1>2, <3>3, <4>3
    <3> QED  BY <1>3, <3>1, <3>2, <3>4 DEF ReasoningBounds
  <2> QED  BY <2>1, <2>2, <2>3, <2>4, <2>5, <2>6 DEF AR!Next
<1> QED  BY <1>4, <1>5 DEF ReasoningTypes

LEMMA ReasoningTypesShow == ReasoningTypes => AR!TypeOK
BY DEF ReasoningTypes, ReasoningBounds, AR!TypeOK

-----------------------------------------------------------------------------
(* reasoning/compose/parser.go and its copies: the object in a reply.      *)

VARIABLES modelReply, extracted, extractedOuter
replyVars == <<modelReply, extracted, extractedOuter>>
JR == INSTANCE JsonReply

Mark == {"fence", "newline", "quote", "escape", "lbrace", "rbrace", "char"}

(* What makes a text an object, without a scan: which characters are       *)
(* escaped, a character stands in a string behind an odd number of quotes  *)
(* that are not, and the braces outside strings pair off at the end and    *)
(* not before.                                                             *)
IsEscaping(o, escaped) ==
  escaped \subseteq DOMAIN o
    /\ \A i \in DOMAIN o : i \in escaped <=> i > 1 /\ o[i - 1] = "escape" /\ i - 1 \notin escaped
QuotesUpTo(o, escaped, i) == {j \in 1..i : o[j] = "quote" /\ j \notin escaped}
InsideString(o, escaped, i) == Cardinality(QuotesUpTo(o, escaped, i)) % 2 = 1
BracesUpTo(o, escaped, brace, i) == {j \in 1..i : o[j] = brace /\ ~InsideString(o, escaped, j)}
OpenAt(o, escaped, i) ==
  Cardinality(BracesUpTo(o, escaped, "lbrace", i)) - Cardinality(BracesUpTo(o, escaped, "rbrace", i))
IsObject(o) ==
  /\ o \in Seq(Mark) /\ Len(o) > 1 /\ o[1] = "lbrace" /\ o[Len(o)] = "rbrace"
  /\ \E escaped \in SUBSET DOMAIN o :
       /\ IsEscaping(o, escaped)
       /\ \A i \in DOMAIN o : o[i] = "escape" => InsideString(o, escaped, i)
       /\ \A i \in 1..(Len(o) - 1) : OpenAt(o, escaped, i) > 0
       /\ OpenAt(o, escaped, Len(o)) = 0

\* Objects are JSON; no code fence stands inside the prose or an object; a reply of several
\* lines has a closed fence or none.
ASSUME ReplyAssumption ==
  /\ \A o \in Objects : IsObject(o) /\ \A i \in DOMAIN o : o[i] # "fence"
  /\ Proses \subseteq Seq(Mark) \X Seq(Mark)
  /\ \A p \in Proses, k \in {1, 2} : \A i \in DOMAIN p[k] : p[k][i] # "fence"
  /\ \/ Fences \subseteq {"none", "block"}
     \/ /\ Fences \subseteq {"none", "block", "open", "inline"}
        /\ \A o \in Objects : \A i \in DOMAIN o : o[i] # "newline"
        /\ \A p \in Proses, k \in {1, 2} : \A i \in DOMAIN p[k] : p[k][i] # "newline"

ScanState == [inString : BOOLEAN, escaped : BOOLEAN, depth : Int]
ScanStart == [inString |-> FALSE, escaped |-> FALSE, depth |-> 0]
IsScan(f, text) ==
  /\ f \in [0..Len(text) -> ScanState] /\ f[0] = ScanStart
  /\ \A i \in 1..Len(text) : f[i] = JR!ScanStep(f[i - 1], text[i])

LEMMA ScanStepHasType ==
  ASSUME NEW s \in ScanState, NEW mark
  PROVE  JR!ScanStep(s, mark) \in ScanState
<1>1. s.depth + 1 \in Int /\ s.depth - 1 \in Int
  BY DEF ScanState
<1>2. /\ [s EXCEPT !.escaped = FALSE] \in ScanState /\ [s EXCEPT !.escaped = TRUE] \in ScanState
      /\ [s EXCEPT !.inString = ~@] \in ScanState
      /\ [s EXCEPT !.depth = @ + 1] \in ScanState /\ [s EXCEPT !.depth = @ - 1] \in ScanState
  BY <1>1 DEF ScanState
<1> QED  BY <1>2 DEF JR!ScanStep

LEMMA HasScan == ASSUME NEW text \in Seq(Mark) PROVE \E f : IsScan(f, text)
<1> DEFINE n == Len(text)
           g == [i \in 1..n |-> [s \in ScanState |-> JR!ScanStep(s, text[i])]]
<1>1. n \in Nat /\ ScanStart \in ScanState
  BY DEF ScanStart, ScanState
<1>2. g \in StepsIn(n, ScanState) /\ \A i \in 1..n, s \in ScanState : g[i][s] = JR!ScanStep(s, text[i])
  <2> HIDE DEF n
  <2> QED  BY <1>1, ScanStepHasType DEF StepsIn
<1> HIDE DEF g
<1>3. PICK f : FollowsSteps(f, n, ScanState, ScanStart, g)
  BY <1>1, <1>2, StepByStep, Zenon
<1>4. \A i \in 1..n : f[i] = JR!ScanStep(f[i - 1], text[i])
  <2> TAKE i \in 1..n
  <2>1. i - 1 \in 0..n
    <3> HIDE DEF n
    <3> QED  BY <1>1
  <2> QED  BY <1>2, <1>3, <2>1 DEF FollowsSteps
<1> QED  BY <1>3, <1>4 DEF FollowsSteps, IsScan

\* What has been scanned depends on nothing behind it.
LEMMA ScansAgree ==
  ASSUME NEW a \in Seq(Mark), NEW b \in Seq(Mark), NEW f, IsScan(f, a), NEW g, IsScan(g, b),
         NEW n \in Nat, n <= Len(a), n <= Len(b), \A i \in 1..n : a[i] = b[i]
  PROVE  \A i \in 0..n : f[i] = g[i]
<1> DEFINE P == {i \in 0..n : f[i] = g[i]}
<1>1. 0 \in P
  BY DEF IsScan
<1>2. ASSUME NEW i \in 1..n, i - 1 \in P PROVE i \in P
  <2>1. i \in 1..Len(a) /\ i \in 1..Len(b) /\ i \in 0..n
    OBVIOUS
  <2> QED  BY <1>2, <2>1 DEF IsScan
<1>3. 0..n \subseteq P
  <2> HIDE DEF P
  <2> QED  BY <1>1, <1>2, AllPositions
<1> QED  BY <1>3

\* The three states of the scan are what they stand for.
LEMMA ScanCounts ==
  ASSUME NEW o \in Seq(Mark), NEW f, IsScan(f, o), NEW escaped, IsEscaping(o, escaped),
         \A i \in DOMAIN o : o[i] = "escape" => InsideString(o, escaped, i)
  PROVE  \A i \in 1..Len(o) : f[i].depth = OpenAt(o, escaped, i)
<1> DEFINE n == Len(o)
           Quotes(i) == QuotesUpTo(o, escaped, i)
           Inside(i) == InsideString(o, escaped, i)
           Braces(b, i) == BracesUpTo(o, escaped, b, i)
           P == {i \in 0..n : /\ f[i].inString <=> Inside(i)
                              /\ f[i].escaped <=> i > 0 /\ o[i] = "escape" /\ i \notin escaped
                              /\ f[i].depth = OpenAt(o, escaped, i)}
<1>1. n \in Nat /\ DOMAIN o = 1..n
  OBVIOUS
<1>2. \A i \in 0..n : /\ IsFiniteSet(Quotes(i)) /\ Cardinality(Quotes(i)) \in Nat
                      /\ \A b \in {"lbrace", "rbrace"} : IsFiniteSet(Braces(b, i)) /\ Cardinality(Braces(b, i)) \in Nat
  <2> TAKE i \in 0..n
  <2>1. IsFiniteSet(1..i)
    BY FS_Interval
  <2>2. Quotes(i) \subseteq 1..i /\ \A b \in {"lbrace", "rbrace"} : Braces(b, i) \subseteq 1..i
    BY DEF QuotesUpTo, BracesUpTo
  <2> HIDE DEF Quotes, Braces
  <2> QED  BY <2>1, <2>2, FS_Subset, FS_CardinalityType
<1>3. 0 \in P
  <2>1. Quotes(0) = {} /\ \A b \in {"lbrace", "rbrace"} : Braces(b, 0) = {}
    BY DEF QuotesUpTo, BracesUpTo
  <2>2. Cardinality({}) = 0
    BY FS_EmptySet
  <2>3. ~Inside(0)
    <3>1. Cardinality(QuotesUpTo(o, escaped, 0)) = 0
      BY <2>1, <2>2
    <3>2. ~(0 % 2 = 1)
      OBVIOUS
    <3> QED  BY <3>1, <3>2, Zenon DEF InsideString
  <2>4. OpenAt(o, escaped, 0) = 0
    <3>1. Cardinality(BracesUpTo(o, escaped, "lbrace", 0)) = 0 /\ Cardinality(BracesUpTo(o, escaped, "rbrace", 0)) = 0
      BY <2>1, <2>2
    <3>2. 0 - 0 = 0
      OBVIOUS
    <3> QED  BY <3>1, <3>2, Zenon DEF OpenAt
  <2>5. ~f[0].inString /\ ~f[0].escaped /\ f[0].depth = 0 /\ 0 \in 0..n
    BY <1>1 DEF IsScan, ScanStart
  <2> HIDE DEF Inside, Quotes, Braces
  <2> QED  BY <2>3, <2>4, <2>5
<1>4. ASSUME NEW i \in 1..n, i - 1 \in P PROVE i \in P
  <2>1. i \in 0..n /\ i - 1 \in 0..n /\ i \in DOMAIN o /\ 1..i = 1..(i - 1) \cup {i} /\ i \notin 1..(i - 1)
    BY <1>1
  <2>2. PICK s \in ScanState : s = f[i - 1] /\ f[i] = JR!ScanStep(s, o[i])
    BY <2>1 DEF IsScan
  <2>3. /\ s.inString = Inside(i - 1) /\ s.depth = OpenAt(o, escaped, i - 1)
        /\ s.escaped <=> i \in escaped
    <3>1. i > 1 <=> i - 1 > 0
      BY <2>1
    <3>2. /\ s.inString <=> Inside(i - 1)
          /\ s.escaped <=> i - 1 > 0 /\ o[i - 1] = "escape" /\ i - 1 \notin escaped
          /\ s.depth = OpenAt(o, escaped, i - 1)
      BY <1>4, <2>2
    <3>3. i \in escaped <=> i > 1 /\ o[i - 1] = "escape" /\ i - 1 \notin escaped
      BY <2>1 DEF IsEscaping
    <3> HIDE DEF Inside
    <3>4. s.inString \in BOOLEAN /\ Inside(i - 1) \in BOOLEAN
      BY DEF ScanState, Inside, InsideString
    <3> QED  BY <3>1, <3>2, <3>3, <3>4
  <2>4. i \in escaped => Inside(i - 1)
    <3>1. i \in escaped => i - 1 \in DOMAIN o /\ o[i - 1] = "escape"
      BY <1>1, <2>1 DEF IsEscaping
    <3> QED  BY <3>1
  <2>5. /\ Quotes(i) = IF o[i] = "quote" /\ i \notin escaped THEN Quotes(i - 1) \cup {i} ELSE Quotes(i - 1)
        /\ i \notin Quotes(i - 1)
    BY <2>1 DEF QuotesUpTo
  <2>6. Inside(i) = IF o[i] = "quote" /\ i \notin escaped THEN ~Inside(i - 1) ELSE Inside(i - 1)
    <3> DEFINE c == Cardinality(Quotes(i - 1))
    <3>1. CASE o[i] = "quote" /\ i \notin escaped
      <4>1. Cardinality(Quotes(i)) = c + 1 /\ c \in Nat
        BY <1>2, <2>1, <2>5, <3>1, FS_AddElement
      <4>2. (c + 1) % 2 = 1 <=> ~(c % 2 = 1)
        <5> HIDE DEF c
        <5> QED  BY <4>1
      <4> QED  BY <3>1, <4>1, <4>2 DEF InsideString
    <3>2. CASE ~(o[i] = "quote" /\ i \notin escaped)
      BY <2>5, <3>2 DEF InsideString
    <3> QED  BY <3>1, <3>2
  <2>7. \A b \in {"lbrace", "rbrace"} :
          /\ Braces(b, i) = IF o[i] = b /\ ~Inside(i) THEN Braces(b, i - 1) \cup {i} ELSE Braces(b, i - 1)
          /\ i \notin Braces(b, i - 1)
    BY <2>1 DEF BracesUpTo
  <2>8. \A b \in {"lbrace", "rbrace"} :
          /\ o[i] = b /\ ~Inside(i) => Cardinality(Braces(b, i)) = Cardinality(Braces(b, i - 1)) + 1
          /\ o[i] # b \/ Inside(i) => Cardinality(Braces(b, i)) = Cardinality(Braces(b, i - 1))
    <3> TAKE b \in {"lbrace", "rbrace"}
    <3> HIDE DEF Braces, Inside
    <3>1. Cardinality(Braces(b, i - 1)) \in Nat /\ IsFiniteSet(Braces(b, i - 1))
      BY <1>2, <2>1
    <3>2. i \notin Braces(b, i - 1)
      BY <2>7
    <3>3. Cardinality(Braces(b, i - 1) \cup {i}) = Cardinality(Braces(b, i - 1)) + 1
      BY <3>1, <3>2, FS_AddElement
    <3>4. /\ o[i] = b /\ ~Inside(i) => Braces(b, i) = Braces(b, i - 1) \cup {i}
          /\ o[i] # b \/ Inside(i) => Braces(b, i) = Braces(b, i - 1)
      BY <2>7
    <3> QED  BY <3>3, <3>4, Zenon
  <2>9. /\ o[i] = "lbrace" /\ ~Inside(i) => OpenAt(o, escaped, i) = OpenAt(o, escaped, i - 1) + 1
        /\ o[i] = "rbrace" /\ ~Inside(i) => OpenAt(o, escaped, i) = OpenAt(o, escaped, i - 1) - 1
        /\ o[i] \notin {"lbrace", "rbrace"} \/ Inside(i) => OpenAt(o, escaped, i) = OpenAt(o, escaped, i - 1)
    <3>1. \A b \in {"lbrace", "rbrace"} : Cardinality(Braces(b, i - 1)) \in Nat
      BY <1>2, <2>1
    <3>2. OpenAt(o, escaped, i) = Cardinality(Braces("lbrace", i)) - Cardinality(Braces("rbrace", i))
      BY DEF OpenAt
    <3>3. OpenAt(o, escaped, i - 1) = Cardinality(Braces("lbrace", i - 1)) - Cardinality(Braces("rbrace", i - 1))
      BY DEF OpenAt
    <3> HIDE DEF Braces, Inside
    <3>4. PICK x \in Nat, y \in Nat : x = Cardinality(Braces("lbrace", i - 1)) /\ y = Cardinality(Braces("rbrace", i - 1))
      BY <3>1
    <3>5. CASE o[i] = "lbrace" /\ ~Inside(i)
      <4>1. Cardinality(Braces("lbrace", i)) = x + 1 /\ Cardinality(Braces("rbrace", i)) = y
        BY <2>8, <3>4, <3>5
      <4>2. OpenAt(o, escaped, i) = OpenAt(o, escaped, i - 1) + 1
        <5>1. (x + 1) - y = (x - y) + 1
          OBVIOUS
        <5>2. OpenAt(o, escaped, i) = (x + 1) - y
          BY <3>2, <4>1, Zenon
        <5>3. OpenAt(o, escaped, i - 1) = x - y
          BY <3>3, <3>4
        <5> HIDE DEF OpenAt
        <5> QED  BY <5>1, <5>2, <5>3
      <4>3. "lbrace" # "rbrace"
        OBVIOUS
      <4> HIDE DEF OpenAt
      <4> QED  BY <3>5, <4>2, <4>3, Zenon
    <3>6. CASE o[i] = "rbrace" /\ ~Inside(i)
      <4>1. Cardinality(Braces("lbrace", i)) = x /\ Cardinality(Braces("rbrace", i)) = y + 1
        BY <2>8, <3>4, <3>6
      <4>2. OpenAt(o, escaped, i) = OpenAt(o, escaped, i - 1) - 1
        <5>1. x - (y + 1) = x - y - 1
          OBVIOUS
        <5> QED  BY <3>2, <3>3, <3>4, <4>1, <5>1, Zenon
      <4>3. "lbrace" # "rbrace"
        OBVIOUS
      <4> HIDE DEF OpenAt
      <4> QED  BY <3>6, <4>2, <4>3, Zenon
    <3>7. CASE o[i] \notin {"lbrace", "rbrace"} \/ Inside(i)
      <4>1. Cardinality(Braces("lbrace", i)) = x /\ Cardinality(Braces("rbrace", i)) = y
        BY <2>8, <3>4, <3>7
      <4> QED  BY <3>2, <3>3, <3>4, <3>7, <4>1
    <3> QED  BY <3>5, <3>6, <3>7
  <2>10. o[i] = "escape" /\ i \notin escaped => Inside(i - 1)
    BY <2>1, <2>6
  <2>11. OpenAt(o, escaped, i - 1) \in Int
    BY <2>2, <2>3 DEF ScanState
  <2> HIDE DEF Inside, Quotes, Braces
  <2>12. s.depth \in Int /\ s.inString \in BOOLEAN /\ s.escaped \in BOOLEAN
    BY DEF ScanState
  <2>13. /\ f[i].inString <=> Inside(i)
         /\ f[i].escaped <=> o[i] = "escape" /\ i \notin escaped
         /\ f[i].depth = OpenAt(o, escaped, i)
    <3>1. CASE i \in escaped
      <4>1. s.escaped
        BY <2>3, <3>1
      <4>2. f[i] = [s EXCEPT !.escaped = FALSE]
        BY <2>2, <4>1, Zenon DEF JR!ScanStep
      <4>3. ~f[i].escaped /\ f[i].inString = s.inString /\ f[i].depth = s.depth
        BY <4>2 DEF ScanState
      <4>4. Inside(i) <=> Inside(i - 1)
        BY <2>6, <3>1
      <4>5. OpenAt(o, escaped, i) = OpenAt(o, escaped, i - 1)
        BY <2>4, <2>9, <3>1, <4>4
      <4> QED  BY <2>3, <3>1, <4>3, <4>4, <4>5
    <3>2. CASE i \notin escaped /\ o[i] = "escape"
      <4>1. ~s.escaped /\ s.inString /\ (Inside(i) <=> Inside(i - 1))
        BY <2>3, <2>6, <2>10, <3>2
      <4>2. f[i] = [s EXCEPT !.escaped = TRUE]
        BY <2>2, <3>2, <4>1 DEF JR!ScanStep
      <4>3. f[i].escaped /\ f[i].inString = s.inString /\ f[i].depth = s.depth
        BY <4>2 DEF ScanState
      <4>4. OpenAt(o, escaped, i) = OpenAt(o, escaped, i - 1)
        BY <2>9, <3>2
      <4> QED  BY <2>3, <3>2, <4>1, <4>3, <4>4
    <3>3. CASE i \notin escaped /\ o[i] = "quote"
      <4>1. ~s.escaped /\ (Inside(i) <=> ~Inside(i - 1))
        BY <2>3, <2>6, <3>3
      <4>2. f[i] = [s EXCEPT !.inString = ~@]
        BY <2>2, <3>3, <4>1 DEF JR!ScanStep
      <4>3. f[i].escaped = s.escaped /\ (f[i].inString <=> ~s.inString) /\ f[i].depth = s.depth
        BY <2>12, <4>2 DEF ScanState
      <4>4. OpenAt(o, escaped, i) = OpenAt(o, escaped, i - 1)
        BY <2>9, <3>3
      <4> QED  BY <2>3, <3>3, <4>1, <4>3, <4>4
    <3>4. CASE i \notin escaped /\ o[i] = "lbrace" /\ ~Inside(i)
      <4>1. ~s.escaped /\ ~s.inString /\ (Inside(i) <=> Inside(i - 1))
        BY <2>3, <2>6, <3>4
      <4>2. f[i] = [s EXCEPT !.depth = @ + 1]
        BY <2>2, <3>4, <4>1 DEF JR!ScanStep
      <4>3. f[i].escaped = s.escaped /\ f[i].inString = s.inString /\ f[i].depth = s.depth + 1
        BY <4>2 DEF ScanState
      <4>4. OpenAt(o, escaped, i) = OpenAt(o, escaped, i - 1) + 1
        BY <2>9, <3>4
      <4> QED  BY <2>3, <3>4, <4>1, <4>3, <4>4
    <3>5. CASE i \notin escaped /\ o[i] = "rbrace" /\ ~Inside(i)
      <4>1. ~s.escaped /\ ~s.inString /\ (Inside(i) <=> Inside(i - 1))
        BY <2>3, <2>6, <3>5
      <4>2. f[i] = [s EXCEPT !.depth = @ - 1]
        BY <2>2, <3>5, <4>1 DEF JR!ScanStep
      <4>3. f[i].escaped = s.escaped /\ f[i].inString = s.inString /\ f[i].depth = s.depth - 1
        BY <4>2 DEF ScanState
      <4>4. OpenAt(o, escaped, i) = OpenAt(o, escaped, i - 1) - 1
        BY <2>9, <3>5
      <4> QED  BY <2>3, <3>5, <4>1, <4>3, <4>4
    <3>6. CASE i \notin escaped /\ o[i] \notin {"escape", "quote"} /\ (o[i] \in {"lbrace", "rbrace"} => Inside(i))
      <4>1. ~s.escaped /\ (Inside(i) <=> Inside(i - 1)) /\ (o[i] \in {"lbrace", "rbrace"} => s.inString)
        BY <2>3, <2>6, <3>6
      <4>2. f[i] = s
        BY <2>2, <3>6, <4>1 DEF JR!ScanStep
      <4>3. OpenAt(o, escaped, i) = OpenAt(o, escaped, i - 1)
        BY <2>9, <3>6
      <4> QED  BY <2>3, <3>6, <4>1, <4>2, <4>3
    <3> QED  BY <3>1, <3>2, <3>3, <3>4, <3>5, <3>6
  <2>14. i > 0
    BY <2>1
  <2> QED  BY <2>1, <2>13, <2>14
<1>5. 0..n \subseteq P
  <2> HIDE DEF P, Quotes, Inside, Braces
  <2> QED  BY <1>1, <1>3, <1>4, AllPositions
<1> QED  BY <1>1, <1>5

\* An object is open until its last brace.
LEMMA ObjectCloses ==
  ASSUME NEW o \in Objects, NEW f, IsScan(f, o)
  PROVE  (\A i \in 1..(Len(o) - 1) : f[i].depth > 0) /\ f[Len(o)].depth = 0
<1>1. PICK escaped \in SUBSET DOMAIN o :
       /\ IsEscaping(o, escaped)
       /\ \A i \in DOMAIN o : o[i] = "escape" => InsideString(o, escaped, i)
       /\ \A i \in 1..(Len(o) - 1) : OpenAt(o, escaped, i) > 0
       /\ OpenAt(o, escaped, Len(o)) = 0
  BY ReplyAssumption DEF IsObject
<1>2. o \in Seq(Mark) /\ Len(o) \in 1..Len(o) /\ \A i \in 1..(Len(o) - 1) : i \in 1..Len(o)
  <2>1. o \in Seq(Mark) /\ Len(o) > 1
    BY ReplyAssumption DEF IsObject
  <2>2. Len(o) \in Nat
    BY <2>1
  <2> QED  BY <2>1, <2>2
<1>3. \A i \in 1..Len(o) : f[i].depth = OpenAt(o, escaped, i)
  BY <1>1, <1>2, ScanCounts
<1> QED  BY <1>1, <1>2, <1>3

-----------------------------------------------------------------------------
(* Where a mark stands.                                                    *)

Places(text, mark) == {i \in 1..Len(text) : text[i] = mark}

LEMMA HasSmallest == ASSUME NEW items, items \subseteq Nat, items # {} PROVE \E m \in items : \A k \in items : m <= k
<1>1. PICK m \in items : \A k \in items : ~(<<k, m>> \in OpToRel(<, Nat))
  BY NatLessThanWellFounded, WFMin
<1>2. ASSUME NEW k \in items PROVE m <= k
  <2>1. k \in Nat /\ m \in Nat
    OBVIOUS
  <2>2. ~(k < m)
    BY <1>1, <2>1 DEF OpToRel
  <2> QED  BY <2>1, <2>2
<1> QED  BY <1>2

LEMMA FirstIs ==
  ASSUME NEW text \in Seq(Mark), NEW mark
  PROVE  \/ JR!First(text, mark) = 0 /\ Places(text, mark) = {}
         \/ /\ JR!First(text, mark) \in Places(text, mark)
            /\ \A i \in Places(text, mark) : JR!First(text, mark) <= i
<1> DEFINE I == Places(text, mark)
<1>1. JR!First(text, mark) = IF I # {} THEN CHOOSE i \in I : \A j \in I : i <= j ELSE 0
  BY Zenon DEF JR!First, JR!SelectInSeq, JR!Min, Places
<1>2. CASE I = {}
  BY <1>1, <1>2
<1>3. CASE I # {}
  <2>1. Len(text) \in Nat /\ I \subseteq 1..Len(text)
    BY DEF Places
  <2>0. I \subseteq Nat
    BY <2>1
  <2>2. \E i \in I : \A j \in I : i <= j
    <3> HIDE DEF I
    <3> QED  BY <1>3, <2>1, <2>0, HasSmallest
  <2> HIDE DEF I
  <2> QED  BY <1>1, <1>3, <2>2 DEF I
<1> QED  BY <1>2, <1>3

LEMMA LastIs ==
  ASSUME NEW text \in Seq(Mark), NEW mark
  PROVE  \/ JR!LastOf(text, mark) = 0 /\ Places(text, mark) = {}
         \/ /\ JR!LastOf(text, mark) \in Places(text, mark)
            /\ \A i \in Places(text, mark) : i <= JR!LastOf(text, mark)
<1> DEFINE I == Places(text, mark)
<1>1. JR!LastOf(text, mark) = IF I # {} THEN CHOOSE i \in I : \A j \in I : i >= j ELSE 0
  BY Zenon DEF JR!LastOf, JR!SelectLastInSeq, JR!Max, Places
<1>2. CASE I = {}
  BY <1>1, <1>2
<1>3. CASE I # {}
  <2>1. Len(text) \in Nat /\ I \subseteq 1..Len(text)
    BY DEF Places
  <2>2. PICK m \in I : \A j \in I : j <= m
    <3> HIDE DEF I
    <3> QED  BY <1>3, <2>1, HasLargest
  <2>3. \A i, j \in I : j <= i <=> i >= j
    BY <2>1
  <2> HIDE DEF I
  <2>4. \E i \in I : \A j \in I : i >= j
    BY <2>2, <2>3
  <2> QED  BY <1>1, <1>3, <2>3, <2>4 DEF I
<1> QED  BY <1>2, <1>3

(* A text t holds o: nothing before it opens, and unless it is cut off all *)
(* of it is there; what stands behind is of the kind rest.                 *)
ShownAt(t, o, cut, rest, p, n) ==
  /\ p \in 1..Len(t) /\ n \in 1..Len(o) /\ p + n - 1 <= Len(t) /\ (cut <=> n < Len(o))
  /\ \A i \in 1..(p - 1) : t[i] # "lbrace"
  /\ \A i \in 1..n : t[p + i - 1] = o[i]
  /\ \A i \in (p + n)..Len(t) : t[i] \in rest
HoldsObject(t, o, cut, rest) ==
  /\ t \in Seq(Mark) /\ o \in Objects
  /\ \E p \in 1..Len(t), n \in 1..Len(o) : ShownAt(t, o, cut, rest, p, n)

LEMMA ObjectMarks ==
  ASSUME NEW o \in Objects
  PROVE  /\ o \in Seq(Mark) /\ Len(o) \in Nat /\ Len(o) > 1 /\ DOMAIN o = 1..Len(o)
         /\ o[1] = "lbrace" /\ o[Len(o)] = "rbrace" /\ \A i \in 1..Len(o) : o[i] \in Mark /\ o[i] # "fence"
<1>1. IsObject(o) /\ \A i \in DOMAIN o : o[i] # "fence"
  BY ReplyAssumption
<1>2. o \in Seq(Mark) /\ Len(o) > 1 /\ o[1] = "lbrace" /\ o[Len(o)] = "rbrace"
  BY <1>1 DEF IsObject
<1>3. Len(o) \in Nat /\ DOMAIN o = 1..Len(o)
  BY <1>2
<1>4. \A i \in 1..Len(o) : o[i] \in Mark
  BY <1>2
<1> QED  BY <1>1, <1>2, <1>3, <1>4

LEMMA PartOf ==
  ASSUME NEW t \in Seq(Mark), NEW a \in 1..Len(t), NEW b \in 1..Len(t), a <= b
  PROVE  /\ SubSeq(t, a, b) \in Seq(Mark) /\ Len(SubSeq(t, a, b)) = b - a + 1
         /\ \A i \in 1..(b - a + 1) : SubSeq(t, a, b)[i] = t[a + i - 1]
<1>1. Len(t) \in Nat /\ \A i \in 1..Len(t) : t[i] \in Mark
  OBVIOUS
<1>2. a \in Int /\ b \in Int /\ \A i \in a..b : t[i] \in Mark
  BY <1>1
<1> QED  BY <1>2, SubSeqProperties

\* Cutting away what is no brace leaves the object where it is, or cuts off more of one that was cut off.
LEMMA HeldWithin ==
  ASSUME NEW t, NEW o, NEW cut, NEW rest, HoldsObject(t, o, cut, rest),
         NEW a \in 1..Len(t), NEW b \in 1..Len(t), a <= b,
         \A i \in 1..Len(t) : i < a \/ b < i => t[i] \notin {"lbrace", "rbrace"}
  PROVE  HoldsObject(SubSeq(t, a, b), o, cut, rest)
<1>0. t \in Seq(Mark) /\ o \in Objects
  BY DEF HoldsObject
<1>1. t \in Seq(Mark) /\ Len(t) \in Nat /\ o \in Objects
  BY <1>0
<1>2. PICK p \in 1..Len(t), n \in 1..Len(o) : ShownAt(t, o, cut, rest, p, n)
  BY DEF HoldsObject
<1> DEFINE s == SubSeq(t, a, b)
<1>3. s \in Seq(Mark) /\ Len(s) = b - a + 1 /\ \A i \in 1..(b - a + 1) : s[i] = t[a + i - 1]
  BY <1>1, PartOf
<1> HIDE DEF s
<1>4. o[1] = "lbrace" /\ o[Len(o)] = "rbrace" /\ Len(o) \in Nat /\ Len(o) > 1
  BY <1>1, ObjectMarks
<1>5. /\ p \in Nat /\ n \in Nat /\ a \in Nat /\ b \in Nat /\ p > 0 /\ n > 0 /\ a > 0 /\ n <= Len(o)
      /\ p <= Len(t) /\ b <= Len(t) /\ p + n - 1 <= Len(t) /\ (cut <=> n < Len(o))
  BY <1>1, <1>2, <1>4 DEF ShownAt
<1>6. a <= p /\ p <= b
  <2>1. 1 \in 1..n /\ p + 1 - 1 = p
    BY <1>5
  <2>2. t[p] = "lbrace"
    BY <1>2, <1>4, <2>1 DEF ShownAt
  <2>3. ~(p < a \/ b < p)
    BY <2>2
  <2> QED  BY <1>5, <2>3
<1>7. n = Len(o) => p + n - 1 <= b
  <2> SUFFICES ASSUME n = Len(o), b < p + n - 1 PROVE FALSE
    BY <1>5
  <2>1. n \in 1..n /\ p + n - 1 \in 1..Len(t)
    BY <1>1, <1>5
  <2>2. t[p + n - 1] = "rbrace"
    BY <1>2, <1>4, <2>1 DEF ShownAt
  <2> QED  BY <2>1, <2>2
<1>8. PICK q \in Nat, m \in Nat :
        /\ q = p - a + 1 /\ q > 0 /\ m > 0 /\ m <= n /\ q + m - 1 <= Len(s) /\ (m < Len(o) <=> n < Len(o))
        /\ m = n \/ q + m - 1 = Len(s)
  <2>1. p - a + 1 \in Nat /\ p - a + 1 > 0
    BY <1>5, <1>6
  <2>2. CASE p + n - 1 <= b
    <3>1. PICK q \in Nat : q = p - a + 1
      BY <2>1
    <3>2. q > 0 /\ q + n - 1 <= Len(s)
      BY <1>3, <1>5, <2>1, <2>2, <3>1
    <3>3. /\ q = p - a + 1 /\ q > 0 /\ n > 0 /\ n <= n /\ q + n - 1 <= Len(s) /\ (n < Len(o) <=> n < Len(o))
          /\ n = n \/ q + n - 1 = Len(s)
      BY <1>5, <3>1, <3>2
    <3>4. n \in Nat
      BY <1>5
    <3> QED  BY <3>3, <3>4, Zenon
  <2>3. CASE b < p + n - 1
    <3>1. n < Len(o)
      BY <1>4, <1>5, <1>7, <2>3
    <3>2. b - p + 1 \in Nat /\ b - p + 1 > 0 /\ b - p + 1 <= n /\ (p - a + 1) + (b - p + 1) - 1 = Len(s)
      BY <1>3, <1>5, <1>6, <2>3
    <3>3. b - p + 1 < Len(o)
      BY <1>4, <1>5, <3>1, <3>2
    <3>4. (p - a + 1) + (b - p + 1) - 1 <= Len(s)
      BY <1>3, <1>5, <3>2
    <3> QED  BY <2>1, <3>1, <3>2, <3>3, <3>4
  <2> QED  BY <1>5, <2>2, <2>3
<1>9. \A i \in 1..(q - 1) : s[i] # "lbrace"
  <2> TAKE i \in 1..(q - 1)
  <2>1. i \in 1..(b - a + 1) /\ a + i - 1 \in 1..(p - 1)
    BY <1>5, <1>6, <1>8
  <2> QED  BY <1>2, <1>3, <2>1 DEF ShownAt
<1>10. \A i \in 1..m : s[q + i - 1] = o[i]
  <2> TAKE i \in 1..m
  <2>1. i \in 1..n /\ q + i - 1 \in 1..(b - a + 1) /\ a + (q + i - 1) - 1 = p + i - 1
    BY <1>3, <1>5, <1>6, <1>8
  <2>2. t[p + i - 1] = o[i]
    BY <1>2, <2>1 DEF ShownAt
  <2> QED  BY <1>3, <2>1, <2>2
<1>11. \A i \in (q + m)..Len(s) : s[i] \in rest
  <2> TAKE i \in (q + m)..Len(s)
  <2>1. m = n
    BY <1>3, <1>5, <1>8
  <2>2. i \in 1..(b - a + 1) /\ a + i - 1 \in (p + n)..Len(t)
    BY <1>1, <1>3, <1>5, <1>6, <1>8, <2>1
  <2> QED  BY <1>2, <1>3, <2>2 DEF ShownAt
<1>12. q \in 1..Len(s) /\ m \in 1..Len(o)
  BY <1>3, <1>4, <1>5, <1>8
<1>13. ShownAt(s, o, cut, rest, q, m)
  BY <1>5, <1>8, <1>9, <1>10, <1>11, <1>12 DEF ShownAt
<1> QED  BY <1>1, <1>3, <1>12, <1>13 DEF HoldsObject, s

-----------------------------------------------------------------------------
(* The scan from the first brace.                                          *)

ClosedAt(f, n) == {i \in 1..n : f[i].depth = 0}

LEMMA ScanEndIs ==
  ASSUME NEW text \in Seq(Mark), NEW start \in 1..Len(text), NEW f, IsScan(f, SubSeq(text, start, Len(text)))
  PROVE  LET closed == ClosedAt(f, Len(text) - start + 1)
         IN  JR!ScanEnd(text, start)
               = IF closed = {} THEN 0 ELSE start - 1 + CHOOSE i \in closed : \A j \in closed : i <= j
<1> DEFINE rest == SubSeq(text, start, Len(text))
           n == Len(text) - start + 1
           step(g) == [i \in 0..Len(rest) |->
                        IF i = 0 THEN [inString |-> FALSE, escaped |-> FALSE, depth |-> 0]
                        ELSE JR!ScanStep(g[i - 1], rest[i])]
           scan == CHOOSE g : g = step(g)
           closing == {i \in DOMAIN rest : scan[i].depth = 0}
<1>1. JR!ScanEnd(text, start)
        = IF closing = {} THEN 0 ELSE start - 1 + CHOOSE i \in closing : \A j \in closing : i <= j
  BY Zenon DEF JR!ScanEnd
<1>2. Len(text) \in Nat /\ Len(text) \in 1..Len(text) /\ start <= Len(text)
  <2>1. Len(text) \in Nat
    OBVIOUS
  <2> QED  BY <2>1
<1>3. rest \in Seq(Mark) /\ Len(rest) = n
  BY <1>2, PartOf
<1>4. DOMAIN rest = 1..n /\ n \in Nat
  <2> HIDE DEF rest
  <2> QED  BY <1>2, <1>3
<1> HIDE DEF rest, n
<1>5. f = step(f)
  <2>1. \A i \in 0..n : f[i] = IF i = 0 THEN [inString |-> FALSE, escaped |-> FALSE, depth |-> 0]
                               ELSE JR!ScanStep(f[i - 1], rest[i])
    <3> TAKE i \in 0..n
    <3>1. i = 0 \/ i \in 1..n
      BY <1>4
    <3> QED  BY <1>3, <3>1 DEF IsScan, ScanStart, rest
  <2>2. f = [i \in 0..n |-> f[i]]
    BY <1>3 DEF IsScan, rest
  <2> QED  BY <1>3, <2>1, <2>2
<1>6. scan = step(scan)
  BY <1>5
<1> HIDE DEF scan
<1>7. scan[0] = f[0] /\ \A i \in 1..n : /\ scan[i] = JR!ScanStep(scan[i - 1], rest[i])
                                        /\ f[i] = JR!ScanStep(f[i - 1], rest[i])
  <2>1. \A i \in 0..n : /\ scan[i] = IF i = 0 THEN [inString |-> FALSE, escaped |-> FALSE, depth |-> 0]
                                    ELSE JR!ScanStep(scan[i - 1], rest[i])
                        /\ f[i] = IF i = 0 THEN [inString |-> FALSE, escaped |-> FALSE, depth |-> 0]
                                    ELSE JR!ScanStep(f[i - 1], rest[i])
    BY <1>3, <1>5, <1>6
  <2>2. 0 \in 0..n /\ \A i \in 1..n : i \in 0..n /\ i # 0
    BY <1>4
  <2> QED  BY <2>1, <2>2
<1>8. \A i \in 0..n : scan[i] = f[i]
  <2> DEFINE P == {i \in 0..n : scan[i] = f[i]}
  <2>1. 0 \in P
    BY <1>4, <1>7
  <2>2. ASSUME NEW i \in 1..n, i - 1 \in P PROVE i \in P
    <3>1. i \in 0..n
      BY <1>4
    <3> QED  BY <1>7, <2>2, <3>1
  <2>3. 0..n \subseteq P
    <3> HIDE DEF P
    <3> QED  BY <1>4, <2>1, <2>2, AllPositions
  <2> QED  BY <2>3
<1>9. closing = ClosedAt(f, n)
  <2>1. \A i \in 1..n : i \in 0..n
    BY <1>4
  <2> QED  BY <1>4, <1>8, <2>1 DEF ClosedAt
<1> HIDE DEF closing
<1> QED  BY <1>1, <1>9, Zenon DEF n

\* From where the object begins on: nothing closes before it does, and if it is cut off nothing does.
LEMMA ScanFindsTheEnd ==
  ASSUME NEW t \in Seq(Mark), NEW o \in Objects, NEW cut, NEW rest, NEW p \in 1..Len(t), NEW n \in 1..Len(o),
         ShownAt(t, o, cut, rest, p, n), cut => rest \subseteq {"fence", "newline"}
  PROVE  JR!ScanEnd(t, p) = IF cut THEN 0 ELSE p - 1 + Len(o)
<1> DEFINE s == SubSeq(t, p, Len(t))
           k == Len(t) - p + 1
<1>1. /\ o \in Seq(Mark) /\ Len(o) \in Nat /\ Len(o) > 1 /\ Len(t) \in Nat
      /\ n \in Nat /\ n > 0 /\ n <= Len(o) /\ p \in Nat /\ p > 0 /\ p + n - 1 <= Len(t) /\ (cut <=> n < Len(o))
  <2>1. Len(t) \in Nat
    OBVIOUS
  <2> QED  BY <2>1, ObjectMarks DEF ShownAt
<1>2. k \in Nat /\ n <= k /\ p <= Len(t) /\ Len(t) \in 1..Len(t)
  BY <1>1
<1>3. s \in Seq(Mark) /\ Len(s) = k /\ \A i \in 1..k : s[i] = t[p + i - 1]
  BY <1>2, PartOf
<1> HIDE DEF s
<1>4. PICK f : IsScan(f, s)
  BY <1>3, HasScan
<1>5. PICK g : IsScan(g, o)
  BY <1>1, HasScan
<1>6. \A i \in 1..n : s[i] = o[i]
  <2> TAKE i \in 1..n
  <2>1. i \in 1..k
    BY <1>1, <1>2
  <2> QED  BY <1>3, <2>1 DEF ShownAt
<1>7. \A i \in 0..n : f[i] = g[i]
  BY <1>1, <1>2, <1>3, <1>4, <1>5, <1>6, ScansAgree
<1>8. (\A i \in 1..(Len(o) - 1) : g[i].depth > 0) /\ g[Len(o)].depth = 0
  BY <1>5, ObjectCloses
<1>9. JR!ScanEnd(t, p)
        = IF ClosedAt(f, k) = {} THEN 0
          ELSE p - 1 + CHOOSE i \in ClosedAt(f, k) : \A j \in ClosedAt(f, k) : i <= j
  <2>1. IsScan(f, SubSeq(t, p, Len(t)))
    BY <1>4 DEF s
  <2> QED  BY <2>1, ScanEndIs
<1> HIDE DEF k
<1>10. CASE ~cut
  <2>1. n = Len(o)
    BY <1>1, <1>10
  <2>2. Len(o) \in ClosedAt(f, k) /\ \A i \in ClosedAt(f, k) : Len(o) <= i
    <3>1. Len(o) \in 1..k /\ Len(o) \in 0..n
      BY <1>1, <1>2, <2>1
    <3>2. ASSUME NEW i \in ClosedAt(f, k), ~(Len(o) <= i) PROVE FALSE
      <4>1. i \in 1..(Len(o) - 1) /\ i \in 0..n
        BY <1>1, <1>2, <2>1, <3>2 DEF ClosedAt
      <4>2. g[i].depth > 0 /\ g[i].depth = 0
        BY <1>7, <1>8, <4>1 DEF ClosedAt
      <4> QED  BY <4>2
    <3> QED  BY <1>7, <1>8, <3>1, <3>2 DEF ClosedAt
  <2>3. ClosedAt(f, k) \subseteq Nat
    BY <1>2 DEF ClosedAt
  <2>4. Len(o) = CHOOSE i \in ClosedAt(f, k) : \A j \in ClosedAt(f, k) : i <= j
    <3>1. \A i, j \in ClosedAt(f, k) : i <= j /\ j <= i => i = j
      BY <2>3
    <3> QED  BY <2>2, <3>1
  <2> QED  BY <1>9, <1>10, <2>2, <2>4
<1>11. CASE cut
  <2>1. n < Len(o) /\ \A i \in 1..n : g[i].depth > 0
    BY <1>1, <1>8, <1>11
  <2> DEFINE P == {i \in 0..k : i >= n => f[i].depth > 0}
  <2>2. 0 \in P
    BY <1>1, <1>2
  <2>3. ASSUME NEW i \in 1..k, i - 1 \in P PROVE i \in P
    <3>0. i \in 0..k /\ i - 1 \in 0..k
      BY <1>2
    <3>1. CASE i <= n
      <4>1. i \in 0..n /\ (i >= n => i \in 1..n)
        BY <1>1, <3>1
      <4> QED  BY <1>7, <2>1, <3>0, <4>1
    <3>2. CASE i > n
      <4>1. i - 1 >= n /\ p + i - 1 \in (p + n)..Len(t)
        BY <1>1, <1>2, <3>2 DEF k
      <4>2. f[i - 1].depth > 0
        BY <2>3, <4>1
      <4>3. s[i] \in {"fence", "newline"}
        BY <1>3, <1>11, <4>1 DEF ShownAt
      <4>4. PICK b \in ScanState : b = f[i - 1] /\ f[i] = JR!ScanStep(b, s[i])
        BY <1>3, <1>4, <3>0 DEF IsScan
      <4>5. f[i] = b \/ f[i] = [b EXCEPT !.escaped = FALSE]
        BY <4>3, <4>4 DEF JR!ScanStep, ScanState
      <4>6. f[i].depth = b.depth
        BY <4>5 DEF ScanState
      <4> QED  BY <3>0, <4>2, <4>4, <4>6
    <3> QED  BY <1>1, <3>1, <3>2
  <2>4. 0..k \subseteq P
    <3> HIDE DEF P
    <3> QED  BY <1>2, <2>2, <2>3, AllPositions
  <2>5. ClosedAt(f, k) = {}
    <3> SUFFICES ASSUME NEW i \in 1..k, f[i].depth = 0 PROVE FALSE
      BY DEF ClosedAt
    <3>1. CASE i >= n
      <4>1. i \in 0..k
        BY <1>2
      <4>2. f[i].depth > 0
        BY <2>4, <3>1, <4>1
      <4> QED  BY <4>2
    <3>2. CASE i < n
      <4>1. i \in 1..n /\ i \in 0..n
        BY <1>1, <3>2
      <4>2. f[i].depth > 0
        BY <1>7, <2>1, <4>1
      <4> QED  BY <4>2
    <3> QED  BY <1>1, <3>1, <3>2
  <2> QED  BY <1>9, <1>11, <2>5
<1> QED  BY <1>10, <1>11

LEMMA NoOtherBegins ==
  ASSUME NEW o \in Objects, NEW q \in Objects, NEW n \in Nat, n <= Len(o), n <= Len(q),
         \A i \in 1..n : o[i] = q[i], n = Len(q)
  PROVE  n = Len(o)
<1>1. /\ o \in Seq(Mark) /\ q \in Seq(Mark) /\ Len(o) \in Nat /\ Len(q) \in Nat /\ Len(q) > 1
  BY ObjectMarks
<1>2. PICK f : IsScan(f, o)
  BY <1>1, HasScan
<1>3. PICK g : IsScan(g, q)
  BY <1>1, HasScan
<1>4. \A i \in 0..n : f[i] = g[i]
  BY <1>1, <1>2, <1>3, ScansAgree
<1>5. f[n].depth = 0
  <2>1. n \in 0..n
    BY <1>1
  <2>2. g[n].depth = 0
    BY <1>3, ObjectCloses
  <2> QED  BY <1>4, <2>1, <2>2
<1>6. n \notin 1..(Len(o) - 1)
  <2>1. \A i \in 1..(Len(o) - 1) : f[i].depth > 0
    BY <1>2, ObjectCloses
  <2> QED  BY <1>5, <2>1
<1> QED  BY <1>1, <1>6

LEMMA SameMarks ==
  ASSUME NEW a \in Seq(Mark), NEW b \in Seq(Mark), Len(a) = Len(b), \A i \in 1..Len(a) : a[i] = b[i]
  PROVE  a = b
<1>1. Len(a) \in Nat /\ a = [i \in 1..Len(a) |-> a[i]] /\ b = [i \in 1..Len(b) |-> b[i]]
  OBVIOUS
<1> QED  BY <1>1

Begins(t, o, p, n, e) ==
  /\ p + n - 1 <= Len(t) /\ p <= e /\ (n < Len(o) => e <= p + n - 1)
  /\ \A i \in 1..n : t[p + i - 1] = o[i]

\* Of a text that shows an object from its first brace on, no other part from there on is an object.
LEMMA PartIsTheObject ==
  ASSUME NEW t \in Seq(Mark), NEW o \in Objects, NEW p \in 1..Len(t), NEW n \in 1..Len(o),
         NEW e \in 1..Len(t), Begins(t, o, p, n, e), SubSeq(t, p, e) \in Objects
  PROVE  n = Len(o) /\ SubSeq(t, p, e) = o /\ e = p - 1 + Len(o)
<1> DEFINE q == SubSeq(t, p, e)
           k == e - p + 1
<1>1. /\ o \in Seq(Mark) /\ Len(o) \in Nat /\ Len(o) > 1 /\ Len(t) \in Nat
      /\ n \in Nat /\ n > 0 /\ n <= Len(o) /\ p \in Nat /\ p > 0 /\ p + n - 1 <= Len(t)
      /\ e \in Nat /\ k \in Nat /\ k > 0
  <2>1. Len(t) \in Nat
    OBVIOUS
  <2> QED  BY <2>1, ObjectMarks DEF Begins
<1>2. q \in Seq(Mark) /\ Len(q) = k /\ \A i \in 1..k : q[i] = t[p + i - 1]
  BY PartOf DEF Begins
<1>3. q \in Objects
  OBVIOUS
<1> HIDE DEF q
<1>4. ASSUME NEW i \in 1..n, i <= k PROVE q[i] = o[i]
  <2>1. i \in 1..k /\ t[p + i - 1] = o[i]
    BY <1>1, <1>4 DEF Begins
  <2> QED  BY <1>2, <2>1
<1>5. CASE k <= n
  <2>1. k = Len(o)
    <3>1. \A i \in 1..k : o[i] = q[i]
      <4> TAKE i \in 1..k
      <4>1. i \in 1..n /\ i <= k
        BY <1>1, <1>5
      <4> QED  BY <1>4, <4>1
    <3>2. k \in Nat /\ k <= Len(o) /\ k <= Len(q) /\ k = Len(q)
      BY <1>1, <1>2, <1>5
    <3> HIDE DEF k
    <3> QED  BY <1>3, <3>1, <3>2, NoOtherBegins
  <2>2. k = n /\ n = Len(o) /\ \A i \in 1..k : i \in 1..n /\ i <= k
    BY <1>1, <1>5, <2>1
  <2>3. q = o
    <3> HIDE DEF k
    <3>1. Len(q) = Len(o) /\ \A i \in 1..Len(q) : q[i] = o[i]
      BY <1>2, <1>4, <2>1, <2>2
    <3> QED  BY <1>1, <1>2, <3>1, SameMarks
  <2>4. e = p - 1 + Len(o)
    BY <1>1, <2>1
  <2> QED  BY <2>2, <2>3, <2>4 DEF q
<1>6. CASE k > n
  <2>1. n = Len(o)
    BY <1>1, <1>6 DEF Begins
  <2>2. n = Len(o) /\ n <= Len(q)
    BY <1>1, <1>2, <1>6, <2>1
  <2>3. \A i \in 1..n : q[i] = o[i]
    <3> TAKE i \in 1..n
    <3>1. i <= k
      BY <1>1, <1>6
    <3> QED  BY <1>4, <3>1
  <2>4. n = Len(q)
    BY <1>1, <1>3, <2>2, <2>3, NoOtherBegins
  <2> QED  BY <1>1, <1>2, <1>6, <2>4
<1> QED  BY <1>1, <1>5, <1>6

(* The first brace of a text with an object is the object's.               *)
LEMMA FirstBrace ==
  ASSUME NEW t \in Seq(Mark), NEW o \in Objects, NEW cut, NEW rest, NEW p \in 1..Len(t), NEW n \in 1..Len(o),
         ShownAt(t, o, cut, rest, p, n)
  PROVE  JR!First(t, "lbrace") = p /\ t[p] = "lbrace"
<1>1. o[1] = "lbrace" /\ Len(o) \in Nat /\ Len(t) \in Nat
  <2>1. Len(t) \in Nat
    OBVIOUS
  <2> QED  BY <2>1, ObjectMarks
<1>2. 1 \in 1..n /\ p + 1 - 1 = p
  BY <1>1
<1>3. t[p] = "lbrace"
  BY <1>1, <1>2 DEF ShownAt
<1>4. p \in Places(t, "lbrace") /\ \A i \in Places(t, "lbrace") : p <= i
  <2>1. ASSUME NEW i \in 1..Len(t), t[i] = "lbrace", i < p PROVE FALSE
    <3>1. i \in 1..(p - 1)
      BY <1>1, <2>1
    <3> QED  BY <2>1, <3>1 DEF ShownAt
  <2> QED  BY <1>1, <1>3, <2>1 DEF Places
<1>5. JR!First(t, "lbrace") \in Places(t, "lbrace") /\ JR!First(t, "lbrace") <= p /\ p <= JR!First(t, "lbrace")
  BY <1>4, FirstIs
<1>6. JR!First(t, "lbrace") \in Nat
  BY <1>1, <1>5 DEF Places
<1> QED  BY <1>1, <1>3, <1>5, <1>6

\* What is valid of such a text is the object, if it is not cut off.
LEMMA ValidIsTheObject ==
  ASSUME NEW t, NEW o, NEW cut, NEW rest, HoldsObject(t, o, cut, rest), JR!ValidJSON(t),
         cut => rest \subseteq {"fence", "newline"}
  PROVE  ~cut /\ t = o
<1>1. t \in Seq(Mark) /\ o \in Objects
  BY DEF HoldsObject
<1>2. PICK p \in 1..Len(t), n \in 1..Len(o) : ShownAt(t, o, cut, rest, p, n)
  BY DEF HoldsObject
<1>3. Len(t) \in Nat /\ t[p] = "lbrace"
  <2>1. Len(t) \in Nat
    BY <1>1
  <2> QED  BY <1>1, <1>2, <2>1, FirstBrace
<1>4. t \in Objects
  <2>1. t # <<"char">>
    <3> SUFFICES ASSUME t = <<"char">> PROVE FALSE
      OBVIOUS
    <3>1. p = 1 /\ t[1] = "char"
      OBVIOUS
    <3> QED  BY <1>3, <3>1
  <2> QED  BY <2>1 DEF JR!ValidJSON
<1>5. p = 1
  <2>1. t[1] = "lbrace" /\ Len(t) > 1
    BY <1>4, ObjectMarks
  <2>2. 1 \notin 1..(p - 1)
    BY <1>2, <2>1 DEF ShownAt
  <2> QED  BY <1>3, <2>2
<1>6. SubSeq(t, 1, Len(t)) = t
  <2>1. Len(t) \in 1..Len(t) /\ 1 \in 1..Len(t) /\ 1 <= Len(t)
    BY <1>3, <1>5
  <2>2. SubSeq(t, 1, Len(t)) \in Seq(Mark) /\ Len(SubSeq(t, 1, Len(t))) = Len(t) - 1 + 1
    BY <1>1, <2>1, PartOf
  <2>3. \A i \in 1..(Len(t) - 1 + 1) : SubSeq(t, 1, Len(t))[i] = t[1 + i - 1]
    BY <1>1, <2>1, PartOf
  <2>4. Len(t) - 1 + 1 = Len(t) /\ \A i \in 1..Len(t) : 1 + i - 1 = i
    BY <1>3
  <2> DEFINE s == SubSeq(t, 1, Len(t))
  <2>5. Len(s) = Len(t) /\ \A i \in 1..Len(s) : s[i] = t[i]
    BY <2>2, <2>3, <2>4
  <2> HIDE DEF s
  <2> QED  BY <1>1, <2>2, <2>5, SameMarks DEF s
<1>7. CASE cut
  <2>1. JR!ScanEnd(t, 1) = 0
    BY <1>1, <1>2, <1>5, <1>7, ScanFindsTheEnd
  <2>2. JR!ScanEnd(t, 1) = 1 - 1 + Len(t)
    <3>1. Len(t) > 1 /\ Len(t) \in 1..Len(t) /\ 1 \in 1..Len(t) /\ 1 + Len(t) - 1 = Len(t)
      BY <1>3, <1>4, ObjectMarks
    <3>2. ShownAt(t, t, FALSE, {}, 1, Len(t))
      BY <1>3, <3>1 DEF ShownAt
    <3> QED  BY <1>1, <1>4, <3>1, <3>2, ScanFindsTheEnd
  <2>3. Len(t) > 1
    BY <1>4, ObjectMarks
  <2> QED  BY <1>3, <2>1, <2>2, <2>3
<1>8. CASE ~cut
  <2>1. PICK e \in 1..Len(t) : e = Len(t)
    BY <1>3
  <2>2. p <= e /\ SubSeq(t, p, e) = t
    BY <1>3, <1>5, <1>6, <2>1
  <2>3. SubSeq(t, p, e) \in Objects
    BY <1>4, <2>2
  <2>4. n = Len(o) /\ p + n - 1 <= Len(t) /\ \A i \in 1..n : t[p + i - 1] = o[i]
    <3>1. Len(o) \in Nat
      BY <1>1, ObjectMarks
    <3> QED  BY <1>2, <1>8, <3>1 DEF ShownAt
  <2>5. SubSeq(t, p, e) = o
    <3>1. n < Len(o) => e <= p + n - 1
      <4>1. Len(o) \in Nat
        BY <1>1, ObjectMarks
      <4> QED  BY <2>4, <4>1
    <3>2. Begins(t, o, p, n, e)
      BY <2>2, <2>4, <3>1 DEF Begins
    <3> QED  BY <1>1, <2>3, <3>2, PartIsTheObject
  <2> QED  BY <1>8, <2>2, <2>5
<1> QED  BY <1>7, <1>8

LEMMA TrimmedHolds ==
  ASSUME NEW t, NEW o, NEW cut, NEW rest, HoldsObject(t, o, cut, rest)
  PROVE  /\ HoldsObject(JR!TrimSpace(t), o, cut, rest)
         /\ \A i \in 1..Len(JR!TrimSpace(t)) : \E j \in 1..Len(t) : JR!TrimSpace(t)[i] = t[j]
<1> DEFINE inner == {i \in DOMAIN t : t[i] # "newline"}
           a == CHOOSE i \in inner : \A j \in inner : i <= j
           b == CHOOSE i \in inner : \A j \in inner : i >= j
<1>1. t \in Seq(Mark) /\ o \in Objects
  BY DEF HoldsObject
<1>2. Len(t) \in Nat /\ DOMAIN t = 1..Len(t)
  BY <1>1
<1>3. PICK p \in 1..Len(t), n \in 1..Len(o) : ShownAt(t, o, cut, rest, p, n)
  BY DEF HoldsObject
<1>4. p \in inner
  <2>1. t[p] = "lbrace"
    BY <1>1, <1>3, FirstBrace
  <2> QED  BY <1>2, <2>1
<1>5. JR!TrimSpace(t) = SubSeq(t, a, b)
  <2>1. inner # {}
    BY <1>4
  <2> QED  BY <2>1, Zenon DEF JR!TrimSpace
<1>6. inner \subseteq 1..Len(t) /\ inner \subseteq Nat /\ inner # {}
  BY <1>2, <1>4
<1>7. a \in inner /\ \A j \in inner : a <= j
  <2> HIDE DEF inner
  <2>1. \E i \in inner : \A j \in inner : i <= j
    BY <1>6, HasSmallest
  <2> QED  BY <2>1
<1>8. b \in inner /\ \A j \in inner : j <= b
  <2> HIDE DEF inner
  <2>1. PICK m \in inner : \A k \in inner : k <= m
    BY <1>2, <1>6, HasLargest
  <2>2. \A i, j \in inner : j <= i <=> i >= j
    BY <1>6
  <2>3. \E i \in inner : \A j \in inner : i >= j
    BY <2>1, <2>2
  <2>4. b \in inner /\ \A j \in inner : b >= j
    BY <2>3
  <2> QED  BY <2>2, <2>4
<1> HIDE DEF a, b
<1>9. a \in 1..Len(t) /\ b \in 1..Len(t) /\ a <= b
  BY <1>6, <1>7, <1>8
<1>10. \A i \in 1..Len(t) : i < a \/ b < i => t[i] \notin {"lbrace", "rbrace"}
  <2> TAKE i \in 1..Len(t)
  <2>1. i < a \/ b < i => i \notin inner
    BY <1>2, <1>7, <1>8, <1>9
  <2> QED  BY <1>2, <2>1
<1> HIDE DEF inner
<1>11. HoldsObject(SubSeq(t, a, b), o, cut, rest)
  BY <1>9, <1>10, HeldWithin
<1>12. \A i \in 1..Len(SubSeq(t, a, b)) : \E j \in 1..Len(t) : SubSeq(t, a, b)[i] = t[j]
  <2> TAKE i \in 1..Len(SubSeq(t, a, b))
  <2>1. /\ Len(SubSeq(t, a, b)) = b - a + 1
        /\ \A k \in 1..(b - a + 1) : SubSeq(t, a, b)[k] = t[a + k - 1]
    BY <1>1, <1>9, PartOf
  <2>2. i \in 1..(b - a + 1) /\ a + i - 1 \in 1..Len(t)
    BY <1>2, <1>9, <2>1
  <2> QED  BY <2>1, <2>2
<1> QED  BY <1>5, <1>11, <1>12

ScannedOf(t) ==
  LET start == JR!First(t, "lbrace")
      end == JR!ScanEnd(t, start)
  IN IF JR!ValidJSON(t) THEN t
     ELSE IF start = 0 \/ end = 0 \/ ~JR!ValidJSON(SubSeq(t, start, end)) THEN JR!NoObject
     ELSE SubSeq(t, start, end)
OutermostOf(t) ==
  LET start == JR!First(t, "lbrace")
      end == JR!LastOf(t, "rbrace")
  IN IF start > 0 /\ end >= start /\ JR!ValidJSON(SubSeq(t, start, end))
     THEN SubSeq(t, start, end) ELSE JR!NoObject

\* ExtractJSONObject, once the fence is off.
LEMMA ScanExtracts ==
  ASSUME NEW t, NEW o, NEW cut, NEW rest, HoldsObject(t, o, cut, rest), cut => rest \subseteq {"fence", "newline"}
  PROVE  ScannedOf(t) = IF cut THEN JR!NoObject ELSE o
<1> DEFINE start == JR!First(t, "lbrace")
           end == JR!ScanEnd(t, start)
<1>1. t \in Seq(Mark) /\ o \in Objects
  BY DEF HoldsObject
<1>2. PICK p \in 1..Len(t), n \in 1..Len(o) : ShownAt(t, o, cut, rest, p, n)
  BY DEF HoldsObject
<1>3. start = p
  BY <1>1, <1>2, FirstBrace
<1>4. end = IF cut THEN 0 ELSE p - 1 + Len(o)
  BY <1>1, <1>2, <1>3, ScanFindsTheEnd
<1>5. JR!ValidJSON(t) => ~cut /\ t = o
  BY ValidIsTheObject
<1>6. ~cut => SubSeq(t, start, end) = o /\ start # 0 /\ end # 0 /\ JR!ValidJSON(o)
  <2> SUFFICES ASSUME ~cut PROVE SubSeq(t, p, p - 1 + Len(o)) = o /\ p # 0 /\ p - 1 + Len(o) # 0 /\ o \in Objects
    BY <1>3, <1>4 DEF JR!ValidJSON
  <2>1. /\ o \in Seq(Mark) /\ Len(o) \in Nat /\ Len(o) > 1 /\ Len(t) \in Nat /\ p \in Nat /\ p > 0
        /\ n = Len(o) /\ p + n - 1 <= Len(t)
    <3>1. Len(t) \in Nat
      BY <1>1
    <3> QED  BY <1>1, <1>2, <3>1, ObjectMarks DEF ShownAt
  <2> DEFINE e == p - 1 + Len(o)
  <2>2. e \in 1..Len(t) /\ p <= e /\ e - p + 1 = Len(o)
    BY <2>1
  <2>3. /\ SubSeq(t, p, e) \in Seq(Mark) /\ Len(SubSeq(t, p, e)) = e - p + 1
        /\ \A i \in 1..(e - p + 1) : SubSeq(t, p, e)[i] = t[p + i - 1]
    <3> HIDE DEF e
    <3> QED  BY <1>1, <2>2, PartOf
  <2> DEFINE s == SubSeq(t, p, e)
  <2>4. Len(s) = Len(o) /\ \A i \in 1..Len(s) : s[i] = t[p + i - 1]
    BY <2>2, <2>3
  <2>5. \A i \in 1..Len(o) : t[p + i - 1] = o[i]
    BY <1>2, <2>1 DEF ShownAt
  <2>6. s = o
    <3> HIDE DEF s
    <3>1. s \in Seq(Mark)
      BY <2>3 DEF s
    <3> QED  BY <2>1, <2>4, <2>5, <3>1, SameMarks
  <2> QED  BY <1>1, <2>1, <2>2, <2>6
<1>7. cut => end = 0
  BY <1>4
<1> HIDE DEF start, end
<1>8. (IF JR!ValidJSON(t) THEN t
       ELSE IF start = 0 \/ end = 0 \/ ~JR!ValidJSON(SubSeq(t, start, end)) THEN JR!NoObject
       ELSE SubSeq(t, start, end))
        = IF cut THEN JR!NoObject ELSE o
  BY <1>5, <1>6, <1>7
<1> QED  BY <1>8, Zenon DEF start, end, ScannedOf

\* ExtractOuterObject, once the fence is off.
LEMMA OuterExtracts ==
  ASSUME NEW t, NEW o, NEW cut, NEW rest, HoldsObject(t, o, cut, rest), cut => rest \subseteq {"fence", "newline"}
  PROVE  /\ OutermostOf(t) \in {JR!NoObject, o} /\ (cut => OutermostOf(t) = JR!NoObject)
         /\ ~cut /\ "rbrace" \notin rest => OutermostOf(t) = o
<1> DEFINE start == JR!First(t, "lbrace")
           end == JR!LastOf(t, "rbrace")
           found == IF start > 0 /\ end >= start /\ JR!ValidJSON(SubSeq(t, start, end))
                    THEN SubSeq(t, start, end) ELSE JR!NoObject
<1>1. t \in Seq(Mark) /\ o \in Objects
  BY DEF HoldsObject
<1>2. PICK p \in 1..Len(t), n \in 1..Len(o) : ShownAt(t, o, cut, rest, p, n)
  BY DEF HoldsObject
<1>3. start = p /\ t[p] = "lbrace"
  BY <1>1, <1>2, FirstBrace
<1>4. /\ o \in Seq(Mark) /\ Len(o) \in Nat /\ Len(o) > 1 /\ Len(t) \in Nat /\ p \in Nat /\ p > 0 /\ p <= Len(t)
      /\ n \in Nat /\ n > 0 /\ n <= Len(o) /\ p + n - 1 <= Len(t) /\ (cut <=> n < Len(o))
      /\ o[Len(o)] = "rbrace"
  <2>1. Len(t) \in Nat
    BY <1>1
  <2> QED  BY <1>1, <1>2, <2>1, ObjectMarks DEF ShownAt
<1>5. end \in 0..Len(t)
  BY <1>1, <1>4, LastIs DEF Places
<1>6. cut => end <= p + n - 1
  <2> SUFFICES ASSUME cut, end > p + n - 1 PROVE FALSE
    BY <1>4, <1>5
  <2>1. end # 0 /\ end \in (p + n)..Len(t)
    BY <1>4, <1>5
  <2>2. t[end] = "rbrace"
    BY <1>1, <2>1, LastIs DEF Places
  <2>3. t[end] \in {"fence", "newline"}
    BY <1>2, <2>1 DEF ShownAt
  <2> QED  BY <2>2, <2>3
<1> HIDE DEF start, end
<1>7. ASSUME start > 0, end >= start, JR!ValidJSON(SubSeq(t, start, end))
      PROVE  ~cut /\ SubSeq(t, start, end) = o
  <2>1. end \in 1..Len(t) /\ p <= end
    BY <1>3, <1>4, <1>5, <1>7
  <2>2. SubSeq(t, p, end) \in Objects
    <3>1. SubSeq(t, p, end)[1] = t[p + 1 - 1] /\ 1 \in 1..(end - p + 1)
      <4>1. 1 \in 1..(end - p + 1)
        BY <1>4, <2>1
      <4> QED  BY <1>1, <2>1, <4>1, PartOf
    <3>2. SubSeq(t, p, end)[1] = "lbrace"
      BY <1>3, <1>4, <3>1
    <3>3. SubSeq(t, p, end) # <<"char">>
      <4> SUFFICES ASSUME SubSeq(t, p, end) = <<"char">> PROVE FALSE
        OBVIOUS
      <4>1. <<"char">>[1] = "lbrace"
        BY <3>2
      <4> QED  BY <4>1
    <3>4. SubSeq(t, p, end) \in Objects \cup {<<"char">>}
      BY <1>3, <1>7, Zenon DEF JR!ValidJSON
    <3> QED  BY <3>3, <3>4, Zenon
  <2>3. PICK e \in 1..Len(t) : e = end
    BY <2>1
  <2>4. p <= e /\ SubSeq(t, p, e) \in Objects
    BY <2>1, <2>2, <2>3, Zenon
  <2>5. p + n - 1 <= Len(t) /\ (\A i \in 1..n : t[p + i - 1] = o[i]) /\ (n < Len(o) => e <= p + n - 1)
    <3>1. \A i \in 1..n : t[p + i - 1] = o[i]
      BY <1>2 DEF ShownAt
    <3> QED  BY <1>4, <1>6, <2>3, <3>1, Zenon
  <2>6. n = Len(o) /\ SubSeq(t, p, e) = o
    <3>1. Begins(t, o, p, n, e)
      BY <2>4, <2>5 DEF Begins
    <3> QED  BY <1>1, <2>4, <3>1, PartIsTheObject
  <2>7. ~cut
    BY <1>4, <2>6
  <2> QED  BY <1>3, <2>3, <2>6, <2>7
<1>8. ASSUME ~cut, "rbrace" \notin rest
      PROVE  start > 0 /\ end >= start /\ SubSeq(t, start, end) = o /\ JR!ValidJSON(SubSeq(t, start, end))
  <2>1. n = Len(o)
    BY <1>4, <1>8
  <2> DEFINE e == p + n - 1
  <2>2. e \in 1..Len(t) /\ e \in Nat /\ n \in 1..n
    BY <1>4
  <2>3. t[e] = "rbrace"
    BY <1>2, <1>4, <2>1, <2>2 DEF ShownAt
  <2>4. e \in Places(t, "rbrace")
    BY <2>2, <2>3 DEF Places
  <2>5. end \in Places(t, "rbrace") /\ e <= end
    BY <1>1, <2>4, LastIs DEF end
  <2>6. end \notin (p + n)..Len(t)
    BY <1>2, <1>8, <2>5 DEF ShownAt, Places
  <2>7. end = e
    BY <1>4, <1>5, <2>2, <2>5, <2>6
  <2>8. SubSeq(t, p, e) = o
    <3>1. p <= e /\ e - p + 1 = Len(o)
      BY <1>4, <2>1
    <3> DEFINE s == SubSeq(t, p, e)
    <3>2. s \in Seq(Mark) /\ Len(s) = e - p + 1 /\ \A i \in 1..(e - p + 1) : s[i] = t[p + i - 1]
      <4> HIDE DEF e
      <4> QED  BY <1>1, <2>2, <3>1, PartOf
    <3> HIDE DEF s
    <3>3. \A i \in 1..Len(o) : t[p + i - 1] = o[i]
      BY <1>2, <2>1 DEF ShownAt
    <3>4. Len(s) = Len(o) /\ \A i \in 1..Len(s) : s[i] = o[i]
      BY <3>1, <3>2, <3>3
    <3>5. s = o
      BY <1>4, <3>2, <3>4, SameMarks
    <3> QED  BY <3>5 DEF s
  <2>9. start > 0 /\ end >= start
    BY <1>3, <1>4, <2>7
  <2> HIDE DEF e
  <2> QED  BY <1>1, <1>3, <2>7, <2>8, <2>9 DEF JR!ValidJSON
<1>9. /\ found \in {JR!NoObject, o} /\ (cut => found = JR!NoObject)
      /\ ~cut /\ "rbrace" \notin rest => found = o
  BY <1>7, <1>8
<1>10. found = OutermostOf(t)
  BY Zenon DEF start, end, OutermostOf
<1> HIDE DEF found
<1> QED  BY <1>9, <1>10

-----------------------------------------------------------------------------
(* The texts of replies.                                                   *)

LEMMA Joined ==
  ASSUME NEW s \in Seq(Mark), NEW t \in Seq(Mark)
  PROVE  /\ s \o t \in Seq(Mark) /\ Len(s \o t) = Len(s) + Len(t)
         /\ \A i \in 1..Len(s) : (s \o t)[i] = s[i]
         /\ \A i \in 1..Len(t) : (s \o t)[Len(s) + i] = t[i]
<1>1. Len(s) \in Nat /\ Len(t) \in Nat
  OBVIOUS
<1>2. /\ s \o t \in Seq(Mark) /\ Len(s \o t) = Len(s) + Len(t)
      /\ \A i \in 1..Len(s) + Len(t) : (s \o t)[i] = IF i <= Len(s) THEN s[i] ELSE t[i - Len(s)]
  BY ConcatProperties
<1>3. ASSUME NEW i \in 1..Len(s) PROVE (s \o t)[i] = s[i]
  <2>1. i \in 1..Len(s) + Len(t) /\ i <= Len(s)
    BY <1>1
  <2> QED  BY <1>2, <2>1
<1>4. ASSUME NEW i \in 1..Len(t) PROVE (s \o t)[Len(s) + i] = t[i]
  <2>1. Len(s) + i \in 1..Len(s) + Len(t) /\ ~(Len(s) + i <= Len(s)) /\ Len(s) + i - Len(s) = i
    BY <1>1
  <2> QED  BY <1>2, <2>1
<1> QED  BY <1>2, <1>3, <1>4

(* An object that may be cut off, with prose around it.                    *)
Worded(inner, before, o, n, after) ==
  /\ inner \in Seq(Mark) /\ Len(inner) = Len(before) + n + Len(after)
  /\ \A i \in 1..Len(before) : inner[i] = before[i]
  /\ \A i \in 1..n : inner[Len(before) + i] = o[i]
  /\ \A i \in 1..Len(after) : inner[Len(before) + n + i] = after[i]

LEMMA ReplyIsWorded ==
  ASSUME NEW before \in Seq(Mark), NEW o \in Objects, NEW n \in 1..Len(o), NEW after \in Seq(Mark)
  PROVE  Worded(before \o SubSeq(o, 1, n) \o after, before, o, n, after)
<1> DEFINE s == SubSeq(o, 1, n)
           bs == before \o s
           inner == bs \o after
<1>1. o \in Seq(Mark) /\ Len(o) \in Nat /\ Len(before) \in Nat /\ Len(after) \in Nat /\ n \in Nat
  <2>1. Len(before) \in Nat /\ Len(after) \in Nat
    OBVIOUS
  <2>2. o \in Seq(Mark) /\ Len(o) \in Nat
    BY ObjectMarks
  <2> QED  BY <2>1, <2>2
<1>2. s \in Seq(Mark) /\ Len(s) = n /\ \A i \in 1..n : s[i] = o[i]
  <2>1. 1 \in 1..Len(o) /\ 1 <= n /\ n - 1 + 1 = n /\ \A i \in 1..n : 1 + i - 1 = i
    BY <1>1
  <2>2. /\ SubSeq(o, 1, n) \in Seq(Mark) /\ Len(SubSeq(o, 1, n)) = n - 1 + 1
        /\ \A i \in 1..(n - 1 + 1) : SubSeq(o, 1, n)[i] = o[1 + i - 1]
    BY <1>1, <2>1, PartOf
  <2>3. \A i \in 1..n : SubSeq(o, 1, n)[i] = o[1 + i - 1]
    BY <2>1, <2>2
  <2> QED  BY <2>1, <2>2, <2>3
<1> HIDE DEF s
<1>3. /\ bs \in Seq(Mark) /\ Len(bs) = Len(before) + n
      /\ \A i \in 1..Len(before) : bs[i] = before[i]
      /\ \A i \in 1..n : bs[Len(before) + i] = s[i]
  BY <1>2, Joined
<1> HIDE DEF bs
<1>4. /\ inner \in Seq(Mark) /\ Len(inner) = Len(bs) + Len(after)
      /\ \A i \in 1..Len(bs) : inner[i] = bs[i]
      /\ \A i \in 1..Len(after) : inner[Len(bs) + i] = after[i]
  BY <1>3, Joined
<1> HIDE DEF inner
<1>5. \A i \in 1..Len(before) : inner[i] = before[i]
  <2> TAKE i \in 1..Len(before)
  <2>1. i \in 1..Len(bs)
    BY <1>1, <1>3
  <2> QED  BY <1>3, <1>4, <2>1
<1>6. \A i \in 1..n : inner[Len(before) + i] = o[i]
  <2> TAKE i \in 1..n
  <2>1. Len(before) + i \in 1..Len(bs)
    BY <1>1, <1>3
  <2> QED  BY <1>2, <1>3, <1>4, <2>1
<1>7. \A i \in 1..Len(after) : inner[Len(before) + n + i] = after[i]
  BY <1>3, <1>4
<1>8. Len(inner) = Len(before) + n + Len(after)
  BY <1>1, <1>3, <1>4
<1>9. Worded(inner, before, o, n, after)
  BY <1>4, <1>5, <1>6, <1>7, <1>8 DEF Worded
<1> QED  BY <1>9 DEF inner, bs, s

(* Of a text around it, k marks of a fence stand before and l behind.      *)
Fenced(t, inner, k, l) ==
  /\ t \in Seq(Mark) /\ Len(t) = k + Len(inner) + l
  /\ \A i \in 1..k : t[i] \in {"fence", "char", "newline"}
  /\ \A i \in 1..Len(inner) : t[k + i] = inner[i]
  /\ \A i \in 1..l : t[k + Len(inner) + i] \in {"fence", "newline"}
MayFollow(cut, after) ==
  IF cut THEN {"fence", "newline"} ELSE IF JR!First(after, "rbrace") = 0 THEN Mark \ {"rbrace"} ELSE Mark

LEMMA FencedHolds ==
  ASSUME NEW before \in Seq(Mark), NEW o \in Objects, NEW n \in 1..Len(o), NEW after \in Seq(Mark), NEW cut,
         cut <=> n < Len(o), n = Len(o) \/ after = <<>>, JR!First(before, "lbrace") = 0,
         NEW inner, Worded(inner, before, o, n, after), NEW t, NEW k \in Nat, NEW l \in Nat, Fenced(t, inner, k, l)
  PROVE  HoldsObject(t, o, cut, MayFollow(cut, after))
<1> DEFINE b == Len(before)
           p == k + b + 1
           rest == MayFollow(cut, after)
<1>1. /\ Len(o) \in Nat /\ b \in Nat /\ Len(after) \in Nat /\ n \in Nat /\ n > 0 /\ n <= Len(o) /\ t \in Seq(Mark)
      /\ Len(t) = k + (b + n + Len(after)) + l /\ Len(inner) = b + n + Len(after)
  <2>1. b \in Nat /\ Len(after) \in Nat
    OBVIOUS
  <2> QED  BY <2>1, ObjectMarks DEF Fenced, Worded
<1>2. p \in 1..Len(t) /\ p + n - 1 <= Len(t) /\ p \in Nat
  BY <1>1
<1>3. \A i \in 1..(p - 1) : t[i] # "lbrace"
  <2> TAKE i \in 1..(p - 1)
  <2>1. CASE i <= k
    <3>1. i \in 1..k
      BY <2>1
    <3> QED  BY <3>1 DEF Fenced
  <2>2. CASE i > k
    <3>1. PICK j \in Int : j = i - k
      BY <1>1
    <3>2. j \in 1..b /\ j \in 1..Len(inner) /\ k + j = i
      BY <1>1, <2>2, <3>1
    <3>3. t[i] = before[j]
      BY <3>2 DEF Fenced, Worded
    <3>4. Places(before, "lbrace") = {}
      <4>1. 0 \notin Places(before, "lbrace")
        BY DEF Places
      <4> QED  BY <4>1, FirstIs
    <3> QED  BY <3>2, <3>3, <3>4 DEF Places
  <2> QED  BY <1>1, <2>1, <2>2
<1>4. \A i \in 1..n : t[p + i - 1] = o[i]
  <2> TAKE i \in 1..n
  <2>1. b + i \in 1..Len(inner) /\ p + i - 1 = k + (b + i)
    BY <1>1
  <2>2. t[k + (b + i)] = inner[b + i]
    BY <2>1 DEF Fenced
  <2>3. inner[b + i] = o[i]
    BY DEF Worded
  <2> QED  BY <2>1, <2>2, <2>3
<1>5. {"fence", "newline"} \subseteq rest
  BY DEF MayFollow, Mark
<1>6. \A i \in 1..Len(after) : after[i] \in rest
  <2>1. CASE cut
    <3>1. after = <<>>
      BY <1>1, <2>1
    <3>2. Len(after) = 0
      BY <3>1
    <3> QED  BY <3>2
  <2>2. CASE ~cut /\ JR!First(after, "rbrace") = 0
    <3>1. Places(after, "rbrace") = {}
      <4>1. 0 \notin Places(after, "rbrace")
        BY DEF Places
      <4> QED  BY <2>2, <4>1, FirstIs
    <3> QED  BY <2>2, <3>1 DEF Places, MayFollow
  <2>3. CASE ~cut /\ JR!First(after, "rbrace") # 0
    BY <2>3 DEF MayFollow
  <2> QED  BY <2>1, <2>2, <2>3
<1> HIDE DEF rest
<1>7. \A i \in (p + n)..Len(t) : t[i] \in rest
  <2> TAKE i \in (p + n)..Len(t)
  <2>0. i \in Int /\ k + b + n \in Int /\ k + Len(inner) \in Int
    BY <1>1, <1>2
  <2>1. CASE i <= k + Len(inner)
    <3> DEFINE j == i - (k + b + n)
    <3>2. j \in 1..Len(after) /\ b + n + j \in 1..Len(inner) /\ k + (b + n + j) = i
      BY <1>1, <2>0, <2>1
    <3> HIDE DEF j
    <3>3. t[k + (b + n + j)] = inner[b + n + j]
      BY <3>2 DEF Fenced
    <3>4. inner[b + n + j] = after[j]
      BY <3>2 DEF Worded
    <3> QED  BY <1>6, <3>2, <3>3, <3>4
  <2>2. CASE i > k + Len(inner)
    <3> DEFINE j == i - (k + Len(inner))
    <3>2. j \in 1..l /\ k + Len(inner) + j = i
      BY <1>1, <2>0, <2>2
    <3> HIDE DEF j
    <3> QED  BY <1>5, <3>2 DEF Fenced
  <2> QED  BY <1>1, <2>1, <2>2
<1> HIDE DEF p
<1>8. ShownAt(t, o, cut, rest, p, n)
  BY <1>2, <1>3, <1>4, <1>7 DEF ShownAt
<1> QED  BY <1>1, <1>2, <1>8 DEF HoldsObject, rest

-----------------------------------------------------------------------------
(* The fences.                                                             *)

Opens == <<"fence", "char", "newline">>
Closes == <<"newline", "fence">>

LEMMA BehindTheOpening ==
  ASSUME NEW inner \in Seq(Mark)
  PROVE  /\ Fenced(Opens \o inner, inner, 3, 0)
         /\ (Opens \o inner)[1] = "fence" /\ (Opens \o inner)[2] = "char" /\ (Opens \o inner)[3] = "newline"
<1> DEFINE t == Opens \o inner
<1>1. Len(inner) \in Nat
  OBVIOUS
<1>2. Opens \in Seq(Mark)
  BY DEF Opens, Mark
<1>3. Len(Opens) = 3 /\ Opens[1] = "fence" /\ Opens[2] = "char" /\ Opens[3] = "newline"
  BY DEF Opens
<1>4. /\ t \in Seq(Mark) /\ Len(t) = Len(Opens) + Len(inner)
      /\ \A i \in 1..Len(Opens) : t[i] = Opens[i]
      /\ \A i \in 1..Len(inner) : t[Len(Opens) + i] = inner[i]
  BY <1>2, Joined
<1> HIDE DEF t
<1>5. 1 \in 1..3 /\ 2 \in 1..3 /\ 3 \in 1..3 /\ \A i \in 1..3 : i = 1 \/ i = 2 \/ i = 3
  OBVIOUS
<1>6. t[1] = "fence" /\ t[2] = "char" /\ t[3] = "newline"
  BY <1>3, <1>4, <1>5
<1>7. \A i \in 1..3 : t[i] \in {"fence", "char", "newline"}
  BY <1>5, <1>6
<1>8. Len(t) = 3 + Len(inner) + 0 /\ \A i \in 1..Len(inner) : t[3 + i] = inner[i]
  BY <1>1, <1>3, <1>4
<1>9. Fenced(t, inner, 3, 0)
  BY <1>4, <1>7, <1>8 DEF Fenced
<1> QED  BY <1>6, <1>9 DEF t

LEMMA InTheBlock ==
  ASSUME NEW inner \in Seq(Mark)
  PROVE  LET t == (Opens \o inner) \o Closes
         IN  /\ Fenced(t, inner, 3, 2) /\ t[1] = "fence" /\ t[2] = "char" /\ t[3] = "newline"
             /\ t[4 + Len(inner)] = "newline" /\ t[5 + Len(inner)] = "fence"
<1> DEFINE oi == Opens \o inner
           t == oi \o Closes
<1>1. Len(inner) \in Nat
  OBVIOUS
<1>2. Closes \in Seq(Mark)
  BY DEF Closes, Mark
<1>3. Len(Closes) = 2 /\ Closes[1] = "newline" /\ Closes[2] = "fence"
  BY DEF Closes
<1>4. Fenced(oi, inner, 3, 0) /\ oi[1] = "fence" /\ oi[2] = "char" /\ oi[3] = "newline"
  BY BehindTheOpening
<1> HIDE DEF oi
<1>5. /\ oi \in Seq(Mark) /\ Len(oi) = 3 + Len(inner)
      /\ \A i \in 1..3 : oi[i] \in {"fence", "char", "newline"}
      /\ \A i \in 1..Len(inner) : oi[3 + i] = inner[i]
  BY <1>1, <1>4 DEF Fenced
<1>6. /\ t \in Seq(Mark) /\ Len(t) = Len(oi) + Len(Closes)
      /\ \A i \in 1..Len(oi) : t[i] = oi[i]
      /\ \A i \in 1..Len(Closes) : t[Len(oi) + i] = Closes[i]
  BY <1>2, <1>5, Joined
<1> HIDE DEF t
<1>7. \A i \in 1..3 : i \in 1..Len(oi)
  BY <1>1, <1>5
<1>8. 1 \in 1..3 /\ 2 \in 1..3 /\ 3 \in 1..3 /\ 1 \in 1..2 /\ 2 \in 1..2 /\ \A i \in 1..2 : i = 1 \/ i = 2
  OBVIOUS
<1>9. t[1] = "fence" /\ t[2] = "char" /\ t[3] = "newline" /\ \A i \in 1..3 : t[i] \in {"fence", "char", "newline"}
  BY <1>4, <1>5, <1>6, <1>7, <1>8
<1>10. \A i \in 1..2 : t[3 + Len(inner) + i] = Closes[i]
  BY <1>3, <1>5, <1>6
<1>11. t[4 + Len(inner)] = "newline" /\ t[5 + Len(inner)] = "fence"
  <2>1. 3 + Len(inner) + 1 = 4 + Len(inner) /\ 3 + Len(inner) + 2 = 5 + Len(inner)
    BY <1>1
  <2>2. t[3 + Len(inner) + 1] = Closes[1] /\ t[3 + Len(inner) + 2] = Closes[2]
    BY <1>8, <1>10
  <2> QED  BY <1>3, <2>1, <2>2
<1>12. \A i \in 1..2 : t[3 + Len(inner) + i] \in {"fence", "newline"}
  BY <1>3, <1>8, <1>10
<1>13. \A i \in 1..Len(inner) : t[3 + i] = inner[i]
  <2> TAKE i \in 1..Len(inner)
  <2>1. 3 + i \in 1..Len(oi)
    BY <1>1, <1>5
  <2> QED  BY <1>5, <1>6, <2>1
<1>14. Len(t) = 3 + Len(inner) + 2
  BY <1>1, <1>3, <1>5, <1>6
<1>15. Fenced(t, inner, 3, 2)
  BY <1>6, <1>9, <1>12, <1>13, <1>14 DEF Fenced
<1> QED  BY <1>9, <1>11, <1>15 DEF t, oi

LEMMA InTheLine ==
  ASSUME NEW inner \in Seq(Mark)
  PROVE  LET t == (<<"fence">> \o inner) \o <<"fence">>
         IN  Fenced(t, inner, 1, 1) /\ t[1] = "fence" /\ t[2 + Len(inner)] = "fence"
<1> DEFINE f == <<"fence">>
           fi == f \o inner
           t == fi \o f
<1>1. Len(inner) \in Nat
  OBVIOUS
<1>2. f \in Seq(Mark)
  BY DEF Mark
<1>3. Len(f) = 1 /\ f[1] = "fence"
  OBVIOUS
<1> HIDE DEF f
<1>4. /\ fi \in Seq(Mark) /\ Len(fi) = Len(f) + Len(inner)
      /\ \A i \in 1..Len(f) : fi[i] = f[i]
      /\ \A i \in 1..Len(inner) : fi[Len(f) + i] = inner[i]
  BY <1>2, Joined
<1> HIDE DEF fi
<1>5. /\ t \in Seq(Mark) /\ Len(t) = Len(fi) + Len(f)
      /\ \A i \in 1..Len(fi) : t[i] = fi[i]
      /\ \A i \in 1..Len(f) : t[Len(fi) + i] = f[i]
  BY <1>2, <1>4, Joined
<1> HIDE DEF t
<1>6. 1 \in 1..1 /\ (\A i \in 1..1 : i = 1) /\ 1 \in 1..Len(fi) /\ Len(fi) + 1 = 2 + Len(inner) /\ Len(fi) = 1 + Len(inner)
  BY <1>1, <1>3, <1>4
<1>7. t[1] = "fence" /\ t[2 + Len(inner)] = "fence"
  BY <1>3, <1>4, <1>5, <1>6
<1>8. \A i \in 1..Len(inner) : t[1 + i] = inner[i]
  <2> TAKE i \in 1..Len(inner)
  <2>1. 1 + i \in 1..Len(fi)
    BY <1>1, <1>6
  <2> QED  BY <1>3, <1>4, <1>5, <2>1
<1>9. \A i \in 1..1 : t[i] = "fence" /\ t[1 + Len(inner) + i] = "fence"
  <2>1. 1 + Len(inner) + 1 = 2 + Len(inner)
    BY <1>1
  <2> QED  BY <1>6, <1>7, <2>1
<1>10. Len(t) = 1 + Len(inner) + 1
  BY <1>1, <1>3, <1>5, <1>6
<1>11. Fenced(t, inner, 1, 1)
  BY <1>5, <1>8, <1>9, <1>10 DEF Fenced
<1> QED  BY <1>7, <1>11 DEF t, fi, f

LEMMA NoFence == ASSUME NEW inner \in Seq(Mark) PROVE Fenced(inner, inner, 0, 0)
<1>1. Len(inner) \in Nat
  OBVIOUS
<1>2. Len(inner) = 0 + Len(inner) + 0 /\ \A i \in 1..Len(inner) : 0 + i = i
  BY <1>1
<1>3. \A i \in 1..Len(inner) : inner[0 + i] = inner[i]
  BY <1>2
<1> QED  BY <1>2, <1>3 DEF Fenced

\* A text that begins and ends with no line's end has nothing to trim.
LEMMA NothingToTrim ==
  ASSUME NEW t \in Seq(Mark), Len(t) > 0, t[1] # "newline", t[Len(t)] # "newline"
  PROVE  JR!TrimSpace(t) = t
<1> DEFINE inner == {i \in DOMAIN t : t[i] # "newline"}
           a == CHOOSE i \in inner : \A j \in inner : i <= j
           b == CHOOSE i \in inner : \A j \in inner : i >= j
<1>1. Len(t) \in Nat /\ DOMAIN t = 1..Len(t) /\ 1 \in inner /\ Len(t) \in inner /\ inner \subseteq 1..Len(t)
  <2>1. Len(t) \in Nat /\ DOMAIN t = 1..Len(t)
    OBVIOUS
  <2> QED  BY <2>1
<1>2. JR!TrimSpace(t) = SubSeq(t, a, b)
  <2>1. inner # {}
    BY <1>1
  <2> QED  BY <2>1, Zenon DEF JR!TrimSpace
<1> HIDE DEF inner
<1>3. a = 1
  <2>1. \A j \in inner : 1 <= j /\ j \in Nat
    BY <1>1
  <2>2. 1 \in inner /\ \A j \in inner : 1 <= j
    BY <1>1, <2>1
  <2>3. a \in inner /\ a <= 1
    BY <2>2
  <2> QED  BY <2>1, <2>3
<1>4. b = Len(t)
  <2>1. \A j \in inner : Len(t) >= j /\ j \in Nat
    BY <1>1
  <2>2. b \in inner /\ b >= Len(t)
    BY <1>1, <2>1
  <2> HIDE DEF b
  <2>3. Len(t) >= b /\ b \in Nat
    BY <2>1, <2>2
  <2>4. Len(t) \in Nat
    OBVIOUS
  <2> QED  BY <2>2, <2>3, <2>4
<1> HIDE DEF a, b
<1>5. SubSeq(t, 1, Len(t)) = t
  <2> DEFINE s == SubSeq(t, 1, Len(t))
  <2>1. Len(t) \in 1..Len(t) /\ 1 \in 1..Len(t) /\ 1 <= Len(t) /\ Len(t) - 1 + 1 = Len(t)
        /\ \A i \in 1..Len(t) : 1 + i - 1 = i
    BY <1>1
  <2>2. s \in Seq(Mark) /\ Len(s) = Len(t) - 1 + 1 /\ \A i \in 1..(Len(t) - 1 + 1) : s[i] = t[1 + i - 1]
    BY <2>1, PartOf
  <2>3. Len(s) = Len(t) /\ \A i \in 1..Len(s) : s[i] = t[i]
    BY <2>1, <2>2
  <2> HIDE DEF s
  <2> QED  BY <2>2, <2>3, SameMarks DEF s
<1> QED  BY <1>2, <1>3, <1>4, <1>5

-----------------------------------------------------------------------------
(* What is read of a reply.                                                *)

NoMark(inner, mark) == \A i \in 1..Len(inner) : inner[i] # mark
InFence(t, inner, fence) ==
  \/ fence = "none" /\ t = inner
  \/ /\ fence = "block" /\ Fenced(t, inner, 3, 2)
     /\ t[1] = "fence" /\ t[2] = "char" /\ t[3] = "newline"
     /\ t[4 + Len(inner)] = "newline" /\ t[5 + Len(inner)] = "fence"
  \/ /\ fence = "open" /\ NoMark(inner, "newline") /\ Fenced(t, inner, 3, 0)
     /\ t[1] = "fence" /\ t[2] = "char" /\ t[3] = "newline"
  \/ /\ fence = "inline" /\ NoMark(inner, "newline") /\ Fenced(t, inner, 1, 1)
     /\ t[1] = "fence" /\ t[2 + Len(inner)] = "fence"

\* Where the lines of a text end.
LEMMA LinesEnd ==
  ASSUME NEW t \in Seq(Mark), NEW k \in Places(t, "newline"), \A i \in Places(t, "newline") : k <= i
  PROVE  JR!First(t, "newline") = k
<1>1. Len(t) \in Nat /\ k \in Nat
  <2>1. Len(t) \in Nat
    OBVIOUS
  <2> QED  BY <2>1 DEF Places
<1>2. JR!First(t, "newline") \in Places(t, "newline") /\ JR!First(t, "newline") <= k /\ k <= JR!First(t, "newline")
  BY FirstIs
<1>3. JR!First(t, "newline") \in Nat
  BY <1>1, <1>2 DEF Places
<1> QED  BY <1>1, <1>2, <1>3

LEMMA LastLineEnds ==
  ASSUME NEW t \in Seq(Mark), NEW k \in Places(t, "newline"), \A i \in Places(t, "newline") : i <= k
  PROVE  JR!LastOf(t, "newline") = k
<1>1. Len(t) \in Nat /\ k \in Nat
  <2>1. Len(t) \in Nat
    OBVIOUS
  <2> QED  BY <2>1 DEF Places
<1>2. JR!LastOf(t, "newline") \in Places(t, "newline") /\ JR!LastOf(t, "newline") <= k /\ k <= JR!LastOf(t, "newline")
  BY LastIs
<1>3. JR!LastOf(t, "newline") \in Nat
  BY <1>1, <1>2 DEF Places
<1> QED  BY <1>1, <1>2, <1>3

LEMMA HeadIs == ASSUME NEW t \in Seq(Mark), Len(t) > 0 PROVE Head(t) = t[1]
  OBVIOUS

\* The first and the last line of a block are its fences, an open fence is a line of its own,
\* and what is on one line with its fences has no lines.
LEMMA LinesOfFence ==
  ASSUME NEW t, NEW inner \in Seq(Mark), NEW fence, InFence(t, inner, fence), Len(inner) > 0, NoMark(inner, "fence")
  PROVE  /\ t \in Seq(Mark) /\ Len(t) \in Nat /\ Len(t) > 0 /\ Head(t) = t[1] /\ Len(inner) \in Nat
         /\ fence = "none" => Head(t) # "fence"
         /\ fence = "block" => /\ JR!First(t, "newline") = 3 /\ JR!LastOf(t, "newline") = 4 + Len(inner)
                               /\ Len(t) = 5 + Len(inner)
         /\ fence = "open" => /\ JR!First(t, "newline") = 3 /\ JR!LastOf(t, "newline") = 3
                              /\ Len(t) = 3 + Len(inner) /\ t[3 + 1] # "fence" /\ t[Len(t)] # "newline"
         /\ fence = "inline" => JR!First(t, "newline") = 0 /\ JR!LastOf(t, "newline") = 0 /\ Len(t) = 2 + Len(inner)
<1>1. Len(inner) \in Nat
  OBVIOUS
<1>2. t \in Seq(Mark) /\ Len(t) > 0
  <2>1. CASE t = inner
    BY <2>1
  <2>2. ASSUME NEW k \in Nat, NEW l \in Nat, Fenced(t, inner, k, l) PROVE t \in Seq(Mark) /\ Len(t) > 0
    BY <1>1, <2>2 DEF Fenced
  <2> QED  BY <2>1, <2>2 DEF InFence
<1>3. Len(t) \in Nat /\ Head(t) = t[1]
  BY <1>2, HeadIs
<1>4. fence = "none" => Head(t) # "fence"
  <2> SUFFICES ASSUME fence = "none" PROVE t[1] # "fence"
    BY <1>3
  <2>1. t = inner /\ 1 \in 1..Len(inner)
    BY <1>1 DEF InFence
  <2> QED  BY <2>1 DEF NoMark
<1>5. fence = "block" => /\ JR!First(t, "newline") = 3 /\ JR!LastOf(t, "newline") = 4 + Len(inner)
                         /\ Len(t) = 5 + Len(inner)
  <2> SUFFICES ASSUME fence = "block"
               PROVE  /\ JR!First(t, "newline") = 3 /\ JR!LastOf(t, "newline") = 4 + Len(inner)
                      /\ Len(t) = 5 + Len(inner)
    OBVIOUS
  <2>1. /\ Fenced(t, inner, 3, 2) /\ t[1] = "fence" /\ t[2] = "char" /\ t[3] = "newline"
        /\ t[4 + Len(inner)] = "newline" /\ t[5 + Len(inner)] = "fence"
    BY DEF InFence
  <2>2. Len(t) = 5 + Len(inner)
    BY <1>1, <2>1 DEF Fenced
  <2>3. 3 \in Places(t, "newline") /\ 4 + Len(inner) \in Places(t, "newline")
    BY <1>1, <2>1, <2>2 DEF Places
  <2>4. \A i \in Places(t, "newline") : 3 <= i /\ i <= 4 + Len(inner)
    <3> SUFFICES ASSUME NEW i \in 1..Len(t), t[i] = "newline" PROVE 3 <= i /\ i <= 4 + Len(inner)
      BY DEF Places
    <3>1. i # 1 /\ i # 2 /\ i # 5 + Len(inner)
      BY <2>1
    <3> QED  BY <1>1, <2>2, <3>1
  <2> QED  BY <1>2, <2>2, <2>3, <2>4, LinesEnd, LastLineEnds
<1>6. fence = "open" => /\ JR!First(t, "newline") = 3 /\ JR!LastOf(t, "newline") = 3
                        /\ Len(t) = 3 + Len(inner) /\ t[3 + 1] # "fence" /\ t[Len(t)] # "newline"
  <2> SUFFICES ASSUME fence = "open"
               PROVE  /\ JR!First(t, "newline") = 3 /\ JR!LastOf(t, "newline") = 3
                      /\ Len(t) = 3 + Len(inner) /\ t[3 + 1] # "fence" /\ t[Len(t)] # "newline"
    OBVIOUS
  <2>1. /\ Fenced(t, inner, 3, 0) /\ t[1] = "fence" /\ t[2] = "char" /\ t[3] = "newline"
        /\ NoMark(inner, "newline")
    BY DEF InFence
  <2>2. Len(t) = 3 + Len(inner)
    BY <1>1, <2>1 DEF Fenced
  <2>3. 3 \in Places(t, "newline")
    BY <1>1, <2>1, <2>2 DEF Places
  <2>4. \A i \in 1..Len(inner) : t[3 + i] = inner[i]
    BY <2>1 DEF Fenced
  <2>5. \A i \in Places(t, "newline") : i = 3
    <3> SUFFICES ASSUME NEW i \in 1..Len(t), t[i] = "newline", i # 3 PROVE FALSE
      BY DEF Places
    <3>1. i # 1 /\ i # 2
      BY <2>1
    <3> DEFINE j == i - 3
    <3>2. j \in 1..Len(inner) /\ 3 + j = i
      BY <1>1, <2>2, <3>1
    <3> HIDE DEF j
    <3> QED  BY <2>1, <2>4, <3>2 DEF NoMark
  <2>6. t[3 + 1] = inner[1] /\ t[3 + Len(inner)] = inner[Len(inner)] /\ 1 \in 1..Len(inner) /\ Len(inner) \in 1..Len(inner)
    <3>1. 1 \in 1..Len(inner) /\ Len(inner) \in 1..Len(inner)
      BY <1>1
    <3> QED  BY <2>4, <3>1
  <2>7. t[3 + 1] # "fence" /\ t[Len(t)] # "newline"
    BY <2>1, <2>2, <2>6 DEF NoMark
  <2>8. \A i \in Places(t, "newline") : 3 <= i /\ i <= 3
    BY <2>5
  <2> QED  BY <1>2, <2>2, <2>3, <2>7, <2>8, LinesEnd, LastLineEnds
<1>7. fence = "inline" => JR!First(t, "newline") = 0 /\ JR!LastOf(t, "newline") = 0 /\ Len(t) = 2 + Len(inner)
  <2> SUFFICES ASSUME fence = "inline"
               PROVE  JR!First(t, "newline") = 0 /\ JR!LastOf(t, "newline") = 0 /\ Len(t) = 2 + Len(inner)
    OBVIOUS
  <2>1. Fenced(t, inner, 1, 1) /\ t[1] = "fence" /\ t[2 + Len(inner)] = "fence" /\ NoMark(inner, "newline")
    BY DEF InFence
  <2>2. Len(t) = 2 + Len(inner)
    BY <1>1, <2>1 DEF Fenced
  <2>3. Places(t, "newline") = {}
    <3> SUFFICES ASSUME NEW i \in 1..Len(t), t[i] = "newline" PROVE FALSE
      BY DEF Places
    <3>1. i # 1 /\ i # 2 + Len(inner)
      BY <2>1
    <3> DEFINE j == i - 1
    <3>2. j \in 1..Len(inner) /\ 1 + j = i
      BY <1>1, <2>2, <3>1
    <3> HIDE DEF j
    <3>3. t[1 + j] = inner[j]
      BY <2>1, <3>2 DEF Fenced
    <3> QED  BY <2>1, <3>2, <3>3 DEF NoMark
  <2> QED  BY <1>2, <2>2, <2>3, FirstIs, LastIs
<1> QED  BY <1>1, <1>2, <1>3, <1>4, <1>5, <1>6, <1>7

\* What is left of it without the fence's lines holds the object too.
LEMMA WithinTheFence ==
  ASSUME NEW t, NEW inner \in Seq(Mark), NEW fence, InFence(t, inner, fence), Len(inner) > 0, NoMark(inner, "fence"),
         NEW o, NEW cut, NEW rest, HoldsObject(t, o, cut, rest)
  PROVE  /\ fence = "block" => HoldsObject(SubSeq(t, 4, 3 + Len(inner)), o, cut, rest)
         /\ fence = "open" => HoldsObject(SubSeq(t, 4, Len(t)), o, cut, rest)
<1>1. Len(inner) \in Nat
  OBVIOUS
<1>2. CASE fence = "block"
  <2>1. Fenced(t, inner, 3, 2) /\ t[4 + Len(inner)] = "newline" /\ t[5 + Len(inner)] = "fence"
    BY <1>2 DEF InFence
  <2>2. Len(t) = 5 + Len(inner)
    BY <1>1, <2>1 DEF Fenced
  <2>3. \A i \in 1..Len(t) : i < 4 \/ 3 + Len(inner) < i => t[i] \notin {"lbrace", "rbrace"}
    <3> SUFFICES ASSUME NEW i \in 1..Len(t), i < 4 \/ 3 + Len(inner) < i PROVE t[i] \notin {"lbrace", "rbrace"}
      OBVIOUS
    <3>1. i \in 1..3 \/ i = 4 + Len(inner) \/ i = 5 + Len(inner)
      BY <1>1, <2>2
    <3> QED  BY <2>1, <3>1 DEF Fenced
  <2>4. PICK a \in 1..Len(t), b \in 1..Len(t) : a = 4 /\ b = 3 + Len(inner) /\ a <= b
    BY <1>1, <2>2
  <2>5. HoldsObject(SubSeq(t, a, b), o, cut, rest)
    BY <2>3, <2>4, HeldWithin
  <2> QED  BY <1>2, <2>4, <2>5
<1>3. CASE fence = "open"
  <2>1. Fenced(t, inner, 3, 0)
    BY <1>3 DEF InFence
  <2>2. Len(t) = 3 + Len(inner)
    BY <1>1, <2>1 DEF Fenced
  <2>3. \A i \in 1..Len(t) : i < 4 \/ Len(t) < i => t[i] \notin {"lbrace", "rbrace"}
    <3> SUFFICES ASSUME NEW i \in 1..Len(t), i < 4 \/ Len(t) < i PROVE t[i] \notin {"lbrace", "rbrace"}
      OBVIOUS
    <3>1. i \in 1..3
      BY <1>1, <2>2
    <3> QED  BY <2>1, <3>1 DEF Fenced
  <2>4. PICK a \in 1..Len(t), b \in 1..Len(t) : a = 4 /\ b = Len(t) /\ a <= b
    BY <1>1, <2>2
  <2>5. HoldsObject(SubSeq(t, a, b), o, cut, rest)
    BY <2>3, <2>4, HeldWithin
  <2> QED  BY <1>3, <2>4, <2>5
<1> QED  BY <1>2, <1>3

LEMMA StrippedHolds ==
  ASSUME NEW t, NEW inner \in Seq(Mark), NEW fence, InFence(t, inner, fence), Len(inner) > 0, NoMark(inner, "fence"),
         NEW o, NEW cut, NEW rest, HoldsObject(t, o, cut, rest)
  PROVE  HoldsObject(JR!StripJSONFence(JR!TrimSpace(t)), o, cut, rest)
<1>1. /\ t \in Seq(Mark) /\ Len(t) \in Nat /\ Len(t) > 0 /\ Head(t) = t[1] /\ Len(inner) \in Nat
      /\ fence = "none" => Head(t) # "fence"
      /\ fence = "block" => /\ JR!First(t, "newline") = 3 /\ JR!LastOf(t, "newline") = 4 + Len(inner)
                            /\ Len(t) = 5 + Len(inner)
      /\ fence = "open" => /\ JR!First(t, "newline") = 3 /\ JR!LastOf(t, "newline") = 3
                           /\ Len(t) = 3 + Len(inner) /\ t[3 + 1] # "fence" /\ t[Len(t)] # "newline"
      /\ fence = "inline" => JR!First(t, "newline") = 0 /\ JR!LastOf(t, "newline") = 0 /\ Len(t) = 2 + Len(inner)
  BY LinesOfFence
<1>2. CASE fence = "none"
  <2> DEFINE u == JR!TrimSpace(t)
  <2>1. HoldsObject(u, o, cut, rest) /\ \A i \in 1..Len(u) : \E j \in 1..Len(t) : u[i] = t[j]
    BY TrimmedHolds
  <2> HIDE DEF u
  <2>2. u \in Seq(Mark) /\ Len(u) \in Nat /\ 1 \in 1..Len(u)
    <3>1. u \in Seq(Mark) /\ \E p \in 1..Len(u) : TRUE
      BY <2>1 DEF HoldsObject
    <3>2. Len(u) \in Nat
      BY <3>1
    <3> QED  BY <3>1, <3>2
  <2>3. Head(u) = u[1]
    BY <2>2, HeadIs
  <2>4. t = inner
    BY <1>2 DEF InFence
  <2>5. Head(u) # "fence"
    BY <2>1, <2>2, <2>3, <2>4 DEF NoMark
  <2>6. JR!StripJSONFence(u) = u
    BY <2>5 DEF JR!StripJSONFence
  <2> QED  BY <2>1, <2>6 DEF u
<1>3. fence # "none" => t[1] = "fence"
  BY DEF InFence
<1>4. fence # "none" => JR!TrimSpace(t) = t
  <2> SUFFICES ASSUME fence # "none" PROVE JR!TrimSpace(t) = t
    OBVIOUS
  <2>1. t[Len(t)] # "newline"
    BY <1>1 DEF InFence
  <2>2. t[1] # "newline"
    BY <1>3
  <2> QED  BY <1>1, <2>1, <2>2, NothingToTrim
<1>5. CASE fence = "block"
  <2> DEFINE s == SubSeq(t, 4, 3 + Len(inner))
  <2>1. t[(4 + Len(inner)) + 1] = "fence"
    <3>1. (4 + Len(inner)) + 1 = 5 + Len(inner)
      BY <1>1
    <3> QED  BY <1>5, <3>1 DEF InFence
  <2>2. PICK first, last : first = JR!First(t, "newline") /\ last = JR!LastOf(t, "newline")
    OBVIOUS
  <2>3. first = 3 /\ last = 4 + Len(inner) /\ Head(t) = "fence" /\ t[last + 1] = "fence" /\ last < Len(t) /\ first # 0
    BY <1>1, <1>3, <1>5, <2>1, <2>2
  <2>4. JR!StripJSONFence(t) = JR!TrimSpace(SubSeq(t, first + 1, last - 1))
    BY <2>2, <2>3, Zenon DEF JR!StripJSONFence
  <2>5. first + 1 = 4 /\ last - 1 = 3 + Len(inner)
    BY <1>1, <2>3
  <2>6. JR!StripJSONFence(t) = JR!TrimSpace(s)
    BY <2>4, <2>5
  <2>7. HoldsObject(s, o, cut, rest)
    BY <1>5, WithinTheFence
  <2> HIDE DEF s
  <2>8. HoldsObject(JR!TrimSpace(s), o, cut, rest)
    BY <2>7, TrimmedHolds
  <2> QED  BY <1>4, <1>5, <2>6, <2>8
<1>6. CASE fence = "open"
  <2> DEFINE s == SubSeq(t, 4, Len(t))
  <2>2. PICK first, last : first = JR!First(t, "newline") /\ last = JR!LastOf(t, "newline")
    OBVIOUS
  <2>3. first = 3 /\ last = 3 /\ Head(t) = "fence" /\ t[last + 1] # "fence" /\ first # 0
    BY <1>1, <1>3, <1>6, <2>2
  <2>4. JR!StripJSONFence(t) = JR!TrimSpace(SubSeq(t, first + 1, Len(t)))
    BY <2>2, <2>3, Zenon DEF JR!StripJSONFence
  <2>5. first + 1 = 4
    BY <2>3
  <2>6. JR!StripJSONFence(t) = JR!TrimSpace(s)
    BY <2>4, <2>5
  <2>7. HoldsObject(s, o, cut, rest)
    BY <1>6, WithinTheFence
  <2> HIDE DEF s
  <2>8. HoldsObject(JR!TrimSpace(s), o, cut, rest)
    BY <2>7, TrimmedHolds
  <2> QED  BY <1>4, <1>6, <2>6, <2>8
<1>7. CASE fence = "inline"
  <2>1. JR!StripJSONFence(t) = t
    BY <1>1, <1>7 DEF JR!StripJSONFence
  <2> QED  BY <1>4, <1>7, <2>1
<1> QED  BY <1>2, <1>5, <1>6, <1>7 DEF InFence

OuterOf(t) ==
  IF Head(t) = "fence" /\ JR!First(t, "newline") < JR!LastOf(t, "newline")
    THEN SubSeq(t, JR!First(t, "newline") + 1, JR!LastOf(t, "newline") - 1) ELSE t

LEMMA OuterHolds ==
  ASSUME NEW t, NEW inner \in Seq(Mark), NEW fence, InFence(t, inner, fence), Len(inner) > 0, NoMark(inner, "fence"),
         NEW o, NEW cut, NEW rest, HoldsObject(t, o, cut, rest)
  PROVE  HoldsObject(OuterOf(t), o, cut, rest)
<1>1. /\ Len(inner) \in Nat
      /\ fence = "none" => Head(t) # "fence"
      /\ fence = "block" => JR!First(t, "newline") = 3 /\ JR!LastOf(t, "newline") = 4 + Len(inner)
      /\ fence = "open" => JR!First(t, "newline") = 3 /\ JR!LastOf(t, "newline") = 3
      /\ fence = "inline" => JR!First(t, "newline") = 0 /\ JR!LastOf(t, "newline") = 0
  BY LinesOfFence
<1>2. CASE fence = "block"
  <2>1. JR!First(t, "newline") + 1 = 4 /\ JR!LastOf(t, "newline") - 1 = 3 + Len(inner)
    BY <1>1, <1>2
  <2>2. OuterOf(t) = SubSeq(t, 4, 3 + Len(inner)) \/ OuterOf(t) = t
    BY <2>1, Zenon DEF OuterOf
  <2> QED  BY <1>2, <2>2, WithinTheFence
<1>3. CASE fence # "block"
  <2>1. OuterOf(t) = t
    BY <1>1, <1>3 DEF OuterOf, InFence
  <2> QED  BY <2>1
<1> QED  BY <1>2, <1>3

-----------------------------------------------------------------------------
(* The replies.                                                            *)

IsReply(r, o, n, before, after, cut, fence) ==
  /\ o \in Objects /\ n \in 1..Len(o) /\ <<before, after>> \in Proses /\ fence \in Fences
  /\ n = Len(o) \/ after = <<>>
  /\ cut \in BOOLEAN /\ (cut <=> n < Len(o))
  /\ r = [before |-> before, object |-> SubSeq(o, 1, n), after |-> after, cut |-> cut, fence |-> fence]

LEMMA ProseIs ==
  ASSUME NEW before, NEW after, <<before, after>> \in Proses
  PROVE  /\ before \in Seq(Mark) /\ after \in Seq(Mark) /\ NoMark(before, "fence") /\ NoMark(after, "fence")
         /\ ~(Fences \subseteq {"none", "block"}) => NoMark(before, "newline") /\ NoMark(after, "newline")
<1> DEFINE p == <<before, after>>
<1>1. p \in Proses /\ p[1] = before /\ p[2] = after /\ 1 \in {1, 2} /\ 2 \in {1, 2}
  OBVIOUS
<1>2. before \in Seq(Mark) /\ after \in Seq(Mark)
  BY ReplyAssumption
<1>3. DOMAIN before = 1..Len(before) /\ DOMAIN after = 1..Len(after)
  BY <1>2
<1> HIDE DEF p
<1>4. (\A i \in DOMAIN before : before[i] # "fence") /\ \A i \in DOMAIN after : after[i] # "fence"
  <2>1. \A k \in {1, 2} : \A i \in DOMAIN p[k] : p[k][i] # "fence"
    BY <1>1, ReplyAssumption
  <2>2. (\A i \in DOMAIN p[1] : p[1][i] # "fence") /\ \A i \in DOMAIN p[2] : p[2][i] # "fence"
    BY <1>1, <2>1, Zenon
  <2> QED  BY <1>1, <2>2
<1>5. ~(Fences \subseteq {"none", "block"})
        => (\A i \in DOMAIN before : before[i] # "newline") /\ \A i \in DOMAIN after : after[i] # "newline"
  <2> SUFFICES ASSUME ~(Fences \subseteq {"none", "block"})
               PROVE  (\A i \in DOMAIN before : before[i] # "newline") /\ \A i \in DOMAIN after : after[i] # "newline"
    OBVIOUS
  <2>1. \A k \in {1, 2} : \A i \in DOMAIN p[k] : p[k][i] # "newline"
    BY <1>1, ReplyAssumption
  <2>2. (\A i \in DOMAIN p[1] : p[1][i] # "newline") /\ \A i \in DOMAIN p[2] : p[2][i] # "newline"
    BY <1>1, <2>1, Zenon
  <2> QED  BY <1>1, <2>2
<1> QED  BY <1>2, <1>3, <1>4, <1>5 DEF NoMark

LEMMA WordedMarks ==
  ASSUME NEW before \in Seq(Mark), NEW o \in Objects, NEW n \in 1..Len(o), NEW after \in Seq(Mark),
         NEW inner, Worded(inner, before, o, n, after), NEW mark,
         NoMark(before, mark), NoMark(o, mark), NoMark(after, mark)
  PROVE  NoMark(inner, mark)
<1>1. Len(before) \in Nat /\ Len(after) \in Nat /\ Len(o) \in Nat
  <2>1. Len(before) \in Nat /\ Len(after) \in Nat
    OBVIOUS
  <2> QED  BY <2>1, ObjectMarks
<1>2. Len(inner) = Len(before) + n + Len(after)
  BY DEF Worded
<1> SUFFICES ASSUME NEW i \in 1..Len(inner) PROVE inner[i] # mark
  BY DEF NoMark
<1>3. CASE i <= Len(before)
  <2>1. i \in 1..Len(before)
    BY <1>1, <1>3
  <2> QED  BY <2>1 DEF Worded, NoMark
<1>4. CASE i > Len(before) /\ i <= Len(before) + n
  <2> DEFINE j == i - Len(before)
  <2>1. j \in 1..n /\ j \in 1..Len(o) /\ Len(before) + j = i
    BY <1>1, <1>4
  <2> HIDE DEF j
  <2>2. inner[Len(before) + j] = o[j]
    BY <2>1 DEF Worded
  <2> QED  BY <2>1, <2>2 DEF NoMark
<1>5. CASE i > Len(before) + n
  <2> DEFINE j == i - (Len(before) + n)
  <2>1. j \in 1..Len(after) /\ Len(before) + n + j = i
    BY <1>1, <1>2, <1>5
  <2> HIDE DEF j
  <2>2. inner[Len(before) + n + j] = after[j]
    BY <2>1 DEF Worded
  <2> QED  BY <2>1, <2>2 DEF NoMark
<1>6. i \in Int /\ Len(before) + n \in Int
  BY <1>1, <1>2
<1> QED  BY <1>1, <1>3, <1>4, <1>5, <1>6

LEMMA ReplyHolds ==
  ASSUME NEW r, NEW o, NEW n, NEW before, NEW after, NEW cut, NEW fence, IsReply(r, o, n, before, after, cut, fence)
  PROVE  \E inner \in Seq(Mark) :
           /\ InFence(JR!Text(r), inner, fence) /\ Len(inner) > 0 /\ NoMark(inner, "fence")
           /\ JR!First(before, "lbrace") = 0 => HoldsObject(JR!Text(r), o, cut, MayFollow(cut, after))
<1>1. /\ o \in Objects /\ n \in 1..Len(o) /\ <<before, after>> \in Proses /\ fence \in Fences
      /\ n = Len(o) \/ after = <<>>
      /\ cut \in BOOLEAN /\ (cut <=> n < Len(o))
  BY DEF IsReply
<1>2. /\ r.before = before /\ r.object = SubSeq(o, 1, n) /\ r.after = after /\ r.fence = fence
  BY DEF IsReply
<1>3. /\ before \in Seq(Mark) /\ after \in Seq(Mark) /\ NoMark(before, "fence") /\ NoMark(after, "fence")
      /\ ~(Fences \subseteq {"none", "block"}) => NoMark(before, "newline") /\ NoMark(after, "newline")
  BY <1>1, ProseIs
<1>4. /\ o \in Seq(Mark) /\ Len(o) \in Nat /\ NoMark(o, "fence")
      /\ ~(Fences \subseteq {"none", "block"}) => NoMark(o, "newline")
  <2>1. o \in Seq(Mark) /\ Len(o) \in Nat /\ DOMAIN o = 1..Len(o) /\ NoMark(o, "fence")
    BY <1>1, ObjectMarks DEF NoMark
  <2>2. ~(Fences \subseteq {"none", "block"}) => \A i \in DOMAIN o : o[i] # "newline"
    BY <1>1, ReplyAssumption
  <2> QED  BY <2>1, <2>2 DEF NoMark
<1> DEFINE whole == before \o SubSeq(o, 1, n) \o after
<1>5. Worded(whole, before, o, n, after)
  BY <1>1, <1>3, ReplyIsWorded
<1>6. PICK inner \in Seq(Mark) : inner = whole /\ Worded(inner, before, o, n, after)
  BY <1>5 DEF Worded
<1> HIDE DEF whole
<1>7. Len(inner) > 0
  <2>1. Len(before) \in Nat /\ Len(after) \in Nat /\ n \in Nat /\ n > 0
    <3>1. Len(before) \in Nat /\ Len(after) \in Nat
      BY <1>3
    <3> QED  BY <1>1, <1>4, <3>1
  <2>2. Len(inner) = Len(before) + n + Len(after)
    BY <1>6 DEF Worded
  <2> QED  BY <2>1, <2>2
<1>8. NoMark(inner, "fence")
  BY <1>1, <1>3, <1>4, <1>6, WordedMarks
<1>9. ~(Fences \subseteq {"none", "block"}) => NoMark(inner, "newline")
  <2> SUFFICES ASSUME ~(Fences \subseteq {"none", "block"}) PROVE NoMark(inner, "newline")
    OBVIOUS
  <2>1. NoMark(before, "newline") /\ NoMark(o, "newline") /\ NoMark(after, "newline")
    BY <1>3, <1>4
  <2> QED  BY <1>1, <1>3, <1>6, <2>1, WordedMarks
<1>10. fence \in {"none", "block", "open", "inline"} /\ (fence \in {"open", "inline"} => NoMark(inner, "newline"))
  <2>1. Fences \subseteq {"none", "block", "open", "inline"}
    BY ReplyAssumption
  <2> QED  BY <1>1, <1>9, <2>1
<1>11. InFence(JR!Text(r), inner, fence) /\ \E k, l \in Nat : Fenced(JR!Text(r), inner, k, l)
  <2>0. inner = r.before \o r.object \o r.after
    BY <1>2, <1>6 DEF whole
  <2>1. CASE fence = "none"
    <3>1. JR!Text(r) = inner
      BY <1>2, <2>0, <2>1 DEF JR!Text
    <3>2. Fenced(inner, inner, 0, 0)
      BY NoFence
    <3> QED  BY <2>1, <3>1, <3>2 DEF InFence
  <2>2. CASE fence = "block"
    <3>1. JR!Text(r) = (Opens \o inner) \o Closes
      BY <1>2, <2>0, <2>2 DEF JR!Text, Opens, Closes
    <3> QED  BY <2>2, <3>1, InTheBlock DEF InFence
  <2>3. CASE fence = "open"
    <3>1. JR!Text(r) = Opens \o inner
      BY <1>2, <2>0, <2>3 DEF JR!Text, Opens
    <3> QED  BY <1>10, <2>3, <3>1, BehindTheOpening DEF InFence
  <2>4. CASE fence = "inline"
    <3>1. JR!Text(r) = (<<"fence">> \o inner) \o <<"fence">>
      BY <1>2, <2>0, <2>4 DEF JR!Text
    <3> QED  BY <1>10, <2>4, <3>1, InTheLine DEF InFence
  <2> QED  BY <1>10, <2>1, <2>2, <2>3, <2>4
<1>12. ASSUME JR!First(before, "lbrace") = 0 PROVE HoldsObject(JR!Text(r), o, cut, MayFollow(cut, after))
  <2>1. PICK k \in Nat, l \in Nat : Fenced(JR!Text(r), inner, k, l)
    BY <1>11
  <2>2. PICK t : t = JR!Text(r)
    OBVIOUS
  <2>3. HoldsObject(t, o, cut, MayFollow(cut, after))
    BY <1>1, <1>3, <1>6, <1>12, <2>1, <2>2, FencedHolds
  <2> QED  BY <2>2, <2>3
<1> QED  BY <1>7, <1>8, <1>11, <1>12

\* What the two forms find in such a reply.
LEMMA ReplyIsRead ==
  ASSUME NEW r, NEW o, NEW n, NEW before, NEW after, NEW cut, NEW fence, IsReply(r, o, n, before, after, cut, fence),
         JR!First(before, "lbrace") = 0
  PROVE  /\ JR!ExtractJSONObject(JR!Text(r)) = IF cut THEN JR!NoObject ELSE o
         /\ JR!ExtractOuterObject(JR!Text(r)) \in {JR!NoObject, o}
         /\ cut => JR!ExtractOuterObject(JR!Text(r)) = JR!NoObject
         /\ ~cut /\ JR!First(after, "rbrace") = 0 => JR!ExtractOuterObject(JR!Text(r)) = o
<1>1. PICK t : t = JR!Text(r)
  OBVIOUS
<1>2. PICK rest : rest = MayFollow(cut, after)
  OBVIOUS
<1>3. PICK inner \in Seq(Mark) :
        /\ InFence(t, inner, fence) /\ Len(inner) > 0 /\ NoMark(inner, "fence")
        /\ HoldsObject(t, o, cut, rest)
  BY <1>1, <1>2, ReplyHolds
<1>4. cut => rest \subseteq {"fence", "newline"}
  BY <1>2 DEF MayFollow
<1>5. ~cut /\ JR!First(after, "rbrace") = 0 => ~cut /\ "rbrace" \notin rest
  BY <1>2 DEF MayFollow
<1>6. JR!ExtractJSONObject(t) = IF cut THEN JR!NoObject ELSE o
  <2>1. PICK u : u = JR!StripJSONFence(JR!TrimSpace(t))
    OBVIOUS
  <2>2. HoldsObject(u, o, cut, rest)
    BY <1>3, <2>1, StrippedHolds
  <2>3. JR!ExtractJSONObject(t) = ScannedOf(u)
    BY <2>1, Zenon DEF JR!ExtractJSONObject, ScannedOf
  <2> QED  BY <1>4, <2>2, <2>3, ScanExtracts
<1>7. /\ JR!ExtractOuterObject(t) \in {JR!NoObject, o} /\ (cut => JR!ExtractOuterObject(t) = JR!NoObject)
      /\ ~cut /\ "rbrace" \notin rest => JR!ExtractOuterObject(t) = o
  <2>1. PICK u : u = OuterOf(t)
    OBVIOUS
  <2>2. HoldsObject(u, o, cut, rest)
    BY <1>3, <2>1, OuterHolds
  <2>3. JR!ExtractOuterObject(t) = OutermostOf(u)
    BY <2>1, Zenon DEF JR!ExtractOuterObject, OuterOf, OutermostOf
  <2> QED  BY <1>4, <2>2, <2>3, OuterExtracts
<1> QED  BY <1>1, <1>5, <1>6, <1>7

LEMMA RepliesStart == JR!Init => JR!ExtractedIsTheObject
  BY DEF JR!Init, JR!ExtractedIsTheObject

\* A reply is read once, and what is found of it then is what the property says.
LEMMA RepliesStep ==
  ASSUME JR!ExtractedIsTheObject, [JR!Next]_replyVars
  PROVE  JR!ExtractedIsTheObject'
<1>1. CASE UNCHANGED replyVars
  BY <1>1 DEF replyVars, JR!ExtractedIsTheObject
<1>2. CASE JR!Receive
  <2>1. PICK o \in Objects, prose \in Proses, fence \in Fences : \E n \in 1..Len(o) :
          /\ n = Len(o) \/ prose[2] = <<>>
          /\ modelReply' = [before |-> prose[1], object |-> SubSeq(o, 1, n), after |-> prose[2],
                            cut |-> n < Len(o), fence |-> fence]
    BY <1>2 DEF JR!Receive
  <2>2. PICK n \in 1..Len(o) :
          /\ n = Len(o) \/ prose[2] = <<>>
          /\ modelReply' = [before |-> prose[1], object |-> SubSeq(o, 1, n), after |-> prose[2],
                            cut |-> n < Len(o), fence |-> fence]
    BY <2>1
  <2>3. extracted' = JR!ExtractJSONObject(JR!Text(modelReply')) /\ extractedOuter' = JR!ExtractOuterObject(JR!Text(modelReply'))
    BY <1>2 DEF JR!Receive
  <2>4. PICK before, after : before = prose[1] /\ after = prose[2] /\ <<before, after>> \in Proses
    <3>1. prose \in Seq(Mark) \X Seq(Mark)
      BY ReplyAssumption
    <3>2. prose = <<prose[1], prose[2]>>
      BY <3>1
    <3> QED  BY <3>2
  <2>5. PICK cut \in BOOLEAN : cut <=> n < Len(o)
    OBVIOUS
  <2>6. PICK r : r = modelReply'
    OBVIOUS
  <2>7. r = [before |-> before, object |-> SubSeq(o, 1, n), after |-> after, cut |-> cut, fence |-> fence]
    <3>1. (n < Len(o)) = cut
      BY <2>5
    <3> QED  BY <2>2, <2>4, <2>6, <3>1
  <2>8. IsReply(r, o, n, before, after, cut, fence)
    BY <2>2, <2>4, <2>5, <2>7 DEF IsReply
  <2>9. r.before = before /\ r.after = after /\ r.cut = cut /\ r.object = SubSeq(o, 1, n)
    BY <2>7
  <2>10. ~cut => r.object = o
    <3> SUFFICES ASSUME ~cut PROVE SubSeq(o, 1, n) = o
      BY <2>9
    <3>1. o \in Seq(Mark) /\ Len(o) \in Nat /\ Len(o) > 1
      BY ObjectMarks
    <3>2. n = Len(o) /\ 1 \in 1..Len(o) /\ 1 <= n /\ n - 1 + 1 = n /\ \A i \in 1..n : 1 + i - 1 = i
      BY <2>5, <3>1
    <3>3. /\ SubSeq(o, 1, n) \in Seq(Mark) /\ Len(SubSeq(o, 1, n)) = n - 1 + 1
          /\ \A i \in 1..(n - 1 + 1) : SubSeq(o, 1, n)[i] = o[1 + i - 1]
      BY <3>1, <3>2, PartOf
    <3>4. Len(SubSeq(o, 1, n)) = Len(o) /\ \A i \in 1..Len(SubSeq(o, 1, n)) : SubSeq(o, 1, n)[i] = o[i]
      BY <3>2, <3>3
    <3> QED  BY <3>1, <3>3, <3>4, SameMarks
  <2>11. ASSUME JR!First(before, "lbrace") = 0
         PROVE  /\ extracted' = IF cut THEN JR!NoObject ELSE o
                /\ extractedOuter' \in {JR!NoObject, o}
                /\ cut => extractedOuter' = JR!NoObject
                /\ ~cut /\ JR!First(after, "rbrace") = 0 => extractedOuter' = o
    BY <2>3, <2>6, <2>8, <2>11, ReplyIsRead
  <2>12. ASSUME JR!First(r.before, "lbrace") = 0
         PROVE  /\ extracted' = IF r.cut THEN JR!NoObject ELSE r.object
                /\ extractedOuter' \in {JR!NoObject, r.object}
                /\ r.cut => extractedOuter' = JR!NoObject
                /\ ~r.cut /\ JR!First(r.after, "rbrace") = 0 => extractedOuter' = r.object
    <3>1. CASE cut
      BY <2>9, <2>11, <2>12, <3>1
    <3>2. CASE ~cut
      BY <2>9, <2>10, <2>11, <2>12, <3>2
    <3> QED  BY <2>5, <3>1, <3>2
  <2> QED  BY <2>6, <2>12 DEF JR!ExtractedIsTheObject
<1> QED  BY <1>1, <1>2 DEF JR!Next

\* What is taken for an object begins with a brace, and no number does.
LEMMA OuterIsObject ==
  ASSUME NEW u \in Seq(Mark)
  PROVE  OutermostOf(u) \in Objects \cup {JR!NoObject}
<1>1. PICK start, end : start = JR!First(u, "lbrace") /\ end = JR!LastOf(u, "rbrace")
  OBVIOUS
<1>2. PICK part : part = SubSeq(u, start, end)
  OBVIOUS
<1>3. OutermostOf(u) = IF start > 0 /\ end >= start /\ JR!ValidJSON(part) THEN part ELSE JR!NoObject
  BY <1>1, <1>2 DEF OutermostOf
<1>4. CASE start > 0 /\ end >= start /\ JR!ValidJSON(part)
  <2>1. Len(u) \in Nat
    OBVIOUS
  <2>2. start \in 1..Len(u) /\ u[start] = "lbrace"
    <3>1. start = 0 \/ start \in Places(u, "lbrace")
      BY <1>1, FirstIs
    <3> QED  BY <1>4, <3>1 DEF Places
  <2>3. end = 0 \/ end \in 1..Len(u)
    <3>1. end = 0 \/ end \in Places(u, "rbrace")
      BY <1>1, LastIs
    <3> QED  BY <3>1 DEF Places
  <2>4. end \in 1..Len(u) /\ start <= end
    BY <1>4, <2>1, <2>2, <2>3
  <2>5. \A i \in 1..(end - start + 1) : part[i] = u[start + i - 1]
    BY <1>2, <2>2, <2>4, PartOf
  <2>6. 1 \in 1..(end - start + 1) /\ start + 1 - 1 = start
    BY <2>1, <2>2, <2>4
  <2>7. part[1] = "lbrace"
    BY <2>2, <2>5, <2>6
  <2>8. part # <<"char">>
    <3>1. part = <<"char">> => part[1] = "char"
      OBVIOUS
    <3> QED  BY <2>7, <3>1
  <2>9. part \in Objects
    BY <1>4, <2>8 DEF JR!ValidJSON
  <2> QED  BY <1>3, <1>4, <2>9
<1>5. CASE ~(start > 0 /\ end >= start /\ JR!ValidJSON(part))
  BY <1>3, <1>5
<1> QED  BY <1>4, <1>5

LEMMA RepliesFound ==
  ASSUME NEW r, NEW o, NEW n, NEW before, NEW after, NEW cut, NEW fence, IsReply(r, o, n, before, after, cut, fence)
  PROVE  /\ JR!ExtractJSONObject(JR!Text(r)) \in Objects \cup {JR!NoObject, <<"char">>}
         /\ JR!ExtractOuterObject(JR!Text(r)) \in Objects \cup {JR!NoObject}
<1>1. PICK t : t = JR!Text(r)
  OBVIOUS
<1>2. JR!ExtractJSONObject(t) \in Objects \cup {JR!NoObject, <<"char">>}
  <2>1. PICK u : u = JR!StripJSONFence(JR!TrimSpace(t))
    OBVIOUS
  <2>2. JR!ExtractJSONObject(t) = ScannedOf(u)
    BY <2>1, Zenon DEF JR!ExtractJSONObject, ScannedOf
  <2>3. PICK part : part = SubSeq(u, JR!First(u, "lbrace"), JR!ScanEnd(u, JR!First(u, "lbrace")))
    OBVIOUS
  <2>4. (JR!ValidJSON(u) /\ ScannedOf(u) = u) \/ (JR!ValidJSON(part) /\ ScannedOf(u) = part) \/ ScannedOf(u) = JR!NoObject
    BY <2>3, Zenon DEF ScannedOf
  <2> QED  BY <2>2, <2>4 DEF JR!ValidJSON
<1>3. JR!ExtractOuterObject(t) \in Objects \cup {JR!NoObject}
  <2>1. PICK inner \in Seq(Mark) : InFence(t, inner, fence) /\ Len(inner) > 0 /\ NoMark(inner, "fence")
    BY <1>1, ReplyHolds
  <2>2. PICK u : u = OuterOf(t)
    OBVIOUS
  <2>3. JR!ExtractOuterObject(t) = OutermostOf(u)
    BY <2>2, Zenon DEF JR!ExtractOuterObject, OuterOf, OutermostOf
  <2>4. /\ t \in Seq(Mark) /\ Len(t) \in Nat /\ Len(inner) \in Nat
        /\ fence = "none" => Head(t) # "fence"
        /\ fence = "block" => JR!First(t, "newline") = 3 /\ JR!LastOf(t, "newline") = 4 + Len(inner) /\ Len(t) = 5 + Len(inner)
        /\ fence = "open" => JR!First(t, "newline") = 3 /\ JR!LastOf(t, "newline") = 3
        /\ fence = "inline" => JR!First(t, "newline") = 0 /\ JR!LastOf(t, "newline") = 0
    BY <2>1, LinesOfFence
  <2>5. CASE fence = "block"
    <3>1. JR!First(t, "newline") + 1 = 4 /\ JR!LastOf(t, "newline") - 1 = 3 + Len(inner)
      BY <2>4, <2>5
    <3>2. u = SubSeq(t, 4, 3 + Len(inner)) \/ u = t
      BY <2>2, <3>1, Zenon DEF OuterOf
    <3>3. PICK last : last = 3 + Len(inner)
      OBVIOUS
    <3>4. 4 \in 1..Len(t) /\ last \in 1..Len(t) /\ 4 <= last
      BY <2>1, <2>4, <2>5, <3>3
    <3>5. SubSeq(t, 4, last) \in Seq(Mark)
      BY <2>4, <3>4, PartOf
    <3>6. u \in Seq(Mark)
      BY <2>4, <3>2, <3>3, <3>5
    <3> QED  BY <2>3, <3>6, OuterIsObject
  <2>6. CASE fence # "block"
    <3>1. u = t
      BY <2>1, <2>2, <2>4, <2>6 DEF OuterOf, InFence
    <3> QED  BY <2>3, <2>4, <3>1, OuterIsObject
  <2> QED  BY <2>5, <2>6
<1> QED  BY <1>1, <1>2, <1>3

LEMMA RepliesTypesStart == JR!Init => JR!TypeOK
  BY Zenon DEF JR!Init, JR!TypeOK

LEMMA RepliesTypesStep == JR!TypeOK /\ [JR!Next]_replyVars => JR!TypeOK'
<1> SUFFICES ASSUME JR!TypeOK, [JR!Next]_replyVars PROVE JR!TypeOK'
  OBVIOUS
<1>1. CASE UNCHANGED replyVars
  BY <1>1 DEF replyVars, JR!TypeOK
<1>2. CASE JR!Receive
  <2>1. PICK o \in Objects, prose \in Proses, fence \in Fences : \E n \in 1..Len(o) :
          /\ n = Len(o) \/ prose[2] = <<>>
          /\ modelReply' = [before |-> prose[1], object |-> SubSeq(o, 1, n), after |-> prose[2],
                            cut |-> n < Len(o), fence |-> fence]
    BY <1>2 DEF JR!Receive
  <2>10. PICK n \in 1..Len(o) :
          /\ n = Len(o) \/ prose[2] = <<>>
          /\ modelReply' = [before |-> prose[1], object |-> SubSeq(o, 1, n), after |-> prose[2],
                            cut |-> n < Len(o), fence |-> fence]
    BY <2>1
  <2>2. prose = <<prose[1], prose[2]>>
    <3>1. prose \in Seq(Mark) \X Seq(Mark)
      BY ReplyAssumption
    <3> QED  BY <3>1
  <2>3. PICK before, after : before = prose[1] /\ after = prose[2] /\ <<before, after>> \in Proses
    BY <2>2
  <2>4. PICK cut \in BOOLEAN : cut <=> n < Len(o)
    OBVIOUS
  <2>5. modelReply' = [before |-> before, object |-> SubSeq(o, 1, n), after |-> after, cut |-> cut, fence |-> fence]
    <3>1. (n < Len(o)) = cut
      BY <2>4
    <3> QED  BY <2>10, <2>3, <3>1
  <2>6. IsReply(modelReply', o, n, before, after, cut, fence)
    BY <2>10, <2>3, <2>4, <2>5 DEF IsReply
  <2>7. PICK r : r = modelReply'
    OBVIOUS
  <2>8. /\ JR!ExtractJSONObject(JR!Text(r)) \in Objects \cup {JR!NoObject, <<"char">>}
        /\ JR!ExtractOuterObject(JR!Text(r)) \in Objects \cup {JR!NoObject}
    BY <2>6, <2>7, RepliesFound
  <2>9. extracted' = JR!ExtractJSONObject(JR!Text(r)) /\ extractedOuter' = JR!ExtractOuterObject(JR!Text(r))
    BY <1>2, <2>7 DEF JR!Receive
  <2> QED  BY <2>8, <2>9, Zenon DEF JR!TypeOK, JR!NoObject
<1> QED  BY <1>1, <1>2 DEF JR!Next

---------------------------------------------------------------------------
(* reflection/critique.                                                    *)

VARIABLES output, critiques, refined
critiqueVars == <<output, critiques, refined>>
CR == INSTANCE CritiqueLoop

Review == [draft : Nat, score : Int, approved : BOOLEAN, tool : BOOLEAN]

\* One critique for every plan but perhaps the last, each plan made from the critique
\* before it, and an end with the critique that calls for it.
PlansAndCritiques ==
  /\ output.draft \in Nat /\ critiques \in Seq(Review)
  /\ Len(critiques) <= output.draft /\ output.draft <= Len(critiques) + 1
  /\ output.draft > 0 => output.basis = output.draft - 1
  /\ refined \in {"converged", "exhausted"} =>
       Len(critiques) > 0 /\ Len(critiques) = output.draft
ApprovedIsLast ==
  /\ \A i \in 1..Len(critiques) :
       /\ critiques[i].draft = i
       /\ critiques[i].approved => i = Len(critiques) /\ refined = "converged"
  /\ refined = "converged" => critiques[Len(critiques)].approved
CritiqueInv == PlansAndCritiques /\ ApprovedIsLast

LEMMA CritiqueStarts == CR!Init => CritiqueInv
<1> SUFFICES ASSUME CR!Init PROVE CritiqueInv
  OBVIOUS
<1>1. critiques = << >>
  BY Zenon DEF CR!Init
<1>2. critiques \in Seq(Review) /\ Len(critiques) = 0
  BY <1>1
<1>3. output.draft = 0 /\ refined \notin {"converged", "exhausted"}
  <2>1. output.draft = 0
    BY Zenon DEF CR!Init
  <2>2. refined \notin {"converged", "exhausted"}
    BY DEF CR!Init
  <2> QED  BY <2>1, <2>2
<1>4. PlansAndCritiques
  BY <1>2, <1>3 DEF PlansAndCritiques
<1>5. ApprovedIsLast
  BY <1>2, <1>3 DEF ApprovedIsLast
<1> QED  BY <1>4, <1>5 DEF CritiqueInv

LEMMA CritiqueSteps == ASSUME CritiqueInv, [CR!Next]_critiqueVars PROVE CritiqueInv'
<1>1. /\ PlansAndCritiques /\ ApprovedIsLast
      /\ Len(critiques) \in Nat /\ output.draft \in Nat /\ critiques \in Seq(Review)
  BY DEF CritiqueInv, PlansAndCritiques
<1>2. CASE CR!GenerateFirst
  <2>1. output.draft = 0 /\ critiques' = critiques /\ refined' = refined
        /\ output' = [draft |-> output.draft + 1, basis |-> Len(critiques)]
    BY Zenon, <1>2 DEF CR!GenerateFirst, CR!Regenerated
  <2>2. refined \notin {"converged", "exhausted"}
    BY <1>2 DEF CR!GenerateFirst
  <2>3. output'.draft = 1 /\ output'.basis = Len(critiques)
    BY <1>1, <2>1
  <2>4. PlansAndCritiques'
    BY <1>1, <2>1, <2>3, <2>2 DEF PlansAndCritiques
  <2> QED  BY <1>1, <2>1, <2>4, <2>2 DEF CritiqueInv, ApprovedIsLast
<1>3. CASE CR!Critique
  <2>1. PICK c \in Review :
          /\ critiques' = Append(critiques, c) /\ c.draft = output.draft
          /\ c.approved => refined' = "converged"
          /\ ~c.approved => refined' \notin {"converged", "exhausted"}
    <3>1. PICK approves \in BOOLEAN, tool \in BOOLEAN, score \in 0..Perfect :
            LET passes == approves \/ score >= QualityThreshold
            IN /\ critiques' = Append(critiques, [draft |-> output.draft, score |-> score,
                                              approved |-> passes, tool |-> tool])
               /\ refined' = IF passes THEN "converged" ELSE ""
      BY Zenon, <1>3 DEF CR!Critique
    <3> DEFINE c == [draft |-> output.draft, score |-> score,
                     approved |-> (approves \/ score >= QualityThreshold), tool |-> tool]
    <3>2. c \in Review
      BY <1>1 DEF Review
    <3>3. c.draft = output.draft /\ c.approved = (approves \/ score >= QualityThreshold)
      OBVIOUS
    <3> QED  BY Zenon, <3>1, <3>2, <3>3
  <2>2. /\ critiques' \in Seq(Review) /\ Len(critiques') = Len(critiques) + 1
        /\ critiques'[Len(critiques) + 1] = c
        /\ \A i \in 1..Len(critiques) : critiques'[i] = critiques[i]
    BY <1>1, <2>1
  <2>3. /\ refined \notin {"converged", "exhausted"}
        /\ output' = output /\ output.draft > 0 /\ Len(critiques) # output.draft
    BY Zenon, <1>3 DEF CR!Critique, CR!Criticised
  <2>4. Len(critiques) + 1 = output.draft /\ c.approved \in BOOLEAN
    BY <1>1, <2>3 DEF PlansAndCritiques, Review
  <2>5. PlansAndCritiques'
    BY <1>1, <2>2, <2>3, <2>4 DEF PlansAndCritiques
  <2>6. ASSUME NEW i \in 1..Len(critiques')
        PROVE  /\ critiques'[i].draft = i
               /\ critiques'[i].approved => i = Len(critiques') /\ refined' = "converged"
    <3>1. CASE i = Len(critiques) + 1
      BY <2>1, <2>2, <2>4, <3>1
    <3>2. CASE i # Len(critiques) + 1
      <4>1. i \in 1..Len(critiques)
        BY <1>1, <2>2, <3>2
      <4> QED  BY <1>1, <2>2, <2>3, <4>1 DEF ApprovedIsLast
    <3> QED  BY <3>1, <3>2
  <2>7. refined' = "converged" => critiques'[Len(critiques')].approved
    BY <2>1, <2>2
  <2> QED  BY <2>5, <2>6, <2>7 DEF CritiqueInv, ApprovedIsLast
<1>4. CASE CR!Regenerate
  <2>1. /\ output.draft > 0 /\ Len(critiques) = output.draft /\ critiques' = critiques
        /\ refined \notin {"converged", "exhausted"} /\ refined' # "converged"
        /\ Len(critiques) # MaxCritiques => refined' # "exhausted"
        /\ IF Len(critiques) < MaxCritiques
           THEN output' = [draft |-> output.draft + 1, basis |-> Len(critiques)]
           ELSE output' = output
    BY Zenon, <1>4 DEF CR!Regenerate, CR!Regenerated, CR!Criticised, CR!GoesOn
  <2>2. ApprovedIsLast'
    BY <1>1, <2>1 DEF ApprovedIsLast
  <2>3. CASE Len(critiques) < MaxCritiques
    <3>1. Len(critiques) # MaxCritiques
      BY <1>1, <2>3
    <3>2. output'.draft = output.draft + 1
          /\ output'.basis = Len(critiques)
      BY <1>1, <2>1, <2>3
    <3>3. PlansAndCritiques'
      BY <1>1, <2>1, <3>1, <3>2 DEF PlansAndCritiques
    <3> QED  BY <2>2, <3>3 DEF CritiqueInv
  <2>4. CASE ~(Len(critiques) < MaxCritiques)
    <3>1. PlansAndCritiques'
      BY <1>1, <2>1, <2>4 DEF PlansAndCritiques
    <3> QED  BY <2>2, <3>1 DEF CritiqueInv
  <2> QED  BY <2>3, <2>4
<1>5. CASE CR!ModelFails
  <2>1. refined # "converged" /\ refined' = "error" /\ output' = output /\ critiques' = critiques
    BY Zenon, <1>5 DEF CR!ModelFails
  <2> QED  BY <1>1, <2>1 DEF CritiqueInv, PlansAndCritiques, ApprovedIsLast
<1>6. CASE UNCHANGED critiqueVars
  BY <1>1, <1>6 DEF critiqueVars, CritiqueInv, PlansAndCritiques, ApprovedIsLast
<1> QED  BY <1>2, <1>3, <1>4, <1>5, <1>6 DEF CR!Next

LEMMA CritiqueShows == CritiqueInv => CR!OutputIsReviewed
<1> SUFFICES ASSUME CritiqueInv PROVE CR!OutputIsReviewed
  OBVIOUS
<1>1. /\ DOMAIN critiques = 1..Len(critiques) /\ Len(critiques) \in Nat
      /\ output.draft \in Nat /\ critiques \in Seq(Review) /\ PlansAndCritiques /\ ApprovedIsLast
  BY DEF CritiqueInv, PlansAndCritiques
<1>2. ASSUME refined \in {"converged", "exhausted"}
      PROVE  /\ critiques # << >> /\ CR!Last(critiques).draft = output.draft
             /\ CR!Last(critiques).approved <=> refined = "converged"
  <2>1. Len(critiques) > 0 /\ Len(critiques) = output.draft
    BY <1>1, <1>2 DEF PlansAndCritiques
  <2>2. Len(critiques) \in 1..Len(critiques) /\ CR!Last(critiques) = critiques[Len(critiques)]
    BY <1>1, <2>1 DEF CR!Last
  <2>3. critiques # << >>
    BY <1>1, <2>1
  <2> QED  BY <1>1, <2>1, <2>2, <2>3 DEF ApprovedIsLast
<1>3. output.basis = output.draft - 1 \/ output.draft = 0
  BY <1>1 DEF PlansAndCritiques
<1>4. \A i \in DOMAIN critiques : critiques[i].approved => i = Len(critiques)
  BY Zenon, <1>1 DEF ApprovedIsLast
<1> QED  BY <1>2, <1>3, <1>4 DEF CR!OutputIsReviewed

CritiqueTypes == output.draft <= MaxCritiques /\ refined \in {"", "converged", "exhausted", "error"}

LEMMA CritiqueTypesStart == CR!Init => CritiqueTypes
<1> SUFFICES ASSUME CR!Init PROVE CritiqueTypes
  OBVIOUS
<1>1. output.draft = 0
  BY Zenon DEF CR!Init
<1>2. output.draft <= MaxCritiques
  BY <1>1, CritiqueAssumption
<1>3. refined = ""
  BY DEF CR!Init
<1> QED  BY Zenon, <1>2, <1>3 DEF CritiqueTypes

LEMMA CritiqueTypesStep ==
  ASSUME CritiqueInv, CritiqueTypes, [CR!Next]_critiqueVars PROVE CritiqueTypes'
<1>1. output.draft \in Nat /\ Len(critiques) \in Nat /\ output.draft <= MaxCritiques
  <2>1. output.draft \in Nat /\ critiques \in Seq(Review) /\ output.draft <= MaxCritiques
    BY DEF CritiqueInv, PlansAndCritiques, CritiqueTypes
  <2> QED  BY <2>1, LenProperties
<1>2. refined' \in {"", "converged", "exhausted", "error"}
  BY Zenon DEF CritiqueTypes, CR!Next, CR!GenerateFirst, CR!Critique, CR!Regenerate, CR!ModelFails, critiqueVars
<1>3. output'.draft <= MaxCritiques
  <2>1. CASE CR!GenerateFirst
    <3>1. output.draft = 0 /\ output'.draft = output.draft + 1
      BY Zenon, <2>1 DEF CR!GenerateFirst, CR!Regenerated
    <3> QED  BY <3>1, CritiqueAssumption
  <2>2. CASE CR!Regenerate
    <3>1. Len(critiques) = output.draft
      BY <2>2, Zenon DEF CR!Regenerate, CR!Criticised
    <3>2. \/ Len(critiques) < MaxCritiques /\ output' = CR!Regenerated
          \/ output' = output
      BY <2>2, Zenon DEF CR!Regenerate, CR!GoesOn
    <3>3. CR!Regenerated.draft = output.draft + 1
      BY DEF CR!Regenerated
    <3> QED  BY <1>1, <3>1, <3>2, <3>3, CritiqueAssumption
  <2>3. CASE CR!Critique \/ CR!ModelFails \/ UNCHANGED critiqueVars
    <3>1. output' = output
      BY <2>3, Zenon DEF CR!Critique, CR!ModelFails, critiqueVars
    <3> QED  BY <1>1, <3>1
  <2> QED  BY <2>1, <2>2, <2>3 DEF CR!Next
<1> QED  BY Zenon, <1>2, <1>3 DEF CritiqueTypes

LEMMA CritiqueTypesShow == CritiqueInv /\ CritiqueTypes => CR!TypeOK
<1> SUFFICES ASSUME CritiqueInv, CritiqueTypes PROVE CR!TypeOK
  OBVIOUS
<1>1. output.draft \in Nat /\ critiques \in Seq(Review) /\ Len(critiques) <= output.draft
  BY DEF CritiqueInv, PlansAndCritiques
<1>2. output.draft <= MaxCritiques
  BY Zenon DEF CritiqueTypes
<1>3. Len(critiques) \in Nat
  BY <1>1, LenProperties
<1>4. Len(critiques) <= output.draft /\ Len(critiques) <= MaxCritiques
  BY <1>1, <1>2, <1>3, CritiqueAssumption
<1> QED  BY <1>4, Zenon DEF CritiqueTypes, CR!TypeOK
=============================================================================
