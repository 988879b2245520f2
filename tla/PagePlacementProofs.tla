------------------------- MODULE PagePlacementProofs -------------------------
(****************************************************************************)
(* What the interleave of PagePlacement guarantees for every number of      *)
(* segments and every length.                                               *)
(****************************************************************************)
EXTENDS PagePlacement, FiniteSetTheorems, TLAPS

\* The lighter node's share of both phases, for the first half of the ratios
\* and, mirrored, for the second: two truncations lose one page at most.
LEMMA TwoPhases ==
    ASSUME NEW p \in Nat, NEW l \in {0, 10, 20, 30, 40, 50}
    PROVE  /\ (2 * l * p) \div 100 \in 0..p
           /\ ((100 - l - l) * p) \div 100 \in 0..(p - ((2 * l * p) \div 100))
           /\ p - ((2 * l * p) \div 100) - (((100 - l - l) * p) \div 100) \in {0, 1}
<1>1. CASE l = 0
  BY <1>1, SMT
<1>2. CASE l = 10
  BY <1>2, SMT
<1>3. CASE l = 20
  BY <1>3, SMT
<1>4. CASE l = 30
  BY <1>4, SMT
<1>5. CASE l = 40
  BY <1>5, SMT
<1>6. CASE l = 50
  BY <1>6, SMT
<1> QED
  BY <1>1, <1>2, <1>3, <1>4, <1>5, <1>6

\* Half of the first b numbers have the parity c.
LEMMA HalfCount ==
    ASSUME NEW b \in Nat, NEW c \in {0, 1}
    PROVE  LET H == {j \in 0..(b - 1) : j % 2 = c}
           IN  IsFiniteSet(H) /\ Cardinality(H) = (b + 1 - c) \div 2
<1> DEFINE H == {j \in 0..(b - 1) : j % 2 = c}
           m == (b + 1 - c) \div 2
           f == [k \in 1..m |-> 2 * (k - 1) + c]
<1>1. m \in Nat /\ 2 * m <= b + 1 - c /\ b - c <= 2 * m
  BY SMT
<1> HIDE DEF m
<1>2. f \in [1..m -> H]
  <2> SUFFICES ASSUME NEW k \in 1..m PROVE 2 * (k - 1) + c \in H
    OBVIOUS
  <2>1. 2 * (k - 1) + c \in 0..(b - 1)
    BY <1>1
  <2>2. (2 * (k - 1) + c) % 2 = c
    BY <1>1, SMT
  <2> QED
    BY <2>1, <2>2
<1>3. f \in Injection(1..m, H)
  BY <1>1, <1>2 DEF Injection, IsInjective
<1>4. f \in Surjection(1..m, H)
  <2> SUFFICES ASSUME NEW j \in H PROVE \E k \in 1..m : f[k] = j
    BY <1>2 DEF Surjection
  <2> DEFINE k == (j - c) \div 2 + 1
  <2>1. j = 2 * ((j - c) \div 2) + c /\ (j - c) \div 2 \in Nat
    BY SMT
  <2>2. k \in 1..m /\ f[k] = j
    BY <1>1, <2>1
  <2> QED
    BY <2>2
<1>5. ExistsBijection(1..m, H)
  BY <1>3, <1>4 DEF ExistsBijection, Bijection
<1>6. IsFiniteSet(1..m) /\ Cardinality(1..m) = m
  BY <1>1, FS_Interval
<1> QED
  BY <1>5, <1>6, FS_Bijection DEF m

Lighter(r) == IF 100 - r <= r THEN 100 - r ELSE r

\* The two phases in terms of the lighter node's weight, and the nodes they use:
\* the lighter node comes first, node 0 at a tie.
LEMMA Phases ==
    ASSUME NEW p \in Nat, NEW r \in Steps
    PROVE  LET ws == get_new_weights_v2(r)
               l == Lighter(r)
           IN  /\ l \in {0, 10, 20, 30, 40, 50}
               /\ Both(p, ws) = (2 * l * p) \div 100
               /\ Alone(p, ws) = ((100 - l - l) * p) \div 100
               /\ Both(p, ws) \in 0..p
               /\ Alone(p, ws) \in 0..(p - Both(p, ws))
               /\ p - Allotted(p, ws) \in {0, 1}
               /\ ws[1].node = (IF r >= 50 THEN 0 ELSE 1)
               /\ ws[2].node = (IF r >= 50 THEN 1 ELSE 0)
<1> DEFINE ws == get_new_weights_v2(r)
           l == Lighter(r)
<1>1. r \in {0, 10, 20, 30, 40, 50, 60, 70, 80, 90, 100}
  BY DEF Steps, ADAPTATION_STEP
<1>2. l \in {0, 10, 20, 30, 40, 50} /\ (100 - r <= r <=> r >= 50)
  BY <1>1 DEF Lighter
<1>3. /\ ws[1].weight = l
      /\ ws[2].weight = 100 - l
      /\ ws[1].node = (IF r >= 50 THEN 0 ELSE 1)
      /\ ws[2].node = (IF r >= 50 THEN 1 ELSE 0)
  BY <1>1, <1>2 DEF get_new_weights_v2, Lighter
<1>4. ws[2].weight - ws[1].weight = 100 - l - l
  BY <1>2, <1>3
<1> HIDE DEF ws, l
<1>5. /\ (2 * l * p) \div 100 \in 0..p
      /\ ((100 - l - l) * p) \div 100 \in 0..(p - ((2 * l * p) \div 100))
      /\ p - ((2 * l * p) \div 100) - (((100 - l - l) * p) \div 100) \in {0, 1}
  BY <1>2, TwoPhases
<1>6. Both(p, ws) = (2 * l * p) \div 100
  <2>1. ~((2 * l * p) \div 100 > p)
    BY <1>5
  <2> QED
    BY <1>3, <2>1 DEF Both, AtMost
<1>7. Alone(p, ws) = ((100 - l - l) * p) \div 100
  <2>1. ~(((100 - l - l) * p) \div 100 > p - ((2 * l * p) \div 100))
    BY <1>5
  <2> QED
    BY <1>4, <1>6, <2>1 DEF Alone, AtMost
<1>8. p - Allotted(p, ws) \in {0, 1}
  <2> DEFINE B == (2 * l * p) \div 100
             A == ((100 - l - l) * p) \div 100
  <2>1. B \in 0..p /\ A \in 0..(p - B) /\ p - B - A \in {0, 1}
    BY <1>5
  <2>2. Allotted(p, ws) = B + A
    BY <1>6, <1>7 DEF Allotted
  <2> HIDE DEF B, A
  <2> QED
    BY <2>1, <2>2
<1> QED
  BY <1>2, <1>3, <1>5, <1>6, <1>7, <1>8 DEF ws, l

\* The deviation of the share, for each of the ratios.
LEMMA Deviation ==
    ASSUME NEW p \in Nat, NEW r \in Steps
    PROVE  LET l == Lighter(r)
               B == (2 * l * p) \div 100
               A == ((100 - l - l) * p) \div 100
               n == IF r >= 50 THEN B \div 2 + A ELSE (B + 1) \div 2
           IN  100 * n - r * p \in -150..50
<1> DEFINE l == Lighter(r)
           B == (2 * l * p) \div 100
           A == ((100 - l - l) * p) \div 100
           n == IF r >= 50 THEN B \div 2 + A ELSE (B + 1) \div 2
<1>1. r \in {0, 10, 20, 30, 40, 50, 60, 70, 80, 90, 100}
  BY DEF Steps, ADAPTATION_STEP
<1>2. CASE r \in {0, 10, 20, 30, 40}
  <2>1. l = r
    BY <1>2 DEF Lighter
  <2>2. n = (((2 * r * p) \div 100) + 1) \div 2
    BY <1>2, <2>1
  <2>3. 100 * ((((2 * r * p) \div 100) + 1) \div 2) - r * p \in -150..50
    <3>1. CASE r = 0
      BY <3>1, SMT
    <3>2. CASE r = 10
      BY <3>2, SMT
    <3>3. CASE r = 20
      BY <3>3, SMT
    <3>4. CASE r = 30
      BY <3>4, SMT
    <3>5. CASE r = 40
      BY <3>5, SMT
    <3> QED
      BY <1>2, <3>1, <3>2, <3>3, <3>4, <3>5
  <2> QED
    BY <2>2, <2>3
<1>3. CASE r \in {50, 60, 70, 80, 90, 100}
  <2>1. l = 100 - r
    BY <1>3 DEF Lighter
  <2>2. n = ((2 * (100 - r) * p) \div 100) \div 2
            + ((100 - (100 - r) - (100 - r)) * p) \div 100
    BY <1>3, <2>1
  <2>3. 100 * (((2 * (100 - r) * p) \div 100) \div 2
               + ((100 - (100 - r) - (100 - r)) * p) \div 100) - r * p \in -150..50
    <3>1. CASE r = 50
      BY <3>1, SMT
    <3>2. CASE r = 60
      BY <3>2, SMT
    <3>3. CASE r = 70
      BY <3>3, SMT
    <3>4. CASE r = 80
      BY <3>4, SMT
    <3>5. CASE r = 90
      BY <3>5, SMT
    <3>6. CASE r = 100
      BY <3>6, SMT
    <3> QED
      BY <1>3, <3>1, <3>2, <3>3, <3>4, <3>5, <3>6
  <2> QED
    BY <2>2, <2>3
<1> QED
  BY <1>1, <1>2, <1>3

\* The pages the interleave gives to node 1, counted.
LEMMA RemotePages ==
    ASSUME NEW p \in Nat, NEW r \in Steps
    PROVE  LET ws == get_new_weights_v2(r)
               R == {i \in 0..(p - 1) : NodeOf(i, p, ws) = 1}
           IN  100 * Cardinality(R) - r * p \in -150..50
<1> DEFINE ws == get_new_weights_v2(r)
           R == {i \in 0..(p - 1) : NodeOf(i, p, ws) = 1}
           B == Both(p, ws)
           A == Alone(p, ws)
<1>1. /\ B \in 0..p /\ A \in 0..(p - B)
      /\ ws[1].node = (IF r >= 50 THEN 0 ELSE 1)
      /\ ws[2].node = (IF r >= 50 THEN 1 ELSE 0)
      /\ Allotted(p, ws) = B + A
  BY Phases DEF Allotted
<1>4. 100 * (IF r >= 50 THEN B \div 2 + A ELSE (B + 1) \div 2) - r * p \in -150..50
  <2>1. /\ B = (2 * Lighter(r) * p) \div 100
        /\ A = ((100 - Lighter(r) - Lighter(r)) * p) \div 100
    BY Phases
  <2> HIDE DEF A, B
  <2> QED
    BY ONLY <2>1, Deviation, p \in Nat, r \in Steps
<1>2. CASE r < 50
  <2>1. R = {j \in 0..(B - 1) : j % 2 = 0}
    <3>1. \A i \in 0..(p - 1) :
              NodeOf(i, p, ws) = IF i < B THEN ws[(i % 2) + 1].node ELSE 0
      BY <1>1, <1>2 DEF NodeOf, Steps, ADAPTATION_STEP
    <3>2. \A i \in 0..(p - 1) : NodeOf(i, p, ws) = 1 <=> i < B /\ i % 2 = 0
      <4> SUFFICES ASSUME NEW i \in 0..(p - 1)
                   PROVE  NodeOf(i, p, ws) = 1 <=> i < B /\ i % 2 = 0
        OBVIOUS
      <4>1. i % 2 = 0 \/ i % 2 = 1
        BY SMT
      <4>2. ws[1].node = 1 /\ ws[2].node = 0
        BY <1>1, <1>2 DEF Steps, ADAPTATION_STEP
      <4> QED
        BY <3>1, <4>1, <4>2
    <3> HIDE DEF B, ws
    <3> QED
      BY <1>1, <3>2
  <2>2. Cardinality(R) = (B + 1) \div 2
    <3> HIDE DEF B
    <3>1. B \in Nat /\ B + 1 - 0 = B + 1
      BY <1>1
    <3>2. Cardinality({j \in 0..(B - 1) : j % 2 = 0}) = (B + 1 - 0) \div 2
      BY <3>1, HalfCount
    <3> QED
      BY <2>1, <3>1, <3>2
  <2> QED
    BY <1>2, <1>4, <2>2 DEF Steps, ADAPTATION_STEP
<1>3. CASE r >= 50
  <2> DEFINE O == {j \in 0..(B - 1) : j % 2 = 1}
             T == B..(B + A - 1)
  <2>1. R = O \cup T
    <3> DEFINE Given(i) == IF i < B THEN i % 2 = 1 ELSE i < B + A
    <3>1. ASSUME NEW i \in 0..(p - 1)
          PROVE  NodeOf(i, p, ws) = 1 <=> Given(i)
      <4>1. i % 2 = 0 \/ i % 2 = 1
        BY SMT
      <4>2. ws[1].node = 0 /\ ws[2].node = 1
        BY <1>1, <1>3
      <4>3. NodeOf(i, p, ws) = IF i < B THEN ws[(i % 2) + 1].node
                               ELSE IF i < B + A THEN 1 ELSE 0
        BY <1>1, <4>2 DEF NodeOf
      <4> HIDE DEF B, A, ws
      <4> QED
        BY <1>1, <4>1, <4>2, <4>3
    <3> HIDE DEF B, A, ws
    <3>2. B \in Nat /\ A \in Nat /\ B + A <= p
      BY <1>1
    <3>3. O \cup T = {i \in 0..(p - 1) : Given(i)}
      BY <3>2
    <3>4. R = {i \in 0..(p - 1) : Given(i)}
      <4> HIDE DEF Given
      <4> QED
        BY <3>1
    <3> HIDE DEF O, T, R
    <3> QED
      BY <3>3, <3>4
  <2>2. IsFiniteSet(O) /\ Cardinality(O) = B \div 2
    <3> HIDE DEF B
    <3>1. B \in Nat /\ B + 1 - 1 = B
      BY <1>1
    <3> QED
      BY <3>1, HalfCount
  <2>3. IsFiniteSet(T) /\ Cardinality(T) = A
    <3> DEFINE e == B + A - 1
    <3>1. B \in Int /\ e \in Int /\ A = IF B > e THEN 0 ELSE e - B + 1
      <4> HIDE DEF A, B
      <4> QED
        BY <1>1
    <3> HIDE DEF A, B, e
    <3>2. IsFiniteSet(B..e) /\ Cardinality(B..e) = A
      BY <3>1, FS_Interval
    <3> QED
      BY <3>2 DEF e
  <2>4. O \cap T = {}
    <3> HIDE DEF A, B
    <3> QED
      BY <1>1
  <2>5. Cardinality(R) = Cardinality(O) + Cardinality(T) - Cardinality(O \cap T)
    <3> HIDE DEF O, T, R
    <3> QED
      BY <2>1, <2>2, <2>3, FS_Union
  <2>6. Cardinality(R) = B \div 2 + A
    <3>1. Cardinality(O \cap T) = 0
      BY <2>4, FS_EmptySet
    <3> HIDE DEF A, B, O, T, R
    <3>2. B \div 2 \in Int /\ A \in Int
      BY <1>1, SMT
    <3> QED
      BY <2>2, <2>3, <2>5, <3>1, <3>2
  <2> QED
    BY <1>3, <1>4, <2>6
<1> QED
  BY <1>2, <1>3 DEF Steps, ADAPTATION_STEP

-----------------------------------------------------------------------------
(* The state machine.                                                       *)

PlaceInv == /\ \A s \in Segments : phase[s] = "move" => ratio >= ADAPTATION_STEP
            /\ SharesFollowWeights
            /\ FullMeansAll

\* A segment has at least one page.
LEMMA PageCountType ==
    ASSUME TypeOK, NEW s \in Segments
    PROVE  page_count[s] \in PageCounts /\ page_count[s] \in Nat \ {0}
<1>1. page_count[s] \in PageCounts
  BY DEF TypeOK
<1>2. page_count[s] \in 1..(2 * PagesPerInt) /\ PagesPerInt \in Nat
  BY <1>1, PageAssumption
<1> QED
  BY <1>1, <1>2

\* A segment has a number of remote pages.
LEMMA RemoteType ==
    ASSUME TypeOK, NEW s \in Segments
    PROVE  Remote(s) \in Int
<1>1. page_count[s] - 1 \in Int /\ 0 \in Int
  BY PageCountType
<1>2. IsFiniteSet(Pages(s))
  BY <1>1, FS_Interval DEF Pages
<1>3. IsFiniteSet({i \in Pages(s) : located[s][i] = 1})
  BY <1>2, FS_Subset
<1> QED
  BY <1>3, FS_CardinalityType DEF Remote

\* All pages start on node 0.
LEMMA InitType == Init => TypeOK /\ PlaceInv
<1> SUFFICES ASSUME Init PROVE TypeOK /\ PlaceInv
  OBVIOUS
<1>1. ASSUME NEW s \in Segments
      PROVE  /\ page_count[s] \in PageCounts
             /\ located[s] = [i \in 0..(page_count[s] - 1) |-> 0]
             /\ located[s] \in [0..(page_count[s] - 1) -> Nodes]
  BY DEF Init, Pages, Nodes
<1>2. located = [s \in Segments |-> located[s]]
  BY DEF Init
<1>3. ratio \in Steps
  BY DEF Init, Steps, ADAPTATION_STEP
<1>4. TypeOK
  BY <1>1, <1>2, <1>3 DEF Init, TypeOK, Pages
<1>5. SharesFollowWeights
  <2> SUFFICES ASSUME NEW s \in Segments
               PROVE  100 * Remote(s) - Applied(s) * page_count[s] \in -150..50
    BY DEF SharesFollowWeights
  <2>1. {i \in Pages(s) : located[s][i] = 1} = {}
    <3>1. \A i \in Pages(s) : located[s][i] = 0
      BY <1>1 DEF Pages
    <3> QED
      BY <3>1
  <2>2. Remote(s) = 0
    BY <2>1, FS_EmptySet DEF Remote
  <2>3. Applied(s) = 0
    BY DEF Init, Applied
  <2> QED
    BY <1>4, <2>2, <2>3, PageCountType
<1> QED
  BY <1>4, <1>5 DEF Init, PlaceInv, FullMeansAll

\* The loop asks for the next ratio: every segment keeps the share of the last.
LEMMA PlaceStep ==
    ASSUME TypeOK, PlaceInv, place_all_pages
    PROVE  TypeOK' /\ PlaceInv'
<1>1. ratio' \in Steps /\ ratio' >= ADAPTATION_STEP
  BY DEF place_all_pages, TypeOK, Steps, ADAPTATION_STEP
<1>2. TypeOK'
  BY <1>1 DEF place_all_pages, TypeOK, Pages
<1>3. ASSUME NEW s \in Segments
      PROVE  /\ Applied(s)' = Applied(s)
             /\ Remote(s)' = Remote(s)
             /\ Addressable(s)' = Addressable(s)
             /\ phase'[s] = "move"
             /\ page_count'[s] = page_count[s]
  BY DEF place_all_pages, Applied, Remote, Pages, Addressable, TypeOK, Steps,
         ADAPTATION_STEP
<1>4. SharesFollowWeights'
  BY <1>3 DEF PlaceInv, SharesFollowWeights
<1> QED
  BY <1>1, <1>2, <1>3, <1>4 DEF PlaceInv, FullMeansAll

\* One segment is moved to the ratio asked for.
LEMMA MoveStep ==
    ASSUME TypeOK, PlaceInv, NEW s \in Segments, move_pages_remote(s)
    PROVE  TypeOK' /\ PlaceInv'
<1> DEFINE ws == get_new_weights_v2(ratio)
           p == page_count[s]
           moved == [i \in Pages(s) |-> IF i \in Addressed(s) THEN NodeOf(i, p, ws)
                                                             ELSE located[s][i]]
<1>1. p \in PageCounts /\ p \in Nat \ {0} /\ ratio \in Steps
  BY PageCountType DEF TypeOK
<1>2. UNCHANGED <<page_count, wraps, ratio>>
  BY DEF move_pages_remote
<1>3. CASE UNCHANGED <<located, phase>>
  <2>1. failed' \in BOOLEAN
    BY <1>3 DEF move_pages_remote, TypeOK
  <2>2. TypeOK'
    BY <1>2, <1>3, <2>1 DEF TypeOK, Pages
  <2> QED
    BY <1>2, <1>3, <2>2 DEF PlaceInv, SharesFollowWeights, FullMeansAll, Applied,
                            Remote, Pages, Addressable
<1>4. CASE /\ located' = [located EXCEPT ![s] = moved]
           /\ phase' = [phase EXCEPT ![s] = "done"]
           /\ UNCHANGED failed
  <2>1. ASSUME NEW i \in Pages(s)
        PROVE  NodeOf(i, p, ws) \in Nodes
    <3>1. ws[1].node \in Nodes /\ ws[2].node \in Nodes
      BY <1>1, Phases DEF Nodes
    <3>2. i % 2 = 0 \/ i % 2 = 1
      BY <1>1, SMT DEF Pages
    <3> HIDE DEF ws
    <3> QED
      BY <3>1, <3>2 DEF NodeOf, Nodes
  <2>2. moved \in [0..(p - 1) -> Nodes]
    <3>1. \A i \in Pages(s) : located[s][i] \in Nodes
      BY DEF TypeOK
    <3> HIDE DEF ws
    <3> QED
      BY <2>1, <3>1 DEF Pages
  <2>3. /\ located'[s] = moved /\ phase'[s] = "done"
        /\ \A t \in Segments \ {s} : located'[t] = located[t] /\ phase'[t] = phase[t]
    <3> HIDE DEF moved
    <3> QED
      BY <1>4 DEF TypeOK
  <2>4. TypeOK'
    <3> HIDE DEF moved
    <3>2. located' = [t \in Segments |-> located'[t]]
      BY <1>4 DEF TypeOK
    <3>3. phase' \in [Segments -> {"idle", "move", "done"}]
      BY <1>4 DEF TypeOK
    <3>4. \A t \in Segments : located'[t] \in [Pages(t)' -> Nodes]
      BY <1>2, <2>2, <2>3 DEF TypeOK, Pages
    <3> QED
      BY <1>2, <1>4, <3>2, <3>3, <3>4 DEF TypeOK
  <2>5. ASSUME Addressable(s)
        PROVE  moved = [i \in 0..(p - 1) |-> NodeOf(i, p, ws)]
    <3>1. Addressed(s) = Pages(s)
      BY <1>1, <2>5, PageAssumption DEF Addressed, Addressable, Pages, TypeOK
    <3> HIDE DEF ws
    <3> QED
      BY <3>1 DEF Pages
  <2>6. ASSUME Addressable(s)
        PROVE  100 * Remote(s)' - Applied(s)' * page_count'[s] \in -150..50
    <3>1. Remote(s)' = Cardinality({i \in 0..(p - 1) : NodeOf(i, p, ws) = 1})
      <4>1. Remote(s)' = Cardinality({i \in 0..(p - 1) : located'[s][i] = 1})
        BY <1>2 DEF Remote, Pages
      <4>2. \A i \in 0..(p - 1) : located'[s][i] = NodeOf(i, p, ws)
        <5> HIDE DEF ws, moved
        <5> QED
          BY <2>3, <2>5, <2>6
      <4>3. {i \in 0..(p - 1) : located'[s][i] = 1}
                = {i \in 0..(p - 1) : NodeOf(i, p, ws) = 1}
        BY <4>2
      <4> HIDE DEF ws
      <4> QED
        BY <4>1, <4>3
    <3>2. Applied(s)' = ratio
      BY <1>2, <2>3 DEF Applied
    <3>3. 100 * Cardinality({i \in 0..(p - 1) : NodeOf(i, p, ws) = 1}) - ratio * p
              \in -150..50
      BY <1>1, RemotePages
    <3> HIDE DEF ws
    <3> QED
      BY <1>2, <3>1, <3>2, <3>3
  <2>7. ASSUME NEW t \in Segments \ {s}
        PROVE  /\ Applied(t)' = Applied(t)
               /\ Remote(t)' = Remote(t)
    BY <1>2, <2>3 DEF Applied, Remote, Pages
  <2>8. \A t \in Segments : Addressable(t)' = Addressable(t)
    BY <1>2 DEF Addressable
  <2>9. SharesFollowWeights'
    BY <1>2, <2>6, <2>7, <2>8 DEF PlaceInv, SharesFollowWeights
  <2>10. FullMeansAll'
    <3> SUFFICES ASSUME NEW t \in Segments, ratio' = 100, phase'[t] # "move",
                        Addressable(t)', NEW i \in Pages(t)'
                 PROVE  located'[t][i] = 1
      BY DEF FullMeansAll
    <3>1. CASE t = s
      <4>1. i \in 0..(p - 1) /\ ratio = 100
        BY <1>2, <3>1 DEF Pages
      <4>2. located'[s][i] = NodeOf(i, p, ws)
        <5> HIDE DEF ws, moved
        <5> QED
          BY <2>3, <2>5, <2>8, <3>1, <4>1
      <4>3. Both(p, ws) = 0 /\ Alone(p, ws) = p /\ ws[2].node = 1
        <5>1. Lighter(ratio) = 0
          BY <4>1 DEF Lighter
        <5>2. (2 * 0 * p) \div 100 = 0 /\ ((100 - 0 - 0) * p) \div 100 = p
          BY <1>1, SMT
        <5>3. /\ Both(p, ws) = (2 * Lighter(ratio) * p) \div 100
              /\ Alone(p, ws) = ((100 - Lighter(ratio) - Lighter(ratio)) * p) \div 100
              /\ ws[2].node = (IF ratio >= 50 THEN 1 ELSE 0)
          BY <1>1, Phases
        <5> HIDE DEF ws
        <5> QED
          BY <4>1, <5>1, <5>2, <5>3
      <4> HIDE DEF ws
      <4> QED
        BY <1>1, <3>1, <4>1, <4>2, <4>3 DEF NodeOf, Allotted
    <3>2. CASE t # s
      BY <1>2, <2>3, <2>8, <3>2 DEF PlaceInv, FullMeansAll, Pages
    <3> QED
      BY <3>1, <3>2
  <2> QED
    BY <1>2, <2>3, <2>4, <2>9, <2>10 DEF PlaceInv
<1> QED
  BY <1>3, <1>4 DEF move_pages_remote

\* The end of the parallel loop moves nothing.
LEMMA JoinStep ==
    ASSUME TypeOK, PlaceInv, Join
    PROVE  TypeOK' /\ PlaceInv'
<1>1. TypeOK'
  BY DEF Join, TypeOK, Pages
<1>2. ASSUME NEW s \in Segments
      PROVE  /\ Applied(s)' = Applied(s)
             /\ Remote(s)' = Remote(s)
             /\ Addressable(s)' = Addressable(s)
             /\ phase[s] = "done" /\ phase'[s] = "idle"
             /\ Pages(s)' = Pages(s)
  BY DEF Join, Applied, Remote, Pages, Addressable
<1>3. SharesFollowWeights'
  BY <1>2 DEF Join, PlaceInv, SharesFollowWeights
<1>4. FullMeansAll'
  BY <1>2 DEF Join, PlaceInv, FullMeansAll
<1> QED
  BY <1>1, <1>2, <1>3, <1>4 DEF PlaceInv

\* Types, shares and the full ratio, in every reachable state.
THEOREM Invariance == Spec => [](TypeOK /\ PlaceInv)
<1>1. TypeOK /\ PlaceInv /\ [Next]_vars => (TypeOK /\ PlaceInv)'
  <2> SUFFICES ASSUME TypeOK, PlaceInv, [Next]_vars PROVE TypeOK' /\ PlaceInv'
    OBVIOUS
  <2>1. CASE UNCHANGED vars
    <3>1. TypeOK'
      BY <2>1 DEF vars, TypeOK, Pages
    <3>2. PlaceInv'
      BY <2>1 DEF vars, PlaceInv, SharesFollowWeights, FullMeansAll, Applied, Remote,
                  Pages, Addressable
    <3> QED
      BY <3>1, <3>2
  <2> QED
    BY <2>1, PlaceStep, MoveStep, JoinStep DEF Next, Done
<1> QED
  BY <1>1, InitType, PTL DEF Spec

\* Every variable has its type, the ratio one of eleven values.
THEOREM TypeCorrect == Spec => []TypeOK
BY Invariance, PTL

\* Every segment, of any length, has its remote share to within a page and a half,
\* while others are still being moved and after a failure too.
THEOREM Shares == Spec => []SharesFollowWeights
<1>1. PlaceInv => SharesFollowWeights
  BY DEF PlaceInv
<1> QED
  BY <1>1, Invariance, PTL

\* A full migration leaves no page on the worker node.
THEOREM Full == Spec => []FullMeansAll
<1>1. PlaceInv => FullMeansAll
  BY DEF PlaceInv
<1> QED
  BY <1>1, Invariance, PTL

\* At most the last page keeps its initial node 0.
THEOREM LastPage == Spec => []LastPageOnly
<1>1. TypeOK => LastPageOnly
  BY PageCountType, Phases DEF LastPageOnly, TypeOK
<1> QED
  BY <1>1, Invariance, PTL

\* RemoteGrows for segments of more than ten pages that an int can address: the
\* two shares differ by ten per cent and their errors by two pages at most.
THEOREM Grows ==
    Spec => [][\A s \in Segments : page_count[s] > 10 /\ Addressable(s)
                                   => Remote(s)' >= Remote(s)]_vars
<1> DEFINE Grow == \A s \in Segments : page_count[s] > 10 /\ Addressable(s)
                                       => Remote(s)' >= Remote(s)
<1>1. /\ TypeOK /\ PlaceInv /\ (TypeOK /\ PlaceInv)' /\ [Next]_vars => [Grow]_vars
  <2> SUFFICES ASSUME TypeOK, PlaceInv, SharesFollowWeights', Next, NEW s \in Segments,
                      page_count[s] > 10, Addressable(s)
               PROVE  Remote(s)' >= Remote(s)
    BY DEF PlaceInv, vars
  <2>1. Remote(s) \in Int
    BY RemoteType
  <2>2. UNCHANGED <<page_count, wraps>>
    BY DEF Next, place_all_pages, move_pages_remote, Join, Done, vars
  <2>3. CASE UNCHANGED located
    BY <2>1, <2>2, <2>3 DEF Remote, Pages
  <2>4. CASE \E t \in Segments : move_pages_remote(t) /\ ~UNCHANGED located
    <3>1. PICK t \in Segments : move_pages_remote(t) /\ ~UNCHANGED located
      BY <2>4
    <3>2. /\ phase[t] = "move" /\ phase'[t] = "done" /\ ratio' = ratio
          /\ \A u \in Segments \ {t} : located'[u] = located[u]
      BY <3>1 DEF move_pages_remote, TypeOK
    <3>3. CASE s # t
      <4>1. located'[s] = located[s] /\ Pages(s)' = Pages(s)
        BY <2>2, <3>2, <3>3 DEF Pages
      <4>2. Remote(s)' = Remote(s)
        BY <4>1 DEF Remote
      <4> QED
        BY <2>1, <4>2
    <3>4. CASE s = t
      <4>1. Applied(s) = ratio - 10 /\ Applied(s)' = ratio /\ ratio \in Int
        BY <3>2, <3>4 DEF Applied, ADAPTATION_STEP, TypeOK, Steps
      <4>2. Addressable(s)' /\ page_count'[s] = page_count[s]
        BY <2>2 DEF Addressable
      <4>3. 100 * Remote(s) - (ratio - 10) * page_count[s] \in -150..50
        BY <4>1 DEF PlaceInv, SharesFollowWeights
      <4>4. 100 * Remote(s)' - ratio * page_count[s] \in -150..50
        BY <4>1, <4>2 DEF SharesFollowWeights
      <4>5. Remote(s)' \in Int
        <5>1. page_count[s] - 1 \in Int /\ 0 \in Int
          BY PageCountType
        <5>2. IsFiniteSet(Pages(s)')
          BY <4>2, <5>1, FS_Interval DEF Pages
        <5>3. IsFiniteSet({i \in Pages(s)' : located'[s][i] = 1})
          BY <5>2, FS_Subset
        <5> QED
          BY <5>3, FS_CardinalityType DEF Remote
      <4>6. /\ page_count[s] \in Int
            /\ (ratio - 10) * page_count[s] = ratio * page_count[s] - 10 * page_count[s]
            /\ ratio * page_count[s] \in Int
        BY <4>1, PageCountType, SMT
      <4> QED
        BY <2>1, <4>3, <4>4, <4>5, <4>6
    <3> QED
      BY <3>3, <3>4
  <2> QED
    BY <2>3, <2>4 DEF Next, place_all_pages, Join, Done, vars
<1> QED
  BY <1>1, Invariance, PTL DEF Spec

-----------------------------------------------------------------------------
(* The parallel loop is one placement after the other.                      *)

\* Another ratio is at least ten per cent of the pages away.
LEMMA StepApart ==
    ASSUME NEW p \in Nat, NEW r \in Steps, NEW q \in Steps, r # q
    PROVE  r * p - q * p >= 10 * p \/ q * p - r * p >= 10 * p
<1>1. \A n \in 0..10 : ADAPTATION_STEP * n * p \in Int
  BY DEF ADAPTATION_STEP
<1>2. PICK m \in 0..10 : r = 10 * m
  BY DEF Steps, ADAPTATION_STEP
<1>3. PICK n \in 0..10 : q = 10 * n
  BY DEF Steps, ADAPTATION_STEP
<1>4. r * p = 10 * (m * p) /\ q * p = 10 * (n * p) /\ m * p \in Int /\ n * p \in Int
  BY <1>2, <1>3, SMT
<1>5. CASE m > n
  <2>1. (m - n) * p >= p
    BY <1>5, SMT
  <2>2. (m - n) * p = m * p - n * p
    BY SMT
  <2> QED
    BY <1>4, <2>1, <2>2
<1>6. CASE n > m
  <2>1. (n - m) * p >= p
    BY <1>6, SMT
  <2>2. (n - m) * p = n * p - m * p
    BY SMT
  <2> QED
    BY <1>4, <2>1, <2>2
<1> QED
  BY <1>2, <1>3, <1>5, <1>6

\* The pages of a long segment, counted, show the ratio it was moved to last,
\* and no other.
LEMMA MeasuredIsApplied ==
    ASSUME TypeOK, PlaceInv, NEW s \in Long
    PROVE  Measured(s) = Applied(s) /\ Applied(s) \in Steps
<1> DEFINE p == page_count[s]
           e == 100 * Remote(s) - Applied(s) * p
<1>1. s \in Segments /\ Addressable(s) /\ p \in Nat /\ p > 30 /\ Remote(s) \in Int
  BY PageCountType, RemoteType DEF Long
<1>2. Applied(s) \in Steps
  BY <1>1 DEF TypeOK, PlaceInv, Applied, Steps, ADAPTATION_STEP
<1>3. Applied(s) * p \in Int /\ e \in -150..50
  <2>1. Applied(s) \in Int
    BY <1>2 DEF Steps, ADAPTATION_STEP
  <2> QED
    BY <1>1, <2>1, SMT DEF PlaceInv, SharesFollowWeights
<1>4. Near(s, Applied(s))
  BY <1>1, <1>3 DEF Near
<1>5. ASSUME NEW r \in Steps, Near(s, r) PROVE r = Applied(s)
  <2> SUFFICES ASSUME r # Applied(s) PROVE FALSE
    OBVIOUS
  <2>1. r * p - Applied(s) * p >= 10 * p \/ Applied(s) * p - r * p >= 10 * p
    BY <1>1, <1>2, StepApart
  <2>2. r * p \in Int
    <3>1. r \in Int
      BY DEF Steps, ADAPTATION_STEP
    <3> QED
      BY <1>1, <3>1, SMT
  <2>3. 100 * Remote(s) - r * p \in -(5 * p)..(5 * p)
    BY <1>5 DEF Near
  <2> QED
    BY <1>1, <1>3, <2>1, <2>2, <2>3
<1>6. Measured(s) = Applied(s)
  BY <1>2, <1>4, <1>5 DEF Measured
<1> QED
  BY <1>2, <1>6

\* So the share of the pages as a whole is the ratio asked for, or the one before
\* as long as a long segment is left to move.
Waiting == \E s \in Long : phase[s] = "move"

ShareShown == Share = IF Long = {} THEN 0
                      ELSE IF Waiting THEN ratio - ADAPTATION_STEP ELSE ratio

\* The shares of the long segments are that ratio or the one after it.
LEMMA ShareIs ==
    ASSUME TypeOK, PlaceInv
    PROVE  ShareShown
<1>1. ratio \in Int /\ Steps \subseteq Int
  BY DEF TypeOK, Steps, ADAPTATION_STEP
<1>2. CASE Long = {}
  BY <1>2 DEF Share, ShareShown
<1>3. CASE Long # {}
  <2> DEFINE least == IF Waiting THEN ratio - ADAPTATION_STEP ELSE ratio
  <2>1. \A s \in Long : Measured(s) = Applied(s) /\ Applied(s) \in Steps
    BY MeasuredIsApplied
  <2>2. \A s \in Long : Applied(s) >= least
    BY <1>1 DEF Applied, Waiting, ADAPTATION_STEP
  <2>3. PICK s \in Long : Applied(s) = least
    BY <1>3 DEF Applied, Waiting
  <2>4. least \in Steps /\ Slowest(least)
    BY <2>1, <2>2, <2>3 DEF Slowest
  <2>5. ASSUME NEW r \in Steps, Slowest(r) PROVE r = least
    <3>1. PICK t \in Long : Measured(t) = r
      BY <2>5 DEF Slowest
    <3>2. r >= least
      BY <2>1, <2>2, <3>1
    <3>3. least >= r
      BY <2>1, <2>3, <2>5 DEF Slowest
    <3> HIDE DEF least
    <3> QED
      BY <1>1, <2>4, <3>2, <3>3
  <2> HIDE DEF least
  <2>6. Share = least
    BY <1>3, <2>4, <2>5 DEF Share
  <2> QED
    BY <1>3, <2>6 DEF least, ShareShown
<1> QED
  BY <1>2, <1>3

\* What the proofs need of the ratio.
LEMMA RatioType ==
    ASSUME TypeOK
    PROVE  ratio \in Int /\ ratio <= 100 /\ (ratio < 100 => ratio + ADAPTATION_STEP <= 100)
BY DEF TypeOK, Steps, ADAPTATION_STEP

\* No step changes which segments are long.
LEMMA LongKept ==
    ASSUME UNCHANGED <<page_count, wraps>>
    PROVE  Long' = Long
BY DEF Long, Addressable

\* Asking for a ratio moves no page.
LEMMA AskRefines ==
    ASSUME TypeOK, ShareShown, ShareShown', place_all_pages
    PROVE  UNCHANGED Whole!vars
<1>1. /\ UNCHANGED failed /\ Long' = Long
      /\ ratio' = ratio + ADAPTATION_STEP
      /\ \A s \in Segments : phase[s] = "idle" /\ phase'[s] = "move"
  BY LongKept DEF place_all_pages
<1>2. Long \subseteq Segments
  BY DEF Long
<1>3. ~Waiting /\ (Long # {} => Waiting')
  BY <1>1, <1>2 DEF Waiting
<1>4. Share' = Share
  BY <1>1, <1>3, RatioType DEF ShareShown, ADAPTATION_STEP
<1> QED
  BY <1>1, <1>4 DEF Whole!vars

\* Moving a segment is a stutter while other long ones are left to move, and the
\* placement when it is the last of them; a failed move ends the program.
LEMMA MoveRefines ==
    ASSUME TypeOK, ShareShown, ShareShown', NEW s \in Segments,
           move_pages_remote(s)
    PROVE  [Whole!Next]_(Whole!vars)
<1>1. ~failed /\ ratio' = ratio /\ Long' = Long
  BY LongKept DEF move_pages_remote
<1>2. CASE UNCHANGED phase /\ failed' = TRUE
  <2>1. Waiting' = Waiting
    BY <1>1, <1>2 DEF Waiting
  <2>2. Share' = Share
    BY <1>1, <2>1 DEF ShareShown
  <2> QED
    BY <1>1, <1>2, <2>2 DEF Whole!Next, Whole!End
<1>3. CASE UNCHANGED failed
  <2>1. CASE Long = {} \/ Waiting' = Waiting
    <3>1. Share' = Share
      BY <1>1, <2>1 DEF ShareShown
    <3> QED
      BY <1>3, <3>1 DEF Whole!vars
  <2>2. CASE Long # {} /\ Waiting' # Waiting
    <3>1. Waiting /\ ~Waiting'
      <4>1. phase' = [phase EXCEPT ![s] = "done"]
        BY <1>3 DEF move_pages_remote, TypeOK
      <4>2. Waiting' => Waiting
        BY <1>1, <4>1 DEF Waiting, Long, TypeOK
      <4> QED
        BY <2>2, <4>2 DEF Waiting
    <3>2. Share = ratio - ADAPTATION_STEP /\ Share' = ratio
      BY <1>1, <2>2, <3>1 DEF ShareShown
    <3>3. Share + ADAPTATION_STEP <= 100 /\ Share' = Share + ADAPTATION_STEP
      BY <3>2, RatioType DEF ADAPTATION_STEP
    <3> QED
      BY <1>1, <1>3, <3>3 DEF Whole!Next, Whole!Place, Whole!Room
  <2> QED
    BY <2>1, <2>2
<1> QED
  BY <1>2, <1>3 DEF move_pages_remote

\* The end of the parallel loop comes when no segment is left to move.
LEMMA JoinRefines ==
    ASSUME TypeOK, ShareShown, ShareShown', Join
    PROVE  UNCHANGED Whole!vars
<1>1. UNCHANGED <<failed, ratio>> /\ Long' = Long
  BY LongKept DEF Join
<1>2. ~Waiting /\ ~Waiting'
  BY DEF Join, Waiting, Long
<1> QED
  BY <1>1, <1>2 DEF ShareShown, Whole!vars

\* A step that changes nothing changes no share.
LEMMA StutterRefines ==
    ASSUME ShareShown, ShareShown', UNCHANGED vars
    PROVE  UNCHANGED Whole!vars
<1>1. Long' = Long /\ UNCHANGED <<phase, ratio, failed>>
  BY LongKept DEF vars
<1>2. Waiting' = Waiting
  BY <1>1 DEF Waiting
<1> QED
  BY <1>1, <1>2 DEF ShareShown, Whole!vars

\* Whatever the order of the iterations of the parallel loop, the share counted in
\* the pages of all long segments moves by one step per placement, never beyond
\* 100, and a failure of move_pages is the end: what the loops of Controller build
\* upon.
THEOREM PlacementRefinement == Spec => PlacementSpec
<1>1. Init => Whole!Init
  <2> SUFFICES ASSUME Init PROVE Whole!Init
    OBVIOUS
  <2>1. ~Waiting
    BY DEF Init, Waiting, Long
  <2>2. Share = 0
    BY <2>1, InitType, ShareIs DEF Init, ShareShown
  <2> QED
    BY <2>2 DEF Init, Whole!Init
<1>2. TypeOK /\ ShareShown /\ ShareShown' /\ [Next]_vars => [Whole!Next]_(Whole!vars)
  <2> SUFFICES ASSUME TypeOK, ShareShown, ShareShown', [Next]_vars
               PROVE  [Whole!Next]_(Whole!vars)
    OBVIOUS
  <2> QED
    BY AskRefines, MoveRefines, JoinRefines, StutterRefines DEF Next, Done
<1>3. TypeOK /\ PlaceInv => ShareShown
  BY ShareIs
<1> QED
  BY <1>1, <1>2, <1>3, Invariance, PTL DEF Spec, PlacementSpec, Whole!Spec

\* The shares counted in the pages of any two long segments agree between two
\* placements, and differ by the step of the placement at most during one.
THEOREM SharesAgree == Spec => []SegmentsShare
<1>1. TypeOK /\ PlaceInv => SegmentsShare
  <2> SUFFICES ASSUME TypeOK, PlaceInv, NEW s \in Long
               PROVE  Measured(s) \in IF Placing THEN {Share, Share + ADAPTATION_STEP}
                                                 ELSE {Share}
    BY DEF SegmentsShare
  <2>1. Measured(s) = Applied(s) /\ s \in Segments
    BY MeasuredIsApplied DEF Long
  <2>2. Share = IF Waiting THEN ratio - ADAPTATION_STEP ELSE ratio
    BY ShareIs DEF ShareShown
  <2>3. Waiting => Placing
    BY DEF Waiting, Placing, Long
  <2>4. phase[s] = "move" => Waiting
    BY DEF Waiting
  <2> QED
    BY <2>1, <2>2, <2>3, <2>4, RatioType DEF Applied, ADAPTATION_STEP
<1> QED
  BY <1>1, Invariance, PTL
=============================================================================
