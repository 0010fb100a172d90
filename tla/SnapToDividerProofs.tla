------------------------- MODULE SnapToDividerProofs -------------------------
(****************************************************************************)
(* Truncating division, the divider at which snap_to_divider stops, and the *)
(* result of its loop, for every maximum, minimum and target.               *)
(****************************************************************************)
EXTENDS SnapToDivider, WellFoundedInduction, TLAPS

------------------------------------------------------------------------------
(* Truncating division *)

\* What integer division means.
LEMMA DivisionIsFloor ==
  ASSUME NEW m \in Nat, NEW k \in Nat \ {0}
  PROVE  /\ Divider(m, k) \in Nat
         /\ k * Divider(m, k) <= m
         /\ \A q \in Nat : k * q <= m => q <= Divider(m, k)
<1>1. Divider(m, k) \in Nat
  BY Z3 DEF Divider
<1>2. k * Divider(m, k) <= m /\ m < k * (Divider(m, k) + 1)
  BY Z3 DEF Divider
<1>3. ASSUME NEW q \in Nat, k * q <= m
      PROVE  q <= Divider(m, k)
  BY <1>1, <1>2, <1>3, Z3
<1> QED BY <1>1, <1>2, <1>3

\* A larger candidate gives no higher rate.
LEMMA DividerAntitone ==
  ASSUME NEW m \in Nat, NEW j \in Nat \ {0}, NEW k \in Nat \ {0}, j <= k
  PROVE  Divider(m, k) <= Divider(m, j)
<1> DEFINE q == Divider(m, k)
<1>1. q \in Nat /\ k * q <= m
  BY DivisionIsFloor
<1>2. j * q <= k * q
  <2> HIDE DEF q
  <2> QED BY <1>1, Z3
<1>3. j * q <= m
  <2> HIDE DEF q
  <2> QED BY <1>1, <1>2, Z3
<1> QED BY <1>1, <1>3, DivisionIsFloor

\* Every candidate gives a rate between one and the maximum.
LEMMA DividerInRange ==
  ASSUME NEW m \in Nat, NEW k \in 1 .. m
  PROVE  Divider(m, k) \in 1 .. m
<1>1. Divider(m, k) \in Nat /\ k * Divider(m, k) <= m
  BY DivisionIsFloor
<1>2. 1 <= Divider(m, k)
  BY DivisionIsFloor, k * 1 <= m
<1>3. Divider(m, k) <= Divider(m, 1)
  BY DividerAntitone
<1>4. Divider(m, 1) <= m
  <2>1. Divider(m, 1) \in Nat /\ 1 * Divider(m, 1) <= m
    BY DivisionIsFloor
  <2> QED BY <2>1
<1>5. Divider(m, 1) \in Nat
  BY DivisionIsFloor
<1> QED BY <1>1, <1>2, <1>3, <1>4, <1>5

\* Dividing by one changes nothing.
LEMMA DividerByOne ==
  ASSUME NEW m \in Nat \ {0}
  PROVE  Divider(m, 1) = m
<1>1. Divider(m, 1) \in 1 .. m
  BY DividerInRange
<1>2. m <= Divider(m, 1)
  BY DivisionIsFloor, 1 * m <= m
<1> QED BY <1>1, <1>2

\* What gamescope makes of a rate that truncating division has given: it takes
\* perhaps more vblanks, the most that give the same rate.
LEMMA DividerOfDivider ==
  ASSUME NEW m \in Nat \ {0}, NEW k \in 1 .. m
  PROVE  Divider(m, Divider(m, Divider(m, k))) = Divider(m, k)
<1> DEFINE q == Divider(m, k)
           p == Divider(m, q)
<1>1. q \in 1 .. m /\ k * q <= m
  BY DividerInRange, DivisionIsFloor
<1>2. p \in 1 .. m /\ q * p <= m
  <2> HIDE DEF q
  <2> QED BY <1>1, DividerInRange, DivisionIsFloor
<1>3. k <= p
  <2> HIDE DEF q
  <2>1. q * k <= m
    BY <1>1, Z3
  <2>2. q \in Nat \ {0} /\ k \in Nat
    BY <1>1
  <2>3. k <= Divider(m, q)
    BY <2>1, <2>2, DivisionIsFloor
  <2> QED BY <2>3
<1> HIDE DEF p
<1>4. Divider(m, p) <= q
  <2>1. p \in Nat \ {0} /\ k \in Nat \ {0}
    BY <1>2
  <2> QED BY <1>3, <2>1, DividerAntitone
<1>5. q <= Divider(m, p)
  <2> HIDE DEF q
  <2>1. p * q <= m
    BY <1>1, <1>2, Z3
  <2>2. p \in Nat \ {0} /\ q \in Nat
    BY <1>1, <1>2
  <2> QED BY <2>1, <2>2, DivisionIsFloor
<1>6. Divider(m, p) \in Nat
  BY <1>2, DivisionIsFloor
<1> QED BY <1>1, <1>4, <1>5, <1>6 DEF p

------------------------------------------------------------------------------
(* Where the candidates end *)

\* c is the last candidate that does not end the loop.
IsLast(hi, lo, goal, c) ==
  /\ \A k \in 2 .. c : ~StopsAt(hi, lo, goal, k)
  /\ c = hi \/ StopsAt(hi, lo, goal, c + 1)

\* A set of naturals that is not empty has a least element.
LEMMA LeastElement ==
  ASSUME NEW S \in SUBSET Nat, S # {}
  PROVE  \E x \in S : \A y \in S : x <= y
<1> DEFINE R == {ss \in Nat \X Nat : ss[1] < ss[2]}
<1>1. IsWellFoundedOn(R, Nat)
  BY NatLessThanWellFounded DEF OpToRel
<1> HIDE DEF R
<1>2. PICK x \in S : \A y \in S : ~(<<y, x>> \in R)
  BY <1>1, WFMin
<1>3. ASSUME NEW y \in S PROVE x <= y
  <2>1. x \in Nat /\ y \in Nat
    OBVIOUS
  <2>2. ~(y < x)
    BY <1>2, <2>1 DEF R
  <2> QED BY <2>1, <2>2
<1> QED BY <1>2, <1>3

LEMMA LastExists ==
  ASSUME NEW hi \in Nat \ {0}, NEW lo, NEW goal
  PROVE  \E c \in 1 .. hi : IsLast(hi, lo, goal, c)
<1> DEFINE S == {c \in 1 .. hi : c = hi \/ StopsAt(hi, lo, goal, c + 1)}
<1>1. S \in SUBSET Nat /\ hi \in S
  OBVIOUS
<1>2. PICK c \in S : \A y \in S : c <= y
  <2> HIDE DEF S
  <2> QED BY <1>1, LeastElement
<1>3. ASSUME NEW k \in 2 .. c PROVE ~StopsAt(hi, lo, goal, k)
  <2>1. c \in 1 .. hi
    BY <1>2
  <2>2. k - 1 \in 1 .. hi /\ k - 1 < c /\ (k - 1) + 1 = k
    BY <2>1
  <2>3. ~(k - 1 \in S)
    <3>1. c \in Nat /\ k - 1 \in Nat
      BY <2>1, <2>2
    <3> QED BY <1>2, <2>2, <3>1
  <2> QED BY <2>2, <2>3
<1>4. c \in 1 .. hi /\ (c = hi \/ StopsAt(hi, lo, goal, c + 1))
  BY <1>2
<1> QED BY <1>3, <1>4 DEF IsLast

LEMMA LastUnique ==
  ASSUME NEW hi \in Nat \ {0}, NEW lo, NEW goal,
         NEW m \in 1 .. hi, IsLast(hi, lo, goal, m),
         NEW c \in 1 .. hi, IsLast(hi, lo, goal, c)
  PROVE  m = c
<1>1. ASSUME NEW i \in 1 .. hi, IsLast(hi, lo, goal, i),
             NEW j \in 1 .. hi, IsLast(hi, lo, goal, j), i < j
      PROVE  FALSE
  <2>1. StopsAt(hi, lo, goal, i + 1)
    BY <1>1 DEF IsLast
  <2>2. i + 1 \in 2 .. j
    BY <1>1
  <2> QED BY <1>1, <2>1, <2>2 DEF IsLast
<1>2. ~(m < c) /\ ~(c < m)
  BY <1>1
<1> QED BY <1>2

\* Snapped is the divider at the last candidate, whichever way it was found.
LEMMA SnappedAtLast ==
  ASSUME NEW hi \in Nat \ {0}, NEW lo, NEW goal,
         NEW c \in 1 .. hi, IsLast(hi, lo, goal, c)
  PROVE  Snapped(hi, lo, goal) = Divider(hi, c)
<1> DEFINE last == CHOOSE m \in 1 .. hi :
                     /\ \A k \in 2 .. m : ~StopsAt(hi, lo, goal, k)
                     /\ m = hi \/ StopsAt(hi, lo, goal, m + 1)
<1>1. last \in 1 .. hi /\ IsLast(hi, lo, goal, last)
  BY DEF IsLast
<1>2. Snapped(hi, lo, goal) = Divider(hi, last)
  BY DEF Snapped
<1> HIDE DEF last
<1> QED BY <1>1, <1>2, LastUnique

\* A snapped rate is within the range of its subscriber.
LEMMA SnappedInRange ==
  ASSUME NEW hi \in Nat \ {0}, NEW lo \in 0 .. hi, NEW goal
  PROVE  Snapped(hi, lo, goal) \in lo .. hi
<1>1. PICK c \in 1 .. hi : IsLast(hi, lo, goal, c)
  BY LastExists
<1>2. Snapped(hi, lo, goal) = Divider(hi, c)
  BY <1>1, SnappedAtLast
<1>3. Divider(hi, c) \in 1 .. hi
  BY DividerInRange
<1>4. Divider(hi, c) >= lo
  <2>1. CASE c = 1
    BY <2>1, DividerByOne
  <2>2. CASE c # 1
    <3>1. c \in 2 .. c
      BY <2>2
    <3>2. ~StopsAt(hi, lo, goal, c)
      BY <1>1, <3>1 DEF IsLast
    <3> QED BY <1>3, <3>2 DEF StopsAt
  <2> QED BY <2>1, <2>2
<1> QED BY <1>2, <1>3, <1>4

\* A candidate that is too low or no closer to a target is so for a higher one.
LEMMA StopsForHigher ==
  ASSUME NEW hi \in Nat \ {0}, NEW lo, NEW t \in Int, NEW u \in Int, t <= u,
         NEW c \in 2 .. hi, StopsAt(hi, lo, t, c)
  PROVE  StopsAt(hi, lo, u, c)
<1>1. CASE Divider(hi, c) < lo
  BY <1>1 DEF StopsAt
<1>2. CASE ~(Divider(hi, c) < lo)
  <2> DEFINE d == Divider(hi, c)
             e == Divider(hi, c - 1)
             ud == Unit * d
             ue == Unit * e
  <2>1. hi \in Nat /\ c \in Nat \ {0} /\ c - 1 \in Nat \ {0} /\ c - 1 <= c
    OBVIOUS
  <2>2. d \in Nat /\ e \in Nat /\ d <= e
    BY <2>1, DivisionIsFloor, DividerAntitone
  <2>3. Distance(d, t) >= Distance(e, t)
    BY <1>2 DEF StopsAt
  <2> HIDE DEF d, e
  <2>4. ud \in Int /\ ue \in Int /\ ud <= ue
    BY <2>2, UnitAssumption, Z3
  <2>5. (IF ud >= t THEN ud - t ELSE t - ud) >= (IF ue >= t THEN ue - t ELSE t - ue)
    <3> HIDE DEF ud, ue
    <3> QED BY <2>3 DEF Distance, ud, ue
  <2>6. (IF ud >= u THEN ud - u ELSE u - ud) >= (IF ue >= u THEN ue - u ELSE u - ue)
    <3> HIDE DEF ud, ue
    <3> QED BY <2>4, <2>5
  <2>7. Distance(d, u) >= Distance(e, u)
    BY <2>6 DEF Distance
  <2> QED BY <2>7 DEF StopsAt, d, e
<1> QED BY <1>1, <1>2

\* A higher target is never rounded to a lower rate.
LEMMA SnappedMonotone ==
  ASSUME NEW hi \in Nat \ {0}, NEW lo, NEW t \in Int, NEW u \in Int, t <= u
  PROVE  Snapped(hi, lo, t) <= Snapped(hi, lo, u)
<1>1. PICK c \in 1 .. hi : IsLast(hi, lo, t, c)
  BY LastExists
<1>2. PICK d \in 1 .. hi : IsLast(hi, lo, u, d)
  BY LastExists
<1>3. d <= c
  <2> SUFFICES ASSUME c < d PROVE FALSE
    OBVIOUS
  <2>1. c + 1 \in 2 .. d /\ c + 1 \in 2 .. hi /\ c # hi
    OBVIOUS
  <2>2. StopsAt(hi, lo, t, c + 1)
    BY <1>1, <2>1 DEF IsLast
  <2>3. StopsAt(hi, lo, u, c + 1)
    BY <2>1, <2>2, StopsForHigher
  <2> QED BY <1>2, <2>1, <2>3 DEF IsLast
<1>4. Divider(hi, c) <= Divider(hi, d)
  BY <1>3, DividerAntitone
<1> QED BY <1>1, <1>2, <1>4, SnappedAtLast

------------------------------------------------------------------------------
(* The loop *)

\* The loop's invariant: "best" is the rate of the candidate before n, and no
\* candidate so far is closer.
LoopInv ==
  /\ TypeOK
  /\ best = Divider(max, n - 1)
  /\ best >= min
  /\ \A k \in 1 .. n - 1 : Distance(best, target) <= Distance(Divider(max, k), target)
  /\ returned => n > max \/ Breaks

\* The arguments are naturals, and "target" is too.
LEMMA ArgumentsAreNat ==
  ASSUME Arguments
  PROVE  max \in Nat \ {0} /\ min \in Nat /\ target \in Int /\ Unit \in Nat \ {0}
<1>1. max \in Nat \ {0} /\ min \in Nat
  BY LargestFpsAssumption DEF Arguments
<1>2. target \in Int
  <2>1. Unit * min \in Int /\ Unit * max \in Int
    BY <1>1, UnitAssumption
  <2> QED BY <2>1 DEF Arguments
<1> QED BY <1>1, <1>2, UnitAssumption

LEMMA LoopInit == Init => LoopInv
<1> SUFFICES ASSUME Init PROVE LoopInv
  OBVIOUS
<1>1. Arguments
  BY DEF Init, Arguments
<1>2. max \in Nat \ {0} /\ min \in Nat
  BY <1>1, ArgumentsAreNat
<1>3. n = 2 /\ best = max /\ returned = FALSE
  BY DEF Init
<1>4. TypeOK
  <2>1. n \in 2 .. max + 1 /\ best \in 1 .. max
    BY <1>2, <1>3
  <2>2. returned \in BOOLEAN
    BY <1>3
  <2> QED BY <1>1, <2>1, <2>2 DEF TypeOK
<1>5. best = Divider(max, n - 1)
  BY <1>2, <1>3, DividerByOne
<1>6. best >= min
  BY <1>1, <1>2, <1>3 DEF Arguments
<1>7. \A k \in 1 .. n - 1 : Distance(best, target) <= Distance(Divider(max, k), target)
  <2> SUFFICES ASSUME NEW k \in 1 .. n - 1
               PROVE  Distance(best, target) <= Distance(Divider(max, k), target)
    OBVIOUS
  <2>1. k = 1
    BY <1>3
  <2>2. Divider(max, k) = best
    BY <2>1, <1>2, <1>3, DividerByOne
  <2>3. Distance(best, target) \in Int
    BY <1>1, <1>2, <1>3, ArgumentsAreNat DEF Distance
  <2> QED BY <2>2, <2>3
<1> QED BY <1>3, <1>4, <1>5, <1>6, <1>7 DEF LoopInv

LEMMA LoopStep == LoopInv /\ [Next]_vars => LoopInv'
<1> SUFFICES ASSUME LoopInv, [Next]_vars PROVE LoopInv'
  OBVIOUS
<1>1. max \in Nat \ {0} /\ min \in Nat /\ target \in Int /\ Unit \in Nat \ {0}
  BY ArgumentsAreNat DEF LoopInv, TypeOK
<1>2. n \in 2 .. max + 1 /\ best \in 1 .. max
  BY DEF LoopInv, TypeOK
<1>3. CASE Improve
  <2>1. max' = max /\ min' = min /\ target' = target /\ returned' = returned
    BY <1>3 DEF Improve, args
  <2>2. n \in 1 .. max /\ n' = n + 1 /\ n' - 1 = n
    BY <1>1, <1>2, <1>3 DEF Improve
  <2>3. best' = Divider(max, n) /\ best' \in 1 .. max
    BY <1>1, <1>3, <2>2, DividerInRange DEF Improve
  <2>4. best' >= min
    BY <1>1, <1>3, <2>3 DEF Improve, Breaks
  <2>5. Distance(best', target) < Distance(best, target)
    BY <1>1, <1>2, <1>3, <2>3 DEF Improve, Breaks, Distance
  <2>6. ASSUME NEW k \in 1 .. n
        PROVE  Distance(best', target) <= Distance(Divider(max, k), target)
    <3>1. Divider(max, k) \in 1 .. max
      BY <1>1, <2>2, DividerInRange
    <3>2. Distance(best', target) \in Int /\ Distance(Divider(max, k), target) \in Int
          /\ Distance(best, target) \in Int
      BY <1>1, <1>2, <2>3, <3>1 DEF Distance
    <3>3. CASE k = n
      BY <2>3, <3>2, <3>3
    <3>4. CASE k # n
      <4>1. Distance(best, target) <= Distance(Divider(max, k), target)
        BY <1>1, <1>2, <3>4 DEF LoopInv
      <4> QED BY <2>5, <3>2, <4>1
    <3> QED BY <3>3, <3>4
  <2>7. TypeOK'
    BY <1>1, <2>1, <2>2, <2>3 DEF LoopInv, TypeOK, Arguments
  <2>8. returned' = FALSE
    BY <1>3 DEF Improve, LoopInv, TypeOK
  <2> QED BY <2>1, <2>2, <2>3, <2>4, <2>6, <2>7, <2>8 DEF LoopInv, Distance
<1>4. CASE Return
  BY <1>4 DEF LoopInv, TypeOK, Arguments, Return, args, Breaks, Distance
<1>5. CASE UNCHANGED vars
  BY <1>5 DEF LoopInv, TypeOK, Arguments, vars, args, Breaks, Distance
<1> QED BY <1>3, <1>4, <1>5 DEF Next

LEMMA LoopInvariant == Spec => []LoopInv
<1> QED BY LoopInit, LoopStep, PTL DEF Spec

------------------------------------------------------------------------------
\* Every state of the loop is well typed: no candidate is skipped past the end
\* and the rate is never zero, which would lift the limit instead of setting it.
THEOREM TypeCorrect == Spec => []TypeOK
<1>1. LoopInv => TypeOK
  BY DEF LoopInv
<1> QED BY <1>1, LoopInvariant, PTL

\* snap_to_divider returns a rate gamescope can reach, at least the minimum.
THEOREM ReachableAlways == Spec => []Reachable
<1>1. LoopInv => Reachable
  <2> SUFFICES ASSUME LoopInv PROVE Reachable
    OBVIOUS
  <2>1. max \in Nat \ {0} /\ n \in 2 .. max + 1
    BY ArgumentsAreNat DEF LoopInv, TypeOK
  <2>2. n - 1 \in 1 .. max
    BY <2>1
  <2> QED BY <2>2 DEF LoopInv, Reachable
<1> QED BY <1>1, LoopInvariant, PTL

\* gamescope's own division gives back every rate that snap_to_divider returns,
\* and the rate is one that the client has asked for.
THEOREM GamescopeKeepsAlways == Spec => []GamescopeKeeps
<1>1. LoopInv => GamescopeKeeps
  <2> SUFFICES ASSUME LoopInv
               PROVE  best \in 1 .. max /\ best >= min /\ max \div nVblankDivisor(best) = best
    BY DEF GamescopeKeeps
  <2>1. max \in Nat \ {0} /\ n \in 2 .. max + 1 /\ best \in 1 .. max /\ best >= min
    BY ArgumentsAreNat DEF LoopInv, TypeOK
  <2>2. n - 1 \in 1 .. max /\ best = Divider(max, n - 1)
    BY <2>1 DEF LoopInv
  <2>3. Divider(max, Divider(max, best)) = best
    BY <2>1, <2>2, DividerOfDivider
  <2> QED BY <2>1, <2>3 DEF Divider, nVblankDivisor
<1> QED BY <1>1, LoopInvariant, PTL

\* A rate below one that is no closer than a higher rate is farther still.
LEMMA FartherBelow ==
  ASSUME NEW b \in Nat, NEW c \in Nat, NEW d \in Nat, NEW t \in Int,
         d <= c, c < b, Distance(c, t) >= Distance(b, t)
  PROVE  Distance(b, t) <= Distance(d, t)
<1> DEFINE ub == Unit * b
           uc == Unit * c
           ud == Unit * d
<1>1. ub \in Int /\ uc \in Int /\ ud \in Int
  BY UnitAssumption
<1>2. ud <= uc /\ uc < ub
  BY UnitAssumption, Z3
<1>3. (IF uc >= t THEN uc - t ELSE t - uc) >= (IF ub >= t THEN ub - t ELSE t - ub)
  BY DEF Distance
<1>4. (IF ub >= t THEN ub - t ELSE t - ub) <= (IF ud >= t THEN ud - t ELSE t - ud)
  <2> HIDE DEF ub, uc, ud
  <2> QED BY <1>1, <1>2, <1>3
<1> QED BY <1>4 DEF Distance

\* snap_to_divider misses the nearest rate only by stopping at two equal
\* candidates in a row.
THEOREM NearestAlways == Spec => []NearestUnlessPlateau
<1>1. LoopInv => NearestUnlessPlateau
  <2> SUFFICES ASSUME LoopInv, returned, ~(n <= max /\ Divider(max, n) = best),
                      NEW d \in Rates
               PROVE  Distance(best, target) <= Distance(d, target)
    BY DEF NearestUnlessPlateau
  <2>1. max \in Nat \ {0} /\ min \in Nat /\ target \in Int /\ n \in 2 .. max + 1
        /\ best \in 1 .. max
    BY ArgumentsAreNat DEF LoopInv, TypeOK
  <2>2. PICK k \in 1 .. max : d = Divider(max, k) /\ d >= min
    BY DEF Rates
  <2>3. CASE k < n
    <3>1. k \in 1 .. n - 1
      BY <2>1, <2>3
    <3> QED BY <2>2, <3>1 DEF LoopInv
  <2>4. CASE k >= n
    <3>1. n <= max /\ n - 1 \in 1 .. max /\ n \in 1 .. max
      BY <2>1, <2>2, <2>4
    <3>2. Divider(max, n) \in Nat /\ d \in Nat
      BY <2>1, <2>2, <3>1, DividerInRange
    <3>3. d <= Divider(max, n)
      BY <2>1, <2>2, <2>4, <3>1, DividerAntitone
    <3>4. Divider(max, n) < best
      <4>1. Divider(max, n) <= Divider(max, n - 1)
        BY <2>1, <3>1, DividerAntitone
      <4> QED BY <2>1, <3>1, <3>2, <4>1 DEF LoopInv
    <3>5. Distance(Divider(max, n), target) >= Distance(best, target)
      BY <2>1, <2>2, <3>1, <3>2, <3>3 DEF LoopInv, Breaks
    <3> QED BY <2>1, <3>2, <3>3, <3>4, <3>5, FartherBelow
  <2> QED BY <2>1, <2>2, <2>3, <2>4
<1> QED BY <1>1, LoopInvariant, PTL

------------------------------------------------------------------------------
(* The loop and its loop-free description *)

\* None of the candidates so far ends the loop.
SearchInv == LoopInv /\ \A k \in 2 .. n - 1 : ~StopsAt(max, min, target, k)

\* "best" is the rate of the candidate before n.
LEMMA BreaksIsStopsAt ==
  ASSUME LoopInv
  PROVE  Breaks <=> StopsAt(max, min, target, n)
BY DEF LoopInv, Breaks, StopsAt

LEMMA SearchStep == SearchInv /\ [Next]_vars => SearchInv'
<1> SUFFICES ASSUME SearchInv, [Next]_vars PROVE SearchInv'
  OBVIOUS
<1>1. LoopInv'
  BY LoopStep DEF SearchInv
<1>2. CASE Improve
  <2>1. ~StopsAt(max, min, target, n)
    BY <1>2, BreaksIsStopsAt DEF Improve, SearchInv
  <2>2. UNCHANGED <<max, min, target>> /\ n' = n + 1 /\ n \in Nat
    BY <1>2, ArgumentsAreNat DEF Improve, args, SearchInv, LoopInv, TypeOK
  <2>3. ASSUME NEW k \in 2 .. n' - 1 PROVE ~StopsAt(max, min, target, k)
    BY <2>1, <2>2 DEF SearchInv
  <2> QED BY <1>1, <2>2, <2>3 DEF SearchInv
<1>3. CASE Return \/ UNCHANGED vars
  <2>1. UNCHANGED <<max, min, target, n>>
    BY <1>3 DEF Return, args, vars
  <2> QED BY <1>1, <2>1 DEF SearchInv
<1> QED BY <1>2, <1>3 DEF Next

\* Snapped is the loop with its iterations taken together: what is proved of one
\* holds of the other, and FpsLimiter computes its rates with the loop's result.
LEMMA LoopReturnsSnapped == Spec => [](returned => best = Snapped(max, min, target))
<1>1. Init => SearchInv
  <2>1. Init => n = 2
    BY DEF Init
  <2> QED BY <2>1, LoopInit DEF SearchInv
<1>2. SearchInv => (returned => best = Snapped(max, min, target))
  <2> SUFFICES ASSUME SearchInv, returned PROVE best = Snapped(max, min, target)
    OBVIOUS
  <2>1. max \in Nat \ {0} /\ n \in 2 .. max + 1
    BY ArgumentsAreNat DEF SearchInv, LoopInv, TypeOK
  <2>2. n - 1 \in 1 .. max /\ (n > max => n - 1 = max) /\ (n - 1) + 1 = n
    BY <2>1
  <2>3. n > max \/ StopsAt(max, min, target, n)
    BY BreaksIsStopsAt DEF SearchInv, LoopInv
  <2>4. IsLast(max, min, target, n - 1)
    BY <2>2, <2>3 DEF IsLast, SearchInv
  <2>5. Snapped(max, min, target) = Divider(max, n - 1)
    BY <2>1, <2>2, <2>4, SnappedAtLast
  <2> QED BY <2>5 DEF SearchInv, LoopInv
<1> QED BY <1>1, <1>2, SearchStep, PTL DEF Spec

=============================================================================
