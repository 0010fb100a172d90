------------------------------ MODULE Dividers -------------------------------
(****************************************************************************)
(* The arithmetic of fps_limiter.rs, snap_to_divider, without its loop.     *)
(* A target is an f64 in the code; here it is an integer number of Unit-ths *)
(* of a frame per second, so that targets between two rates exist.          *)
(****************************************************************************)
EXTENDS Integers

CONSTANT Unit       \* subdivisions of one frame per second

ASSUME UnitAssumption == Unit \in Nat \ {0}

\* A plausible fault: rounding to the nearest instead.
DividerRounded(max, n) == (max + n \div 2) \div n

\* u16 division truncates, like gamescope's nVblankDivisor
Divider(max, n) == max \div n

Distance(fps, target) ==
  IF Unit * fps >= target THEN Unit * fps - target ELSE target - Unit * fps

\* The candidate n ends the loop: it is below the minimum, or no closer than
\* the candidate before it.
StopsAt(max, min, target, n) ==
  \/ Divider(max, n) < min
  \/ Distance(Divider(max, n), target) >= Distance(Divider(max, n - 1), target)

\* What the loop returns, said without it: the divider before the first
\* candidate that ends it.
Snapped(max, min, target) ==
  LET last == CHOOSE n \in 1 .. max :
                /\ \A k \in 2 .. n : ~StopsAt(max, min, target, k)
                /\ n = max \/ StopsAt(max, min, target, n + 1)
  IN  Divider(max, last)

==============================================================================
