---------------------------- MODULE SnapToDivider ----------------------------
(****************************************************************************)
(* fps_limiter.rs, snap_to_divider: the loop that rounds a target to a rate *)
(* gamescope can reach by skipping vblanks.  The arguments are variables    *)
(* that never change, so that one run covers every argument up to LargestFps*)
(****************************************************************************)
EXTENDS Dividers

CONSTANT LargestFps     \* bound on max_fps (u16 in the code)

ASSUME LargestFpsAssumption == LargestFps \in Nat \ {0}

VARIABLES max, min, target,   \* the arguments
          n,                  \* the next candidate of the for loop
          best,               \* the best rate so far
          returned

args == <<max, min, target>>
vars == <<args, n, best, returned>>

\* register has checked min < max, and compute_fps keeps the target between.
Arguments ==
  /\ max \in 1 .. LargestFps
  /\ min \in 0 .. max - 1
  /\ target \in Unit * min .. Unit * max

TypeOK ==
  /\ Arguments
  /\ n \in 2 .. max + 1
  /\ best \in 1 .. max
  /\ returned \in BOOLEAN

Init ==
  /\ max \in 1 .. LargestFps
  /\ min \in 0 .. max - 1
  /\ target \in Unit * min .. Unit * max
  /\ n = 2
  /\ best = max
  /\ returned = FALSE

------------------------------------------------------------------------------
(* Plausible faults, each a variant of one definition below that a property *)
(* of this module notices.                                                   *)

BreaksAboveMinimumOnly ==
  \/ Divider(max, n) <= min
  \/ Distance(Divider(max, n), target) >= Distance(best, target)

------------------------------------------------------------------------------
Breaks ==
  \/ Divider(max, n) < min
  \/ Distance(Divider(max, n), target) >= Distance(best, target)

Improve ==
  /\ ~returned /\ n <= max /\ ~Breaks
  /\ best' = Divider(max, n)
  /\ n' = n + 1
  /\ UNCHANGED <<args, returned>>

Return ==
  /\ ~returned
  /\ n > max \/ Breaks
  /\ returned' = TRUE
  /\ UNCHANGED <<args, n, best>>

Next == Improve \/ Return

Spec == Init /\ [][Next]_vars

------------------------------------------------------------------------------
\* The result is a rate gamescope can reach, never below the minimum, although
\* the loop never looks at a lower bound for the first candidate.
Reachable ==
  /\ \E k \in 1 .. max : best = Divider(max, k)
  /\ best >= min

\* "this matches gamescope's int division that computes nVblankDivisor"
\* (fps_limiter.rs:236): for the rate it is given, gamescope computes the number
\* of vblanks of a frame by a division of its own; presenting that seldom is to
\* give this rate back, in the range the client registered.
nVblankDivisor(fps) == max \div fps

GamescopeKeeps ==
  returned => best \in 1 .. max /\ best >= min /\ max \div nVblankDivisor(best) = best

\* Every rate gamescope can reach within the range
Rates == {d \in {Divider(max, k) : k \in 1 .. max} : d >= min}

\* Stopping at the first candidate that is no closer finds the nearest rate,
\* unless that candidate equals the one before it.
NearestUnlessPlateau ==
  returned /\ ~(n <= max /\ Divider(max, n) = best) =>
    \A d \in Rates : Distance(best, target) <= Distance(d, target)

==============================================================================
