------------------------------ MODULE IoCredits ------------------------------
(***************************************************************************)
(* What a bounded I/O queue promises its user, with nothing about threads, *)
(* loops or retries: an operation takes one of Depth units, is handed to   *)
(* the device with others, is finished by the device, and gives its unit   *)
(* back.  The free_io_units_* counters of benchmark.cc implement this.     *)
(***************************************************************************)
EXTENDS Integers

CONSTANT Depth     \* the queue depth

VARIABLES
  credits,    \* units the user may still take
  prepared,   \* operations prepared and not yet handed over
  pending,    \* operations the device works on
  completed   \* results the user has not collected

creditVars == <<credits, prepared, pending, completed>>

Init ==
  /\ credits = Depth
  /\ prepared = 0
  /\ pending = 0
  /\ completed = 0

(* Never more operations than units.                                       *)
Acquire ==
  /\ credits > 0
  /\ credits' = credits - 1
  /\ prepared' = prepared + 1
  /\ UNCHANGED <<pending, completed>>

HandOver ==
  \E k \in 1 .. prepared :
    /\ prepared' = prepared - k
    /\ pending' = pending + k
    /\ UNCHANGED <<credits, completed>>

Finish ==
  /\ pending > 0
  /\ pending' = pending - 1
  /\ completed' = completed + 1
  /\ UNCHANGED <<credits, prepared>>

Collect ==
  /\ completed > 0
  /\ completed' = completed - 1
  /\ credits' = credits + 1
  /\ UNCHANGED <<prepared, pending>>

Next == Acquire \/ HandOver \/ Finish \/ Collect

Spec == Init /\ [][Next]_creditVars

=============================================================================
