---------------------------- MODULE CallbackQueue ----------------------------
(***************************************************************************)
(* What SingleThreadedSchedulerClient promises to those who give it        *)
(* callbacks: they are run in the order in which they were added, one at a *)
(* time, each of them once, and none is forgotten.                         *)
(***************************************************************************)
EXTENDS Naturals, Sequences

CONSTANTS MaxCallbacks, None

VARIABLES pending,  \* added and not yet started, by their numbers
          current,  \* the one that is running
          added     \* how many were added so far

qvars == <<pending, current, added>>

Init == pending = <<>> /\ current = None /\ added = 0

Add ==
  /\ added < MaxCallbacks
  /\ added' = added + 1
  /\ pending' = Append(pending, added')
  /\ UNCHANGED current

Start ==
  /\ current = None /\ pending # <<>>
  /\ current' = Head(pending) /\ pending' = Tail(pending)
  /\ UNCHANGED added

Finish == current # None /\ current' = None /\ UNCHANGED <<pending, added>>

Next == Add \/ Start \/ Finish

Spec == Init /\ [][Next]_qvars /\ WF_qvars(Start) /\ WF_qvars(Finish)
=============================================================================
