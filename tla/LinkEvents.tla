------------------------------- MODULE LinkEvents -------------------------------
(***************************************************************************)
(* What the connection manager of the BLE module promises (hes_ble.h),     *)
(* whichever backend is built: every managed device is up or down, a       *)
(* change is told once, as an event that says which way it went, and the   *)
(* events are taken in the order of the changes.  A device changes at most *)
(* once between two polls, so no event can contradict a later one in the   *)
(* same batch.                                                             *)
(***************************************************************************)
EXTENDS Naturals, Sequences

CONSTANT Device

VARIABLES
  up,     \* per device: the state last told
  queue   \* the events of the current poll that nobody took yet

Init == up = [d \in Device |-> FALSE] /\ queue = <<>>

Told(d) == \E k \in 1 .. Len(queue) : queue[k].dev = d

Change(d) ==
  /\ ~Told(d)
  /\ up' = [up EXCEPT ![d] = ~@]
  /\ queue' = Append(queue, [dev |-> d, online |-> ~up[d]])

Take == queue # <<>> /\ queue' = Tail(queue) /\ UNCHANGED up

Next == Take \/ \E d \in Device : Change(d)

Spec == Init /\ [][Next]_<<up, queue>>
=================================================================================
