---------------------------- MODULE ImageChannel ----------------------------
(***************************************************************************)
(* What a stage between the camera and the recorder promises: a channel    *)
(* that may lose images but hands over those that arrive in the order they *)
(* were offered in, each once.  Once it is noisy (it was offered a faulty  *)
(* image) it may hand one over again, never an older one.                  *)
(* Images are numbered from 1 as they are offered; 0 is no image.          *)
(***************************************************************************)
EXTENDS Integers, Sequences

VARIABLES
  offered,    \* how many images were offered
  handed,     \* the numbers of those handed over
  noisy       \* a faulty image was offered

Init == offered = 0 /\ handed = <<>> /\ noisy = FALSE

\* The channel is opened again; its images are numbered anew.
Reopen == offered' = 0 /\ handed' = <<>> /\ noisy' = FALSE

Offer ==
  /\ offered' = offered + 1 /\ noisy' \in {noisy, TRUE}
  /\ UNCHANGED handed

InOrder(n) == n > 0 /\ \A i \in DOMAIN handed : handed[i] < n
Again(n) == noisy /\ \A i \in DOMAIN handed : handed[i] <= n

HandOver ==
  /\ \E n \in 0..offered :
       (InOrder(n) \/ Again(n)) /\ handed' = Append(handed, n)
  /\ UNCHANGED <<offered, noisy>>

Next == Reopen \/ Offer \/ HandOver

Spec == Init /\ [][Next]_<<offered, handed, noisy>>
=============================================================================
