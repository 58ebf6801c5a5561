-------------------------- MODULE AdmissionWindow --------------------------
(***************************************************************************)
(* What a limiter with fixed windows promises of each key: a window is     *)
(* open, at some time its clock is started, requests take places in it     *)
(* while it is open, each place once and only the first Limit of them, and *)
(* it closes as a whole when its clock runs out.  A window whose clock is  *)
(* never started stays; how requests are counted, refused or lost is left  *)
(* open.                                                                   *)
(***************************************************************************)
EXTENDS Integers

CONSTANTS Keys, Limit

VARIABLES
  open,  \* keys that have a window
  timed, \* those whose clock runs
  taken  \* the places taken in the window of a key

vars == <<open, timed, taken>>

Init == open = {} /\ timed = {} /\ taken = [k \in Keys |-> {}]

Open(k) ==
  /\ k \notin open
  /\ open' = open \cup {k}
  /\ UNCHANGED <<timed, taken>>

Time(k) ==
  /\ k \in open \ timed
  /\ timed' = timed \cup {k}
  /\ UNCHANGED <<open, taken>>

Admit(k) ==
  /\ k \in open
  /\ \E p \in 1..Limit \ taken[k] : taken' = [taken EXCEPT ![k] = @ \cup {p}]
  /\ UNCHANGED <<open, timed>>

Close(k) ==
  /\ k \in timed
  /\ open' = open \ {k} /\ timed' = timed \ {k}
  /\ taken' = [taken EXCEPT ![k] = {}]

Next == \E k \in Keys : Open(k) \/ Time(k) \/ Admit(k) \/ Close(k)

Spec == Init /\ [][Next]_vars
=============================================================================
