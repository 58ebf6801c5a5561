---------------------------- MODULE BotRegistry ----------------------------
(***************************************************************************)
(* What a platform's service promises of the clients it keeps for bots: a  *)
(* bot whose starts and stops neither overlap nor fail half-way has one    *)
(* client at a time, and it is the one that was started that becomes       *)
(* connected, that is held when its line drops, and that a stop takes      *)
(* away; until it is gone no other is made.  How maps, awaits and events   *)
(* bring that about is left open, and so is what becomes of other bots.    *)
(***************************************************************************)
CONSTANTS
  Bots,
  Clients  \* what connects a bot to its platform

VARIABLES
  orderly, \* bots whose starts and stops came and succeeded one by one
  client   \* of an orderly bot: none, or one and the stage it has come to

vars == <<orderly, client>>

Stages == {"starting", "on", "dropped", "stopping"}
At(c, stage) == [client |-> c, stage |-> stage]

Init ==
  /\ orderly = Bots
  /\ client = [b \in Bots |-> {}]

\* A client is made for a bot that has none.
Start(b) ==
  /\ client[b] = {}
  /\ \E c \in Clients :
       /\ \A d \in Bots, stage \in Stages : At(c, stage) \notin client[d]
       /\ client' = [client EXCEPT ![b] = {At(c, "starting")}]

Goes(b, from, to) ==
  \E c \in Clients :
    /\ client[b] = {At(c, from)}
    /\ client' = [client EXCEPT ![b] = {At(c, to)}]

Ends(b, from) ==
  /\ \E c \in Clients : client[b] = {At(c, from)}
  /\ client' = [client EXCEPT ![b] = {}]

\* What happens to the client of a bot: it is refused or connected, its line
\* drops, somebody stops it, and it has stopped.
Step(b) ==
  /\ \/ Start(b)
     \/ Ends(b, "starting") \/ Goes(b, "starting", "on")
     \/ Goes(b, "on", "dropped")
     \/ Goes(b, "on", "stopping") \/ Goes(b, "dropped", "stopping")
     \/ Ends(b, "stopping")
  /\ UNCHANGED orderly

\* A request for it has begun during another, or has failed half-way.
Overlaps(b) ==
  /\ orderly' = orderly \ {b}
  /\ client' = [client EXCEPT ![b] = {}]

\* The process ends, and all its clients with it.
Restart ==
  /\ orderly' = Bots
  /\ client' = [b \in Bots |-> {}]

Next == \/ \E b \in orderly : Step(b) \/ Overlaps(b)
        \/ Restart

Spec == Init /\ [][Next]_vars
=============================================================================
