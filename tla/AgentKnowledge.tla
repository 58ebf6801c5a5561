--------------------------- MODULE AgentKnowledge ---------------------------
(***************************************************************************)
(* What an agent promises whoever changes it one request at a time: what   *)
(* it knows changes only while a request for it is carried out, and then   *)
(* only towards the pieces this request names; a READY agent knows nothing *)
(* else, a deleted one knows nothing, and no request takes for ever.  How  *)
(* rows, files, jobs and their retries bring that about is left open.      *)
(***************************************************************************)
EXTENDS FiniteSets

CONSTANTS
  Agents,
  Pieces  \* documents and lists of products

VARIABLES
  stage,  \* of an agent; "out": there is none, or nobody is to rely on it
  wants,  \* the pieces its last request named
  knows   \* the pieces it may answer from

vars == <<stage, wants, knows>>

Init ==
  /\ stage = [a \in Agents |-> "out"]
  /\ wants = [a \in Agents |-> {}]
  /\ knows = [a \in Agents |-> {}]

Becomes(a, s) == stage' = [stage EXCEPT ![a] = s]

\* It is asked to know S from now on, or to go: then S is empty.
Request(a) ==
  /\ stage[a] # "changing"
  /\ Becomes(a, "changing")
  /\ \E S \in SUBSET Pieces : wants' = [wants EXCEPT ![a] = S]
  /\ UNCHANGED knows

\* It forgets some pieces and learns some it was asked to know.
Change(a) ==
  /\ stage[a] = "changing"
  /\ UNCHANGED <<stage, wants>>
  /\ \E S \in SUBSET (knows[a] \cup wants[a]) : knows' = [knows EXCEPT ![a] = S]

Succeed(a) ==
  /\ stage[a] = "changing" /\ wants[a] # {} /\ knows[a] \subseteq wants[a]
  /\ Becomes(a, "READY")
  /\ UNCHANGED <<wants, knows>>

Fail(a) ==
  /\ stage[a] = "changing" /\ wants[a] # {}
  /\ Becomes(a, "FAILED")
  /\ UNCHANGED <<wants, knows>>

Go(a) ==
  /\ stage[a] = "changing" /\ wants[a] = {}
  /\ Becomes(a, "out")
  /\ knows' = [knows EXCEPT ![a] = {}]
  /\ UNCHANGED wants

\* Requests for these agents overlapped, shared a document or were cut off.
Lose ==
  \E L \in SUBSET Agents :
    /\ stage' = [a \in Agents |-> IF a \in L THEN "out" ELSE stage[a]]
    /\ wants' = [a \in Agents |-> IF a \in L THEN {} ELSE wants[a]]
    /\ knows' = [a \in Agents |-> IF a \in L THEN {} ELSE knows[a]]

Next ==
  \/ \E a \in Agents :
       Request(a) \/ Change(a) \/ Succeed(a) \/ Fail(a) \/ Go(a)
  \/ Lose

Spec == Init /\ [][Next]_vars

\* No request takes for ever.
ChangesEnd == \A a \in Agents : stage[a] = "changing" ~> stage[a] # "changing"
=============================================================================
