------------------------------ MODULE Exchange ------------------------------
(***************************************************************************)
(* What an established IKE_SA promises to the tasks that use it: two peers *)
(* that run request/response exchanges in both directions, one at a time   *)
(* per direction and in order; a request is carried out at most once, and  *)
(* the answer the initiator gets is the answer the responder gave.  Either *)
(* peer may drop the IKE_SA at any step.                                   *)
(***************************************************************************)
EXTENDS Naturals

CONSTANTS Mid, Task, NoTask, NoResult

Phone == "phone"
Gateway == "gateway"
Peer == {Phone, Gateway}
Other(p) == IF p = Phone THEN Gateway ELSE Phone

\* done: a task carried the request out; the other two answers refuse it.
Result == {"done", "unsupported", "syntax"}

VARIABLES issued,     \* issued[p][k]: the task of p's request k
          ran,        \* ran[p][k]: how often p carried out its peer's request k
          result,     \* result[p][k]: what p answered to its peer's request k
          completed,  \* completed[p][k]: the answer p took for its request k
          alive       \* alive[p]: p still has the IKE_SA

xvars == <<issued, ran, result, completed, alive>>

Init ==
    /\ issued = [p \in Peer |-> [k \in Mid |-> NoTask]]
    /\ ran = [p \in Peer |-> [k \in Mid |-> 0]]
    /\ result = [p \in Peer |-> [k \in Mid |-> NoResult]]
    /\ completed = [p \in Peer |-> [k \in Mid |-> NoResult]]
    /\ alive = [p \in Peer |-> TRUE]

\* The request k is the one p waits for.
Open(p, k) == issued[p][k] # NoTask /\ completed[p][k] = NoResult

\* The next message ID of p gets a task.
NewRequest(p) ==
    \E k \in Mid :
       /\ issued[p][k] = NoTask
       /\ issued'[p][k] \in Task
       /\ issued' = [issued EXCEPT ![p][k] = issued'[p][k]]

\* p sends request k for a task, if it waits for no other answer.
Issue(p) ==
    /\ \A k \in Mid : ~Open(p, k)
    /\ NewRequest(p)
    /\ UNCHANGED <<ran, result, completed>>

\* p answers the request its peer waits for, which it has not answered yet.
Answer(p) ==
    \E k \in Mid, r \in Result :
       /\ Open(Other(p), k)
       /\ result[p][k] = NoResult
       /\ result' = [result EXCEPT ![p][k] = r]
       /\ ran' = [ran EXCEPT ![p][k] = IF r = "done" THEN 1 ELSE 0]
       /\ UNCHANGED <<issued, completed>>

\* p takes its peer's answer and may go on with its next request at once.
Finish(p) ==
    \E k \in Mid :
       /\ Open(p, k)
       /\ result[Other(p)][k] # NoResult
       /\ completed' = [completed EXCEPT ![p][k] = result[Other(p)][k]]
       /\ \/ UNCHANGED issued
          \/ NewRequest(p)
       /\ UNCHANGED <<ran, result>>

\* A step of p; p may drop the IKE_SA in it, and has it before.
Step(p) ==
    /\ alive[p]
    /\ \/ Issue(p)
       \/ Answer(p)
       \/ Finish(p)
       \/ UNCHANGED <<issued, ran, result, completed>>
    /\ alive' \in {alive, [alive EXCEPT ![p] = FALSE]}

Next == \E p \in Peer : Step(p)

Spec == Init /\ [][Next]_xvars
=============================================================================
