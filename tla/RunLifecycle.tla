---------------------------- MODULE RunLifecycle ----------------------------
(***************************************************************************)
(* What the lifecycle of an agent run and its specialists promises,        *)
(* whoever performs the steps: the transition table of services/           *)
(* agent_runs/domain.py, and two rules about the family. A specialist      *)
(* starts, waits, resumes and completes only while its root is running;    *)
(* a root ends together with every specialist that is still open.          *)
(***************************************************************************)
CONSTANTS Root, Child

VARIABLE status

Run == {Root} \cup Child

\* Row creation (from "absent") aside, these are ALLOWED_TRANSITIONS.
AllowedTransitions ==
  [absent            |-> {"pending"},
   pending           |-> {"running", "failed", "cancelled"},
   running           |-> {"awaiting_approval", "completed", "failed", "cancelled"},
   awaiting_approval |-> {"running", "failed", "cancelled"},
   completed         |-> {},
   failed            |-> {},
   cancelled         |-> {}]

Terminal == {"completed", "failed", "cancelled"}
Open(r) == status[r] \notin Terminal /\ status[r] # "absent"

Init == status = [r \in Run |-> "absent"]

\* The member moves along an edge of the table that does not end it badly.
Advance(r) ==
  /\ r \in Child => status[Root] = "running"
  /\ \E s \in AllowedTransitions[status[r]] \ {"failed", "cancelled"} :
       /\ r = Root /\ s = "completed" => \A c \in Child : ~Open(c)
       /\ status' = [status EXCEPT ![r] = s]

\* A member ends alone, a root with every member that is still open.
EndsWith(r) == {m \in IF r = Root THEN Run ELSE {r} : Open(m)}

\* The member fails or is cancelled.
End(r) ==
  /\ Open(r)
  /\ \E s \in {"failed", "cancelled"} :
       status' = [m \in Run |-> IF m \in EndsWith(r) THEN s ELSE status[m]]

Next == \E r \in Run : Advance(r) \/ End(r)

Spec == Init /\ [][Next]_status

=============================================================================
