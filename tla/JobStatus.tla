------------------------------ MODULE JobStatus ------------------------------
(***************************************************************************)
(* What a client of cuscuta is promised about the jobs of its request: a   *)
(* job is queued, perhaps seen running and queued again, and reaches one   *)
(* final status, which then stands.                                        *)
(***************************************************************************)
CONSTANT Job

VARIABLE status

Final == {"Success", "Failed"}
Status == {"None", "Queueing", "Pending"} \cup Final

Init == status = [j \in Job |-> "None"]

\* A request queues its jobs together.
Enqueue(jobs) ==
  /\ \A j \in jobs : status[j] = "None"
  /\ status' = [j \in Job |-> IF j \in jobs THEN "Queueing" ELSE status[j]]

Begin(j) ==
  /\ status[j] = "Queueing"
  /\ status' = [status EXCEPT ![j] = "Pending"]

\* Whoever pulls the job next could not read that it runs.
Again(j) ==
  /\ status[j] = "Pending"
  /\ status' = [status EXCEPT ![j] = "Queueing"]

End(j, outcome) ==
  /\ status[j] \in {"Queueing", "Pending"}
  /\ status' = [status EXCEPT ![j] = outcome]

Next ==
  \/ \E jobs \in SUBSET Job : Enqueue(jobs)
  \/ \E j \in Job : Begin(j) \/ Again(j) \/ \E outcome \in Final : End(j, outcome)

Spec == Init /\ [][Next]_status
=============================================================================
