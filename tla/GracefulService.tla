-------------------------- MODULE GracefulService --------------------------
(***************************************************************************)
(* What gitee/hook/server.go promises of GracefulShutdown, without saying  *)
(* how: jobs are accepted and finished in any order; once the interrupt    *)
(* has arrived, the service stops only when every job it had accepted by   *)
(* then is finished.  Jobs that slip in after the interrupt are not owed.  *)
(***************************************************************************)
CONSTANT Job

VARIABLES job,      \* the progress of each job
          phase,    \* "up", "draining" after the interrupt, "stopped"
          owed      \* the jobs accepted when the interrupt arrived

vars == <<job, phase, owed>>

TypeOK == /\ job \in [Job -> {"new", "accepted", "done"}]
          /\ phase \in {"up", "draining", "stopped"}
          /\ owed \in SUBSET Job

Init == /\ job = [j \in Job |-> "new"]
        /\ phase = "up"
        /\ owed = {}

Accept(j) == /\ job[j] = "new"
             /\ job' = [job EXCEPT ![j] = "accepted"]
             /\ UNCHANGED <<phase, owed>>

Finish(j) == /\ job[j] = "accepted"
             /\ job' = [job EXCEPT ![j] = "done"]
             /\ UNCHANGED <<phase, owed>>

Interrupt == /\ phase = "up"
             /\ phase' = "draining"
             /\ owed' = {j \in Job : job[j] # "new"}
             /\ UNCHANGED job

Stop == /\ phase = "draining"
        /\ \A j \in owed : job[j] = "done"
        /\ phase' = "stopped"
        /\ UNCHANGED <<job, owed>>

Next == \/ \E j \in Job : Accept(j) \/ Finish(j)
        \/ Interrupt
        \/ Stop

Spec == Init /\ [][Next]_vars
============================================================================
