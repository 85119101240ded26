------------------------------- MODULE JobLife -------------------------------
(***************************************************************************)
(* What the agent promises about the send jobs that it shows: the life of  *)
(* each job, as another program sees it through GET /jobs/<id> or          *)
(* GET /remote-jobs/<id>.                                                  *)
(*                                                                         *)
(* How a job sends its file, what a sidecar or a manifest says and which   *)
(* goroutine reports is left to the module Jobs, which implements this     *)
(* one.  Pulls uses it for the jobs of the other agent.                    *)
(***************************************************************************)
CONSTANT Job

VARIABLE life

Active == {"running", "canceling"}
Ended == {"done", "failed", "canceled"}

(* A job that is "new" was not created yet.  One that is "absent" was      *)
(* pruned and may be found again by a restart, one that is "gone" was      *)
(* removed by the user.                                                    *)
Lives == {"new", "absent", "gone"} \cup Active \cup Ended

Becomes(j, s) == life' = [life EXCEPT ![j] = s]

Init == life = [j \in Job |-> "new"]

Create(j) == life[j] = "new" /\ Becomes(j, "running")

Cancel(j) == life[j] \in Active /\ Becomes(j, "canceling")

Resume(j) == life[j] \in {"canceled", "failed"} /\ Becomes(j, "running")

Pruned(k) == life[k] \in Ended /\ life'[k] = "absent"

(* Jobs that ended leave the history when another one ends; that may be    *)
(* the very job.                                                           *)
Finish(j) ==
  /\ life[j] \in Active
  /\ life' \in [Job -> Lives]
  /\ life'[j] \in Ended \cup {"absent"}
  /\ \A k \in Job \ {j} : life'[k] = life[k] \/ Pruned(k)

Forget(j) == life[j] \in Ended /\ Becomes(j, "gone")

(* What the restart makes of a job depends on its files.                   *)
Restart ==
  /\ life' \in [Job -> Lives]
  /\ \A j \in Job :
       IF life[j] \in {"new", "gone"} THEN life'[j] = life[j]
       ELSE life'[j] \in Ended \cup {"absent"}

Next ==
  \/ \E j \in Job :
       Create(j) \/ Cancel(j) \/ Resume(j) \/ Finish(j) \/ Forget(j)
  \/ Restart

Spec == Init /\ [][Next]_life
=============================================================================
