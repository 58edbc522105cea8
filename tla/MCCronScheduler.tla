-------------------------- MODULE MCCronScheduler --------------------------
(* Instances of CronScheduler for TLC. *)
EXTENDS CronScheduler, TLC

CONSTANTS j1, j2, j3, head, early, late

(* The id of j1 happens to be a prefix of that of j2, and the argument     *)
(* `head' is a proper prefix of both.                                      *)
MCExtends == (j1 :> {j2}) @@ (j2 :> {}) @@ (j3 :> {}) @@ (head :> {j1, j2})

MCMinutes == (early :> {1, 2}) @@ (late :> {2}) @@ (EveryMinute :> 0 .. 9)

OnFile(id, s) == [id |-> id, schedule |-> s, enabled |-> TRUE]

(* A gateway that starts with one saved job.                               *)
OneJob == <<OnFile(j1, early)>>
=============================================================================
