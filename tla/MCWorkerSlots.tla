---------------------------- MODULE MCWorkerSlots ---------------------------
(***************************************************************************)
(* Three pipelines that keep asking for three slots, each with two tasks so  *)
(* that a pipeline may hold a slot and wait for another.  Only a coverage  *)
(* run can be cancelled and only a confirmation takes all slots; here every *)
(* task may do either, which includes those cases.                         *)
(***************************************************************************)
EXTENDS WorkerSlots

CONSTANTS t1, t2

MCJobs == 1 .. 3
MCTasks == {t1, t2}
=============================================================================
