------------------------------ MODULE RunJobs -------------------------------
(***************************************************************************)
(* What the components of one kanly run have in common: its package        *)
(* pipelines and the value of --jobs.                                      *)
(***************************************************************************)
EXTENDS Integers

CONSTANTS
  Jobs,      \* the package pipelines, numbered in report order
  NumSlots   \* --jobs: worker slots, and pipelines in flight

ASSUME JobsAssumption == Jobs \subseteq Nat
ASSUME SlotsAssumption == NumSlots \in Nat \ {0}
=============================================================================
