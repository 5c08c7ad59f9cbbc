------------------------------- MODULE MCMlfq -------------------------------
(* Small instances of Mlfq for TLC. *)
EXTENDS MlfqProps

\* proc_queue_init's quantums are 2, 4, 6 and 8 ticks; the shortest ones make
\* a process fall through the levels soonest.
OneTick(l) == 1
=============================================================================
