------------------------------ MODULE MCThreads -----------------------------
(* Small instances of Threads for TLC. *)
EXTENDS ThreadsProps

\* Pages are alike: which free one is taken makes no difference.  The page whose
\* number is that of the use, or else the lowest, keeps the states few.
CanonicalPage(S, use) == IF S = {} THEN {} ELSE {IF use \in S THEN use ELSE Min(S)}
=============================================================================
