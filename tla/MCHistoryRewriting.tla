-------------------------- MODULE MCHistoryRewriting --------------------------
(***************************************************************************)
(* Instance of HistoryRewriting: one repository with three commits, and    *)
(* one change more that somebody may make.                                 *)
(***************************************************************************)
EXTENDS HistoryRewriting

CONSTANTS r1, p1, p2, p3, p4

ThreeCommits == [r \in Repo |-> <<{p1}, {p2}, {p3}>>]
===============================================================================
