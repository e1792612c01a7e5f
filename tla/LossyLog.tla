------------------------------ MODULE LossyLog ------------------------------
(***************************************************************************)
(* What is left of "append-only" once a log can be restarted from a file:  *)
(* a step adds one entry that continues the chain, or the log goes back to *)
(* what it was at some earlier time.  Nothing is ever edited, reordered or *)
(* inserted, and what was lost is always the end of the log.               *)
(***************************************************************************)
EXTENDS TransLog

CONSTANT LogPub  \* the log's public key

VARIABLE log

LossyInit == log = <<>>

Extend ==
    /\ Len(log') = Len(log) + 1
    /\ SubSeq(log', 1, Len(log)) = log
    /\ LogVerify(LogPub, log')

Restart == \E n \in 0..Len(log) : log' = SubSeq(log, 1, n)

LossySpec == LossyInit /\ [][Extend \/ Restart]_log
=============================================================================
