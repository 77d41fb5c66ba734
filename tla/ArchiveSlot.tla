---------------------------- MODULE ArchiveSlot ----------------------------
(***************************************************************************)
(* What CopyToArchive and Drain promise of one archive name and its queue  *)
(* row: the name holds nothing, the queued bytes or something else; the    *)
(* row is DONE only when the bytes are there, and from then on they stay.  *)
(* Before that the agent may take its own copy back.  It never puts its    *)
(* bytes over something else.                                              *)
(***************************************************************************)
VARIABLES slot, status

Init == slot \in {"empty", "other"} /\ status = "PENDING"

Place == slot = "empty" /\ slot' = "whole" /\ UNCHANGED status

\* A copy that read back wrong is removed.
TakeBack == slot = "whole" /\ status # "DONE" /\ slot' = "empty" /\ UNCHANGED status

\* Others put a file at the name, or take theirs away; the archive may fail
\* to store what it was given, and the agent removes that too.
Foreign == slot = "empty" /\ slot' = "other" /\ UNCHANGED status

Cleared == slot = "other" /\ slot' = "empty" /\ UNCHANGED status

Finish == slot = "whole" /\ status = "PENDING" /\ status' = "DONE" /\ UNCHANGED slot

GiveUp == status = "PENDING" /\ status' = "FAILED" /\ UNCHANGED slot

Retry == status = "FAILED" /\ status' = "PENDING" /\ UNCHANGED slot

Next == Place \/ TakeBack \/ Foreign \/ Cleared \/ Finish \/ GiveUp \/ Retry

Spec == Init /\ [][Next]_<<slot, status>>
=============================================================================
