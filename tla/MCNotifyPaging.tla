--------------------------- MODULE MCNotifyPaging ---------------------------
(* NotifyPaging on a small instance: both incidents have the one cause.    *)
EXTENDS NotifyPaging, TLC

CONSTANTS f1

MCCauseOf == [i \in Ids |-> f1]
=============================================================================
