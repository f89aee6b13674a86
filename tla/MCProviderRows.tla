----------------------------- MODULE MCProviderRows ----------------------------
(* Instances of ProviderRows for TLC.                                      *)
EXTENDS ProviderRows

TheRow(date, service, amount) ==
    [date |-> date, service |-> service, amount |-> amount, whole |-> TRUE]

(* A day and service with one of two amounts, a second service, one whose  *)
(* name is the one oci gives to a missing service, and every way to be     *)
(* malformed.  Three services on two pages are more than RowLimit.         *)
Rows ==
    {TheRow(1, "compute", 1), TheRow(1, "compute", 2), TheRow(1, "storage", 1),
     TheRow(1, "unknown", 1), TheRow(1, Absent, 2), TheRow(Unreadable, "compute", 1),
     TheRow(1, "compute", Unreadable), TheRow(1, "compute", NaN),
     [TheRow(1, "compute", 1) EXCEPT !.whole = FALSE]}
===============================================================================
