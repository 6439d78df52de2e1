------------------------------ MODULE AuditLog ------------------------------
(***************************************************************************)
(* What the audit trail promises its readers: one sequence of records that *)
(* only ever grows at its end, in the order of their timestamps.           *)
(***************************************************************************)
EXTENDS Naturals, Sequences

CONSTANTS Record, Stamps

VARIABLE log    \* the records, oldest first: [id, ts]

Init == log = <<>>

Add(r, t) ==
  /\ \A i \in DOMAIN log : log[i].id # r /\ log[i].ts <= t
  /\ log' = Append(log, [id |-> r, ts |-> t])

Next == \E r \in Record, t \in Stamps : Add(r, t)

Spec == Init /\ [][Next]_log
=============================================================================
