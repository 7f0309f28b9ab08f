--------------------------- MODULE MCReceivables ---------------------------
(* Receivables on small instances. *)
EXTENDS Receivables

CONSTANTS p1, p2

\* A reliable chain with two payments and small block ranges; a chain on which everything
\* may go wrong, with a debtor who is banned; a user who asks for scans.
SmallWorlds ==
  {[payments |-> {p1, p2}, ranges |-> {1, 2}, maxCharge |-> 1, maxBlock |-> 3, maxAsks |-> 0,
    faults |-> {"LogsError", "RangeError", "Kill", "Restart"}],
   [payments |-> {p1}, ranges |-> {1}, maxCharge |-> 2, maxBlock |-> 2, maxAsks |-> 0,
    faults |-> AllFaults],
   [payments |-> {p1}, ranges |-> {1}, maxCharge |-> 1, maxBlock |-> 1, maxAsks |-> 2,
    faults |-> {"HeadUnknown", "LogsError", "RangeError", "Kill", "Restart"}]}

=============================================================================
