----------------------------- MODULE MCEnrollment -----------------------------
(* Instances of Enrollment for TLC: one Agent, three concurrent executions.    *)
EXTENDS Enrollment

CONSTANTS c1, c2, d1, d2, unknown

\* A full first request, one that omits the declaration and supplies another
\* claim, one that declares other documents, and one without the required claim.
MCRequests ==
  { [claims |-> {c1}, declared |-> {d1}],
    [claims |-> {c1, c2, unknown}, declared |-> None],
    [claims |-> {c1}, declared |-> {d2, unknown}],
    [claims |-> {}, declared |-> {d1}] }

TwoRequests ==
  { [claims |-> {c1}, declared |-> {d1}], [claims |-> {c1, c2}, declared |-> {d2}] }

MCDecisions ==
  { [status |-> "active", owner |-> None, update |-> TRUE],
    [status |-> "pending", owner |-> TRUE, update |-> FALSE],
    [status |-> "rejected", owner |-> FALSE, update |-> TRUE] }
=============================================================================
