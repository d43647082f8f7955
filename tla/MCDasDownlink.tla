--------------------------- MODULE MCDasDownlink ---------------------------
(* Instances of DasDownlink for TLC.                                       *)
EXTENDS DasDownlink

\* One kind of each treatment.
Treatments == {"control", "iq", "stray"}

\* A Debug build with a worker, which stops when something does not fit, a
\* Release build with a worker, which gets nothing to do, and one that does all
\* the work on the main lcore.
MCDeployments ==
  {[num_workers |-> 1, asserts |-> TRUE, tx_may_fail |-> FALSE],
   [num_workers |-> 1, asserts |-> FALSE, tx_may_fail |-> FALSE],
   [num_workers |-> 0, asserts |-> FALSE, tx_may_fail |-> TRUE],
   [num_workers |-> 0, asserts |-> FALSE, tx_may_fail |-> FALSE]}
=============================================================================
