------------------------------ MODULE MCPrbMon ------------------------------
(* Instances of PrbMon for TLC.                                            *)
EXTENDS PrbMon, TLC

CONSTANTS Directions  \* the directions in which packets arrive

P(plane, mine, symbol, num_prbu, exps) ==
  [plane |-> plane, mine |-> mine, port |-> 0, symbol |-> symbol,
   num_prbu |-> num_prbu, exponent |-> exps]

Busy == <<2, 1>>
Half == <<3, 0>>

\* A control packet, a foreign one, two monitored ones, the first fully used
\* with its PRB count coded as zero, and one of another symbol.
AllKinds ==
  [d \in Dirs |-> IF d \notin Directions THEN {} ELSE
     {P("C", TRUE, 0, 0, Half), P("U", FALSE, 1, 0, Busy),
      P("U", TRUE, MONITORING_SYMBOL[d], 0, Busy), P("U", TRUE, MONITORING_SYMBOL[d], 2, Half),
      P("U", TRUE, 5, 1, Busy)}]
=============================================================================
