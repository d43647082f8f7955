--------------------------- MODULE MCXdpForward ---------------------------
(* Instances of XdpForward for TLC.                                        *)
EXTENDS XdpForward, TLC

\* As in the load_prog.sh scripts: RU 1 is on the VLAN of the DU.
MCRuVlan == [r \in Rus |-> IF r = 1 THEN DuVlan ELSE DuVlan + 1]
\* The scripts' bitmaps 51 and 204 divide the ports; or one RU has them all.
Divided == {[r \in Rus |-> {r - 1}], [r \in Rus |-> IF r = 1 THEN Ports ELSE {}]}
=============================================================================
