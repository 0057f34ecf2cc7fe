------------------------------- MODULE MCUsage -------------------------------
(* Usage discovery on a small instance for TLC *)
EXTENDS UsageScan, TLC
CONSTANTS h

ThreePorts == <<443, 8443, 9443>>

Target(port, src) == [host |-> h, port |-> port, src |-> src]

\* A host of the inventory that was also sighted at the first port, so that both
\* candidates may end at one row; host:443 entered by hand; nothing at all
Candidates == {{Target(0, "inventory"), Target(443, "network_sighting")},
               {Target(443, "manual")},
               {}}
==============================================================================
