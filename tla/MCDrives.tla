------------------------------ MODULE MCDrives ------------------------------
(* A disk of just under 32 MB, one of 146 MB, two units that do not answer. *)
EXTENDS CrusaderDrives, TLC

CONSTANTS pm, ps, sm, ss

MCScan == <<pm, ps, sm, ss>>
MCSectors == pm :> 65533 @@ ps :> 300000 @@ sm :> 0 @@ ss :> 0
=============================================================================
