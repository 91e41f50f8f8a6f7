-------------------------------- MODULE MCFs --------------------------------
(* Small instances of CrusaderFs for TLC.                                  *)
EXTENDS CrusaderFs, TLC

CONSTANTS user, doc, notes, T1, T2

MCDefDirs == <<user>>
=============================================================================
