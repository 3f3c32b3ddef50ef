-------------------------------- MODULE Absent --------------------------------
(* What stands for a file, a record or a setting that is not there.         *)
CONSTANTS None
=============================================================================
