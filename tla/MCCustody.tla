------------------------------ MODULE MCCustody ------------------------------
(***************************************************************************)
(* The instance of AttachmentCustody that TLC checks: one file, posted any *)
(* number of times, one request at a time, two scanners and two sweeps.    *)
(***************************************************************************)
EXTENDS AttachmentCustody
=============================================================================
