------------------------------ MODULE MCNearby ------------------------------
(***************************************************************************)
(* What docs/nearby-file-transfer.md promises of NearbyTransfer and the    *)
(* run refutes.                                                            *)
(***************************************************************************)
EXTENDS NearbyTransfer

\* A receiver that shows the transfer as cancelled or failed has not replaced the
\* existing file.
FailedKeepsTheOldFile == rState = "Error" => book # File(rSession)
=============================================================================
