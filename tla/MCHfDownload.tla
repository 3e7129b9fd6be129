---------------------------- MODULE MCHfDownload ----------------------------
(* Instances of HfDownload for TLC: a file of three chunks.                 *)
EXTENDS HfDownload
=============================================================================
