---------------------------- MODULE MCVideoSource ----------------------------
(***************************************************************************)
(* Two web requests and the player; interchangeable requests.              *)
(***************************************************************************)
EXTENDS VideoSource, TLC

ViewerSymmetry == Permutations(Viewers)
=============================================================================
