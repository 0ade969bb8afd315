---------------------------- MODULE MCSigningKeys ----------------------------
(* SigningKeys for TLC: one onboarding request at a time, repeated after a  *)
(* failure, one consume loop and one sweep.                                 *)
EXTENDS SigningKeys
=============================================================================
