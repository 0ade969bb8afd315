--------------------------- MODULE MCPortalSession ---------------------------
(* PortalSession for TLC: two tabs of one browser.                          *)
EXTENDS PortalSession
=============================================================================
