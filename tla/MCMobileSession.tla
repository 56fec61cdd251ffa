--------------------------- MODULE MCMobileSession ---------------------------
(* MobileSession with every kind of connection; see Mobile.cfg.            *)
EXTENDS MobileSession
=============================================================================
