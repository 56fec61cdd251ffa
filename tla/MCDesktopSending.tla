--------------------------- MODULE MCDesktopSending ---------------------------
(* DesktopSending with both windows; see DesktopSending.cfg.               *)
EXTENDS DesktopSending
=============================================================================
