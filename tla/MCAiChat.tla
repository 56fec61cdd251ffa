------------------------------ MODULE MCAiChat ------------------------------
(* Small instances of AiChat for TLC.                                        *)
EXTENDS AiChat, TLC

=============================================================================
