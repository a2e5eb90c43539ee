--------------------------- MODULE MCLinkSupervisor ---------------------------
(* The order of the code's times that the supervision needs is kept:        *)
(* silent < dead and silent <= settle <= calm < reset, in units that keep   *)
(* the state small.                                                          *)
EXTENDS LinkSupervisor
=============================================================================
