----------------------------- MODULE MCUdpLink -----------------------------
(* Two boots, two commands, two waits after the first.                     *)
EXTENDS UdpLink

MCBackoff == <<1, 3>>
=============================================================================
