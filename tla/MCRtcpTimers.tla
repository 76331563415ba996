----------------------------- MODULE MCRtcpTimers -----------------------------
(* Two streams and their timers, for TLC.                                      *)
EXTENDS RtcpTimers
MCTimers == {"a", "b"} \X {"tx", "rx"}
=============================================================================
