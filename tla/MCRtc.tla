------------------------------- MODULE MCRtc -------------------------------
(* Half a half-period of six ticks leaves room for the safety margin of     *)
(* three ticks and for the latency of the interrupt.                        *)
EXTENDS Rtc
=============================================================================
