------------------------------ MODULE MCSource -------------------------------
(* Instances of Source for TLC. *)
EXTENDS Source

MCKey == {0, 2}
MCWait == {"audio"}
MCFailures == {"seek","end"}
MCPos == {1, 3, 4}

LiveFailures == {"retry"}
LivePos == {2}
==============================================================================
