------------------------------ MODULE MCMsgMng -------------------------------
(* Instances of MsgMng for TLC: the .cfg files give every constant model    *)
(* values.                                                                  *)
EXTENDS MsgMng
=============================================================================
