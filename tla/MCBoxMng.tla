------------------------------ MODULE MCBoxMng -------------------------------
(* Instances of BoxMng for TLC. *)
EXTENDS BoxMng, TLC

AllButCache == API \ {"addcache"}
AllButFast == API \ {"fastopen"}
SeekCalls == {"open", "setpos"}
CloseCalls == {"open", "close"}
PauseCalls == {"open", "pause"}

AudioVideo == {{"audio", "video"}}
AudioOnly == {{"audio"}}
SymmetricURL == Permutations(URL)
=============================================================================
