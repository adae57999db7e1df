------------------------------ MODULE MCRender -------------------------------
(* Instances of Render for TLC. *)
EXTENDS Render

MCScenario == {
  [video |-> <<1, 2>>, audio |-> <<1>>, atEnd |-> "http", calls |-> 3, gaps |-> 0],
  [video |-> <<1, 2>>, audio |-> <<1, 2>>, atEnd |-> "http", calls |-> 2, gaps |-> 1],
  [video |-> <<0, 1>>, audio |-> <<2>>, atEnd |-> "local", calls |-> 2, gaps |-> 1] }
MCSeekPos == {2}
==============================================================================
