------------------------------ MODULE MCHttpIO -------------------------------
(* Instances of HttpIO for TLC. *)
EXTENDS HttpIO

MCReadPos == {0, 5}
MCSize == {2}
MCFlag == {"video"}

(* An empty cache; two with the head and, behind a gap, the moov box to the *)
(* end, which begins with a block or within one; one that begins behind the *)
(* start, and one that ends within the box.                                 *)
MCCache == { <<>>,
  <<Block(0, <<0, 1>>), Block(4, <<4, 5>>), Block(6, <<6, 7>>)>>,
  <<Block(0, <<0>>), Block(3, <<3, 4>>), Block(5, <<5, 6>>), Block(7, <<7>>)>>,
  <<Block(4, <<4, 5>>), Block(6, <<6, 7>>)>>,
  <<Block(0, <<0, 1>>), Block(4, <<4, 5>>)>> }
MCMoov == [pos |-> 4, size |-> 4]
==============================================================================
