------------------------------- MODULE MsgBus --------------------------------
(***************************************************************************)
(* What CMsgMng promises the objects that post and receive messages,       *)
(* without items, locks or the dispatcher thread: posted messages wait in  *)
(* line; one message at a time goes to every receiver that is registered   *)
(* when its turn comes, once, in the order of registration; a receiver     *)
(* comes or goes only between two messages.  The messages that wait may be *)
(* dropped together, except that the first one may already be taken.       *)
(***************************************************************************)
EXTENDS Naturals, Sequences, SequencesExt

CONSTANTS Msg, Receiver, Nil

VARIABLES waiting,    \* messages posted and not begun, in the order of posting
          receivers,  \* registered receivers, in the order of registration
          current     \* Nil, or the message being delivered and who gets it yet

vars == <<waiting, receivers, current>>

Init == waiting = <<>> /\ receivers = <<>> /\ current = Nil

Post == /\ \E m \in Msg : waiting' = Append(waiting, m)
        /\ UNCHANGED <<receivers, current>>

Begin == /\ current = Nil /\ waiting # <<>>
         /\ current' = [msg |-> Head(waiting), todo |-> receivers]
         /\ waiting' = Tail(waiting) /\ UNCHANGED receivers

Deliver == /\ current # Nil /\ current.todo # <<>>
           /\ current' = [current EXCEPT !.todo = Tail(@)]
           /\ UNCHANGED <<waiting, receivers>>

End == /\ current # Nil /\ current.todo = <<>>
       /\ current' = Nil /\ UNCHANGED <<waiting, receivers>>

Drop == /\ waiting # <<>> /\ waiting' \in {<<>>, <<Head(waiting)>>}
        /\ UNCHANGED <<receivers, current>>

Join == /\ current = Nil
        /\ \E r \in Receiver : receivers' = Append(receivers, r)
        /\ UNCHANGED <<waiting, current>>

Leave == /\ current = Nil
         /\ receivers' \in {<<>>} \cup {RemoveAt(receivers, i) : i \in DOMAIN receivers}
         /\ UNCHANGED <<waiting, current>>

Next == Post \/ Begin \/ Deliver \/ End \/ Drop \/ Join \/ Leave

Spec == Init /\ [][Next]_vars
=============================================================================
