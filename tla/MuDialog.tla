------------------------------ MODULE MuDialog ------------------------------
(***************************************************************************)
(* What mu4e and one server promise each other: commands are answered one  *)
(* by one in the order they were given, every reply is handled once and in *)
(* the order it was printed, and none is lost before the server has ended. *)
(* Nothing is promised of a server that mu4e has forgotten, or that runs   *)
(* beside another one (~safe).                                             *)
(***************************************************************************)
EXTENDS Naturals, Sequences

CONSTANTS Answers(_),    \* command -> the results it may have (MuProtocol)
          Replies(_, _)  \* the replies to the n-th command of a session

VARIABLES asked,   \* the commands that wait: <<[n, cmd], ...>>
          said,    \* the replies that were printed and not handled yet
          heard,   \* the replies that were handled
          safe,    \* the promise holds
          over     \* the server has ended

dialog == <<asked, said, heard, safe, over>>

Init == asked = <<>> /\ said = <<>> /\ heard = <<>> /\ safe /\ ~over

Ask ==
  /\ ~over
  /\ \E line \in {asked'[i] : i \in DOMAIN asked'} : asked' = Append(asked, line)
  /\ UNCHANGED <<said, heard, safe, over>>

\* A server may end while it answers, and then some of the replies are missing.
Serve ==
  /\ ~over
  /\ asked # <<>>
  /\ asked' = Tail(asked)
  /\ \E r \in Answers(Head(asked).cmd) : \E k \in 0..Len(r.replies) :
       /\ k < Len(r.replies) \/ r.rv = "stop" => over'
       /\ said' = said \o SubSeq(Replies(Head(asked).n, r.replies), 1, k)
  /\ UNCHANGED <<heard, safe>>

Hear ==
  /\ said # <<>>
  /\ heard' = Append(heard, Head(said))
  /\ said' = Tail(said)
  /\ UNCHANGED <<asked, safe, over>>

End == ~over /\ over' /\ UNCHANGED <<asked, said, heard, safe>>

\* Once the server has ended mu4e forgets what it did not handle.
Forget == over /\ said' = <<>> /\ UNCHANGED <<asked, heard, safe, over>>

Abandon == ~safe'

Next == Abandon \/ Ask \/ Serve \/ Hear \/ End \/ Forget

Spec == Init /\ [][Next]_dialog

=============================================================================
