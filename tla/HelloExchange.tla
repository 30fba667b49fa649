---------------------------- MODULE HelloExchange ----------------------------
(***************************************************************************)
(* What the datachannel sample promises its user: each of the two clients  *)
(* says hello at most once, and prints a hello at most once, after the     *)
(* other has said it.  How the two get to talk to each other is left out.  *)
(***************************************************************************)
CONSTANT Clients
VARIABLES said,     \* the clients that have said hello
          heard     \* per client, the senders of the messages printed, in order

vars == <<said, heard>>

Init == said = {} /\ heard = [c \in Clients |-> << >>]

Say(c) == c \notin said /\ said' = said \cup {c}

Hear(c) == /\ heard[c] = << >>
           /\ \E d \in said \ {c} : heard' = [heard EXCEPT ![c] = <<d>>]

\* A client may say hello and print what was waiting for it in one go.
Exchange(c) == \/ Say(c) /\ UNCHANGED heard
               \/ Hear(c) /\ UNCHANGED said
               \/ Say(c) /\ Hear(c)

Next == \E c \in Clients : Exchange(c)

Spec == Init /\ [][Next]_vars
==============================================================================
