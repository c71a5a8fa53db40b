--------------------------- MODULE MCPrivateChat ----------------------------
(***************************************************************************)
(* Small instances of the clients for TLC.                                 *)
(***************************************************************************)
EXTENDS PrivateChat, TLC

CONSTANTS c1, c2, c3,          \* clients
          ann, bob, cat,       \* user names
          text, digits, long,  \* a text, a number, a text that is too long
          team                 \* a group

Typed(word, args) == [word |-> word, args |-> args, newline |-> TRUE]
Bare(word, args) == [word |-> word, args |-> args, newline |-> FALSE]

Names == (c1 :> ann) @@ (c2 :> bob) @@ (c3 :> cat)
Overlong == {long}
Short == { <<digits>> }
Numbers == (digits :> 65535)

(* bob and cat are in the room; ann has called.                            *)
Seats == (1 :> c2) @@ (2 :> c3) @@ (3 :> NoOne)
OneSeat == (1 :> NoOne)

(* The stack holds a private message, or the text of one.                  *)
OldRequests == { [type |-> "PRIVATE_MESSAGE", to |-> bob] }
OldNumbers == { 65535 }
Messages == { Typed("/msg", <<ann, text>>), Typed("/msg", <<bob, text>>) }

(* The client that is just logging in types a line of each kind; one       *)
(* writes to the client that may be killed, whose name then stays behind   *)
(* in a slot that the newcomer can take.                                   *)
SomeLines ==
    (c1 :> { Typed("/msg", <<bob, text>>), Typed("/recv", <<>>), Bare("/who", <<>>),
             Bare("/q", <<>>), Typed("/q", <<>>), Typed("/join_grp", <<>>) })
    @@ (c2 :> { Typed("/msg", <<cat, text>>) })
    @@ (c3 :> Messages \cup { Typed("/msg_group", <<team, digits>>) })

OnlyMessages == [c \in Clients |-> Messages]
OnlyQuit == [c \in Clients |-> { Typed("/quit", <<>>) }]

(* The first port of the program, and the last of 16 bits.                 *)
FirstPort == { 1111 }
LatePort == { 65535 }
=============================================================================
