---------------------------- MODULE MCChatServer ----------------------------
(***************************************************************************)
(* Small instances of the chat server for TLC.                             *)
(***************************************************************************)
EXTENDS ChatServerProperties, TLC

CONSTANTS p1, p2, p3,        \* client processes
          ann, bob, cat,     \* user names
          secret, typo,      \* a password and a wrong one
          team, other        \* group names

Symmetric == Permutations(Procs)

(* Once the server is down only the clients move, and they only read and   *)
(* leave: runs of safety properties stop there.                            *)
ServerUp == ~Down

AllAccounts == Users \X {secret}

Who == [type |-> "GET_USERS"]
Msg(u) == [type |-> "PRIVATE_MESSAGE", to |-> u]
Talk(g) == [type |-> "PUBLIC_MESSAGE", group |-> g]
Join(g) == [type |-> "JOIN_GROUP", group |-> g]
Create(g, members, newline) ==
    [type |-> "CREATE_GROUP", group |-> g, members |-> members, newline |-> newline]
LogIn(u, p) == [type |-> "SET_USERNAME", user |-> u, pass |-> p]
Line(g, members) == [name |-> g, members |-> members]

(* Sessions: two slots that change hands among three processes, and users  *)
(* one of whom is listed twice for a group.                                *)
SessionLogins == { LogIn(ann, secret), LogIn(bob, typo) }
SessionCommands == { Msg(ann), Talk(team) }
OnlyPrivate == { Msg(ann) }
SessionsOfFour == ServerUp /\ sent[p1] + sent[p2] + sent[p3] <= 4
AnnTwice == << Line(team, <<ann>>), Line(team, <<cat, ann>>) >>
NoGroups == <<>>

(* Groups: a group with two lines, commands that append, rewrite and read. *)
GroupLogins == { LogIn(ann, secret), LogIn(bob, secret), LogIn(bob, NoPassword) }
GroupCommands == { Talk(team), Join(team), Create(other, <<ann>>, TRUE) }
FiveMessages == ServerUp /\ sent[p1] + sent[p2] <= 5
TeamTwice == << Line(team, <<cat>>), Line(other, <<cat>>), Line(team, <<bob>>) >>

(* Every process that leaves has read what it was sent.                    *)
CleanLeaves == ServerUp /\ \A c \in Procs : conn[c] # "rst"

(* Progress: two slots that three processes want.                          *)
ProgressLogins == { LogIn(ann, secret), LogIn(ann, typo) }
ProgressCommands == {}
=============================================================================
