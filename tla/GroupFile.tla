------------------------------ MODULE GroupFile ------------------------------
(***************************************************************************)
(* The file groups.txt as the server reads and rewrites it: one line per   *)
(* group, the group's name followed by its members.  A line is a record, a *)
(* file a sequence of lines.  A line that holds nothing but its newline is *)
(* the value Blank.                                                        *)
(***************************************************************************)
EXTENDS Naturals, Sequences

CONSTANT NoName      \* a token no user types: the name of an empty line

Blank == [name |-> NoName, members |-> <<>>]

(* The members of group g.  A group may have several lines: nothing keeps  *)
(* two users from creating the same one.                                   *)
MembersOf(file, g) ==
    UNION { { file[k].members[n] : n \in DOMAIN file[k].members } :
              k \in { j \in DOMAIN file : file[j].name = g } }

Exists(file, g) == \E k \in DOMAIN file : file[k].name = g

Lists(line, u) == \E n \in DOMAIN line.members : line.members[n] = u

(***************************************************************************)
(* create_group appends "<name> <creator> <members>" and a newline.  The   *)
(* members are the rest of the typed line: when they still end in the      *)
(* newline the user typed, the file gets a second newline, an empty line.  *)
(***************************************************************************)
Created(file, g, creator, members, newline) ==
    file \o <<[name |-> g, members |-> <<creator>> \o members]>>
         \o (IF newline THEN <<Blank>> ELSE <<>>)

(***************************************************************************)
(* join_group copies the file line by line to dummy.txt and renames it     *)
(* over groups.txt at the end.  Two lines cut the copy short: one that     *)
(* already lists the joiner (the copy is removed) and an empty one, where  *)
(* strtok finds no name and strcmp is called on NULL.                      *)
(***************************************************************************)
Already(line, g, u) == line.name = g /\ Lists(line, u)

JoinFaults(file, g, u) ==
    \E k \in DOMAIN file :
        /\ file[k] = Blank
        /\ \A j \in 1..(k - 1) : ~Already(file[j], g, u)

(* mutant: only the first line is searched for the joiner *)
JoinAlreadyFirst(file, g, u) == file # <<>> /\ Already(file[1], g, u)

JoinAlready(file, g, u) ==
    \E k \in DOMAIN file :
        /\ Already(file[k], g, u)
        /\ \A j \in 1..(k - 1) : file[j] # Blank

(* mutant: only the group's own lines are copied *)
JoinedAlone(file, g, u) == LET IsOwn(line) == line.name = g IN SelectSeq(file, IsOwn)

Joined(file, g, u) ==
    [k \in DOMAIN file |->
        IF file[k].name = g
        THEN [name |-> g, members |-> Append(file[k].members, u)]
        ELSE file[k]]
=============================================================================
