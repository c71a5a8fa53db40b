---------------------------- MODULE ClientInput -----------------------------
(***************************************************************************)
(* What client.c makes of a typed line: handle_user_input, without its     *)
(* sends.  fgets keeps the newline and nobody trims it, so a line is a     *)
(* word, its arguments and whether a newline ends it; one that ends        *)
(* without it was ended by the end of input.  Only a line with a newline   *)
(* or a blank after its word is a line here: behind a bare prefix such as  *)
(* "/msg" the code looks past the end of the text.                         *)
(***************************************************************************)
EXTENDS Naturals, Sequences

CONSTANTS
    TooLong,         \* names of more than 20 characters, texts of more than 100
    ShortTexts,      \* texts of less than ten characters
    NumberOf         \* what atoi makes of the words that begin with digits

ASSUME WordsAreNumbers == NumberOf \in [DOMAIN NumberOf -> Nat]

Prints == [does |-> "print"]
Faults == [does |-> "fault"]     \* strlen or strncpy of NULL
Stops == [does |-> "stop"]
Sends(m) == [does |-> "send", msg |-> m]
Asks(m) == [does |-> "ask", msg |-> m]      \* send, then wait for the answer

(* strcmp with the whole line.                                             *)
Is(l, words) == l.word \in words /\ l.args = <<>> /\ ~l.newline

Count(l) == Len(l.args)
NameFits(l) == l.args[1] \notin TooLong

(* atoi, of which a text is its first word; most words make 0.             *)
Number(word) == IF word \in DOMAIN NumberOf THEN NumberOf[word] ELSE 0

(* The text of a message is the rest of the line.                          *)
Text(words) == [number |-> Number(Head(words)), short |-> words \in ShortTexts]

GroupMessage(l) ==
    CASE Count(l) >= 1 /\ ~NameFits(l) -> Prints
      [] Count(l) = 0 \/ (Count(l) = 1 /\ NameFits(l)) -> Faults
      [] OTHER -> Sends([type |-> "PUBLIC_MESSAGE", group |-> l.args[1],
                         text |-> Text(Tail(l.args))])

PrivateMessage(l) ==
    IF Count(l) < 2 \/ ~NameFits(l) \/ l.args[2] \in TooLong THEN Prints
    ELSE Asks([type |-> "PRIVATE_MESSAGE", to |-> l.args[1], text |-> Text(Tail(l.args))])

(* The name of the file is the rest of the line, so a newline is part of   *)
(* it.  The body of the file follows: module FileTransfer.                 *)
SendFile(l) ==
    IF Count(l) < 2 \/ ~NameFits(l) \/ l.newline THEN Prints
    ELSE Sends([type |-> "SEND_FILE", to |-> l.args[1]])

CreateGroup(l) ==
    IF Count(l) < 2 \/ ~NameFits(l) THEN Prints
    ELSE Sends([type |-> "CREATE_GROUP", group |-> l.args[1]])

(* A last argument keeps the newline: no group is called that.             *)
JoinGroup(l) ==
    CASE Count(l) = 0 -> Faults
      [] Count(l) > 0 /\ ~NameFits(l) -> Prints
      [] OTHER -> Sends([type |-> "JOIN_GROUP", group |-> l.args[1], 
                         whole |-> Count(l) > 1 \/ ~l.newline])

(* The chain of comparisons, in its order.                                 *)
Effect(l) ==
    CASE Is(l, {"/q", "/quit"}) -> Stops
      [] Is(l, {"/who"}) -> Sends([type |-> "GET_USERS"])
      [] l.word = "/msg_group" -> GroupMessage(l)
      [] l.word = "/msg" -> PrivateMessage(l)
      [] l.word = "/send" -> SendFile(l)
      [] l.word = "/recv" -> Sends([type |-> "RECEIVE_FILE"])
      [] l.word = "/create_grp" -> CreateGroup(l)
      [] l.word = "/join_grp" -> JoinGroup(l)
      [] OTHER -> Prints
=============================================================================
