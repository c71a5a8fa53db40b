--------------------------- MODULE MCRegistration ---------------------------
(***************************************************************************)
(* A small instance of registration for TLC.                               *)
(***************************************************************************)
EXTENDS Registration

CONSTANTS c1, c2,        \* clients
          ann, bob,      \* user names
          pw, key        \* passwords

(* No file, an empty one, and one in which a name is taken.                *)
SomeFiles == { Missing, <<>>, << [name |-> ann, pass |-> pw] >> }
=============================================================================
