--------------------------- MODULE MCFileTransfer ---------------------------
(***************************************************************************)
(* A small instance of the file transfer for TLC.                          *)
(***************************************************************************)
EXTENDS FileTransfer

CONSTANTS c1, c2,      \* clients
          annPng       \* files of type png for ann

(* A directory from which file 0 was taken away.                           *)
Gap == { [sh \in Shelves |-> [i \in Indexes |-> IF i = 1 THEN <<Rest>> ELSE NoFile]] }

(* A file that ends with a block, one that does not, one that shrinks by a *)
(* block after its size was taken, and one above the limit.                *)
Took(s, n) == [size |-> s, read |-> n]
FourFiles == { Took(3, 3), Took(4, 4), Took(4, 2), Took(5, 5) }
=============================================================================
