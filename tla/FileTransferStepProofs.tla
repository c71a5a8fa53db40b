---------------------- MODULE FileTransferStepProofs ----------------------
(***************************************************************************)
(* Proofs about /send: where the server takes file data for a message, and *)
(* how many answers a client can be sent.                                  *)
(***************************************************************************)
EXTENDS FileTransferProofs

(* A client whose reads were whole, that has not been reset, and whose     *)
(* files end with a block that is not full.                                *)
Tidy(c) ==
    /\ cuts[c] = 0 /\ conn[c] # "finrst"
    /\ \A n \in DOMAIN files[c] : files[c][n].size % BlockSize # 0 /\ Unchanged(files[c][n])

(* Behind position e of c's stream come r units, of which all have been    *)
(* written or whole blocks, and then a message, or nothing.                *)
After(c, e, r) ==
    /\ e + r + 1 <= Length(c) => IsType(At(c, e + r + 1))
    /\ Len(wire[c]) >= e + r \/ Len(wire[c]) - e \in Blocks

(* The units of a file behind a message.                                   *)
Behind(u, r) ==
    IF Announces(u) THEN r = Padded(Announced(u.msg.id).read) ELSE r = 0

(* What is left of c's file when the transfer is j.                        *)
Left(c, j, r) ==
    IF j.from = c
    THEN j.count \in Blocks /\ Padded(Announced(j.id).read) = j.count + r
    ELSE r = 0

WholeAt(c, p) ==
    \A u \in {wire[c][p]} : IsType(u) =>
        /\ p + (MessageSize - 1) <= Len(wire[c])
        /\ \E r \in Nat : Behind(u, r) /\ After(c, p + (MessageSize - 1), r)

InStep(c) ==
    /\ lost # c
    /\ \A p \in 1..Len(wire[c]) : WholeAt(c, p)
    /\ \A j \in {job} : \E r \in Nat : Left(c, j, r) /\ After(c, 0, r)

(* A server that has ended reads nothing more.                             *)
Steps == server # "down" => \A c \in Clients : Tidy(c) => InStep(c)

-----------------------------------------------------------------------------
(* What the server has not read is the front of the stream.                *)
LEMMA InStream ==
  ASSUME Types, NEW c \in Clients
  PROVE  \E l, w \in Nat :
           /\ l = Length(c) /\ w = Len(wire[c]) /\ w <= l
           /\ \A q \in 1..w : q \in 1..l /\ At(c, q) = wire[c][q]
  <1>1. PICK l \in Nat, w \in Nat, b \in Nat :
          l = Length(c) /\ w = Len(wire[c]) /\ b = Len(body[c]) /\ l = w + b
    BY Lengths
  <1>2. l = w + b BY <1>1
  <1>3. w <= l /\ \A q \in 1..w : q \in 1..l /\ q <= w BY <1>2
  <1>4. \A q \in 1..w : At(c, q) = wire[c][q] BY <1>1, <1>3, Zenon DEF At
  <1> QED BY <1>1, <1>3, <1>4, Zenon

(* A client that is up has written all that it announced.                  *)
LEMMA AllWritten ==
  ASSUME IInv, NEW c \in Clients, conn[c] = "up"
  PROVE  /\ \A p \in 1..Len(wire[c]) : \A u \in {wire[c][p]} : \A r \in Nat :
               IsType(u) /\ Behind(u, r) /\ p + (MessageSize - 1) <= Len(wire[c]) =>
                   p + (MessageSize - 1) + r <= Length(c)
         /\ \A j \in {job} : \A r \in Nat : Left(c, j, r) => r <= Length(c)
  <1>1. PICK l \in Nat, w \in Nat :
          /\ l = Length(c) /\ w = Len(wire[c]) /\ w <= l
          /\ \A q \in 1..w : q \in 1..l /\ At(c, q) = wire[c][q]
    BY InStream DEF IInv
  <1>2. ASSUME NEW p \in 1..w, NEW u, u = wire[c][p], NEW r \in Nat, IsType(u), Behind(u, r),
               p + (MessageSize - 1) <= w
        PROVE  p + (MessageSize - 1) + r <= l
    <2>1. PICK e \in Nat : e = p + (MessageSize - 1)
      <3>1. p \in Nat /\ p + (MessageSize - 1) \in Nat BY BlocksHaveRoom
      <3> QED BY <3>1, Zenon
    <2>2. CASE ~Announces(u)
      <3>1. r = 0 BY <1>2, <2>2 DEF Behind
      <3>2. e <= w BY <1>2, <2>1
      <3>4. w <= l BY <1>1
      <3>3. e + r <= l BY <3>1, <3>2, <3>4
      <3> QED BY <2>1, <3>3
    <2>3. CASE Announces(u)
      <3>1. p \in 1..l /\ At(c, p) = u BY <1>1, <1>2, Zenon
      <3>2. Follows(c, e, u.msg.id, 0)
        BY <2>1, <2>3, <1>1, <3>1, Zenon DEF IInv, Streams, StreamAt
      <3>3. r = Padded(Announced(u.msg.id).read) BY <1>2, <2>3 DEF Behind
      <3>4. e + r <= l + 0 BY <1>1, <3>2, <3>3, Zenon DEF Follows
      <3> QED BY <2>1, <3>4
    <2> QED BY <2>2, <2>3
  <1>3. ASSUME NEW j, j = job, NEW r \in Nat, Left(c, j, r) PROVE r <= l
    <2>1. CASE j.from # c
      <3>1. r = 0 BY <1>3, <2>1, Zenon DEF Left
      <3> QED BY <3>1
    <2>2. CASE j.from = c
      <3>1. j # Idle BY <2>2, NoClientIsNone DEF Idle
      <3>2. j \in Jobs BY <1>3, <3>1 DEF IInv, Types
      <3>3. Follows(c, 0, j.id, j.count) BY <1>3, <2>2, <3>1, Zenon DEF IInv, Reading
      <3>4. PICK k \in Nat : k = j.count BY <3>2 DEF Jobs
      <3>5. Padded(Announced(j.id).read) = k + r BY <1>3, <2>2, <3>4 DEF Left
      <3>6. 0 + (k + r) <= l + k BY <1>1, <3>3, <3>4, <3>5, Zenon DEF Follows
      <3> QED BY <3>6
    <2> QED BY <2>1, <2>2
  <1> QED BY <1>1, <1>2, <1>3

(* What is written of a stream grows by whole blocks, or to its end, while *)
(* j units are taken from its front.                                       *)
Drawn(c, j) ==
    \/ Len(wire[c])' + j = Len(wire[c])
    \/ j = 0 /\ Len(wire[c])' = Len(wire[c]) + BlockSize
    \/ j = 0 /\ conn[c] = "up" /\ Len(wire[c]) = Length(c) /\ Len(wire[c])' >= Len(wire[c])

LEMMA AfterOn ==
  ASSUME Types, Types', NEW c \in Clients, NEW j \in Nat, Moved(c, j), Drawn(c, j),
         NEW e \in Nat, NEW r \in Nat, After(c, e + j, r),
         conn[c] = "up" => e + j + r <= Length(c)
  PROVE  After(c, e, r)'
  <1>1. PICK l \in Nat, w \in Nat : l = Length(c) /\ w = Len(wire[c]) BY Lengths
  <1>2. PICK l1 \in Nat : l1 = Length(c)' BY LengthThen
  <1>3. PICK w1 \in Nat : w1 = Len(wire[c])'
    <2>1. wire'[c] \in Seq(Units) BY DEF Types
    <2> QED BY <2>1
  <1>4. /\ \A q \in 1..l1 : q + j <= l => At(c, q)' = At(c, q + j)
        /\ \A q \in 1..l1 : q + j = l + 1 => IsType(At(c, q))'
        /\ conn[c] # "up" => l1 + j <= l
    BY <1>1, <1>2, Zenon DEF Moved
  <1>5. /\ (e + j) + r + 1 <= l => IsType(At(c, (e + j) + r + 1))
        /\ w >= (e + j) + r \/ w - (e + j) \in Blocks
    BY <1>1, Zenon DEF After
  <1>6. conn[c] = "up" => e + j + r <= l BY <1>1
  <1>7. ASSUME e + r + 1 <= l1 PROVE IsType(At(c, e + r + 1))'
    <2>1. PICK q \in 1..l1 : q = e + r + 1 /\ q + j = (e + j) + r + 1 BY <1>7
    <2>2. CASE q + j <= l
      <3>1. IsType(At(c, q + j)) BY <1>5, <2>1, <2>2
      <3>2. At(c, q)' = At(c, q + j) BY <1>4, <2>2
      <3>3. (At(c, q)').unit = "type" BY <3>1, <3>2 DEF IsType
      <3> QED BY <2>1, <3>3 DEF IsType
    <2>3. CASE q + j = l + 1
      <3>1. IsType(At(c, q))' BY <1>4, <2>3
      <3> QED BY <2>1, <3>1
    <2>4. CASE q + j > l + 1
      <3>1. q <= l1 OBVIOUS
      <3> QED BY <1>4, <1>6, <2>1, <2>4, <3>1
    <2> QED BY <2>2, <2>3, <2>4
  <1>8. w1 >= e + r \/ w1 - e \in Blocks
    <2>1. CASE w1 + j = w
      <3>1. w >= (e + j) + r => w1 >= e + r BY <2>1
      <3>2. w - (e + j) = w1 - e BY <2>1
      <3> QED BY <1>5, <3>1, <3>2
    <2>2. CASE j = 0 /\ w1 = w + BlockSize
      <3>1. w >= (e + j) + r => w1 >= e + r BY <2>2, BlocksHaveRoom
      <3>2. w - (e + j) \in Blocks => (w - (e + j)) + BlockSize \in Blocks BY BlocksAdd
      <3>3. (w - (e + j)) + BlockSize = w1 - e BY <2>2, BlocksHaveRoom
      <3> QED BY <1>5, <3>1, <3>2, <3>3
    <2>3. CASE j = 0 /\ conn[c] = "up" /\ w = l /\ w1 >= w BY <1>6, <2>3
    <2> QED BY <1>1, <1>3, <2>1, <2>2, <2>3 DEF Drawn
  <1> QED BY <1>2, <1>3, <1>7, <1>8, Zenon DEF After

(* What is known of announced files stays as it is.                        *)
LEMMA BehindOn ==
  ASSUME IInv, Grow, NEW c \in Clients, NEW p \in 1..Len(wire[c]),
         NEW u, u = wire[c][p], NEW r, Behind(u, r)
  PROVE  Behind(u, r)'
  <1>1. CASE ~Announces(u) BY <1>1 DEF Behind
  <1>2. CASE Announces(u)
    <2>1. p \in 1..Length(c) /\ At(c, p) = u BY InStream DEF IInv
    <2>4. Sending(c, u.msg) BY <1>2, <2>1, Zenon DEF IInv, Streams, StreamAt
    <2>5. u \in Units BY DEF IInv, Types
    <2>6. u.msg.id \in Ids BY <1>2, <2>5, Kinds
    <2>7. Announced(u.msg.id)' = Announced(u.msg.id) BY <2>4, <2>6, SameFile DEF IInv, Sending
    <2>8. r = Padded(Announced(u.msg.id).read) BY <1>2 DEF Behind
    <2> QED BY <1>2, <2>7, <2>8 DEF Behind
  <1> QED BY <1>1, <1>2

LEMMA LeftOn ==
  ASSUME IInv, Grow, NEW c \in Clients, NEW j, j = job, NEW r, Left(c, j, r)
  PROVE  Left(c, j, r)'
  <1>1. CASE j.from # c BY <1>1 DEF Left
  <1>2. CASE j.from = c
    <2>1. j # Idle BY <1>2, NoClientIsNone DEF Idle
    <2>2. j \in Jobs BY <2>1 DEF IInv, Types
    <2>3. Known(j.id) BY <2>1, Zenon DEF IInv, Reading, Sending
    <2>4. j.id \in Ids BY <2>2 DEF Jobs
    <2>5. Announced(j.id)' = Announced(j.id) BY <2>3, <2>4, SameFile DEF IInv
    <2>6. j.count \in Blocks /\ Padded(Announced(j.id).read) = j.count + r BY <1>2 DEF Left
    <2> QED BY <1>2, <2>5, <2>6 DEF Left
  <1> QED BY <1>1, <1>2

(* The messages that stay keep their place, as long as j units are taken.  *)
LEMMA WholeOn ==
  ASSUME IInv, Types', Grow, NEW c \in Clients, NEW j \in Nat, Moved(c, j), Drawn(c, j),
         InStep(c), NEW p \in Nat \ {0}, p + j <= Len(wire[c]), wire'[c][p] = wire[c][p + j]
  PROVE  WholeAt(c, p)'
  <1>1. PICK w \in Nat, w1 \in Nat : w = Len(wire[c]) /\ w1 = Len(wire[c])'
    <2>1. wire[c] \in Seq(Units) /\ wire'[c] \in Seq(Units) BY DEF Types, IInv
    <2> QED BY <2>1
  <1>2. PICK u : u = wire[c][p + j] OBVIOUS
  <1>3. SUFFICES ASSUME IsType(u)
                 PROVE  /\ p + (MessageSize - 1) <= w1
                        /\ \E r \in Nat : Behind(u, r)' /\ After(c, p + (MessageSize - 1), r)'
    <2>1. \A x \in {wire'[c][p]} : x = u BY <1>2
    <2>2. IsType(u) => /\ p + (MessageSize - 1) <= Len(wire[c])'
                       /\ \E r \in Nat : Behind(u, r)' /\ After(c, p + (MessageSize - 1), r)'
      BY <1>1, <1>3
    <2> QED BY <2>1, <2>2, Zenon DEF WholeAt
  <1>4. p + j \in 1..w BY <1>1
  <1>5. WholeAt(c, p + j) BY <1>1, <1>4 DEF InStep
  <1>6. PICK r \in Nat :
          /\ (p + j) + (MessageSize - 1) <= w /\ Behind(u, r)
          /\ After(c, (p + j) + (MessageSize - 1), r)
    BY <1>1, <1>2, <1>3, <1>5, Zenon DEF WholeAt
  <1>7. PICK e \in Nat :
          e = p + (MessageSize - 1) /\ e + j = (p + j) + (MessageSize - 1)
    <2>1. p + (MessageSize - 1) \in Nat
          /\ (p + (MessageSize - 1)) + j = (p + j) + (MessageSize - 1)
      BY BlocksHaveRoom
    <2> QED BY <2>1, Zenon
  <1>8. After(c, e + j, r) BY <1>6, <1>7, Zenon
  <1>9. conn[c] = "up" => e + j + r <= Length(c)
    <2>1. conn[c] = "up" => (p + j) + (MessageSize - 1) + r <= Length(c)
      BY <1>1, <1>2, <1>3, <1>4, <1>6, AllWritten
    <2> QED BY <1>7, <2>1, Zenon
  <1>10. After(c, e, r)' BY <1>8, <1>9, AfterOn DEF IInv
  <1>11. Behind(u, r)' BY <1>1, <1>2, <1>4, <1>6, BehindOn
  <1>12. e <= w1
    <2>1. e + j <= w BY <1>6, <1>7
    <2>2. w1 + j >= w BY <1>1, BlocksHaveRoom DEF Drawn
    <2> QED BY <2>1, <2>2
  <1> QED BY <1>7, <1>10, <1>11, <1>12, Zenon

(* A client stays in step when what is left of its file, before the step   *)
(* and after, is followed by a message.                                    *)
LEMMA InStepOn ==
  ASSUME IInv, Types', Grow, NEW c \in Clients, NEW j \in Nat, Moved(c, j), Drawn(c, j),
         InStep(c), lost' # c,
         \A p \in 1..Len(wire'[c]) :
             \/ p + j <= Len(wire[c]) /\ wire'[c][p] = wire[c][p + j]
             \/ WholeAt(c, p)',
         \A x \in {job'} : \E r \in Nat :
             /\ Left(c, x, r)' /\ After(c, j, r)
             /\ conn[c] = "up" => j + r <= Length(c)
  PROVE  InStep(c)'
  <1>1. ASSUME NEW p \in 1..Len(wire'[c]) PROVE WholeAt(c, p)'
    <2>1. p \in Nat \ {0} OBVIOUS
    <2> QED BY <2>1, WholeOn
  <1>2. ASSUME NEW x \in {job'} PROVE \E r \in Nat : Left(c, x, r)' /\ After(c, 0, r)'
    <2>1. PICK r \in Nat :
             /\ Left(c, x, r)' /\ After(c, j, r)
             /\ conn[c] = "up" => j + r <= Length(c)
      OBVIOUS
    <2>2. 0 \in Nat /\ 0 + j = j OBVIOUS
    <2>3. After(c, 0 + j, r) /\ (conn[c] = "up" => 0 + j + r <= Length(c))
      BY <2>1, <2>2, Zenon
    <2>4. After(c, 0, r)' BY <2>2, <2>3, AfterOn DEF IInv
    <2> QED BY <2>1, <2>4
  <1> QED BY <1>1, <1>2, Zenon DEF InStep

LEMMA StaysInStep ==
  ASSUME IInv, Types', Grow, NEW c \in Clients, Moved(c, 0), Drawn(c, 0),
         InStep(c), lost' # c, job' = job \/ (job.from # c /\ job'.from # c),
         \A p \in 1..Len(wire'[c]) :
             \/ p + 0 <= Len(wire[c]) /\ wire'[c][p] = wire[c][p + 0]
             \/ WholeAt(c, p)'
  PROVE  InStep(c)'
  <1>1. PICK r \in Nat : Left(c, job, r) /\ After(c, 0, r) BY DEF InStep
  <1>2. PICK x : x = job' OBVIOUS
  <1>3. Left(c, x, r)'
    <2>1. CASE job' = job BY <1>1, <1>2, <2>1, LeftOn
    <2>2. CASE job.from # c /\ job'.from # c
      <3>1. r = 0 BY <1>1, <2>2 DEF Left
      <3> QED BY <1>2, <2>2, <3>1 DEF Left
    <2> QED BY <2>1, <2>2
  <1>4. conn[c] = "up" => 0 + r <= Length(c)
    <2>1. conn[c] = "up" => r <= Length(c) BY <1>1, AllWritten
    <2>2. 0 + r = r OBVIOUS
    <2> QED BY <2>1, <2>2, Zenon
  <1>5. \A y \in {job'} : \E z \in Nat :
             /\ Left(c, y, z)' /\ After(c, 0, z)
             /\ conn[c] = "up" => 0 + z <= Length(c)
    BY <1>1, <1>2, <1>3, <1>4, Zenon
  <1>6. 0 \in Nat OBVIOUS
  <1> QED BY <1>5, <1>6, InStepOn

(* Another client's step leaves c where it was.                            *)
LEMMA OtherStaysInStep ==
  ASSUME IInv, Types', Grow, NEW c \in Clients, InStep(c), wire'[c] = wire[c],
         Moved(c, 0), lost' # c, job' = job \/ (job.from # c /\ job'.from # c)
  PROVE  InStep(c)'
  <1>1. PICK w \in Nat : w = Len(wire[c]) BY InStream DEF IInv
  <1>2. w + 0 = w /\ \A p \in 1..w : p + 0 <= w /\ p + 0 = p OBVIOUS
  <1>3. Drawn(c, 0) BY <1>1, <1>2, Zenon DEF Drawn
  <1>4. \A p \in 1..Len(wire'[c]) : p + 0 <= Len(wire[c]) /\ wire'[c][p] = wire[c][p + 0]
    BY <1>1, <1>2, Zenon
  <1> QED BY <1>3, <1>4, StaysInStep

(* A client that is tidy has been so.                                      *)
LEMMA TidyWas ==
  ASSUME Types, Grow, NEW c \in Clients, Tidy(c)', cuts'[c] = 0 => cuts[c] = 0,
         conn[c] = "finrst" => conn'[c] = "finrst"
  PROVE  Tidy(c)
  BY DEF Tidy, Grow

LEMMA FileOf ==
  ASSUME Types, NEW c \in Clients, Tidy(c), NEW id, id[1] = c, Known(id)
  PROVE  \E n \in Nat : /\ n = Announced(id).size /\ n = Announced(id).read
                        /\ n % BlockSize # 0
  <1>1. PICK f, k : f = files[c] /\ k = id[2] OBVIOUS
  <1>2. f \in Seq(Sizes) /\ k \in DOMAIN f BY <1>1 DEF Types, Known
  <1>3. f[k] \in Sizes /\ f[k] = Announced(id) BY <1>1, <1>2 DEF Announced
  <1>4. f[k].size % BlockSize # 0 /\ Unchanged(f[k]) BY <1>1, <1>2 DEF Tidy
  <1> QED BY <1>3, <1>4 DEF Sizes, Unchanged

-----------------------------------------------------------------------------
(* The client's own steps.                                                 *)
LEMMA TalkInStep ==
  ASSUME IInv, Types', Grow, NEW c \in Clients, Talks(c), InStep(c)
  PROVE  InStep(c)'
  <1>1. PICK m \in Messages : Says(c, m) BY TalkSays DEF IInv
  <1>2. UNCHANGED <<conn, lost, job>> BY TalkSays DEF IInv, server_
  <1>3. PICK l \in Nat, b \in Nat :
           /\ Moved(c, 0) /\ Length(c) = l /\ Len(wire[c]) = l /\ Len(body'[c]) = b
           /\ Length(c)' = l + MessageSize + b /\ Len(wire'[c]) = l + MessageSize
    BY <1>1, <1>2, TalkAdds DEF IInv
  <1>4. /\ conn[c] = "up" /\ \A q \in 1..Len(wire[c]) : wire'[c][q] = wire[c][q]
        /\ wire'[c][Len(wire[c]) + 1] = Typed(m)
        /\ \A q \in (Len(wire[c]) + 2)..(Len(wire[c]) + MessageSize) : ~IsType(wire'[c][q])
    BY <1>1, SaysAppends DEF IInv
  <1>5. Drawn(c, 0)
    <2>1. l + MessageSize >= l /\ 0 = 0 BY BlocksHaveRoom
    <2> QED BY <1>3, <1>4, <2>1, Zenon DEF Drawn
  <1>6. WholeAt(c, l + 1)'
    <2>1. (l + 1) + (MessageSize - 1) = l + MessageSize /\ l + MessageSize <= l + MessageSize
      BY BlocksHaveRoom
    <2>2. \E r \in Nat : Behind(Typed(m), r)' /\ After(c, l + MessageSize, r)'
      <3>1. PICK e \in Nat : e = l + MessageSize BY BlocksHaveRoom
      <3>2. ASSUME NEW r \in Nat, r = 0 \/ r = b, r = b \/ b = 0
            PROVE  After(c, e, r)'
        <4>1. ~(e + r + 1 <= e + b)
          <5>1. r >= b BY <3>2
          <5> QED BY <5>1
        <4>2. e >= e + r \/ e - e \in Blocks
          <5>1. e - e = 0 /\ 0 \in Blocks BY BlocksAdd
          <5> QED BY <5>1
        <4>3. Length(c)' = e + b /\ Len(wire[c])' = e BY <1>3, <3>1
        <4> QED BY <4>1, <4>2, <4>3, Zenon DEF After
      <3>3. CASE SendFile(c)
        <4>1. PICK k \in Nat, x \in Messages, n \in Nat :
           /\ Length(c) = k /\ Len(body'[c]) = Padded(n) /\ At(c, k + 1)' = Typed(x)
           /\ x.type = "SEND_FILE" /\ (Announced(x.id).read = n)'
          BY <3>3, NewFile DEF IInv
        <4>2. k = l /\ b = Padded(n) BY <1>3, <4>1
        <4>3. At(c, l + 1)' = Typed(m)
          <5>1. l + 1 <= l + MessageSize BY BlocksHaveRoom
          <5>2. At(c, l + 1)' = wire'[c][l + 1] BY <1>3, <5>1, Zenon DEF At
          <5> QED BY <1>3, <1>4, <5>2, Zenon
        <4>4. Typed(m) = Typed(x) BY <4>1, <4>2, <4>3, Zenon
        <4>5. m = x BY <4>4 DEF Typed
        <4>6. Behind(Typed(m), b)'
          <5>1. Typed(m).msg = m BY DEF Typed
          <5>2. (Announced(Typed(m).msg.id).read = n)' BY <4>1, <4>5, <5>1, Zenon
          <5>3. Announces(Typed(m)) BY <4>1, <4>5 DEF Announces, IsType, Typed
          <5> QED BY <4>2, <5>2, <5>3, Zenon DEF Behind
        <4>7. After(c, e, b)' BY <3>2
        <4> QED BY <3>1, <4>6, <4>7, Zenon
      <3>4. CASE ~SendFile(c)
        <4>1. Ask(c) \/ AskForFiles(c) BY <3>4 DEF Talks
        <4>2. m.type # "SEND_FILE" /\ body' = body
          <5>1. PICK x \in {[type |-> "GET_USERS"], [type |-> "RECEIVE_FILE"]} : Says(c, x) /\ body' = body
            BY <4>1 DEF Ask, AskForFiles
          <5>2. x \in Messages /\ x.type # "SEND_FILE" BY DEF Messages
          <5>3. wire'[c][Len(wire[c]) + 1] = Typed(x) BY <5>1, <5>2, SaysAppends DEF IInv
          <5>4. x = m BY <1>4, <5>3 DEF Typed
          <5> QED BY <5>1, <5>2, <5>4
        <4>3. body[c] = <<>> BY <1>1, Zenon DEF Says
        <4>4. b = 0 BY <1>3, <4>2, <4>3
        <4>5. Behind(Typed(m), 0)' BY <4>2, Kinds DEF Behind, Announces
        <4>6. After(c, e, 0)' BY <3>2, <4>4
        <4>7. 0 \in Nat OBVIOUS
        <4> QED BY <3>1, <4>5, <4>6, <4>7, Zenon
      <3> QED BY <3>3, <3>4
    <2>3. wire'[c][l + 1] = Typed(m) /\ Len(wire[c])' = l + MessageSize BY <1>3, <1>4
    <2> QED BY <2>1, <2>2, <2>3, Zenon DEF WholeAt
  <1>7. ASSUME NEW p \in 1..Len(wire'[c])
        PROVE  \/ p + 0 <= Len(wire[c]) /\ wire'[c][p] = wire[c][p + 0]
               \/ WholeAt(c, p)'
    <2>1. p + 0 = p /\ p \in 1..(l + MessageSize) BY <1>3
    <2>2. CASE p <= l
      <3>1. p \in 1..l BY <2>1, <2>2, BlocksHaveRoom
      <3> QED BY <1>3, <1>4, <2>1, <2>2, <3>1, Zenon
    <2>3. CASE p = l + 1 BY <1>6, <2>3
    <2>4. CASE p > l + 1
      <3>1. p \in (l + 2)..(l + MessageSize) BY <2>1, <2>4, BlocksHaveRoom
      <3>2. ~IsType(wire'[c][p]) BY <1>3, <1>4, <3>1
      <3> QED BY <3>2 DEF WholeAt, IsType
    <2>5. p <= l \/ p = l + 1 \/ p > l + 1 BY <2>1, BlocksHaveRoom
    <2> QED BY <2>2, <2>3, <2>4, <2>5, Zenon
  <1>8. lost' # c BY <1>2 DEF InStep
  <1> QED BY <1>2, <1>3, <1>5, <1>7, <1>8, StaysInStep

LEMMA WriteInStep ==
  ASSUME IInv, Types', Grow, NEW c \in Clients, WriteBlock(c), InStep(c)
  PROVE  InStep(c)'
  <1>1. UNCHANGED <<lost, job>> BY Zenon DEF WriteBlock, server_
  <1>2. Moved(c, 0) BY WriteStays DEF IInv
  <1>3. PICK n : n = Min({BlockSize, Len(body[c])}) OBVIOUS
  <1>4. /\ n \in 1..Len(body[c]) /\ (Len(body[c]) >= BlockSize => n = BlockSize)
        /\ Len(wire'[c]) = Len(wire[c]) + n
        /\ \A q \in 1..Len(wire[c]) : wire'[c][q] = wire[c][q]
        /\ \A q \in 1..n : wire'[c][Len(wire[c]) + q] = body[c][q]
    BY <1>3, WriteMoves DEF IInv
  <1>5. PICK w \in Nat, b \in Nat : w = Len(wire[c]) /\ b = Len(body[c]) BY Lengths DEF IInv
  <1>6. b \in Blocks /\ \A q \in 1..b : ~IsType(body[c][q])
    <2>1. body[c] \in Seq(Units) BY DEF IInv, Types
    <2>2. DOMAIN body[c] = 1..b BY <1>5, <2>1
    <2> QED BY <1>5, <2>2 DEF IInv, Bodies
  <1>7. n = BlockSize
    <2>1. n \in 1..b BY <1>4, <1>5
    <2>2. b > 0 BY <2>1
    <2>3. b >= BlockSize BY <1>6, <2>2, BlocksAdd
    <2> QED BY <1>4, <1>5, <2>3
  <1>8. Drawn(c, 0) BY <1>4, <1>7 DEF Drawn
  <1>9. ASSUME NEW p \in 1..Len(wire'[c])
        PROVE  \/ p + 0 <= Len(wire[c]) /\ wire'[c][p] = wire[c][p + 0]
               \/ WholeAt(c, p)'
    <2>1. p \in 1..(w + n) /\ n \in Nat BY <1>4, <1>5
    <2>2. p + 0 = p BY <2>1
    <2>3. CASE p <= w
      <3>1. p \in 1..w BY <2>1, <2>3
      <3> QED BY <1>4, <1>5, <2>2, <2>3, <3>1, Zenon
    <2>4. CASE p > w
      <3>1. PICK q \in 1..n : p = w + q
        <4>1. p - w \in 1..n /\ p = w + (p - w) BY <2>1, <2>4
        <4> QED BY <4>1
      <3>2. wire'[c][p] = body[c][q] BY <1>4, <1>5, <3>1
      <3>3. q \in 1..b
        <4>1. n \in 1..b BY <1>4, <1>5
        <4> QED BY <4>1
      <3>4. ~IsType(wire'[c][p]) BY <1>6, <3>2, <3>3
      <3> QED BY <3>4 DEF WholeAt, IsType
    <2>5. p <= w \/ p > w BY <2>1
    <2> QED BY <2>3, <2>4, <2>5, Zenon
  <1>10. lost' # c BY <1>1 DEF InStep
  <1> QED BY <1>1, <1>2, <1>8, <1>9, <1>10, StaysInStep

LEMMA EndInStep ==
  ASSUME IInv, Types', Grow, NEW c \in Clients, End(c), InStep(c)
  PROVE  InStep(c)'
  <1>1. UNCHANGED <<wire, lost, job>> BY DEF End, server_
  <1>2. Moved(c, 0) BY EndCuts DEF IInv
  <1>3. lost' # c BY <1>1 DEF InStep
  <1> QED BY <1>1, <1>2, <1>3, OtherStaysInStep

-----------------------------------------------------------------------------
(* The server's steps for the client.                                      *)
LEMMA ServeInStep ==
  ASSUME IInv, Types', Grow, server' # "down", NEW c \in Clients, Serve(c), InStep(c), cuts'[c] = 0
  PROVE  InStep(c)'
  <1>1. PICK k \in 1..Len(wire[c]) :
           /\ Reads(c, MessageSize, k) /\ k <= MessageSize
           /\ \/ /\ k = MessageSize /\ IsType(wire[c][1]) /\ lost' = lost
                 /\ Handle(c, wire[c][1].msg)
              \/ wire[c][1] = Zeros /\ UNCHANGED <<conn, unread, server, job, store, lost>>
              \/ /\ k # MessageSize \/ ~IsType(wire[c][1])
                 /\ server' = "astray" /\ lost' = c /\ UNCHANGED <<conn, unread, job, store>>
           /\ server = "select" /\ UNCHANGED <<body, files>>
    BY ServeDoes DEF IInv
  <1>2. PICK l \in Nat, w \in Nat :
           /\ l = Length(c) /\ w = Len(wire[c]) /\ w <= l
           /\ \A q \in 1..w : q \in 1..l /\ At(c, q) = wire[c][q]
    BY InStream DEF IInv
  <1>3. k \in Nat /\ MessageSize \in Nat \ {0} /\ k \in 1..w BY <1>1, <1>2, BlocksHaveRoom
  <1>4. 1 \in 1..w BY <1>3
  <1>5. PICK u \in Units : u = wire[c][1]
    <2>1. 1 \in 1..Len(wire[c]) BY <1>2, <1>4
    <2>2. wire[c] \in Seq(Units) BY DEF IInv, Types
    <2> QED BY <2>1, <2>2
  <1>6. job = Idle /\ job.from # c
    <2>1. job = Idle BY <1>1 DEF IInv, Gone
    <2>2. Idle.from = NoClient BY DEF Idle
    <2> QED BY <2>1, <2>2, NoClientIsNone
  <1>7. IsType(u)
    <2>1. PICK r \in Nat : Left(c, job, r) /\ After(c, 0, r) BY DEF InStep
    <2>2. r = 0 BY <1>6, <2>1 DEF Left
    <2>3. 0 + 0 + 1 <= l /\ 0 + 0 + 1 = 1 BY <1>2, <1>4
    <2> QED BY <1>2, <1>4, <1>5, <2>1, <2>2, <2>3, Zenon DEF After
  <1>8. PICK r \in Nat : /\ 1 + (MessageSize - 1) <= w /\ Behind(u, r)
                         /\ After(c, 1 + (MessageSize - 1), r)
    BY <1>2, <1>4, <1>5, <1>7, Zenon DEF InStep, WholeAt
  <1>9. 1 + (MessageSize - 1) = MessageSize BY <1>3
  <1>10. MessageSize <= w /\ After(c, MessageSize, r) BY <1>8, <1>9, Zenon
  <1>11. k = MessageSize
    <2>1. k = MessageSize \/ k = w BY <1>1, <1>2, <1>3, ReadTakes DEF IInv
    <2> QED BY <1>1, <1>3, <1>10, <2>1
  <1>12. lost' = lost /\ Handle(c, u.msg)
    <2>1. u # Zeros BY <1>7, Kinds
    <2> QED BY <1>1, <1>5, <1>7, <1>11, <2>1
  <1>13. conn'[c] = "up" <=> conn[c] = "up"
    <2>1. CASE Answer(c)
      <3>1. conn[c] \in {"up", "fin", "rst", "finrst"} BY DEF IInv, Types
      <3> QED BY <2>1, <3>1, AnswerDoes DEF IInv
    <2> QED BY <1>7, <1>12, <2>1, HandleDoes DEF IInv
  <1>14. Moved(c, k) BY <1>1, <1>3, <1>13, ReadMoves DEF IInv
  <1>15. Len(wire'[c]) = w - k /\ \A q \in 1..Len(wire'[c]) : wire'[c][q] = wire[c][q + k]
    BY <1>1, <1>2, <1>3, ReadTakes DEF IInv
  <1>16. Drawn(c, k)
    <2>1. (w - k) + k = w BY <1>3
    <2> QED BY <1>2, <1>15, <2>1, Zenon DEF Drawn
  <1>17. \A p \in 1..Len(wire'[c]) : p + k <= Len(wire[c]) /\ wire'[c][p] = wire[c][p + k]
    <2>1. \A p \in 1..(w - k) : p + k <= w BY <1>3
    <2> QED BY <1>2, <1>15, <2>1, Zenon
  <1>18. conn[c] = "up" => k + r <= Length(c)
    <2>1. conn[c] = "up" => 1 + (MessageSize - 1) + r <= Length(c)
      BY <1>2, <1>4, <1>5, <1>7, <1>8, AllWritten
    <2> QED BY <1>9, <1>11, <2>1, Zenon
  <1>19. PICK x : x = job' OBVIOUS
  <1>20. Left(c, x, r)'
    <2>1. CASE ~Announces(u)
      <3>1. job' = job BY <1>7, <1>12, <2>1, HandleDoes DEF IInv
      <3>2. r = 0 BY <1>8, <2>1 DEF Behind
      <3> QED BY <1>6, <1>19, <3>1, <3>2 DEF Left
    <2>2. CASE Announces(u) /\ Opened(c, u.msg)
      <3>1. PICK i \in Indexes :
              job' = [from |-> c, id |-> u.msg.id, size |-> u.msg.size, count |-> 0,
                      shelf |-> u.msg.shelf, index |-> i, wrote |-> "all"]
        BY <2>2, OpenedDoes DEF IInv
      <3>2. x.from = c /\ x.id = u.msg.id /\ x.count = 0 BY <1>19, <3>1
      <3>3. Behind(u, r)' BY <1>2, <1>4, <1>5, <1>8, BehindOn
      <3>4. (r = Padded(Announced(u.msg.id).read))' BY <2>2, <3>3 DEF Behind
      <3>5. 0 + r = r /\ 0 \in Blocks BY BlocksAdd
      <3>6. (Padded(Announced(x.id).read) = x.count + r)' BY <3>2, <3>4, <3>5, Zenon
      <3> QED BY <3>2, <3>5, <3>6 DEF Left
    <2> QED BY <1>7, <1>12, <2>1, <2>2, HandleDoes DEF IInv
  <1>21. lost' # c BY <1>12 DEF InStep
  <1>22. \A y \in {job'} : \E z \in Nat :
             /\ Left(c, y, z)' /\ After(c, k, z)
             /\ conn[c] = "up" => k + z <= Length(c)
    BY <1>10, <1>11, <1>18, <1>19, <1>20, Zenon
  <1> QED BY <1>3, <1>14, <1>16, <1>17, <1>21, <1>22, InStepOn

LEMMA ReadBodyInStep ==
  ASSUME IInv, Types', Grow, NEW c \in Clients, ReadBody(c), InStep(c), Tidy(c), cuts'[c] = 0
  PROVE  InStep(c)'
  <1>1. PICK k \in 1..Len(wire[c]) :
           /\ Reads(c, BlockSize, k) /\ k <= BlockSize
           /\ job \in Jobs /\ job # Idle /\ job.from = c /\ job.count < job.size
           /\ job' = [job EXCEPT !.count = job.count + k, !.wrote = job'.wrote]
           /\ job' \in Jobs /\ job' # Idle
           /\ UNCHANGED <<conn, body, lost, files>>
    BY ReadBodyDoes DEF IInv
  <1>2. PICK w \in Nat : w = Len(wire[c]) BY InStream DEF IInv
  <1>3. k \in Nat /\ BlockSize \in Nat \ {0} /\ k \in 1..w BY <1>1, <1>2, BlocksHaveRoom
  <1>4. PICK j, x : j = job /\ x = job' OBVIOUS
  <1>5. j.from = c /\ j \in Jobs /\ j.id \in Ids /\ j # Idle BY <1>1, <1>4 DEF Jobs
  <1>6. x.from = c /\ x.id = j.id /\ x.count = j.count + k BY <1>1, <1>4 DEF Jobs
  <1>7. Sending(c, j) BY <1>4, <1>5, Zenon DEF IInv, Reading
  <1>8. PICK n \in Nat : n = Announced(j.id).size /\ n = Announced(j.id).read
    BY <1>7, FileOf DEF IInv, Sending
  <1>9. PICK r \in Nat : Left(c, j, r) /\ After(c, 0, r) BY <1>4 DEF InStep
  <1>10. PICK a \in Blocks : a = j.count /\ Padded(n) = a + r
    BY <1>5, <1>8, <1>9 DEF Left
  <1>11. a \in Nat /\ a < n
    <2>1. a \in Nat BY BlocksAdd
    <2>2. j.size = n BY <1>7, <1>8 DEF Sending
    <2>3. a < n BY <1>1, <1>4, <1>10, <2>2
    <2> QED BY <2>1, <2>3
  <1>12. r >= BlockSize
    <2>1. a + BlockSize <= a + r BY <1>10, <1>11, PaddedSize
    <2> QED BY <1>3, <1>11, <2>1
  <1>13. k = BlockSize
    <2>1. k = BlockSize \/ k = w BY <1>1, <1>2, <1>3, ReadTakes DEF IInv
    <2>2. w >= 0 + r \/ w - 0 \in Blocks BY <1>2, <1>9, Zenon DEF After
    <2>3. w - 0 = w /\ 0 + r = r /\ w > 0 BY <1>3
    <2>4. w \in Blocks => w >= BlockSize BY <2>3, BlocksAdd
    <2>5. w >= BlockSize BY <1>3, <1>12, <2>2, <2>3, <2>4
    <2> QED BY <1>1, <1>3, <2>1, <2>5
  <1>14. PICK z \in Nat : r = k + z
    <2>1. r - k \in Nat /\ r = k + (r - k) BY <1>3, <1>12, <1>13
    <2> QED BY <2>1
  <1>15. Left(c, x, z)'
    <2>1. a + k \in Blocks BY <1>13, BlocksAdd
    <2>2. Padded(n) = (a + k) + z BY <1>3, <1>10, <1>11, <1>14
    <2>3. Announced(j.id)' = Announced(j.id) BY <1>5, <1>7, SameFile DEF IInv, Sending
    <2>4. (Announced(x.id).read = n)' BY <1>6, <1>8, <2>3
    <2>5. x.count = a + k BY <1>6, <1>10
    <2>6. (x.count \in Blocks)' /\ (Padded(Announced(x.id).read) = x.count + z)'
      BY <2>1, <2>2, <2>4, <2>5, Zenon
    <2> QED BY <1>6, <2>6, Zenon DEF Left
  <1>16. After(c, k, z)
    <2>1. 0 + r + 1 = k + z + 1 /\ 0 + r = k + z BY <1>3, <1>14
    <2>2. 0 + r + 1 <= Length(c) => IsType(At(c, 0 + r + 1)) BY <1>9 DEF After
    <2>3. w >= 0 + r \/ w - 0 \in Blocks BY <1>2, <1>9, Zenon DEF After
    <2>4. w \in Blocks => w - k \in Blocks
      <3>1. w > 0 BY <1>3
      <3> QED BY <1>13, <3>1, BlocksAdd
    <2>5. w - 0 = w OBVIOUS
    <2> QED BY <1>2, <2>1, <2>2, <2>3, <2>4, <2>5, Zenon DEF After
  <1>17. conn[c] = "up" => k + z <= Length(c) BY <1>4, <1>9, <1>14, AllWritten
  <1>18. Moved(c, k) BY <1>1, <1>3, ReadMoves DEF IInv
  <1>19. Len(wire'[c]) = w - k /\ \A q \in 1..Len(wire'[c]) : wire'[c][q] = wire[c][q + k]
    BY <1>1, <1>2, <1>3, ReadTakes DEF IInv
  <1>20. Drawn(c, k)
    <2>1. (w - k) + k = w BY <1>3
    <2> QED BY <1>2, <1>19, <2>1, Zenon DEF Drawn
  <1>21. \A p \in 1..Len(wire'[c]) : p + k <= Len(wire[c]) /\ wire'[c][p] = wire[c][p + k]
    <2>1. \A p \in 1..(w - k) : p + k <= w BY <1>3
    <2> QED BY <1>2, <1>19, <2>1, Zenon
  <1>22. lost' # c BY <1>1 DEF InStep
  <1>23. \A y \in {job'} : \E s \in Nat :
             /\ Left(c, y, s)' /\ After(c, k, s)
             /\ conn[c] = "up" => k + s <= Length(c)
    BY <1>4, <1>15, <1>16, <1>17, Zenon
  <1> QED BY <1>3, <1>18, <1>20, <1>21, <1>22, <1>23, InStepOn

(* The count of server.c:165 stops at the end of the last block.           *)
LEMMA FinishInStep ==
  ASSUME IInv, Types', Grow, NEW c \in Clients, Finish(c), InStep(c), Tidy(c)
  PROVE  InStep(c)'
  <1>1. /\ job \in Jobs /\ job # Idle /\ job.from = c /\ job.count >= job.size
        /\ job' = Idle /\ Answer(c) /\ UNCHANGED <<wire, body, files, lost>>
    BY FinishDoes DEF IInv
  <1>2. PICK j : j = job OBVIOUS
  <1>3. Sending(c, j) BY <1>1, <1>2, Zenon DEF IInv, Reading
  <1>4. PICK n \in Nat : /\ n = Announced(j.id).size /\ n = Announced(j.id).read
                         /\ n % BlockSize # 0
    BY <1>3, FileOf DEF IInv, Sending
  <1>5. PICK r \in Nat : Left(c, j, r) /\ After(c, 0, r) BY <1>2 DEF InStep
  <1>6. PICK a \in Blocks : a = j.count /\ Padded(n) = a + r
    BY <1>1, <1>2, <1>4, <1>5 DEF Left
  <1>7. r = 0
    <2>1. a \in Nat BY BlocksAdd
    <2>2. j.size = n BY <1>3, <1>4 DEF Sending
    <2>3. n <= a BY <1>1, <1>2, <1>6, <2>1, <2>2
    <2>4. a <= Padded(n) BY <1>6, <2>1
    <2>5. a = Padded(n) BY <1>4, <2>3, <2>4, PaddedSize
    <2>6. a = a + r BY <1>6, <2>5
    <2> QED BY <2>1, <2>6
  <1>8. Moved(c, 0) BY StillActs DEF IInv
  <1>9. PICK w \in Nat : w = Len(wire[c]) BY InStream DEF IInv
  <1>10. w + 0 = w /\ 0 + 0 = 0 /\ 0 \in Nat /\ \A p \in 1..w : p + 0 <= w /\ p + 0 = p OBVIOUS
  <1>11. Drawn(c, 0) BY <1>1, <1>9, <1>10, Zenon DEF Drawn
  <1>12. \A p \in 1..Len(wire'[c]) : p + 0 <= Len(wire[c]) /\ wire'[c][p] = wire[c][p + 0]
    BY <1>1, <1>9, <1>10, Zenon
  <1>13. lost' # c BY <1>1 DEF InStep
  <1>14. PICK x : x = job' OBVIOUS
  <1>15. Left(c, x, 0)' BY <1>1, <1>14, NoClientIsNone DEF Left, Idle
  <1>16. conn[c] = "up" => 0 + 0 <= Length(c)
    <2>1. PICK l \in Nat : l = Length(c) BY Lengths DEF IInv
    <2>2. 0 + 0 <= l OBVIOUS
    <2> QED BY <2>1, <2>2, Zenon
  <1>17. \A y \in {job'} : \E z \in Nat :
             /\ Left(c, y, z)' /\ After(c, 0, z)
             /\ conn[c] = "up" => 0 + z <= Length(c)
    BY <1>5, <1>7, <1>10, <1>14, <1>15, <1>16, Zenon
  <1> QED BY <1>8, <1>10, <1>11, <1>12, <1>13, <1>17, InStepOn

LEMMA BreakOffInStep ==
  ASSUME IInv, Types', NEW c \in Clients, BreakOff(c), InStep(c)
  PROVE  InStep(c)'
  <1>1. /\ job' = Idle /\ wire[c] = <<>> /\ conn[c] # "up" /\ UNCHANGED <<wire, body, lost>>
    BY BreakOffDoes DEF IInv
  <1>2. body[c] = <<>> BY <1>1 DEF IInv, Bodies
  <1>3. Length(c)' = 0 /\ Len(wire[c])' = 0 BY <1>1, <1>2 DEF Length
  <1>4. After(c, 0, 0)'
    <2>1. ~(0 + 0 + 1 <= 0) /\ 0 >= 0 + 0 OBVIOUS
    <2> QED BY <1>3, <2>1, Zenon DEF After
  <1>5. PICK x : x = job' OBVIOUS
  <1>6. Left(c, x, 0)' BY <1>1, <1>5, NoClientIsNone DEF Left, Idle
  <1>7. lost' # c BY <1>1 DEF InStep
  <1>8. \A p \in 1..Len(wire[c])' : FALSE BY <1>3
  <1>9. 0 \in Nat OBVIOUS
  <1> QED BY <1>4, <1>5, <1>6, <1>7, <1>8, <1>9, Zenon DEF InStep

-----------------------------------------------------------------------------
(* A step for c does not touch the transfer of another.                    *)
LEMMA OthersJob ==
  ASSUME IInv, NEW c \in Clients, Acts(c), NEW d \in Clients \ {c}
  PROVE  /\ job' = job \/ (job.from # d /\ job'.from # d)
         /\ lost' = lost \/ lost' = c
  <1>1. CASE Talks(c) \/ End(c) \/ WriteBlock(c) \/ ReadAnswer(c) \/ Disconnected(c) \/ Reset(c)
    <2>1. CASE Talks(c) BY <2>1, TalkSays DEF IInv, server_
    <2>2. CASE WriteBlock(c) BY <2>2, Zenon DEF WriteBlock, server_
    <2>3. CASE End(c) \/ ReadAnswer(c) BY <2>3 DEF End, ReadAnswer, server_
    <2>4. CASE Disconnected(c) \/ Reset(c) BY <2>4 DEF Disconnected, Reset
    <2> QED BY <1>1, <2>1, <2>2, <2>3, <2>4
  <1>2. CASE Serve(c)
    <2>1. PICK k \in 1..Len(wire[c]) :
           /\ \/ IsType(wire[c][1]) /\ lost' = lost /\ Handle(c, wire[c][1].msg)
              \/ UNCHANGED <<job, lost>>
              \/ lost' = c /\ job' = job
           /\ server = "select"
      BY <1>2, ServeDoes DEF IInv
    <2>2. wire[c] \in Seq(Units) BY DEF IInv, Types
    <2>3. PICK u \in Units : u = wire[c][1] BY <2>1, <2>2
    <2>4. job = Idle BY <2>1 DEF IInv, Gone
    <2>5. job.from # d
      <3>1. Idle.from = NoClient BY DEF Idle
      <3> QED BY <2>4, <3>1, NoClientIsNone
    <2>6. CASE Announces(u) /\ Opened(c, u.msg)
      <3>1. PICK i \in Indexes :
              job' = [from |-> c, id |-> u.msg.id, size |-> u.msg.size, count |-> 0,
                      shelf |-> u.msg.shelf, index |-> i, wrote |-> "all"]
        BY <2>6, OpenedDoes DEF IInv
      <3>2. job'.from = c BY <3>1
      <3>3. lost' = lost \/ lost' = c BY <2>1
      <3> QED BY <2>5, <3>2, <3>3
    <2>7. CASE job' = job BY <2>1, <2>7
    <2> QED BY <2>1, <2>3, <2>6, <2>7, HandleDoes DEF IInv
  <1>3. CASE ReadBody(c)
    <2>1. job \in Jobs /\ job.from = c /\ lost' = lost
      BY <1>3, ReadBodyDoes DEF IInv
    <2>2. \E k, v : job' = [job EXCEPT !.count = k, !.wrote = v] BY <1>3, Zenon DEF ReadBody
    <2>3. job'.from = c BY <2>1, <2>2 DEF Jobs
    <2> QED BY <2>1, <2>3
  <1>4. CASE Finish(c) \/ BreakOff(c)
    <2>1. job.from = c /\ job' = Idle /\ lost' = lost
      BY <1>4, FinishDoes, BreakOffDoes DEF IInv
    <2>2. Idle.from = NoClient BY DEF Idle
    <2> QED BY <2>1, <2>2, NoClientIsNone
  <1> QED BY <1>1, <1>2, <1>3, <1>4 DEF Acts

(* The reads of a client are counted, and a reset is for good.             *)
LEMMA TidyBefore ==
  ASSUME IInv, Types', Grow, NEW c \in Clients, Acts(c), Tidy(c)'
  PROVE  Tidy(c) /\ cuts'[c] = 0
  <1>1. cuts'[c] = 0 BY DEF Tidy
  <1>2. ASSUME cuts' = cuts, conn[c] = "finrst" => conn'[c] = "finrst" PROVE Tidy(c)
    BY <1>2, TidyWas DEF IInv
  <1>3. CASE Talks(c) \/ End(c) \/ WriteBlock(c) \/ ReadAnswer(c) \/ Disconnected(c) \/ Reset(c)
    <2>1. CASE Talks(c)
      <3>1. UNCHANGED <<conn, cuts>> BY <2>1, TalkSays DEF IInv, server_
      <3> QED BY <1>1, <1>2, <3>1
    <2>2. CASE WriteBlock(c)
      <3>1. UNCHANGED <<conn, cuts>> BY <2>2, Zenon DEF WriteBlock, server_
      <3> QED BY <1>1, <1>2, <3>1
    <2>3. CASE End(c) BY <1>1, <1>2, <2>3 DEF End, server_
    <2>4. CASE ReadAnswer(c) BY <1>1, <1>2, <2>4 DEF ReadAnswer, server_
    <2>5. CASE Disconnected(c) BY <1>1, <1>2, <2>5 DEF Disconnected, client
    <2>6. CASE Reset(c) BY <1>1, <1>2, <2>6 DEF Reset
    <2> QED BY <1>3, <2>1, <2>2, <2>3, <2>4, <2>5, <2>6
  <1>4. CASE Serve(c)
    <2>1. PICK k \in 1..Len(wire[c]) :
           /\ Reads(c, MessageSize, k)
           /\ \/ IsType(wire[c][1]) /\ Handle(c, wire[c][1].msg)
              \/ UNCHANGED conn
      BY <1>4, ServeDoes DEF IInv
    <2>2. wire[c] \in Seq(Units) BY DEF IInv, Types
    <2>3. wire[c][1] \in Units BY <2>1, <2>2
    <2>4. conn[c] = "finrst" => conn'[c] = "finrst"
      BY <2>1, <2>3, HandleDoes, AnswerDoes DEF IInv
    <2>5. k \in Nat /\ MessageSize \in Nat \ {0} BY BlocksHaveRoom
    <2>6. cuts[c] = 0 BY <1>1, <2>1, <2>5, ReadTakes DEF IInv
    <2> QED BY <1>1, <2>4, <2>6, TidyWas DEF IInv
  <1>5. CASE ReadBody(c)
    <2>1. PICK k \in 1..Len(wire[c]) : Reads(c, BlockSize, k) /\ UNCHANGED conn
      BY <1>5, ReadBodyDoes DEF IInv
    <2>2. k \in Nat /\ BlockSize \in Nat \ {0} BY BlocksHaveRoom
    <2>3. cuts[c] = 0 BY <1>1, <2>1, <2>2, ReadTakes DEF IInv
    <2> QED BY <1>1, <2>1, <2>3, TidyWas DEF IInv
  <1>6. CASE Finish(c) BY <1>1, <1>2, <1>6, FinishDoes, AnswerDoes DEF IInv
  <1>7. CASE BreakOff(c) BY <1>1, <1>2, <1>7, BreakOffDoes DEF IInv
  <1> QED BY <1>1, <1>3, <1>4, <1>5, <1>6, <1>7 DEF Acts

LEMMA EndsForGood ==
  ASSUME IInv, Next, server = "down"
  PROVE  server' = "down"
  <1>1. ASSUME NEW c \in Clients, Talks(c) PROVE server' = server
    BY <1>1, TalkSays DEF IInv, server_
  <1>2. ASSUME NEW c \in Clients, WriteBlock(c) PROVE server' = server
    BY <1>2, Zenon DEF WriteBlock, server_
  <1>3. ASSUME NEW c \in Clients, End(c) \/ ReadAnswer(c) PROVE server' = server
    BY <1>3 DEF End, ReadAnswer, server_
  <1>4. ASSUME NEW c \in Clients, Serve(c) \/ Disconnected(c) \/ Reset(c) PROVE FALSE
    <2>1. server = "select" BY <1>4, Zenon DEF Serve, Disconnected, Reset, Turn
    <2> QED BY <2>1
  <1>5. ASSUME NEW c \in Clients, ReadBody(c) \/ Finish(c) \/ BreakOff(c) PROVE FALSE
    <2>1. server = "reading" BY <1>5, Zenon DEF ReadBody, Finish, BreakOff, Wanted
    <2> QED BY <2>1
  <1>6. ~Select BY DEF Select
  <1> QED BY <1>1, <1>2, <1>3, <1>4, <1>5, <1>6, StepIs

LEMMA StepsStep ==
  ASSUME IInv, Types', Steps, Next
  PROVE  Steps'
  <1>0. SUFFICES ASSUME server' # "down" PROVE Steps' BY DEF Steps
  <1>5. server # "down" BY <1>0, EndsForGood
  <1>1. Grow BY FilesGrow DEF IInv
  <1>2. ASSUME NEW d \in Clients, Tidy(d)', wire'[d] = wire[d], body'[d] = body[d],
               conn'[d] = conn[d], cuts'[d] = cuts[d], lost' = lost \/ lost' # d,
               job' = job \/ (job.from # d /\ job'.from # d)
        PROVE  InStep(d)'
    <2>1. Tidy(d) BY <1>1, <1>2, TidyWas DEF IInv
    <2>2. InStep(d) BY <1>5, <2>1 DEF Steps
    <2>3. Moved(d, 0) BY <1>2, StandsStill DEF IInv
    <2>4. lost' # d BY <1>2, <2>2 DEF InStep
    <2> QED BY <1>1, <1>2, <2>2, <2>3, <2>4, OtherStaysInStep
  <1>3. CASE Select
    <2>1. UNCHANGED <<wire, body, conn, cuts, lost, job>> BY <1>3 DEF Select, client
    <2> QED BY <1>2, <2>1 DEF Steps
  <1>4. ASSUME NEW c \in Clients, Acts(c), NEW d \in Clients, Tidy(d)' PROVE InStep(d)'
    <2>1. CASE d # c
      <3>1. /\ wire'[d] = wire[d] /\ body'[d] = body[d] /\ conn'[d] = conn[d]
            /\ cuts'[d] = cuts[d]
        BY <1>4, <2>1, OthersStill DEF IInv
      <3>2. lost' = lost \/ lost' # d BY <1>4, <2>1, OthersJob
      <3>3. job' = job \/ (job.from # d /\ job'.from # d) BY <1>4, <2>1, OthersJob
      <3> QED BY <1>2, <1>4, <3>1, <3>2, <3>3
    <2>2. CASE d = c
      <3>1. Tidy(c) /\ cuts'[c] = 0 BY <1>1, <1>4, <2>2, TidyBefore
      <3>2. InStep(c) BY <1>5, <3>1 DEF Steps
      <3>3. CASE Talks(c) BY <2>2, <1>1, <3>2, <3>3, TalkInStep
      <3>4. CASE WriteBlock(c) BY <2>2, <1>1, <3>2, <3>4, WriteInStep
      <3>5. CASE End(c) BY <2>2, <1>1, <3>2, <3>5, EndInStep
      <3>6. CASE Serve(c) BY <1>0, <2>2, <1>1, <3>1, <3>2, <3>6, ServeInStep
      <3>7. CASE ReadBody(c) BY <2>2, <1>1, <3>1, <3>2, <3>7, ReadBodyInStep
      <3>8. CASE Finish(c) BY <2>2, <1>1, <3>1, <3>2, <3>8, FinishInStep
      <3>9. CASE BreakOff(c) BY <2>2, <3>2, <3>9, BreakOffInStep
      <3>10. CASE ReadAnswer(c)
        <4>1. UNCHANGED <<wire, body, conn, cuts, lost, job>> BY <3>10 DEF ReadAnswer, server_
        <4> QED BY <1>2, <1>4, <2>2, <4>1
      <3>11. CASE Disconnected(c)
        <4>1. UNCHANGED <<wire, body, conn, cuts, lost, job>> BY <3>11 DEF Disconnected, client
        <4> QED BY <1>2, <1>4, <2>2, <4>1
      <3>12. CASE Reset(c)
        <4>1. conn'[c] = "finrst" BY <3>12 DEF Reset, IInv, Types
        <4> QED BY <1>4, <2>2, <4>1 DEF Tidy
      <3> QED BY <1>4, <2>2, <3>3, <3>4, <3>5, <3>6, <3>7, <3>8, <3>9, <3>10, <3>11, <3>12
              DEF Acts
    <2> QED BY <2>1, <2>2
  <1> QED BY <1>3, <1>4, SomeoneActs DEF Steps

(* The server takes data for a message only after a read was cut short, a  *)
(* file that fills its last block or changed while it was sent, or a       *)
(* reset, of that same client (client.c:571-575, server.c:165): behind all *)
(* else that a client writes, and behind what is left of its file, comes   *)
(* a message.                                                              *)
THEOREM KeepsStepHolds == Spec => []KeepsStep
  <1>1. Init => Steps
    <2> SUFFICES ASSUME Init, NEW c \in Clients PROVE InStep(c) BY DEF Steps
    <2> USE DEF Init
    <2>1. wire[c] = <<>> /\ body[c] = <<>> /\ lost # c /\ job = Idle BY NoClientIsNone
    <2>2. Length(c) = 0 /\ Len(wire[c]) = 0 BY <2>1 DEF Length
    <2>3. After(c, 0, 0)
      <3>1. ~(0 + 0 + 1 <= 0) /\ 0 >= 0 + 0 OBVIOUS
      <3> QED BY <2>2, <3>1, Zenon DEF After
    <2>4. Left(c, Idle, 0) BY NoClientIsNone DEF Left, Idle
    <2>5. \A p \in 1..Len(wire[c]) : FALSE BY <2>2
    <2>6. 0 \in Nat OBVIOUS
    <2> QED BY <2>1, <2>3, <2>4, <2>5, <2>6, Zenon DEF InStep
  <1>2. IInv /\ IInv' /\ Steps /\ [Next]_vars => Steps'
    <2> SUFFICES ASSUME IInv, IInv', Steps, [Next]_vars PROVE Steps' OBVIOUS
    <2>1. CASE Next BY <2>1, StepsStep DEF IInv
    <2>2. CASE UNCHANGED vars
      <3> SUFFICES ASSUME NEW d \in Clients, Tidy(d)', server' # "down" PROVE InStep(d)'
        BY DEF Steps
      <3>1. UNCHANGED <<wire, body, conn, cuts, lost, job, files, server>>
        BY <2>2 DEF vars, client, server_
      <3>2. Grow BY <3>1 DEF Grow
      <3>3. Tidy(d) BY <3>1, <3>2, TidyWas DEF IInv
      <3>4. InStep(d) BY <3>1, <3>3 DEF Steps
      <3>5. Moved(d, 0) BY <3>1, StandsStill DEF IInv
      <3>6. lost' # d BY <3>1, <3>4 DEF InStep
      <3> QED BY <3>1, <3>2, <3>4, <3>5, <3>6, OtherStaysInStep DEF IInv
    <2> QED BY <2>1, <2>2
  <1>3. IInv /\ Steps => KeepsStep
    <2> SUFFICES ASSUME IInv, Steps, lost # NoClient, ~(cuts[lost] > 0), conn[lost] # "finrst",
                        \A n \in DOMAIN files[lost] :
                            files[lost][n].size % BlockSize # 0 /\ Unchanged(files[lost][n])
                 PROVE  FALSE
      BY Zenon DEF KeepsStep
    <2>1. lost \in Clients BY DEF IInv, Types
    <2>2. cuts[lost] = 0
      <3>1. cuts[lost] \in 0..MaxCuts BY <2>1 DEF IInv, Types
      <3> QED BY <3>1, BoundsAreNumbers
    <2>3. Tidy(lost) BY <2>2 DEF Tidy
    <2>4. server = "astray" BY DEF IInv, Gone
    <2> QED BY <2>1, <2>3, <2>4 DEF Steps, InStep
  <1> QED BY <1>1, <1>2, <1>3, IInvHolds, PTL DEF Spec

-----------------------------------------------------------------------------
(* Every answer is to a message of the client's.                           *)
Pending(c) == { p \in 1..Len(wire[c]) : IsType(wire[c][p]) }
OfJob(c) == IF job.from = c THEN 1 ELSE 0
Answers == \A c \in Clients : unread[c] + Cardinality(Pending(c)) + OfJob(c) <= sent

LEMMA PendingIsFinite ==
  ASSUME NEW s \in Seq(Units), NEW S, S = { p \in 1..Len(s) : IsType(s[p]) }
  PROVE  IsFiniteSet(S) /\ Cardinality(S) \in Nat
  <1>1. Len(s) \in Nat OBVIOUS
  <1>2. IsFiniteSet(1..Len(s)) BY <1>1, FS_Interval
  <1>3. S \in SUBSET (1..Len(s)) OBVIOUS
  <1>4. IsFiniteSet(S) BY <1>2, <1>3, FS_Subset
  <1> QED BY <1>4, FS_CardinalityType

(* A read takes no more messages than there are, and the first one.        *)
LEMMA PendingTaken ==
  ASSUME NEW s \in Seq(Units), NEW t \in Seq(Units), NEW k \in 1..Len(s),
         Len(t) = Len(s) - k, \A q \in 1..Len(t) : t[q] = s[q + k],
         NEW S, S = { p \in 1..Len(s) : IsType(s[p]) },
         NEW T, T = { p \in 1..Len(t) : IsType(t[p]) }
  PROVE  /\ Cardinality(T) <= Cardinality(S)
         /\ IsType(s[1]) => Cardinality(T) + 1 <= Cardinality(S)
  <1>1. IsFiniteSet(S) /\ Cardinality(S) \in Nat BY PendingIsFinite
  <1>2. PICK l \in Nat : l = Len(s) OBVIOUS
  <1>3. k \in 1..l /\ Len(t) = l - k BY <1>2
  <1>4. PICK R : R = S \ {1} OBVIOUS
  <1>5. IsFiniteSet(R) /\ Cardinality(R) = (IF 1 \in S THEN Cardinality(S) - 1 ELSE Cardinality(S))
    BY <1>1, <1>4, FS_RemoveElement
  <1>6. PICK f : f = [p \in T |-> p + k] OBVIOUS
  <1>7. \A p \in T : p + k \in R
    <2> SUFFICES ASSUME NEW p \in T PROVE p + k \in R OBVIOUS
    <2>1. p \in 1..(l - k) /\ IsType(s[p + k]) BY <1>3
    <2>2. p + k \in 1..l /\ p + k # 1 BY <1>3, <2>1
    <2> QED BY <1>2, <1>4, <2>1, <2>2
  <1>8. \A p, q \in T : p + k = q + k => p = q
    <2>1. T \subseteq Nat OBVIOUS
    <2> QED BY <1>3, <2>1
  <1>9. f \in Injection(T, R) BY <1>6, <1>7, <1>8 DEF Injection, IsInjective
  <1>10. Cardinality(T) <= Cardinality(R) BY <1>5, <1>9, FS_Injection
  <1>11. Cardinality(T) \in Nat /\ Cardinality(R) \in Nat
    BY <1>5, PendingIsFinite, FS_CardinalityType
  <1>12. IsType(s[1]) => 1 \in S BY <1>2, <1>3
  <1> QED BY <1>1, <1>5, <1>10, <1>11, <1>12

LEMMA Counted ==
  ASSUME Types, NEW c \in Clients
  PROVE  /\ unread[c] \in Nat /\ Cardinality(Pending(c)) \in Nat /\ OfJob(c) \in {0, 1}
         /\ sent \in Nat /\ sent <= MaxRequests
  <1>1. wire[c] \in Seq(Units) BY DEF Types
  <1>2. Cardinality(Pending(c)) \in Nat BY <1>1, PendingIsFinite DEF Pending
  <1> QED BY <1>2, BoundsAreNumbers DEF Types, OfJob

LEMMA CountedThen ==
  ASSUME Types', NEW c \in Clients
  PROVE  /\ unread'[c] \in Nat /\ Cardinality(Pending(c))' \in Nat /\ OfJob(c)' \in {0, 1}
         /\ sent' \in Nat
  <1>1. wire'[c] \in Seq(Units) BY DEF Types
  <1>2. PICK T : T = Pending(c)' OBVIOUS
  <1>3. Cardinality(T) \in Nat BY <1>1, <1>2, PendingIsFinite DEF Pending
  <1> QED BY <1>2, <1>3, BoundsAreNumbers DEF Types, OfJob

(* What is read of c's stream, and what comes of it.                       *)
LEMMA ReadsPending ==
  ASSUME Types, Types', NEW c \in Clients, NEW most \in Nat \ {0}, NEW k \in Nat,
         Reads(c, most, k)
  PROVE  /\ Cardinality(Pending(c))' <= Cardinality(Pending(c))
         /\ IsType(wire[c][1]) => Cardinality(Pending(c))' + 1 <= Cardinality(Pending(c))
  <1>1. PICK s, t : s = wire[c] /\ t = wire'[c] OBVIOUS
  <1>2. s \in Seq(Units) /\ t \in Seq(Units) BY <1>1 DEF Types
  <1>3. k \in 1..Len(s) /\ Len(t) = Len(s) - k /\ \A q \in 1..Len(t) : t[q] = s[q + k]
    BY <1>1, ReadTakes
  <1>4. PICK S, T : S = Pending(c) /\ T = Pending(c)' OBVIOUS
  <1>5. S = { p \in 1..Len(s) : IsType(s[p]) } BY <1>1, <1>4 DEF Pending
  <1>6. T = { p \in 1..Len(t) : IsType(t[p]) } BY <1>1, <1>4 DEF Pending, IsType
  <1>7. /\ Cardinality(T) <= Cardinality(S)
        /\ IsType(s[1]) => Cardinality(T) + 1 <= Cardinality(S)
    BY <1>2, <1>3, <1>5, <1>6, PendingTaken
  <1> QED BY <1>1, <1>4, <1>7

(* The file that is written has no message in it.                          *)
LEMMA WritePending ==
  ASSUME IInv, NEW c \in Clients, WriteBlock(c)
  PROVE  Pending(c)' = Pending(c)
  <1>1. PICK n : n = Min({BlockSize, Len(body[c])}) OBVIOUS
  <1>2. /\ n \in 1..Len(body[c]) /\ Len(wire'[c]) = Len(wire[c]) + n
        /\ \A q \in 1..Len(wire[c]) : wire'[c][q] = wire[c][q]
        /\ \A q \in 1..n : wire'[c][Len(wire[c]) + q] = body[c][q]
    BY <1>1, WriteMoves DEF IInv
  <1>3. PICK w \in Nat, b \in Nat : w = Len(wire[c]) /\ b = Len(body[c]) BY Lengths DEF IInv
  <1>4. n \in 1..b /\ n \in Nat BY <1>2, <1>3
  <1>5. \A q \in 1..n : ~IsType(body[c][q])
    <2>1. body[c] \in Seq(Units) BY DEF IInv, Types
    <2>2. DOMAIN body[c] = 1..b BY <1>3, <2>1
    <2>3. \A q \in 1..n : q \in 1..b BY <1>4
    <2> QED BY <2>2, <2>3 DEF IInv, Bodies
  <1>6. ASSUME NEW p \in 1..(w + n), p > w PROVE ~IsType(wire'[c][p])
    <2>1. PICK q \in 1..n : p = w + q
      <3>1. p - w \in 1..n /\ p = w + (p - w) BY <1>4, <1>6
      <3> QED BY <3>1
    <2> QED BY <1>2, <1>3, <1>5, <2>1
  <1>7. ASSUME NEW p PROVE p \in 1..(w + n) /\ IsType(wire'[c][p]) <=> p \in 1..w /\ IsType(wire[c][p])
    <2>1. CASE p \in 1..w
      <3>1. p \in 1..(w + n) BY <1>4, <2>1
      <3>2. wire'[c][p] = wire[c][p] BY <1>2, <1>3, <2>1
      <3> QED BY <2>1, <3>1, <3>2
    <2>2. CASE p \notin 1..w
      <3>1. p \in 1..(w + n) => p > w BY <2>2
      <3> QED BY <1>6, <2>2, <3>1
    <2> QED BY <2>1, <2>2
  <1>8. PICK T : T = Pending(c)' OBVIOUS
  <1>9. T = { p \in 1..(w + n) : IsType(wire'[c][p]) } BY <1>2, <1>3, <1>8 DEF Pending, IsType
  <1>10. Pending(c) = { p \in 1..w : IsType(wire[c][p]) } BY <1>3 DEF Pending
  <1> QED BY <1>7, <1>8, <1>9, <1>10

LEMMA SaysPending ==
  ASSUME Types, NEW c \in Clients, NEW m \in Messages, Says(c, m)
  PROVE  Cardinality(Pending(c))' = Cardinality(Pending(c)) + 1
  <1>1. PICK w \in Nat : w = Len(wire[c]) BY InStream
  <1>2. /\ Len(wire'[c]) = w + MessageSize
        /\ \A q \in 1..w : wire'[c][q] = wire[c][q]
        /\ wire'[c][w + 1] = Typed(m)
        /\ \A q \in (w + 2)..(w + MessageSize) : ~IsType(wire'[c][q])
    BY <1>1, SaysAppends
  <1>3. IsType(wire'[c][w + 1]) BY <1>2, Kinds
  <1>4. ASSUME NEW p
        PROVE  p \in 1..(w + MessageSize) /\ IsType(wire'[c][p]) <=>
                   (p \in 1..w /\ IsType(wire[c][p])) \/ p = w + 1
    <2>1. CASE p \in 1..w
      <3>1. p \in 1..(w + MessageSize) /\ p # w + 1 BY <2>1, BlocksHaveRoom
      <3> QED BY <1>2, <2>1, <3>1
    <2>2. CASE p = w + 1
      <3>1. p \in 1..(w + MessageSize) BY <2>2, BlocksHaveRoom
      <3> QED BY <1>3, <2>2, <3>1
    <2>3. CASE p \notin 1..w /\ p # w + 1
      <3>1. p \in 1..(w + MessageSize) => p \in (w + 2)..(w + MessageSize)
        BY <2>3, BlocksHaveRoom
      <3> QED BY <1>2, <2>3, <3>1
    <2> QED BY <2>1, <2>2, <2>3
  <1>5. PICK S, T : S = Pending(c) /\ T = Pending(c)' OBVIOUS
  <1>6. T = { p \in 1..(w + MessageSize) : IsType(wire'[c][p]) }
    BY <1>2, <1>5 DEF Pending, IsType
  <1>7. S = { p \in 1..w : IsType(wire[c][p]) } BY <1>1, <1>5 DEF Pending
  <1>8. T = S \cup {w + 1} BY <1>4, <1>6, <1>7
  <1>9. w + 1 \notin S BY <1>7
  <1>10. IsFiniteSet(S)
    <2>1. wire[c] \in Seq(Units) BY DEF Types
    <2> QED BY <1>1, <1>7, <2>1, PendingIsFinite
  <1>11. Cardinality(T) = Cardinality(S) + 1 BY <1>8, <1>9, <1>10, FS_AddElement
  <1> QED BY <1>5, <1>11

(* A message becomes an answer or a transfer, a transfer an answer.        *)
LEMMA AnswersStep ==
  ASSUME IInv, Types', Answers, Next
  PROVE  Answers'
  <1>1. ASSUME NEW d \in Clients, wire'[d] = wire[d] PROVE Pending(d)' = Pending(d)
    BY <1>1 DEF Pending
  <1>2. ASSUME NEW d \in Clients,
               NEW a \in Nat, a = unread[d], NEW p \in Nat, p = Cardinality(Pending(d)),
               NEW o \in {0, 1}, o = OfJob(d), NEW s \in Nat, s = sent,
               NEW a1 \in Nat, a1 = unread'[d], NEW p1 \in Nat, p1 = Cardinality(Pending(d))',
               NEW o1 \in {0, 1}, o1 = OfJob(d)', NEW s1 \in Nat, s1 = sent',
               a1 + p1 + o1 + s <= a + p + o + s1
        PROVE  (unread[d] + Cardinality(Pending(d)) + OfJob(d) <= sent)'
    <2>1. a + p + o <= s BY <1>2 DEF Answers
    <2>2. a1 + p1 + o1 <= s1 BY <1>2, <2>1
    <2> QED BY <1>2, <2>2
  <1>3. ASSUME NEW d \in Clients, wire'[d] = wire[d], unread'[d] <= unread[d],
               OfJob(d)' = OfJob(d), sent' >= sent
        PROVE  (unread[d] + Cardinality(Pending(d)) + OfJob(d) <= sent)'
    <2>1. PICK a \in Nat, p \in Nat, o \in {0, 1}, s \in Nat :
            a = unread[d] /\ p = Cardinality(Pending(d)) /\ o = OfJob(d) /\ s = sent
      BY Counted DEF IInv
    <2>2. PICK a1 \in Nat, s1 \in Nat : a1 = unread'[d] /\ s1 = sent' BY CountedThen
    <2>3. Cardinality(Pending(d))' = p /\ OfJob(d)' = o BY <1>1, <1>3, <2>1
    <2>4. a1 + p + o + s <= a + p + o + s1 BY <1>3, <2>1, <2>2
    <2> QED BY <1>2, <2>1, <2>2, <2>3, <2>4
  <1>4. CASE UNCHANGED <<wire, unread, job, sent>>
    <2>1. \A d \in Clients : unread[d] <= unread[d] /\ sent >= sent BY Counted DEF IInv
    <2> QED BY <1>3, <1>4, <2>1 DEF Answers, OfJob
  <1>5. CASE Select BY <1>4, <1>5 DEF Select, client
  <1>6. ASSUME NEW c \in Clients, Acts(c), NEW d \in Clients \ {c}
        PROVE  (unread[d] + Cardinality(Pending(d)) + OfJob(d) <= sent)'
    <2>1. wire'[d] = wire[d] /\ unread'[d] = unread[d] BY <1>6, OthersStill DEF IInv
    <2>2. OfJob(d)' = OfJob(d) BY <1>6, OthersJob DEF OfJob
    <2>3. sent' >= sent
      <3>1. CASE Talks(c)
        <4>1. PICK m \in Messages : Says(c, m) BY <3>1, TalkSays DEF IInv
        <4>2. sent \in Nat /\ sent' = sent + 1 BY <4>1, SaysAppends DEF IInv
        <4> QED BY <4>2
      <3>2. CASE sent' = sent BY <3>2, Counted DEF IInv
      <3>3. CASE WriteBlock(c) \/ Serve(c) \/ ReadBody(c) \/ Finish(c) \/ BreakOff(c)
        BY <3>2, <3>3, Zenon DEF WriteBlock, Serve, ReadBody, Finish, BreakOff
      <3>4. CASE End(c) \/ ReadAnswer(c) \/ Disconnected(c) \/ Reset(c)
        BY <3>2, <3>4 DEF End, ReadAnswer, Disconnected, Reset, client
      <3> QED BY <1>6, <3>1, <3>3, <3>4 DEF Acts
    <2>4. unread'[d] <= unread[d] BY <2>1, Counted DEF IInv
    <2> QED BY <1>3, <2>1, <2>2, <2>3, <2>4
  <1>7. ASSUME NEW c \in Clients, Acts(c)
        PROVE  (unread[c] + Cardinality(Pending(c)) + OfJob(c) <= sent)'
    <2>1. PICK a \in Nat, p \in Nat, o \in {0, 1}, s \in Nat :
            a = unread[c] /\ p = Cardinality(Pending(c)) /\ o = OfJob(c) /\ s = sent
      BY Counted DEF IInv
    <2>2. PICK a1 \in Nat, p1 \in Nat, o1 \in {0, 1}, s1 \in Nat :
            a1 = unread'[c] /\ p1 = Cardinality(Pending(c))' /\ o1 = OfJob(c)' /\ s1 = sent'
      BY CountedThen
    <2>3. SUFFICES a1 + p1 + o1 + s <= a + p + o + s1 BY <1>2, <2>1, <2>2
    <2>4. CASE Talks(c)
      <3>1. PICK m \in Messages : Says(c, m) BY <2>4, TalkSays DEF IInv
      <3>2. unread' = unread /\ job' = job BY <2>4, TalkSays DEF IInv, server_
      <3>3. s1 = s + 1 BY <2>1, <2>2, <3>1, SaysAppends DEF IInv
      <3>4. p1 = p + 1 BY <2>1, <2>2, <3>1, SaysPending DEF IInv
      <3>5. a1 = a /\ o1 = o BY <2>1, <2>2, <3>2 DEF OfJob
      <3> QED BY <3>3, <3>4, <3>5
    <2>5. CASE WriteBlock(c)
      <3>1. UNCHANGED <<unread, job, sent>> BY <2>5, Zenon DEF WriteBlock, server_
      <3>2. Pending(c)' = Pending(c) BY <2>5, WritePending
      <3>3. a1 = a /\ p1 = p /\ o1 = o /\ s1 = s BY <2>1, <2>2, <3>1, <3>2 DEF OfJob
      <3> QED BY <3>3
    <2>6. CASE ReadAnswer(c)
      <3>1. /\ unread' = [unread EXCEPT ![c] = unread[c] - 1]
            /\ UNCHANGED <<wire, job, sent>>
        BY <2>6 DEF ReadAnswer, server_
      <3>2. a1 = a - 1 BY <2>1, <2>2, <3>1 DEF IInv, Types
      <3>3. p1 = p /\ o1 = o /\ s1 = s BY <2>1, <2>2, <3>1 DEF OfJob, Pending
      <3> QED BY <3>2, <3>3
    <2>7. CASE End(c) \/ Disconnected(c) \/ Reset(c)
      <3>1. UNCHANGED <<wire, unread, job, sent>>
        BY <2>7 DEF End, Disconnected, Reset, client, server_
      <3>2. a1 = a /\ p1 = p /\ o1 = o /\ s1 = s BY <2>1, <2>2, <3>1 DEF OfJob, Pending
      <3> QED BY <3>2
    <2>8. CASE Serve(c)
      <3>1. PICK k \in 1..Len(wire[c]) :
               /\ Reads(c, MessageSize, k)
               /\ \/ IsType(wire[c][1]) /\ Handle(c, wire[c][1].msg)
                  \/ UNCHANGED <<unread, job>>
               /\ server = "select" /\ UNCHANGED sent
        BY <2>8, ServeDoes DEF IInv
      <3>2. k \in Nat /\ MessageSize \in Nat \ {0} BY BlocksHaveRoom
      <3>3. p1 <= p BY <2>1, <2>2, <3>1, <3>2, ReadsPending DEF IInv
      <3>4. IsType(wire[c][1]) => p1 + 1 <= p
        BY <2>1, <2>2, <3>1, <3>2, ReadsPending DEF IInv
      <3>5. s1 = s BY <2>1, <2>2, <3>1
      <3>6. CASE UNCHANGED <<unread, job>>
        <4>1. a1 = a /\ o1 = o BY <2>1, <2>2, <3>6 DEF OfJob
        <4> QED BY <3>3, <3>5, <4>1
      <3>7. CASE IsType(wire[c][1]) /\ Handle(c, wire[c][1].msg)
        <4>1. p1 + 1 <= p BY <3>4, <3>7
        <4>2. wire[c] \in Seq(Units) BY DEF IInv, Types
        <4>3. PICK u \in Units : u = wire[c][1] BY <3>1, <4>2
        <4>4. CASE unread' = unread
          <5>1. a1 = a BY <2>1, <2>2, <4>4
          <5>2. o = 0
            <6>1. job = Idle BY <3>1 DEF IInv, Gone
            <6> QED BY <2>1, <6>1, NoClientIsNone DEF OfJob, Idle
          <5> QED BY <3>5, <4>1, <5>1, <5>2
        <4>5. CASE Answer(c) /\ UNCHANGED job
          <5>1. a1 <= a + 1 BY <2>1, <2>2, <4>5, AnswerDoes DEF IInv
          <5>2. o1 = o BY <2>1, <2>2, <4>5 DEF OfJob
          <5> QED BY <3>5, <4>1, <5>1, <5>2
        <4> QED BY <3>7, <4>3, <4>4, <4>5, HandleDoes DEF IInv
      <3> QED BY <3>1, <3>6, <3>7
    <2>9. CASE ReadBody(c)
      <3>1. PICK k \in 1..Len(wire[c]) :
              /\ Reads(c, BlockSize, k) /\ job.from = c /\ UNCHANGED <<sent, unread>>
        BY <2>9, ReadBodyDoes DEF IInv
      <3>2. k \in Nat /\ BlockSize \in Nat \ {0} BY BlocksHaveRoom
      <3>3. p1 <= p BY <2>1, <2>2, <3>1, <3>2, ReadsPending DEF IInv
      <3>4. a1 = a /\ s1 = s /\ o = 1 BY <2>1, <2>2, <3>1 DEF OfJob
      <3> QED BY <3>3, <3>4
    <2>10. CASE Finish(c) \/ BreakOff(c)
      <3>1. job.from = c /\ job' = Idle /\ UNCHANGED <<wire, sent>>
        BY <2>10, FinishDoes, BreakOffDoes DEF IInv
      <3>2. o = 1 /\ o1 = 0
        <4>1. Idle.from = NoClient BY DEF Idle
        <4> QED BY <2>1, <2>2, <3>1, <4>1, NoClientIsNone DEF OfJob
      <3>3. p1 = p /\ s1 = s BY <2>1, <2>2, <3>1 DEF Pending
      <3>4. a1 <= a + 1
        <4>1. CASE Finish(c)
          <5>1. Answer(c) BY <4>1, FinishDoes DEF IInv
          <5> QED BY <2>1, <2>2, <5>1, AnswerDoes DEF IInv
        <4>2. CASE BreakOff(c)
          <5>1. unread' = unread BY <4>2, BreakOffDoes DEF IInv
          <5> QED BY <2>1, <2>2, <5>1
        <4> QED BY <2>10, <4>1, <4>2
      <3> QED BY <3>2, <3>3, <3>4
    <2> QED BY <1>7, <2>4, <2>5, <2>6, <2>7, <2>8, <2>9, <2>10 DEF Acts
  <1> QED BY <1>5, <1>6, <1>7, SomeoneActs DEF Answers

(* The types of the model, whatever clients, files and reads there are: no *)
(* client has more unread answers than it has sent messages, the server is *)
(* reading just when it has a transfer, and what it holds no connection of *)
(* has ended.                                                              *)
THEOREM TypeOKHolds == Spec => []TypeOK
  <1>1. Init => Answers
    <2> SUFFICES ASSUME Init, NEW c \in Clients
                 PROVE  unread[c] + Cardinality(Pending(c)) + OfJob(c) <= sent
      BY DEF Answers
    <2>1. unread[c] = 0 /\ sent = 0 /\ OfJob(c) = 0 BY NoClientIsNone DEF Init, OfJob, Idle
    <2>2. Pending(c) = {} BY DEF Init, Pending
    <2>3. Cardinality(Pending(c)) = 0 BY <2>2, FS_EmptySet
    <2> QED BY <2>1, <2>3
  <1>2. IInv /\ IInv' /\ Answers /\ [Next]_vars => Answers'
    <2> SUFFICES ASSUME IInv, IInv', Answers, [Next]_vars PROVE Answers' OBVIOUS
    <2>1. CASE Next BY <2>1, AnswersStep DEF IInv
    <2>2. CASE UNCHANGED vars
      <3>1. UNCHANGED <<wire, unread, job, sent>> BY <2>2 DEF vars, client, server_
      <3>2. \A c \in Clients : Pending(c)' = Pending(c) /\ OfJob(c)' = OfJob(c)
        BY <3>1 DEF Pending, OfJob
      <3> QED BY <3>1, <3>2 DEF Answers
    <2> QED BY <2>1, <2>2
  <1>3. IInv /\ Answers => TypeOK
    <2> SUFFICES ASSUME IInv, Answers PROVE TypeOK OBVIOUS
    <2>1. Types /\ Gone BY DEF IInv
    <2>2. \A c \in Clients : unread[c] \in 0..MaxRequests
      <3> SUFFICES ASSUME NEW c \in Clients PROVE unread[c] \in 0..MaxRequests OBVIOUS
      <3>1. PICK a \in Nat, p \in Nat, o \in {0, 1}, s \in Nat :
              /\ a = unread[c] /\ p = Cardinality(Pending(c)) /\ o = OfJob(c) /\ s = sent
              /\ s <= MaxRequests
        BY <2>1, Counted
      <3>2. a + p + o <= s BY <3>1 DEF Answers
      <3>3. a <= MaxRequests BY <3>1, <3>2, BoundsAreNumbers
      <3> QED BY <3>1, <3>3, BoundsAreNumbers
    <2>3. \A sh \in Shelves : DOMAIN store[sh] = Indexes BY <2>1 DEF Types
    <2>4. /\ conn \in [Clients -> {"up", "fin", "rst", "finrst"}]
          /\ sent \in 0..MaxRequests /\ cuts \in [Clients -> 0..MaxCuts]
          /\ server \in {"select", "reading", "astray", "down"}
          /\ slots \subseteq Clients /\ due \subseteq slots
          /\ lost \in Clients \cup {NoClient}
      BY <2>1 DEF Types
    <2> QED BY <2>1, <2>2, <2>3, <2>4, Zenon DEF TypeOK, Gone
  <1> QED BY <1>1, <1>2, <1>3, IInvHolds, PTL DEF Spec
=============================================================================
