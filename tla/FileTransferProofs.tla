------------------------ MODULE FileTransferProofs ------------------------
(***************************************************************************)
(* Proofs about /send: how the stream of a client moves, what is stored    *)
(* for a sender that was told of success, and that nothing stored is       *)
(* overwritten.                                                            *)
(***************************************************************************)
EXTENDS FileTransfer, FiniteSetTheorems, WellFoundedInduction, TLAPS

(* What a client has written and will write: position p of its stream.     *)
Length(c) == Len(wire[c]) + Len(body[c])
At(c, p) == IF p <= Len(wire[c]) THEN wire[c][p] ELSE body[c][p - Len(wire[c])]

IsType(u) == u.unit = "type"
Announces(u) == IsType(u) /\ u.msg.type = "SEND_FILE"

(* The units written for a file of n units.                                *)
Padded(n) == ((n \div BlockSize) + 1) * BlockSize
Blocks == { BlockSize * q : q \in Nat }

Sizes == [size : Nat, read : Nat, shelf : Shelves]
Jobs == [from : Clients, id : Ids, size : Nat, count : Nat, shelf : Shelves, index : Indexes,
         wrote : {"all", "some"}]
Tellings == [id : Ids, shelf : Shelves, index : Indexes, wrote : {"all", "some"}]

Known(id) == id[2] \in DOMAIN files[id[1]]
Slot(t) == store[t.shelf][t.index]

-----------------------------------------------------------------------------
(* The invariant: types first.                                             *)
Types ==
    /\ conn \in [Clients -> {"up", "fin", "rst", "finrst"}]
    /\ wire \in [Clients -> Seq(Units)] /\ body \in [Clients -> Seq(Units)]
    /\ sent \in 0..MaxRequests /\ unread \in [Clients -> Nat]
    /\ files \in [Clients -> Seq(Sizes)]
    /\ server \in {"select", "reading", "astray", "down"}
    /\ slots \subseteq Clients /\ due \subseteq slots
    /\ job \in Jobs \cup {Idle}
    /\ store \in [Shelves -> [Indexes -> Seq(Units) \cup {NoFile}]]
    /\ told \subseteq Tellings
    /\ cuts \in [Clients -> 0..MaxCuts] /\ lost \in Clients \cup {NoClient}

Gone ==
    /\ \A c \in Clients \ slots : conn[c] \in {"fin", "finrst"} /\ wire[c] = <<>>
    /\ (job # Idle) = (server = "reading")
    /\ (lost = NoClient) = (server # "astray")

(* Nothing begins in what a client still has to write.                     *)
Bodies ==
    \A c \in Clients :
        /\ conn[c] # "up" => body[c] = <<>>
        /\ Len(body[c]) \in Blocks
        /\ \A q \in DOMAIN body[c] : ~IsType(body[c][q])

(* The file id comes behind position p of c's stream, from its unit k on:  *)
(* whole from a client that is up, else as far as it came.                 *)
Follows(c, p, id, k) ==
    LET n == Announced(id).read IN
    /\ \A q \in 1..(Length(c) - p) : k + q <= Padded(n) => At(c, p + q) = Written(id, n)[k + q]
    /\ conn[c] = "up" => p + Padded(n) <= Length(c) + k

Sending(c, x) ==
    /\ x.id[1] = c /\ Known(x.id)
    /\ x.size = Announced(x.id).size /\ x.shelf = Announced(x.id).shelf

StreamAt(c, p) ==
    \A u \in {At(c, p)} : Announces(u) =>
        Sending(c, u.msg) /\ Follows(c, p + (MessageSize - 1), u.msg.id, 0)

Streams == \A c \in Clients : \A p \in 1..Length(c) : StreamAt(c, p)

(* The file being read holds what the stream is short of, if no write of   *)
(* it failed.                                                              *)
Stores(j) ==
    LET n == Announced(j.id).read IN
    /\ Slot(j) # NoFile
    /\ j.wrote = "all" =>
           /\ Len(Slot(j)) = j.count
           /\ \A q \in 1..j.count : q <= Padded(n) => Slot(j)[q] = Written(j.id, n)[q]

Reading ==
    \A j \in {job} : j # Idle =>
        Sending(j.from, j) /\ Follows(j.from, 0, j.id, j.count) /\ Stores(j)

Kept(t) ==
    LET f == Announced(t.id) IN
    /\ Known(t.id) /\ Slot(t) # NoFile
    /\ job # Idle => t.shelf # job.shelf \/ t.index # job.index
    /\ Unchanged(f) /\ t.wrote = "all" =>
           /\ t.shelf = f.shelf /\ Len(Slot(t)) >= f.size
           /\ \A q \in 1..f.size : Slot(t)[q] = Data(t.id, q)

IInv == Types /\ Gone /\ Bodies /\ Streams /\ Reading /\ \A t \in told : Kept(t)

-----------------------------------------------------------------------------
(* Numbers, units and what is written.                                     *)
LEMMA MinOfTwo ==
  ASSUME NEW a \in Int, NEW b \in Int
  PROVE  Min({a, b}) = IF a <= b THEN a ELSE b
  <1> DEFINE m == IF a <= b THEN a ELSE b
  <1>1. m \in {a, b} /\ \A y \in {a, b} : m <= y OBVIOUS
  <1>2. \A x \in {a, b} : (\A y \in {a, b} : x <= y) => x = m OBVIOUS
  <1> HIDE DEF m
  <1>3. Min({a, b}) = m BY <1>1, <1>2, Zenon DEF Min
  <1> QED BY <1>3 DEF m

LEMMA FreeIsFree ==
  ASSUME NEW sh \in Shelves, HasRoom(sh)
  PROVE  FirstFree(sh) \in Indexes /\ store[sh][FirstFree(sh)] = NoFile
  <1> DEFINE S == { i \in Indexes : store[sh][i] = NoFile }
  <1>1. S \subseteq Nat /\ S # {} BY BoundsAreNumbers DEF HasRoom, Indexes
  <1> HIDE DEF S
  <1>2. PICK n \in S : \A m \in S : n <= m
    <2> DEFINE R == { ss \in Nat \X Nat : ss[1] < ss[2] }
    <2>1. IsWellFoundedOn(R, Nat) BY NatLessThanWellFounded DEF OpToRel
    <2>2. \E x \in S : \A y \in S : ~ (<<y, x>> \in R)
      <3> HIDE DEF R
      <3> QED BY <1>1, <2>1, WFMin
    <2>3. \A x, y \in Nat : y < x => <<y, x>> \in R
      <3> SUFFICES ASSUME NEW x \in Nat, NEW y \in Nat, y < x PROVE <<y, x>> \in R
        OBVIOUS
      <3>1. <<y, x>> \in Nat \X Nat /\ <<y, x>>[1] < <<y, x>>[2] OBVIOUS
      <3> QED BY <3>1, Zenon
    <2> HIDE DEF R
    <2>4. PICK n \in S : \A y \in S : ~ (<<y, n>> \in R) BY <2>2
    <2>5. \A y \in S : ~ (y < n) BY <1>1, <2>3, <2>4
    <2> QED BY <1>1, <2>5
  <1>3. Min(S) \in S BY <1>2, Zenon DEF Min
  <1>4. FirstFree(sh) = Min(S) BY DEF FirstFree, S
  <1> QED BY <1>3, <1>4 DEF S

LEMMA PaddedSize ==
  ASSUME NEW n \in Nat
  PROVE  /\ Padded(n) \in Nat /\ Padded(n) \in Blocks /\ Padded(n) > n
         /\ \A a \in Blocks : a <= n => a + BlockSize <= Padded(n)
         /\ \A a \in Blocks : n <= a /\ a <= Padded(n) /\ n % BlockSize # 0 => a = Padded(n)
  <1> USE BlocksHaveRoom
  <1> DEFINE d == n \div BlockSize
  <1>1. d \in Nat /\ BlockSize * d <= n /\ n < BlockSize * d + BlockSize
    OBVIOUS
  <1>2. n % BlockSize = n - BlockSize * d
    OBVIOUS
  <1> HIDE DEF d
  <1>3. Padded(n) = BlockSize * d + BlockSize BY <1>1 DEF Padded, d
  <1>4. Padded(n) = BlockSize * (d + 1) BY <1>1, <1>3
  <1>5. Padded(n) \in Nat /\ Padded(n) > n BY <1>1, <1>3
  <1>6. Padded(n) \in Blocks BY <1>1, <1>4 DEF Blocks
  <1>7. ASSUME NEW q \in Nat, BlockSize * q <= n PROVE q <= d
    BY <1>1, <1>7
  <1>8. \A a \in Blocks : a <= n => a + BlockSize <= Padded(n)
    <2> SUFFICES ASSUME NEW q \in Nat, BlockSize * q <= n
                 PROVE  BlockSize * q + BlockSize <= Padded(n)
      BY DEF Blocks
    <2> QED BY <1>1, <1>3, <1>7
  <1>9. \A a \in Blocks : n <= a /\ a <= Padded(n) /\ n % BlockSize # 0 => a = Padded(n)
    <2> SUFFICES ASSUME NEW q \in Nat, n <= BlockSize * q, BlockSize * q <= Padded(n),
                        n % BlockSize # 0
                 PROVE  BlockSize * q = Padded(n)
      BY DEF Blocks
    <2>1. n # BlockSize * d BY <1>1, <1>2
    <2>2. q > d BY <1>1, <2>1
    <2>3. q <= d + 1 BY <1>1, <1>4
    <2> QED BY <1>1, <1>4, <2>2, <2>3
  <1> QED BY <1>5, <1>6, <1>8, <1>9

LEMMA BlocksAdd ==
  /\ 0 \in Blocks /\ BlockSize \in Blocks /\ Blocks \subseteq Nat
  /\ \A a, b \in Blocks : a + b \in Blocks
  /\ \A a \in Blocks : a > 0 => a >= BlockSize /\ a - BlockSize \in Blocks
  <1> USE BlocksHaveRoom
  <1>1. 0 \in Blocks
    <2>1. 0 = BlockSize * 0 OBVIOUS
    <2> QED BY <2>1 DEF Blocks
  <1>2. BlockSize \in Blocks
    <2>1. BlockSize = BlockSize * 1 OBVIOUS
    <2> QED BY <2>1 DEF Blocks
  <1>3. Blocks \subseteq Nat BY DEF Blocks
  <1>4. ASSUME NEW a \in Blocks, NEW b \in Blocks PROVE a + b \in Blocks
    <2>1. PICK q \in Nat : a = BlockSize * q BY DEF Blocks
    <2>2. PICK r \in Nat : b = BlockSize * r BY DEF Blocks
    <2>3. a + b = BlockSize * (q + r) /\ q + r \in Nat BY <2>1, <2>2
    <2> QED BY <2>3 DEF Blocks
  <1>5. ASSUME NEW a \in Blocks, a > 0 PROVE a >= BlockSize /\ a - BlockSize \in Blocks
    <2>1. PICK q \in Nat : a = BlockSize * q BY DEF Blocks
    <2>2. q >= 1 BY <1>5, <2>1
    <2>3. a - BlockSize = BlockSize * (q - 1) /\ q - 1 \in Nat BY <2>1, <2>2
    <2>4. a >= BlockSize BY <2>1, <2>2
    <2> QED BY <2>3, <2>4 DEF Blocks
  <1> QED BY <1>1, <1>2, <1>3, <1>4, <1>5

LEMMA Kinds ==
  /\ Rest \in Units /\ ~IsType(Rest) /\ Zeros \in Units /\ ~IsType(Zeros)
  /\ Junk \in Units /\ ~IsType(Junk)
  /\ \A id \in Ids, k \in Nat : Data(id, k) \in Units /\ ~IsType(Data(id, k))
  /\ \A m \in Messages : Typed(m) \in Units /\ IsType(Typed(m)) /\ Typed(m).msg = m
  /\ \A u \in Units : IsType(u) => u.msg \in Messages
  /\ \A u \in Units : Announces(u) =>
         u.msg.id \in Ids /\ u.msg.shelf \in Shelves /\ u.msg.size \in Nat
  BY DEF Rest, Zeros, Junk, Data, Typed, Units, IsType, Announces, Messages

LEMMA WrittenUnits ==
  ASSUME NEW id \in Ids, NEW n \in Nat
  PROVE  /\ Written(id, n) \in Seq(Units) /\ Len(Written(id, n)) = Padded(n)
         /\ \A k \in 1..n : Written(id, n)[k] = Data(id, k)
         /\ \A k \in 1..Padded(n) : ~IsType(Written(id, n)[k])
  <1> DEFINE r == Padded(n) - n
             A == [k \in 1..n |-> Data(id, k)]
             Z == [k \in 1..r |-> IF n + k <= BlockSize THEN Junk ELSE Zeros]
  <1>1. r \in Nat /\ Padded(n) \in Nat BY PaddedSize
  <1>2. A \in Seq(Units) /\ Len(A) = n /\ \A k \in 1..n : ~IsType(A[k]) BY Kinds
  <1>3. Z \in Seq(Units) /\ Len(Z) = r /\ \A k \in 1..r : ~IsType(Z[k]) BY <1>1, Kinds
  <1>4. Written(id, n) = A \o Z BY DEF Written, Content, Padded
  <1> HIDE DEF A, Z, r
  <1>5. Len(Written(id, n)) = n + r /\ Written(id, n) \in Seq(Units)
    <2>1. Len(A \o Z) = n + r BY <1>1, <1>2, <1>3
    <2>2. A \o Z \in Seq(Units) BY <1>2, <1>3
    <2> QED BY <1>4, <2>1, <2>2
  <1>6. \A k \in 1..n : Written(id, n)[k] = A[k] BY <1>1, <1>2, <1>3, <1>4
  <1>7. \A k \in (n + 1)..(n + r) : Written(id, n)[k] = Z[k - n] BY <1>1, <1>2, <1>3, <1>4
  <1>8. n + r = Padded(n) BY <1>1 DEF r
  <1>9. \A k \in 1..n : A[k] = Data(id, k) BY DEF A
  <1>10. ASSUME NEW k \in 1..Padded(n) PROVE ~IsType(Written(id, n)[k])
    <2>1. CASE k <= n BY <2>1, <1>2, <1>6
    <2>2. CASE k > n
      <3>1. k - n \in 1..r BY <2>2, <1>1, <1>8
      <3> QED BY <2>2, <3>1, <1>3, <1>7, <1>8
    <2> QED BY <2>1, <2>2
  <1> QED BY <1>5, <1>6, <1>8, <1>9, <1>10

LEMMA EncodedUnits ==
  ASSUME NEW m \in Messages
  PROVE  /\ Encoded(m) \in Seq(Units) /\ Len(Encoded(m)) = MessageSize
         /\ Encoded(m)[1] = Typed(m)
         /\ \A k \in 2..MessageSize : ~IsType(Encoded(m)[k])
  BY BlocksHaveRoom, Kinds DEF Encoded

-----------------------------------------------------------------------------
(* What the parts of the actions do.                                       *)
LEMMA ReadTakes ==
  ASSUME Types, NEW c \in Clients, NEW most \in Nat \ {0}, NEW k \in Nat, Reads(c, most, k)
  PROVE  /\ k \in 1..Len(wire[c]) /\ k <= most
         /\ wire' = [wire EXCEPT ![c] = SubSeq(wire[c], k + 1, Len(wire[c]))]
         /\ wire'[c] \in Seq(Units) /\ Len(wire'[c]) = Len(wire[c]) - k
         /\ \A q \in 1..Len(wire'[c]) : wire'[c][q] = wire[c][q + k]
         /\ SubSeq(wire[c], 1, k) \in Seq(Units) /\ Len(SubSeq(wire[c], 1, k)) = k
         /\ \A q \in 1..k : SubSeq(wire[c], 1, k)[q] = wire[c][q]
         /\ wire' \in [Clients -> Seq(Units)] /\ cuts' \in [Clients -> 0..MaxCuts]
         /\ \A d \in Clients \ {c} : cuts'[d] = cuts[d]
         /\ cuts'[c] = 0 => cuts[c] = 0 /\ (k = most \/ k = Len(wire[c]))
  <1> DEFINE w == wire[c]
             m == Min({most, Len(w)})
  <1>1. w \in Seq(Units) /\ Len(w) \in Nat BY DEF Types
  <1>2. m = IF most <= Len(w) THEN most ELSE Len(w) BY <1>1, MinOfTwo
  <1>3. /\ k \in 1..m /\ (k < m => cuts[c] < MaxCuts)
        /\ cuts' = [cuts EXCEPT ![c] = IF k < m THEN cuts[c] + 1 ELSE cuts[c]]
        /\ wire' = [wire EXCEPT ![c] = SubSeq(w, k + 1, Len(w))]
    BY DEF Reads
  <1> HIDE DEF m
  <1>4. k \in 1..Len(w) /\ k <= most BY <1>1, <1>2, <1>3
  <1>5. wire'[c] = SubSeq(w, k + 1, Len(w)) BY <1>3 DEF Types
  <1> HIDE DEF w
  <1>6. /\ SubSeq(w, k + 1, Len(w)) \in Seq(Units) /\ Len(SubSeq(w, k + 1, Len(w))) = Len(w) - k
        /\ \A q \in 1..(Len(w) - k) : SubSeq(w, k + 1, Len(w))[q] = w[q + k]
    BY <1>1, <1>4
  <1>7. /\ SubSeq(w, 1, k) \in Seq(Units) /\ Len(SubSeq(w, 1, k)) = k
        /\ \A q \in 1..k : SubSeq(w, 1, k)[q] = w[q]
    BY <1>1, <1>4
  <1>8. cuts' \in [Clients -> 0..MaxCuts] /\ \A d \in Clients \ {c} : cuts'[d] = cuts[d]
    BY <1>3, BoundsAreNumbers DEF Types
  <1>9. cuts'[c] = 0 => cuts[c] = 0 /\ (k = most \/ k = Len(w))
    BY <1>1, <1>2, <1>3, <1>4, BoundsAreNumbers DEF Types
  <1>10. wire' \in [Clients -> Seq(Units)] BY <1>3, <1>6 DEF Types
  <1> QED BY <1>3, <1>4, <1>5, <1>6, <1>7, <1>8, <1>9, <1>10 DEF w

LEMMA Meaning ==
  ASSUME Types, NEW c \in Clients, NEW k \in 1..Len(wire[c]),
         Message(c, SubSeq(wire[c], 1, k))
  PROVE  \/ /\ k = MessageSize /\ IsType(wire[c][1]) /\ lost' = lost
            /\ Handle(c, wire[c][1].msg)
         \/ wire[c][1] = Zeros /\ UNCHANGED <<conn, unread, server, job, store, lost>>
         \/ /\ k # MessageSize \/ ~IsType(wire[c][1])
            /\ server' = "astray" /\ lost' = c /\ UNCHANGED <<conn, unread, job, store>>
  <1>1. wire[c] \in Seq(Units) BY DEF Types
  <1>2. Len(SubSeq(wire[c], 1, k)) = k /\ SubSeq(wire[c], 1, k)[1] = wire[c][1]
    BY <1>1
  <1> QED BY <1>2 DEF Message, IsMessage, IsType

LEMMA SaysAppends ==
  ASSUME Types, NEW c \in Clients, NEW m \in Messages, Says(c, m)
  PROVE  /\ conn[c] = "up" /\ body[c] = <<>> /\ sent \in Nat /\ sent' = sent + 1
         /\ sent' \in 0..MaxRequests /\ wire' = [wire EXCEPT ![c] = wire[c] \o Encoded(m)]
         /\ wire'[c] \in Seq(Units) /\ Len(wire'[c]) = Len(wire[c]) + MessageSize
         /\ \A q \in 1..Len(wire[c]) : wire'[c][q] = wire[c][q]
         /\ wire'[c][Len(wire[c]) + 1] = Typed(m)
         /\ \A q \in (Len(wire[c]) + 2)..(Len(wire[c]) + MessageSize) : ~IsType(wire'[c][q])
  <1> DEFINE w == wire[c]
             e == Encoded(m)
  <1>1. w \in Seq(Units) /\ Len(w) \in Nat BY DEF Types
  <1>2. wire'[c] = w \o e BY DEF Says, Types
  <1>3. /\ e \in Seq(Units) /\ Len(e) = MessageSize /\ e[1] = Typed(m)
        /\ \A k \in 2..MessageSize : ~IsType(e[k])
    BY EncodedUnits
  <1>4. /\ conn[c] = "up" /\ body[c] = <<>> /\ sent \in Nat /\ sent' = sent + 1
        /\ sent' \in 0..MaxRequests /\ wire' = [wire EXCEPT ![c] = w \o e]
    BY BoundsAreNumbers DEF Says, Types
  <1> HIDE DEF w, e
  <1>5. w \o e \in Seq(Units) /\ Len(w \o e) = Len(w) + MessageSize
    BY <1>1, <1>3
  <1>6. \A q \in 1..Len(w) : (w \o e)[q] = w[q] BY <1>1, <1>3
  <1>7. \A k \in 1..MessageSize : (w \o e)[Len(w) + k] = e[k] BY <1>1, <1>3, BlocksHaveRoom
  <1>8. (w \o e)[Len(w) + 1] = Typed(m) BY <1>3, <1>7, BlocksHaveRoom
  <1>9. ASSUME NEW q \in (Len(w) + 2)..(Len(w) + MessageSize) PROVE ~IsType((w \o e)[q])
    <2>1. PICK k \in 2..MessageSize : q = Len(w) + k
      <3>1. q - Len(w) \in 2..MessageSize BY <1>1, BlocksHaveRoom
      <3>2. q = Len(w) + (q - Len(w)) BY <1>1
      <3> QED BY <3>1, <3>2
    <2>2. k \in 1..MessageSize BY BlocksHaveRoom
    <2> QED BY <1>3, <1>7, <2>1, <2>2
  <1> QED BY <1>2, <1>4, <1>5, <1>6, <1>8, <1>9 DEF w, e

LEMMA WriteMoves ==
  ASSUME Types, NEW c \in Clients, WriteBlock(c)
  PROVE  LET n == Min({BlockSize, Len(body[c])}) IN
         /\ n \in 1..Len(body[c]) /\ (Len(body[c]) >= BlockSize => n = BlockSize)
         /\ wire' = [wire EXCEPT ![c] = wire[c] \o SubSeq(body[c], 1, n)]
         /\ body' = [body EXCEPT ![c] = SubSeq(body[c], n + 1, Len(body[c]))]
         /\ wire'[c] \in Seq(Units) /\ body'[c] \in Seq(Units)
         /\ Len(wire'[c]) = Len(wire[c]) + n /\ Len(body'[c]) = Len(body[c]) - n
         /\ \A q \in 1..Len(wire[c]) : wire'[c][q] = wire[c][q]
         /\ \A q \in 1..n : wire'[c][Len(wire[c]) + q] = body[c][q]
         /\ \A q \in 1..(Len(body[c]) - n) : body'[c][q] = body[c][q + n]
  <1> DEFINE n == Min({BlockSize, Len(body[c])})
             w == wire[c]
             b == body[c]
  <1>1. w \in Seq(Units) /\ Len(w) \in Nat /\ b \in Seq(Units) /\ Len(b) \in Nat /\ b # <<>>
    <2>1. body[c] # <<>> BY Zenon DEF WriteBlock
    <2> QED BY <2>1 DEF Types
  <1>2. n = IF BlockSize <= Len(b) THEN BlockSize ELSE Len(b)
    BY <1>1, MinOfTwo, BlocksHaveRoom
  <1>3. wire' = [wire EXCEPT ![c] = w \o SubSeq(b, 1, n)]
        /\ body' = [body EXCEPT ![c] = SubSeq(b, n + 1, Len(b))]
    BY DEF WriteBlock
  <1>4. wire'[c] = w \o SubSeq(b, 1, n) /\ body'[c] = SubSeq(b, n + 1, Len(b))
    BY <1>3 DEF Types
  <1> HIDE DEF n, w, b
  <1>5. Len(b) > 0 BY <1>1
  <1>6. n \in 1..Len(b) /\ n \in Nat /\ (Len(b) >= BlockSize => n = BlockSize)
    BY <1>1, <1>2, <1>5, BlocksHaveRoom
  <1>7. /\ SubSeq(b, 1, n) \in Seq(Units) /\ Len(SubSeq(b, 1, n)) = n
        /\ \A q \in 1..n : SubSeq(b, 1, n)[q] = b[q]
    BY <1>1, <1>6
  <1>8. /\ SubSeq(b, n + 1, Len(b)) \in Seq(Units) /\ Len(SubSeq(b, n + 1, Len(b))) = Len(b) - n
        /\ \A q \in 1..(Len(b) - n) : SubSeq(b, n + 1, Len(b))[q] = b[q + n]
    BY <1>1, <1>6
  <1> DEFINE s == SubSeq(b, 1, n)
  <1>9. s \in Seq(Units) /\ Len(s) = n /\ \A q \in 1..n : s[q] = b[q] BY <1>7
  <1>10. wire'[c] = w \o s BY <1>4
  <1> HIDE DEF s
  <1>11. w \o s \in Seq(Units) /\ Len(w \o s) = Len(w) + n BY <1>1, <1>6, <1>9
  <1>12. \A q \in 1..Len(w) : (w \o s)[q] = w[q] BY <1>1, <1>6, <1>9
  <1>13. \A q \in 1..n : (w \o s)[Len(w) + q] = s[q] BY <1>1, <1>6, <1>9
  <1> QED BY <1>3, <1>4, <1>6, <1>8, <1>9, <1>10, <1>11, <1>12, <1>13 DEF n, w, b

LEMMA AnswerDoes ==
  ASSUME Types, NEW c \in Clients, Answer(c)
  PROVE  /\ conn' \in [Clients -> {"up", "fin", "rst", "finrst"}]
         /\ unread' \in [Clients -> Nat] /\ server' \in {"select", "down"}
         /\ \A d \in Clients \ {c} : conn'[d] = conn[d] /\ unread'[d] = unread[d]
         /\ conn[c] \in {"up", "rst"} => conn'[c] = conn[c]
         /\ conn[c] \in {"fin", "finrst"} => conn'[c] \in {"fin", "finrst"}
         /\ conn[c] = "finrst" => conn'[c] = "finrst"
         /\ unread'[c] <= unread[c] + 1 /\ (conn[c] # "up" => unread'[c] = unread[c])
  <1>1. CASE /\ conn[c] = "up" /\ unread' = [unread EXCEPT ![c] = unread[c] + 1]
             /\ server' = "select" /\ UNCHANGED conn
    BY <1>1 DEF Types
  <1>2. CASE /\ conn[c] = "fin" /\ server' = "select" /\ UNCHANGED unread
             /\ \E after \in {"fin", "finrst"} : conn' = [conn EXCEPT ![c] = after]
    <2>1. PICK after \in {"fin", "finrst"} : conn' = [conn EXCEPT ![c] = after] BY <1>2
    <2> QED BY <1>2, <2>1 DEF Types
  <1>3. CASE conn[c] \in {"rst", "finrst"} /\ server' = "down" /\ UNCHANGED <<conn, unread>>
    BY <1>3 DEF Types
  <1> QED BY <1>1, <1>2, <1>3 DEF Answer

LEMMA OpenedDoes ==
  ASSUME Types, NEW c \in Clients, NEW u \in Units, Announces(u), Opened(c, u.msg)
  PROVE  /\ \E i \in Indexes :
              /\ store[u.msg.shelf][i] = NoFile
              /\ store' = [store EXCEPT ![u.msg.shelf][i] = <<>>]
              /\ job' = [from |-> c, id |-> u.msg.id, size |-> u.msg.size, count |-> 0,
                         shelf |-> u.msg.shelf, index |-> i, wrote |-> "all"]
         /\ job' \in Jobs /\ job' # Idle /\ server' = "reading"
         /\ store' \in [Shelves -> [Indexes -> Seq(Units) \cup {NoFile}]]
  <1> DEFINE m == u.msg
             i == FirstFree(m.shelf)
  <1>1. m.id \in Ids /\ m.shelf \in Shelves /\ m.size \in Nat BY Kinds
  <1>2. /\ HasRoom(m.shelf) /\ store' = [store EXCEPT ![m.shelf][i] = <<>>]
        /\ job' = [from |-> c, id |-> m.id, size |-> m.size, count |-> 0,
                   shelf |-> m.shelf, index |-> i, wrote |-> "all"]
        /\ server' = "reading"
    BY DEF Opened
  <1>3. i \in Indexes /\ store[m.shelf][i] = NoFile BY <1>1, <1>2, FreeIsFree
  <1> HIDE DEF m, i
  <1>4. job' \in Jobs BY <1>1, <1>2, <1>3 DEF Jobs
  <1>5. job'.from = c /\ Idle.from = NoClient BY <1>2 DEF Idle
  <1>6. job' # Idle BY <1>5, NoClientIsNone
  <1>7. store' \in [Shelves -> [Indexes -> Seq(Units) \cup {NoFile}]]
    BY <1>1, <1>2, <1>3 DEF Types
  <1> QED BY <1>2, <1>3, <1>4, <1>6, <1>7 DEF m

LEMMA TypesSaid ==
  ASSUME Types, NEW c \in Clients, NEW m \in Messages, Says(c, m),
         UNCHANGED <<conn, unread, server_>>,
         body' \in [Clients -> Seq(Units)], files' \in [Clients -> Seq(Sizes)]
  PROVE  Types'
  <1>1. sent' \in 0..MaxRequests /\ wire' \in [Clients -> Seq(Units)]
    BY SaysAppends DEF Types
  <1> QED BY <1>1 DEF Types, server_

(* What SendFile adds.                                                     *)
LEMMA SendFileSays ==
  ASSUME Types, NEW c \in Clients, SendFile(c)
  PROVE  \E f \in [size : Nat, read : Nat], sh \in Shelves :
           LET id == <<c, Len(files[c]) + 1>>
               m == [type |-> "SEND_FILE", id |-> id, shelf |-> sh, size |-> f.size]
           IN  /\ id \in Ids /\ m \in Messages /\ Says(c, m)
               /\ body' = [body EXCEPT ![c] = Written(id, f.read)]
               /\ files' = [files EXCEPT ![c] =
                     Append(files[c], [size |-> f.size, read |-> f.read, shelf |-> sh])]
               /\ UNCHANGED <<conn, unread, server_>>
  <1>1. PICK f \in Takes, sh \in Shelves :
           LET id == <<c, Len(files[c]) + 1>>
               m == [type |-> "SEND_FILE", id |-> id, shelf |-> sh, size |-> f.size]
           IN  /\ Says(c, m)
               /\ body' = [body EXCEPT ![c] = Written(id, f.read)]
               /\ files' = [files EXCEPT ![c] =
                     Append(files[c], [size |-> f.size, read |-> f.read, shelf |-> sh])]
               /\ UNCHANGED <<conn, unread, server_>>
    BY Zenon DEF SendFile
  <1>2. f \in [size : Nat, read : Nat] BY SizesAreCounted
  <1>3. Len(files[c]) \in Nat BY DEF Types
  <1>4. <<c, Len(files[c]) + 1>> \in Ids BY <1>3 DEF Ids
  <1>5. [type |-> "SEND_FILE", id |-> <<c, Len(files[c]) + 1>>, shelf |-> sh, size |-> f.size]
          \in Messages
    BY <1>2, <1>4 DEF Messages
  <1> QED BY <1>1, <1>2, <1>4, <1>5, Zenon

LEMMA TypesServed ==
  ASSUME Types, Gone, NEW c \in Clients, Serve(c)
  PROVE  Types'
  <1>1. PICK k \in 1..MessageSize :
           Reads(c, MessageSize, k) /\ Message(c, SubSeq(wire[c], 1, k))
    BY Zenon DEF Serve
  <1>2. /\ server = "select" /\ due' = due \ {c}
        /\ UNCHANGED <<body, sent, files, slots, told>>
    BY Zenon DEF Serve, Turn
  <1>3. k \in 1..Len(wire[c]) /\ wire' \in [Clients -> Seq(Units)]
        /\ cuts' \in [Clients -> 0..MaxCuts]
    <2>1. k \in Nat /\ MessageSize \in Nat \ {0} BY BlocksHaveRoom
    <2> QED BY <1>1, <2>1, ReadTakes
  <1>4. wire[c][1] \in Units BY <1>3 DEF Types
  <1>5. CASE /\ k = MessageSize /\ IsType(wire[c][1]) /\ lost' = lost
             /\ Handle(c, wire[c][1].msg)
    <2>1. CASE Opened(c, wire[c][1].msg) /\ Announces(wire[c][1]) /\ UNCHANGED <<conn, unread>>
      <3>1. /\ job' \in Jobs /\ server' = "reading"
            /\ store' \in [Shelves -> [Indexes -> Seq(Units) \cup {NoFile}]]
        BY <1>4, <2>1, OpenedDoes
      <3> QED BY <1>2, <1>3, <1>5, <2>1, <3>1 DEF Types
    <2>2. CASE Answer(c) /\ UNCHANGED <<job, store>>
      <3>1. /\ conn' \in [Clients -> {"up", "fin", "rst", "finrst"}]
            /\ unread' \in [Clients -> Nat] /\ server' \in {"select", "down"}
        BY <2>2, AnswerDoes
      <3> QED BY <1>2, <1>3, <1>5, <2>2, <3>1 DEF Types
    <2>3. CASE UNCHANGED <<conn, unread, server, job, store>>
      BY <1>2, <1>3, <1>5, <2>3 DEF Types
    <2>4. CASE server' = "down" /\ UNCHANGED <<conn, unread, job, store>>
      BY <1>2, <1>3, <1>5, <2>4 DEF Types
    <2> QED BY <1>5, <2>1, <2>2, <2>3, <2>4 DEF Handle, Announces, OpenFails
  <1>6. CASE UNCHANGED <<conn, unread, server, job, store, lost>>
    BY <1>2, <1>3, <1>6 DEF Types
  <1>7. CASE server' = "astray" /\ lost' = c /\ UNCHANGED <<conn, unread, job, store>>
    BY <1>2, <1>3, <1>7 DEF Types
  <1> QED BY <1>1, <1>3, <1>5, <1>6, <1>7, Meaning

LEMMA JobIsThere ==
  ASSUME Types, Gone, server = "reading"
  PROVE  job \in Jobs /\ job # Idle
  BY DEF Types, Gone

LEMMA TypesStep ==
  ASSUME Types, Gone, Reading, Next
  PROVE  Types'
  <1>1. CASE Select BY <1>1 DEF Select, client, Types, Ready
  <1>2. ASSUME NEW c \in Clients, Ask(c) PROVE Types'
    BY <1>2, TypesSaid DEF Ask, Messages, Types
  <1>3. ASSUME NEW c \in Clients, AskForFiles(c) PROVE Types'
    BY <1>3, TypesSaid DEF AskForFiles, Messages, Types
  <1>4. ASSUME NEW c \in Clients, SendFile(c) PROVE Types'
    <2>1. PICK f \in [size : Nat, read : Nat], sh \in Shelves :
           LET id == <<c, Len(files[c]) + 1>>
               m == [type |-> "SEND_FILE", id |-> id, shelf |-> sh, size |-> f.size]
           IN  /\ id \in Ids /\ m \in Messages /\ Says(c, m)
               /\ body' = [body EXCEPT ![c] = Written(id, f.read)]
               /\ files' = [files EXCEPT ![c] =
                     Append(files[c], [size |-> f.size, read |-> f.read, shelf |-> sh])]
               /\ UNCHANGED <<conn, unread, server_>>
      BY <1>4, SendFileSays
    <2>2. body' \in [Clients -> Seq(Units)] BY <2>1, WrittenUnits DEF Types
    <2>3. files' \in [Clients -> Seq(Sizes)]
      <3>1. [size |-> f.size, read |-> f.read, shelf |-> sh] \in Sizes BY DEF Sizes
      <3> QED BY <2>1, <3>1 DEF Types
    <2> QED BY <2>1, <2>2, <2>3, TypesSaid
  <1>5. ASSUME NEW c \in Clients, WriteBlock(c) PROVE Types'
    <2>1. wire' \in [Clients -> Seq(Units)] /\ body' \in [Clients -> Seq(Units)]
      BY <1>5, WriteMoves DEF Types
    <2>2. UNCHANGED <<conn, sent, unread, files, server_>> BY <1>5, Zenon DEF WriteBlock
    <2> QED BY <2>1, <2>2 DEF Types, server_
  <1>6. ASSUME NEW c \in Clients, ReadAnswer(c) \/ End(c) PROVE Types'
    <2>1. CASE ReadAnswer(c)
      <3>1. unread[c] - 1 \in Nat BY <2>1 DEF ReadAnswer, Types
      <3> QED BY <2>1, <3>1 DEF ReadAnswer, Types, server_
    <2>2. CASE End(c) BY <2>2 DEF End, Types, server_
    <2> QED BY <1>6, <2>1, <2>2
  <1>7. ASSUME NEW c \in Clients, Serve(c) PROVE Types' BY <1>7, TypesServed
  <1>8. ASSUME NEW c \in Clients, Disconnected(c) \/ Reset(c) PROVE Types'
    BY <1>8 DEF Disconnected, Reset, FreeSlot, Turn, Types, client
  <1>9. ASSUME NEW c \in Clients, ReadBody(c) PROVE Types'
    <2>1. PICK k \in 1..BlockSize, w \in 0..BlockSize :
            /\ Reads(c, BlockSize, k) /\ w <= k
            /\ job' = [job EXCEPT !.count = Got(k), !.wrote = Wrote(k, w)]
            /\ store' = [store EXCEPT ![job.shelf][job.index] = @ \o SubSeq(wire[c], 1, w)]
            /\ UNCHANGED <<conn, body, sent, unread, files, server, slots, due, told, lost>>
      BY <1>9, Zenon DEF ReadBody
    <2>2. job \in Jobs /\ job # Idle BY <1>9, JobIsThere DEF ReadBody, Wanted
    <2>3. /\ wire' \in [Clients -> Seq(Units)] /\ cuts' \in [Clients -> 0..MaxCuts]
          /\ SubSeq(wire[c], 1, w) \in Seq(Units)
      <3>1. k \in Nat /\ BlockSize \in Nat \ {0} BY BlocksHaveRoom
      <3>2. k \in 1..Len(wire[c]) /\ wire[c] \in Seq(Units) BY <2>1, <3>1, ReadTakes DEF Types
      <3>3. SubSeq(wire[c], 1, w) \in Seq(Units) BY <2>1, <3>2
      <3> QED BY <2>1, <3>1, <3>3, ReadTakes
    <2>4. job' \in Jobs
      <3>1. Wrote(k, w) \in {"all", "some"} BY <2>2 DEF Wrote, Jobs
      <3>2. job.count + k \in Nat BY <2>2, BlocksHaveRoom DEF Jobs
      <3> QED BY <2>1, <2>2, <3>1, <3>2 DEF Jobs, Got
    <2>5. Slot(job) \in Seq(Units) BY <2>2 DEF Reading, Stores, Slot, Types, Jobs
    <2>6. store' \in [Shelves -> [Indexes -> Seq(Units) \cup {NoFile}]]
      <3>1. Slot(job) \o SubSeq(wire[c], 1, w) \in Seq(Units) BY <2>3, <2>5
      <3>2. store' = [store EXCEPT ![job.shelf][job.index] = Slot(job) \o SubSeq(wire[c], 1, w)]
        BY <2>1 DEF Slot
      <3> QED BY <2>2, <3>1, <3>2 DEF Types, Jobs
    <2> QED BY <2>1, <2>3, <2>4, <2>6 DEF Types
  <1>10. ASSUME NEW c \in Clients, Finish(c) PROVE Types'
    <2>1. job \in Jobs BY <1>10, JobIsThere DEF Finish
    <2>2. /\ Answer(c) /\ job' = Idle
          /\ UNCHANGED <<wire, body, sent, files, slots, due, store, cuts, lost>>
          /\ told' \subseteq told \cup {[id |-> job.id, shelf |-> job.shelf, index |-> job.index,
                                         wrote |-> job.wrote]}
      BY <1>10 DEF Finish, Close
    <2>3. told' \subseteq Tellings
      <3>1. [id |-> job.id, shelf |-> job.shelf, index |-> job.index, wrote |-> job.wrote]
               \in Tellings
        BY <2>1 DEF Jobs, Tellings
      <3> QED BY <2>2, <3>1 DEF Types
    <2> QED BY <2>2, <2>3, AnswerDoes DEF Types
  <1>11. ASSUME NEW c \in Clients, BreakOff(c) PROVE Types'
    <2>1. CASE Answer(c)
      BY <1>11, <2>1, AnswerDoes DEF BreakOff, Types
    <2>2. CASE ~Answer(c) BY <1>11, <2>2 DEF BreakOff, Types
    <2> QED BY <2>1, <2>2
  <1> QED BY <1>1, <1>2, <1>3, <1>4, <1>5, <1>6, <1>7, <1>8, <1>9, <1>10, <1>11
          DEF Next, ServerRuns, ClientRuns

-----------------------------------------------------------------------------
(* Each action for one client, and what it leaves alone.                   *)
Talks(c) == Ask(c) \/ AskForFiles(c) \/ SendFile(c)

LEMMA TalkSays ==
  ASSUME Types, NEW c \in Clients, Talks(c)
  PROVE  /\ \E m \in Messages : Says(c, m)
         /\ UNCHANGED <<conn, unread, server_>>
         /\ \A d \in Clients \ {c} : body'[d] = body[d]
  <1>1. CASE Ask(c) BY <1>1 DEF Ask, Messages
  <1>2. CASE AskForFiles(c) BY <1>2 DEF AskForFiles, Messages
  <1>3. CASE SendFile(c)
    <2>1. PICK f \in [size : Nat, read : Nat], sh \in Shelves :
           LET id == <<c, Len(files[c]) + 1>>
               m == [type |-> "SEND_FILE", id |-> id, shelf |-> sh, size |-> f.size]
           IN  /\ id \in Ids /\ m \in Messages /\ Says(c, m)
               /\ body' = [body EXCEPT ![c] = Written(id, f.read)]
               /\ files' = [files EXCEPT ![c] =
                     Append(files[c], [size |-> f.size, read |-> f.read, shelf |-> sh])]
               /\ UNCHANGED <<conn, unread, server_>>
      BY <1>3, SendFileSays
    <2> QED BY <2>1 DEF Types
  <1> QED BY <1>1, <1>2, <1>3 DEF Talks

LEMMA ServeDoes ==
  ASSUME Types, NEW c \in Clients, Serve(c)
  PROVE  \E k \in 1..Len(wire[c]) :
           /\ Reads(c, MessageSize, k) /\ k <= MessageSize
           /\ \/ /\ k = MessageSize /\ IsType(wire[c][1]) /\ lost' = lost
                 /\ Handle(c, wire[c][1].msg)
              \/ wire[c][1] = Zeros /\ UNCHANGED <<conn, unread, server, job, store, lost>>
              \/ /\ k # MessageSize \/ ~IsType(wire[c][1])
                 /\ server' = "astray" /\ lost' = c /\ UNCHANGED <<conn, unread, job, store>>
           /\ server = "select" /\ c \in due /\ due' = due \ {c}
           /\ UNCHANGED <<body, sent, files, slots, told>>
  <1>1. PICK k \in 1..MessageSize :
           Reads(c, MessageSize, k) /\ Message(c, SubSeq(wire[c], 1, k))
    BY Zenon DEF Serve
  <1>2. /\ server = "select" /\ c \in due /\ due' = due \ {c}
        /\ UNCHANGED <<body, sent, files, slots, told>>
    BY Zenon DEF Serve, Turn
  <1>3. k \in Nat /\ MessageSize \in Nat \ {0} /\ k <= MessageSize BY BlocksHaveRoom
  <1>4. k \in 1..Len(wire[c]) BY <1>1, <1>3, ReadTakes
  <1>5. \/ /\ k = MessageSize /\ IsType(wire[c][1]) /\ lost' = lost
           /\ Handle(c, wire[c][1].msg)
        \/ wire[c][1] = Zeros /\ UNCHANGED <<conn, unread, server, job, store, lost>>
        \/ /\ k # MessageSize \/ ~IsType(wire[c][1])
           /\ server' = "astray" /\ lost' = c /\ UNCHANGED <<conn, unread, job, store>>
    BY <1>1, <1>4, Meaning
  <1> QED BY <1>1, <1>2, <1>3, <1>4, <1>5, Zenon

LEMMA HandleDoes ==
  ASSUME Types, NEW c \in Clients, NEW u \in Units, IsType(u), Handle(c, u.msg)
  PROVE  \/ Announces(u) /\ Opened(c, u.msg) /\ UNCHANGED <<conn, unread>>
         \/ ~Announces(u) /\ Answer(c) /\ UNCHANGED <<job, store>>
         \/ ~Announces(u) /\ UNCHANGED <<conn, unread, server, job, store>>
         \/ server' = "down" /\ UNCHANGED <<conn, unread, job, store>>
  BY DEF Handle, Announces, OpenFails

LEMMA ReadBodyDoes ==
  ASSUME Types, Gone, Reading, NEW c \in Clients, ReadBody(c)
  PROVE  \E k \in 1..Len(wire[c]), w \in 0..Len(wire[c]) :
           /\ Reads(c, BlockSize, k) /\ k <= BlockSize /\ w <= k
           /\ job \in Jobs /\ job # Idle /\ job.from = c /\ job.count < job.size
           /\ job' = [job EXCEPT !.count = job.count + k, !.wrote = Wrote(k, w)]
           /\ job' \in Jobs /\ job' # Idle
           /\ Slot(job) \in Seq(Units)
           /\ store' = [store EXCEPT ![job.shelf][job.index] =
                            Slot(job) \o SubSeq(wire[c], 1, w)]
           /\ server = "reading"
           /\ UNCHANGED <<conn, body, sent, unread, files, server, slots, due, told, lost>>
  <1>1. PICK k \in 1..BlockSize, w \in 0..BlockSize :
          /\ Reads(c, BlockSize, k) /\ w <= k
          /\ job' = [job EXCEPT !.count = Got(k), !.wrote = Wrote(k, w)]
          /\ store' = [store EXCEPT ![job.shelf][job.index] = @ \o SubSeq(wire[c], 1, w)]
          /\ UNCHANGED <<conn, body, sent, unread, files, server, slots, due, told, lost>>
    BY Zenon DEF ReadBody
  <1>2. server = "reading" /\ job.count < job.size /\ job.from = c
    BY Zenon DEF ReadBody, Wanted
  <1>3. job \in Jobs /\ job # Idle BY <1>2, JobIsThere
  <1>4. k \in Nat /\ BlockSize \in Nat \ {0} /\ k <= BlockSize BY BlocksHaveRoom
  <1>5. k \in 1..Len(wire[c]) BY <1>1, <1>4, ReadTakes
  <1>6. Slot(job) \in Seq(Units) BY <1>3 DEF Reading, Stores, Slot, Types, Jobs
  <1>7. job' = [job EXCEPT !.count = job.count + k, !.wrote = Wrote(k, w)] BY <1>1 DEF Got
  <1>8. job' \in Jobs
    <2>1. Wrote(k, w) \in {"all", "some"} BY <1>3 DEF Wrote, Jobs
    <2>2. job.count + k \in Nat BY <1>3, <1>4 DEF Jobs
    <2> QED BY <1>3, <1>7, <2>1, <2>2 DEF Jobs
  <1>9. job'.from = c BY <1>2, <1>3, <1>7 DEF Jobs
  <1>10. job' # Idle BY <1>9, NoClientIsNone DEF Idle
  <1>11. store' = [store EXCEPT ![job.shelf][job.index] = Slot(job) \o SubSeq(wire[c], 1, w)]
    BY <1>1 DEF Slot
  <1>12. w \in 0..Len(wire[c])
    <2>1. PICK l \in Nat : l = Len(wire[c]) BY DEF Types
    <2> QED BY <1>1, <1>4, <1>5, <2>1
  <1> QED BY <1>1, <1>2, <1>3, <1>4, <1>5, <1>6, <1>7, <1>8, <1>10, <1>11, <1>12, Zenon

LEMMA FinishDoes ==
  ASSUME Types, Gone, NEW c \in Clients, Finish(c)
  PROVE  /\ job \in Jobs /\ job # Idle /\ job.from = c /\ job.count >= job.size
         /\ job' = Idle /\ Answer(c) /\ server = "reading"
         /\ told' \subseteq told \cup {[id |-> job.id, shelf |-> job.shelf, index |-> job.index,
                                        wrote |-> job.wrote]}
         /\ UNCHANGED <<wire, body, sent, files, slots, due, store, cuts, lost>>
  <1>1. server = "reading" /\ ~(job.count < job.size) /\ c = job.from
    BY DEF Finish, Wanted
  <1>2. job \in Jobs /\ job # Idle BY <1>1, JobIsThere
  <1>3. job.count >= job.size BY <1>1, <1>2 DEF Jobs
  <1> QED BY <1>1, <1>2, <1>3 DEF Finish, Close

LEMMA BreakOffDoes ==
  ASSUME Types, Gone, NEW c \in Clients, BreakOff(c)
  PROVE  /\ job \in Jobs /\ job # Idle /\ job.from = c /\ job' = Idle
         /\ wire[c] = <<>> /\ conn[c] # "up" /\ server = "reading" /\ server' # "reading"
         /\ server' # "astray" /\ conn' \in [Clients -> {"up", "fin", "rst", "finrst"}]
         /\ conn'[c] \in {"fin", "finrst"} /\ unread' = unread
         /\ \A d \in Clients \ {c} : conn'[d] = conn[d]
         /\ conn[c] = "finrst" => conn'[c] = "finrst"
         /\ UNCHANGED <<wire, body, sent, files, slots, due, store, told, cuts, lost>>
  <1>1. /\ server = "reading" /\ c = job.from /\ job' = Idle
        /\ wire[c] = <<>> /\ conn[c] # "up"
        /\ UNCHANGED <<wire, body, sent, files, slots, due, store, told, cuts, lost>>
    BY DEF BreakOff, Wanted, Breaks
  <1>2. job \in Jobs /\ job # Idle BY <1>1, JobIsThere
  <1>3. conn[c] \in {"fin", "rst", "finrst"} BY <1>1 DEF Types
  <1>4. CASE conn[c] = "rst"
    BY <1>1, <1>2, <1>4 DEF BreakOff, Types
  <1>5. CASE conn[c] # "rst" /\ Answer(c)
    <2>1. unread' = unread BY <1>1, <1>5 DEF Answer
    <2> QED BY <1>1, <1>2, <1>3, <1>5, <2>1, AnswerDoes
  <1> QED BY <1>4, <1>5 DEF BreakOff

(* Every step is one of these.                                             *)
LEMMA StepIs ==
  ASSUME Next
  PROVE  \/ Select
         \/ \E c \in Clients :
              \/ Talks(c) \/ End(c) \/ WriteBlock(c) \/ ReadAnswer(c)
              \/ Serve(c) \/ Disconnected(c) \/ Reset(c)
              \/ ReadBody(c) \/ Finish(c) \/ BreakOff(c)
  BY Zenon DEF Next, ServerRuns, ClientRuns, Talks

LEMMA GoneStep ==
  ASSUME Types, Gone, Reading, Next, Types'
  PROVE  Gone'
  <1> USE DEF Gone
  <1>1. CASE Select BY <1>1 DEF Select, client
  <1>2. ASSUME NEW c \in Clients, Talks(c) PROVE Gone'
    <2>1. PICK m \in Messages : Says(c, m) BY <1>2, TalkSays
    <2>2. conn[c] = "up" /\ \A d \in Clients \ {c} : wire'[d] = wire[d]
      BY <2>1, SaysAppends DEF Types
    <2> QED BY <1>2, <2>2, TalkSays DEF server_
  <1>3. ASSUME NEW c \in Clients, End(c) PROVE Gone'
    BY <1>3 DEF End, Types, server_
  <1>4. ASSUME NEW c \in Clients, WriteBlock(c) PROVE Gone'
    <2>1. conn[c] = "up" /\ UNCHANGED <<conn, server_>> BY <1>4, Zenon DEF WriteBlock
    <2>2. \A d \in Clients \ {c} : wire'[d] = wire[d]
      <3>1. \E s : wire' = [wire EXCEPT ![c] = s] BY <1>4, Zenon DEF WriteBlock
      <3> QED BY <3>1 DEF Types
    <2> QED BY <2>1, <2>2 DEF server_
  <1>5. ASSUME NEW c \in Clients, ReadAnswer(c) PROVE Gone'
    BY <1>5 DEF ReadAnswer, server_
  <1>6. ASSUME NEW c \in Clients, Serve(c) PROVE Gone'
    <2>1. PICK k \in 1..Len(wire[c]) :
           /\ Reads(c, MessageSize, k) /\ k <= MessageSize
           /\ \/ /\ k = MessageSize /\ IsType(wire[c][1]) /\ lost' = lost
                 /\ Handle(c, wire[c][1].msg)
              \/ wire[c][1] = Zeros /\ UNCHANGED <<conn, unread, server, job, store, lost>>
              \/ /\ k # MessageSize \/ ~IsType(wire[c][1])
                 /\ server' = "astray" /\ lost' = c /\ UNCHANGED <<conn, unread, job, store>>
           /\ server = "select" /\ c \in due /\ due' = due \ {c}
           /\ UNCHANGED <<body, sent, files, slots, told>>
      BY <1>6, ServeDoes
    <2>2. \A d \in Clients \ {c} : wire'[d] = wire[d] BY <2>1 DEF Types, Reads
    <2>3. c \in slots BY <2>1 DEF Types
    <2>4. wire[c][1] \in Units BY <2>1 DEF Types
    <2>5. lost = NoClient /\ job = Idle BY <2>1
    <2>6. CASE IsType(wire[c][1]) /\ lost' = lost /\ Handle(c, wire[c][1].msg)
      <3>1. CASE Opened(c, wire[c][1].msg) /\ Announces(wire[c][1]) /\ UNCHANGED <<conn, unread>>
        <4>1. job' # Idle /\ server' = "reading" BY <2>4, <3>1, OpenedDoes
        <4> QED BY <2>1, <2>2, <2>3, <2>5, <2>6, <3>1, <4>1
      <3>2. CASE Answer(c) /\ UNCHANGED <<job, store>>
        BY <2>1, <2>2, <2>3, <2>5, <2>6, <3>2, AnswerDoes
      <3>3. CASE UNCHANGED <<conn, unread, server, job, store>>
        BY <2>1, <2>2, <2>3, <2>5, <2>6, <3>3
      <3>4. CASE server' = "down" /\ UNCHANGED <<conn, unread, job, store>>
        BY <2>1, <2>2, <2>3, <2>5, <2>6, <3>4
      <3> QED BY <2>4, <2>6, <3>1, <3>2, <3>3, <3>4, HandleDoes
    <2>7. CASE UNCHANGED <<conn, unread, server, job, store, lost>>
      BY <2>1, <2>2, <2>3, <2>7
    <2>8. CASE server' = "astray" /\ lost' = c /\ UNCHANGED <<conn, unread, job, store>>
      BY <2>1, <2>2, <2>3, <2>5, <2>8, NoClientIsNone
    <2> QED BY <2>1, <2>6, <2>7, <2>8
  <1>7. ASSUME NEW c \in Clients, Disconnected(c) PROVE Gone'
    BY <1>7 DEF Disconnected, FreeSlot, client
  <1>8. ASSUME NEW c \in Clients, Reset(c) PROVE Gone'
    BY <1>8, NoClientIsNone DEF Reset, Turn, Types
  <1>9. ASSUME NEW c \in Clients, ReadBody(c) PROVE Gone'
    <2>1. PICK k \in 1..Len(wire[c]) :
           /\ Reads(c, BlockSize, k) /\ job' # Idle /\ server = "reading"
           /\ UNCHANGED <<conn, server, slots, lost>>
      BY <1>9, ReadBodyDoes
    <2>2. \A d \in Clients \ {c} : wire'[d] = wire[d] BY <2>1 DEF Types, Reads
    <2>3. wire[c] # <<>> BY <2>1 DEF Reads
    <2> QED BY <2>1, <2>2, <2>3
  <1>10. ASSUME NEW c \in Clients, Finish(c) PROVE Gone'
    <2>1. /\ server = "reading" /\ job' = Idle /\ Answer(c)
          /\ UNCHANGED <<wire, slots, lost>>
      BY <1>10, FinishDoes
    <2>2. /\ server' \in {"select", "down"} /\ \A d \in Clients \ {c} : conn'[d] = conn[d]
          /\ conn[c] \in {"fin", "finrst"} => conn'[c] \in {"fin", "finrst"}
      BY <2>1, AnswerDoes
    <2> QED BY <2>1, <2>2
  <1>11. ASSUME NEW c \in Clients, BreakOff(c) PROVE Gone'
    BY <1>11, BreakOffDoes DEF Types
  <1> QED BY <1>1, <1>2, <1>3, <1>4, <1>5, <1>6, <1>7, <1>8, <1>9, <1>10, <1>11, StepIs

LEMMA BodiesStep ==
  ASSUME Types, Gone, Bodies, Reading, Next, Types'
  PROVE  Bodies'
  <1> USE DEF Bodies
  <1>1. CASE UNCHANGED <<conn, body>> BY <1>1
  <1>2. ASSUME NEW c \in Clients, Talks(c) PROVE Bodies'
    <2>1. CASE Ask(c) \/ AskForFiles(c) BY <1>1, <2>1 DEF Ask, AskForFiles
    <2>2. CASE SendFile(c)
      <3>1. PICK f \in [size : Nat, read : Nat], sh \in Shelves :
           LET id == <<c, Len(files[c]) + 1>>
               m == [type |-> "SEND_FILE", id |-> id, shelf |-> sh, size |-> f.size]
           IN  /\ id \in Ids /\ m \in Messages /\ Says(c, m)
               /\ body' = [body EXCEPT ![c] = Written(id, f.read)]
               /\ files' = [files EXCEPT ![c] =
                     Append(files[c], [size |-> f.size, read |-> f.read, shelf |-> sh])]
               /\ UNCHANGED <<conn, unread, server_>>
        BY <2>2, SendFileSays
      <3>2. PICK w : w = Written(<<c, Len(files[c]) + 1>>, f.read) OBVIOUS
      <3>3. w \in Seq(Units) /\ Len(w) \in Blocks /\ \A q \in DOMAIN w : ~IsType(w[q])
        <4>1. <<c, Len(files[c]) + 1>> \in Ids /\ f.read \in Nat BY <3>1
        <4>2. w \in Seq(Units) /\ Len(w) = Padded(f.read) /\ \A q \in 1..Padded(f.read) : ~IsType(w[q])
          BY <3>2, <4>1, WrittenUnits
        <4> QED BY <4>1, <4>2, PaddedSize
      <3>4. conn[c] = "up" /\ conn' = conn /\ body' = [body EXCEPT ![c] = w]
        BY <3>1, <3>2 DEF Says
      <3> QED BY <3>3, <3>4 DEF Types
    <2> QED BY <1>2, <2>1, <2>2 DEF Talks
  <1>3. ASSUME NEW c \in Clients, End(c) PROVE Bodies'
    <2>1. Len(<<>>) \in Blocks BY BlocksAdd
    <2> QED BY <1>3, <2>1 DEF End, Types
  <1>4. ASSUME NEW c \in Clients, WriteBlock(c) PROVE Bodies'
    <2>1. conn[c] = "up" /\ UNCHANGED conn BY <1>4, Zenon DEF WriteBlock
    <2>2. PICK n : n = Min({BlockSize, Len(body[c])}) OBVIOUS
    <2>3. /\ n \in 1..Len(body[c]) /\ (Len(body[c]) >= BlockSize => n = BlockSize)
          /\ body'[c] \in Seq(Units) /\ Len(body'[c]) = Len(body[c]) - n
          /\ \A q \in 1..(Len(body[c]) - n) : body'[c][q] = body[c][q + n]
          /\ body' = [body EXCEPT ![c] = SubSeq(body[c], n + 1, Len(body[c]))]
      BY <1>4, <2>2, WriteMoves
    <2>4. Len(body[c]) \in Nat /\ Len(body[c]) \in Blocks /\ body[c] \in Seq(Units)
          /\ \A d \in Clients \ {c} : body'[d] = body[d]
      BY <2>3 DEF Types
    <2>5. n = BlockSize /\ Len(body[c]) - n \in Blocks
      <3>1. PICK l \in Blocks : l = Len(body[c]) BY <2>4
      <3>2. l > 0
        <4>1. n \in 1..Len(body[c]) /\ Len(body[c]) \in Nat BY <2>3, <2>4
        <4> QED BY <3>1, <4>1
      <3>3. l >= BlockSize /\ l - BlockSize \in Blocks BY <3>2, BlocksAdd
      <3> QED BY <2>3, <3>1, <3>3
    <2>6. \A q \in DOMAIN body'[c] : ~IsType(body'[c][q])
      <3>1. ASSUME NEW q \in DOMAIN body'[c] PROVE q + n \in DOMAIN body[c] /\ q \in 1..(Len(body[c]) - n)
        BY <2>3, <2>4
      <3> QED BY <2>3, <2>4, <3>1
    <2> QED BY <2>1, <2>3, <2>5, <2>6
  <1>5. ASSUME NEW c \in Clients, UNCHANGED body, \A d \in Clients \ {c} : conn'[d] = conn[d],
               conn[c] = "up" => conn'[c] = "up"
        PROVE  Bodies'
    BY <1>5
  <1>6. ASSUME NEW c \in Clients, Serve(c) PROVE Bodies'
    <2>1. PICK k \in 1..Len(wire[c]) :
           /\ \/ /\ k = MessageSize /\ IsType(wire[c][1]) /\ lost' = lost
                 /\ Handle(c, wire[c][1].msg)
              \/ wire[c][1] = Zeros /\ UNCHANGED <<conn, unread, server, job, store, lost>>
              \/ /\ k # MessageSize \/ ~IsType(wire[c][1])
                 /\ server' = "astray" /\ lost' = c /\ UNCHANGED <<conn, unread, job, store>>
           /\ body' = body
      BY <1>6, ServeDoes
    <2>2. wire[c][1] \in Units BY <2>1 DEF Types
    <2>3. CASE UNCHANGED conn BY <1>1, <2>1, <2>3
    <2>4. CASE Answer(c) BY <1>5, <2>1, <2>4, AnswerDoes
    <2> QED BY <2>1, <2>2, <2>3, <2>4, HandleDoes
  <1>7. ASSUME NEW c \in Clients, Finish(c) PROVE Bodies'
    BY <1>5, <1>7, FinishDoes, AnswerDoes
  <1>8. ASSUME NEW c \in Clients, BreakOff(c) PROVE Bodies'
    BY <1>5, <1>8, BreakOffDoes
  <1>9. ASSUME NEW c \in Clients, Reset(c) PROVE Bodies'
    BY <1>5, <1>9 DEF Reset, Types
  <1>10. CASE Select BY <1>1, <1>10 DEF Select, client
  <1>11. ASSUME NEW c \in Clients, ReadAnswer(c) \/ Disconnected(c) \/ ReadBody(c) PROVE Bodies'
    BY <1>1, <1>11 DEF ReadAnswer, Disconnected, ReadBody, client
  <1> QED BY <1>2, <1>3, <1>4, <1>6, <1>7, <1>8, <1>9, <1>10, <1>11, StepIs

-----------------------------------------------------------------------------
(* How the stream of a client moves in a step: j units are taken from its  *)
(* front, it is cut when the client ends, and what is added to it begins   *)
(* with a message.                                                         *)
Moved(c, j) ==
    /\ \A q \in 1..Length(c)' : q + j <= Length(c) => At(c, q)' = At(c, q + j)
    /\ \A q \in 1..Length(c)' : q + j = Length(c) + 1 => IsType(At(c, q))'
    /\ conn'[c] = "up" => conn[c] = "up" /\ Length(c)' + j >= Length(c)
    /\ conn[c] # "up" => Length(c)' + j <= Length(c)

LEMMA Lengths ==
  ASSUME Types, NEW c \in Clients
  PROVE  /\ Length(c) \in Nat /\ Len(wire[c]) \in Nat /\ Len(body[c]) \in Nat
         /\ Length(c) = Len(wire[c]) + Len(body[c])
         /\ \A p \in 1..Length(c) : At(c, p) \in Units
  BY DEF Types, Length, At

LEMMA StandsStill ==
  ASSUME Types, Types', NEW d \in Clients, wire'[d] = wire[d], body'[d] = body[d],
         conn'[d] = "up" <=> conn[d] = "up"
  PROVE  Moved(d, 0) /\ Length(d)' = Length(d)
  <1>1. Length(d) \in Nat /\ Length(d)' = Length(d) BY Lengths DEF Length
  <1>2. \A q \in 1..Length(d) : At(d, q)' = At(d, q) BY DEF At
  <1> HIDE DEF Length, At
  <1>3. \A q \in 1..Length(d) : q + 0 = q /\ q + 0 # Length(d) + 1 BY <1>1
  <1>4. Length(d) + 0 = Length(d) BY <1>1
  <1> QED BY <1>1, <1>2, <1>3, <1>4 DEF Moved

LEMMA ReadMoves ==
  ASSUME Types, Types', NEW c \in Clients, NEW most \in Nat \ {0}, NEW k \in Nat,
         Reads(c, most, k), body'[c] = body[c], conn'[c] = "up" <=> conn[c] = "up"
  PROVE  Moved(c, k) /\ Length(c)' = Length(c) - k
  <1>1. /\ k \in 1..Len(wire[c]) /\ Len(wire'[c]) = Len(wire[c]) - k
        /\ \A q \in 1..Len(wire'[c]) : wire'[c][q] = wire[c][q + k]
    <2>1. k \in 1..Len(wire[c]) BY ReadTakes
    <2>2. Len(wire'[c]) = Len(wire[c]) - k BY ReadTakes
    <2>3. \A q \in 1..Len(wire'[c]) : wire'[c][q] = wire[c][q + k] BY ReadTakes
    <2> QED BY <2>1, <2>2, <2>3
  <1>2. Len(wire[c]) \in Nat /\ Len(body[c]) \in Nat BY Lengths
  <1>3. Length(c)' = Length(c) - k /\ Length(c) \in Nat
    <2>1. PICK l \in Nat, b \in Nat : l = Len(wire[c]) /\ b = Len(body[c]) BY <1>2
    <2>2. Length(c) = l + b /\ Length(c)' = (l - k) + b BY <1>1, <2>1 DEF Length
    <2>3. (l - k) + b = (l + b) - k /\ l + b \in Nat OBVIOUS
    <2> QED BY <2>2, <2>3, Zenon
  <1>4. ASSUME NEW q \in 1..(Length(c) - k) PROVE At(c, q)' = At(c, q + k)
    <2>1. CASE q <= Len(wire[c]) - k
      <3>1. q + k <= Len(wire[c]) /\ q \in 1..Len(wire'[c]) BY <2>1, <1>1, <1>2
      <3> QED BY <3>1, <2>1, <1>1, <1>2 DEF At
    <2>2. CASE q > Len(wire[c]) - k
      <3>1. ~(q + k <= Len(wire[c])) /\ ~(q <= Len(wire'[c]))
            /\ q - Len(wire'[c]) = (q + k) - Len(wire[c])
        BY <2>2, <1>1, <1>2, <1>3
      <3> QED BY <3>1 DEF At
    <2> QED BY <2>1, <2>2, <1>1, <1>2, <1>3
  <1> HIDE DEF Length, At
  <1>5. \A q \in 1..Length(c)' : q \in 1..(Length(c) - k) /\ q + k # Length(c) + 1
    BY <1>1, <1>2, <1>3
  <1>6. Length(c)' + k = Length(c) BY <1>1, <1>2, <1>3
  <1> QED BY <1>3, <1>4, <1>5, <1>6 DEF Moved

LEMMA WriteStays ==
  ASSUME Types, Types', NEW c \in Clients, WriteBlock(c)
  PROVE  Moved(c, 0) /\ Length(c)' = Length(c)
  <1>1. PICK n : n = Min({BlockSize, Len(body[c])}) OBVIOUS
  <1>2. /\ n \in 1..Len(body[c])
        /\ Len(wire'[c]) = Len(wire[c]) + n /\ Len(body'[c]) = Len(body[c]) - n
        /\ \A q \in 1..Len(wire[c]) : wire'[c][q] = wire[c][q]
        /\ \A q \in 1..n : wire'[c][Len(wire[c]) + q] = body[c][q]
        /\ \A q \in 1..(Len(body[c]) - n) : body'[c][q] = body[c][q + n]
    BY <1>1, WriteMoves
  <1>3. Len(wire[c]) \in Nat /\ Len(body[c]) \in Nat BY Lengths
  <1>4. Length(c)' = Length(c) /\ Length(c) \in Nat
        /\ \A q \in 1..Length(c) : q <= Len(wire[c]) + Len(body[c])
    <2>1. PICK l \in Nat, b \in Nat : l = Len(wire[c]) /\ b = Len(body[c]) BY <1>3
    <2>2. n \in Nat BY <1>2
    <2>3. Length(c) = l + b /\ Length(c)' = (l + n) + (b - n) BY <1>2, <2>1 DEF Length
    <2>4. (l + n) + (b - n) = l + b /\ l + b \in Nat /\ \A q \in 1..(l + b) : q <= l + b
      BY <2>2
    <2> QED BY <2>1, <2>3, <2>4, Zenon
  <1>5. ASSUME NEW q \in 1..Length(c) PROVE At(c, q)' = At(c, q)
    <2>1. CASE q <= Len(wire[c])
      <3>1. q <= Len(wire'[c]) /\ q \in 1..Len(wire[c]) BY <2>1, <1>2, <1>3
      <3> QED BY <2>1, <3>1, <1>2 DEF At
    <2>2. CASE q > Len(wire[c]) /\ q <= Len(wire[c]) + n
      <3>1. PICK r \in 1..n : q = Len(wire[c]) + r
        <4>1. q - Len(wire[c]) \in 1..n /\ q = Len(wire[c]) + (q - Len(wire[c]))
          BY <2>2, <1>2, <1>3
        <4> QED BY <4>1
      <3>2. q - Len(wire[c]) = r /\ q <= Len(wire'[c]) /\ ~(q <= Len(wire[c]))
        BY <3>1, <2>2, <1>2, <1>3
      <3>3. wire'[c][q] = body[c][r] BY <3>1, <1>2
      <3> QED BY <3>2, <3>3 DEF At
    <2>3. CASE q > Len(wire[c]) + n
      <3>1. PICK r \in 1..(Len(body[c]) - n) : q = Len(wire[c]) + n + r
        <4>1. PICK l \in Nat, b \in Nat : l = Len(wire[c]) /\ b = Len(body[c]) BY <1>3
        <4>2. q \in Int /\ n \in Nat BY <1>2, <1>4
        <4>5. q <= Len(wire[c]) + Len(body[c]) /\ q > Len(wire[c]) + n BY <2>3, <1>4
        <4>6. q <= l + b /\ q > l + n BY <4>1, <4>5, Zenon
        <4>3. q - (l + n) \in 1..(b - n) /\ q = l + n + (q - (l + n)) BY <4>2, <4>6
        <4> QED BY <4>1, <4>3, Zenon
      <3>2. q - Len(wire[c]) = r + n /\ q - Len(wire'[c]) = r
            /\ ~(q <= Len(wire'[c])) /\ ~(q <= Len(wire[c]))
        <4>1. PICK l \in Nat, b \in Nat : l = Len(wire[c]) /\ b = Len(body[c]) BY <1>3
        <4>2. Len(wire'[c]) = l + n /\ n \in Nat BY <1>2, <4>1
        <4>3. r \in 1..(b - n) BY <3>1, <4>1
        <4>4. q = l + n + r BY <3>1, <4>1, Zenon
        <4>5. /\ q - l = r + n /\ q - (l + n) = r /\ ~(q <= l + n) /\ ~(q <= l)
          BY <4>2, <4>3, <4>4
        <4> QED BY <4>1, <4>2, <4>5, Zenon
      <3>3. body'[c][r] = body[c][r + n] BY <3>1, <1>2
      <3> QED BY <3>2, <3>3 DEF At
    <2> QED BY <2>1, <2>2, <2>3, <1>2, <1>3, <1>4
  <1>6. conn' = conn BY Zenon DEF WriteBlock
  <1> HIDE DEF Length, At
  <1>7. \A q \in 1..Length(c) : q + 0 = q /\ q + 0 # Length(c) + 1 BY <1>4
  <1>8. Length(c) + 0 = Length(c) BY <1>4
  <1> QED BY <1>4, <1>5, <1>6, <1>7, <1>8 DEF Moved

LEMMA EndCuts ==
  ASSUME Types, Types', NEW c \in Clients, End(c)
  PROVE  Moved(c, 0) /\ Length(c)' <= Length(c)
  <1>1. /\ conn[c] = "up" /\ conn'[c] # "up" /\ wire' = wire /\ body'[c] = <<>>
    BY DEF End, Types
  <1>2. Len(wire[c]) \in Nat /\ Len(body[c]) \in Nat /\ Len(body'[c]) = 0 BY <1>1, Lengths
  <1>3. Length(c)' = Len(wire[c]) /\ Length(c) \in Nat /\ Length(c)' <= Length(c)
    <2>1. PICK l \in Nat, b \in Nat : l = Len(wire[c]) /\ b = Len(body[c]) BY <1>2
    <2>2. Length(c) = l + b /\ Length(c)' = l + 0 BY <1>1, <1>2, <2>1 DEF Length
    <2>3. l + 0 = l /\ l + b \in Nat /\ l <= l + b OBVIOUS
    <2> QED BY <2>1, <2>2, <2>3, Zenon
  <1>4. \A q \in 1..Len(wire[c]) : At(c, q)' = At(c, q) BY <1>1, <1>2 DEF At
  <1>5. \A q \in 1..Len(wire[c]) : q + 0 = q /\ q + 0 # Length(c) + 1 BY <1>2, <1>3
  <1> QED BY <1>1, <1>3, <1>4, <1>5 DEF Moved

LEMMA TalkAdds ==
  ASSUME Types, Types', NEW c \in Clients, NEW m \in Messages, Says(c, m), conn' = conn
  PROVE  \E l, b \in Nat :
           /\ Moved(c, 0) /\ Length(c) = l /\ Len(wire[c]) = l /\ Len(body'[c]) = b
           /\ Length(c)' = l + MessageSize + b /\ Len(wire'[c]) = l + MessageSize
           /\ At(c, l + 1)' = Typed(m)
           /\ \A q \in 1..Length(c)' : q > l + 1 /\ q <= l + MessageSize => ~IsType(At(c, q))'
           /\ \A q \in 1..b : At(c, l + MessageSize + q)' = body'[c][q]
  <1>1. /\ body[c] = <<>> /\ Len(wire'[c]) = Len(wire[c]) + MessageSize
        /\ \A q \in 1..Len(wire[c]) : wire'[c][q] = wire[c][q]
        /\ wire'[c][Len(wire[c]) + 1] = Typed(m)
        /\ \A q \in (Len(wire[c]) + 2)..(Len(wire[c]) + MessageSize) : ~IsType(wire'[c][q])
    BY SaysAppends
  <1>2. PICK l \in Nat, b \in Nat : l = Len(wire[c]) /\ b = Len(body'[c]) BY DEF Types
  <1>3. Length(c) = l /\ Length(c)' = l + MessageSize + b /\ Len(wire'[c]) = l + MessageSize
    BY <1>1, <1>2, BlocksHaveRoom DEF Length
  <1> USE BlocksHaveRoom
  <1>4. \A q \in 1..l : At(c, q) = wire[c][q] BY <1>2 DEF At
  <1>5. \A q \in 1..(l + MessageSize) : At(c, q)' = wire'[c][q]
    BY <1>2, <1>3 DEF At
  <1>6. \A q \in 1..b : At(c, l + MessageSize + q)' = body'[c][q]
    <2> SUFFICES ASSUME NEW q \in 1..b PROVE At(c, l + MessageSize + q)' = body'[c][q]
      OBVIOUS
    <2>1. ~(l + MessageSize + q <= Len(wire'[c])) /\ (l + MessageSize + q) - Len(wire'[c]) = q
      BY <1>3
    <2> QED BY <2>1, <1>2 DEF At
  <1> HIDE DEF Length, At
  <1>7. \A q \in 1..l : At(c, q)' = At(c, q)
    <2>1. \A q \in 1..l : q \in 1..(l + MessageSize) OBVIOUS
    <2> QED BY <2>1, <1>1, <1>2, <1>4, <1>5
  <1>8. l + 1 \in 1..(l + MessageSize) OBVIOUS
  <1>9. At(c, l + 1)' = Typed(m) BY <1>1, <1>2, <1>5, <1>8
  <1>10. IsType(Typed(m)) BY Kinds
  <1>11. Moved(c, 0)
    <2>1. \A q \in 1..Length(c)' : q + 0 <= Length(c) => q \in 1..l /\ q + 0 = q BY <1>3
    <2>2. \A q \in 1..Length(c)' : q + 0 = Length(c) + 1 => q = l + 1 BY <1>3
    <2>3. Length(c)' + 0 >= Length(c) BY <1>3
    <2>4. IsType(At(c, l + 1))' BY <1>9, <1>10 DEF IsType
    <2>5. conn[c] = "up" BY SaysAppends
    <2> QED BY <2>1, <2>2, <2>3, <2>4, <2>5, <1>7 DEF Moved
  <1>12. \A q \in 1..Length(c)' : q > l + 1 /\ q <= l + MessageSize => ~IsType(At(c, q))'
    <2> SUFFICES ASSUME NEW q \in 1..Length(c)', q > l + 1, q <= l + MessageSize
                 PROVE  ~IsType(At(c, q))'
      OBVIOUS
    <2>1. q \in (l + 2)..(l + MessageSize) /\ q \in 1..(l + MessageSize) BY <1>3
    <2>2. ~IsType(wire'[c][q]) BY <2>1, <1>1, <1>2
    <2>3. At(c, q)' = wire'[c][q] BY <2>1, <1>5
    <2>4. (At(c, q)').unit # "type" BY <2>2, <2>3, Zenon DEF IsType
    <2> QED BY <2>4 DEF IsType
  <1> QED BY <1>2, <1>3, <1>6, <1>9, <1>11, <1>12, Zenon

-----------------------------------------------------------------------------
(* Files stay behind their announcements while the stream moves.           *)
Grow ==
    \A c \in Clients : \A n \in DOMAIN files[c] :
        n \in DOMAIN files'[c] /\ files'[c][n] = files[c][n]

LEMMA FilesGrow ==
  ASSUME Types, Gone, Reading, Next
  PROVE  Grow
  <1>1. CASE files' = files BY <1>1 DEF Grow
  <1>2. ASSUME NEW c \in Clients, SendFile(c) PROVE Grow
    <2>1. PICK f \in [size : Nat, read : Nat], sh \in Shelves :
             files' = [files EXCEPT ![c] =
                     Append(files[c], [size |-> f.size, read |-> f.read, shelf |-> sh])]
      BY <1>2, SendFileSays
    <2>2. PICK r : r = [size |-> f.size, read |-> f.read, shelf |-> sh] OBVIOUS
    <2>3. files' = [files EXCEPT ![c] = Append(files[c], r)] BY <2>1, <2>2
    <2>7. files \in [Clients -> Seq(Sizes)] BY DEF Types
    <2>4. files'[c] = Append(files[c], r) /\ \A d \in Clients \ {c} : files'[d] = files[d]
      BY <2>3, <2>7
    <2>8. r \in Sizes BY <2>2 DEF Sizes
    <2>5. files[c] \in Seq(Sizes) /\ r \in Sizes BY <2>7, <2>8
    <2>6. \A n \in DOMAIN files[c] :
             n \in DOMAIN Append(files[c], r) /\ Append(files[c], r)[n] = files[c][n]
      BY <2>5
    <2> QED BY <2>4, <2>6 DEF Grow
  <1>3. ASSUME NEW c \in Clients,
               Ask(c) \/ AskForFiles(c) \/ End(c) \/ ReadAnswer(c) \/ Disconnected(c) \/ Reset(c)
        PROVE  Grow
    BY <1>1, <1>3 DEF Ask, AskForFiles, End, ReadAnswer, Disconnected, Reset, client
  <1>4. ASSUME NEW c \in Clients, WriteBlock(c) PROVE Grow
    BY <1>1, <1>4, Zenon DEF WriteBlock
  <1>5. ASSUME NEW c \in Clients, Serve(c) PROVE Grow BY <1>1, <1>5, Zenon DEF Serve
  <1>6. ASSUME NEW c \in Clients, ReadBody(c) PROVE Grow BY <1>1, <1>6, Zenon DEF ReadBody
  <1>7. ASSUME NEW c \in Clients, Finish(c) \/ BreakOff(c) PROVE Grow
    BY <1>1, <1>7, Zenon DEF Finish, BreakOff
  <1>8. CASE Select BY <1>1, <1>8 DEF Select, client
  <1> QED BY <1>2, <1>3, <1>4, <1>5, <1>6, <1>7, <1>8, StepIs DEF Talks

LEMMA SameFile ==
  ASSUME Types, Grow, NEW id \in Ids, Known(id)
  PROVE  Known(id)' /\ Announced(id)' = Announced(id) /\ Announced(id) \in Sizes
  <1>1. id[1] \in Clients BY DEF Ids
  <1>2. files[id[1]] \in Seq(Sizes) BY <1>1 DEF Types
  <1> QED BY <1>1, <1>2 DEF Known, Announced, Grow

LEMMA FollowsOn ==
  ASSUME Types, Types', Grow, NEW c \in Clients, NEW id \in Ids, Known(id),
         NEW j \in Nat, Moved(c, j), NEW p \in Nat, NEW k \in Nat, Follows(c, p, id, k),
         NEW p1 \in Nat, NEW k1 \in Nat, p1 + k + j = p + k1, k1 >= k
  PROVE  Follows(c, p1, id, k1)'
  <1>1. Announced(id)' = Announced(id) /\ Announced(id).read \in Nat
    BY SameFile DEF Sizes
  <1>2. PICK N, W : N = Padded(Announced(id).read) /\ W = Written(id, Announced(id).read)
    OBVIOUS
  <1>3. N \in Nat BY <1>1, <1>2, PaddedSize
  <1>4. PICK l \in Nat : l = Length(c) BY Lengths
  <1>5. PICK l1 \in Nat : l1 = Length(c)'
    <2>1. Length(c)' \in Nat
      <3>1. wire'[c] \in Seq(Units) /\ body'[c] \in Seq(Units) BY DEF Types
      <3>2. PICK a \in Nat, b \in Nat : a = Len(wire'[c]) /\ b = Len(body'[c]) BY <3>1
      <3>3. Length(c)' = a + b BY <3>2 DEF Length
      <3> QED BY <3>3
    <2> QED BY <2>1
  <1>6. \A q \in 1..(l - p) : k + q <= N => At(c, p + q) = W[k + q]
    BY <1>2, <1>4, Zenon DEF Follows
  <1>7. conn[c] = "up" => p + N <= l + k BY <1>2, <1>4, Zenon DEF Follows
  <1>8. /\ \A q \in 1..l1 : q + j <= l => At(c, q)' = At(c, q + j)
        /\ conn'[c] = "up" => conn[c] = "up" /\ l1 + j >= l
        /\ conn[c] # "up" => l1 + j <= l
    BY <1>4, <1>5, Zenon DEF Moved
  <1>9. ASSUME NEW q \in 1..(l1 - p1), k1 + q <= N PROVE At(c, p1 + q)' = W[k1 + q]
    <2>1. PICK r \in Nat : r = (k1 - k) + q OBVIOUS
    <2>2. p + r = p1 + q + j /\ k + r = k1 + q /\ r >= 1 /\ p1 + q \in 1..l1 BY <2>1
    <2>3. p + r <= l
      <3>1. CASE conn[c] = "up" BY <3>1, <1>3, <1>7, <1>9, <2>2
      <3>2. CASE conn[c] # "up" BY <3>2, <1>8, <2>2
      <3> QED BY <3>1, <3>2
    <2>4. r \in 1..(l - p) /\ k + r <= N BY <2>2, <2>3, <1>9
    <2>5. At(c, p + r) = W[k + r] BY <2>4, <1>6
    <2>6. At(c, p1 + q)' = At(c, (p1 + q) + j) BY <2>2, <2>3, <1>8
    <2> QED BY <2>2, <2>5, <2>6, Zenon
  <1>10. conn'[c] = "up" => p1 + N <= l1 + k1
    BY <1>3, <1>7, <1>8
  <1> QED BY <1>1, <1>2, <1>5, <1>9, <1>10, Zenon DEF Follows

LEMMA SendingOn ==
  ASSUME Types, Grow, NEW c \in Clients, NEW x, x.id \in Ids, Sending(c, x)
  PROVE  Sending(c, x)'
  BY SameFile DEF Sending

(* What was in the stream of c keeps its place; what is new must be right. *)
LEMMA StreamsOn ==
  ASSUME Types, Types', Grow, NEW c \in Clients, NEW j \in Nat, Moved(c, j),
         \A p \in 1..Length(c) : StreamAt(c, p),
         NEW p \in Nat, p \in 1..Length(c)', p + j <= Length(c)
  PROVE  StreamAt(c, p)'
  <1>1. PICK u : u = At(c, p + j) OBVIOUS
  <1>2. At(c, p)' = u BY <1>1 DEF Moved
  <1>3. p + j \in 1..Length(c) BY Lengths
  <1>4. u \in Units BY <1>1, <1>3, Lengths
  <1>5. SUFFICES ASSUME Announces(u)
                 PROVE  Sending(c, u.msg)' /\ Follows(c, p + (MessageSize - 1), u.msg.id, 0)'
    BY <1>2, Zenon DEF StreamAt
  <1>6. Sending(c, u.msg) /\ Follows(c, (p + j) + (MessageSize - 1), u.msg.id, 0)
    BY <1>1, <1>3, <1>5, Zenon DEF StreamAt
  <1>7. u.msg.id \in Ids BY <1>4, <1>5, Kinds
  <1>8. Known(u.msg.id) BY <1>6 DEF Sending
  <1>9. /\ (p + j) + (MessageSize - 1) \in Nat /\ p + (MessageSize - 1) \in Nat
        /\ (p + (MessageSize - 1)) + 0 + j = ((p + j) + (MessageSize - 1)) + 0
        /\ 0 \in Nat /\ 0 >= 0
    BY BlocksHaveRoom
  <1>10. Follows(c, p + (MessageSize - 1), u.msg.id, 0)'
    BY <1>6, <1>7, <1>8, <1>9, FollowsOn
  <1> QED BY <1>6, <1>7, <1>10, SendingOn

Acts(c) ==
    \/ Talks(c) \/ End(c) \/ WriteBlock(c) \/ ReadAnswer(c)
    \/ Serve(c) \/ Disconnected(c) \/ Reset(c)
    \/ ReadBody(c) \/ Finish(c) \/ BreakOff(c)

LEMMA SomeoneActs ==
  ASSUME Next
  PROVE  Select \/ \E c \in Clients : Acts(c)
  BY StepIs, Zenon DEF Acts

LEMMA OthersStill ==
  ASSUME Types, Gone, Reading, NEW c \in Clients, Acts(c), NEW d \in Clients \ {c}
  PROVE  /\ wire'[d] = wire[d] /\ body'[d] = body[d] /\ conn'[d] = conn[d]
         /\ cuts'[d] = cuts[d] /\ files'[d] = files[d] /\ unread'[d] = unread[d]
  <1> DEFINE Done == /\ wire'[d] = wire[d] /\ body'[d] = body[d] /\ conn'[d] = conn[d]
                     /\ cuts'[d] = cuts[d] /\ files'[d] = files[d] /\ unread'[d] = unread[d]
  <1>1. ASSUME NEW k, NEW most, Reads(c, most, k)
        PROVE  wire'[d] = wire[d] /\ cuts'[d] = cuts[d]
    <2>1. \E v, w : wire' = [wire EXCEPT ![c] = v] /\ cuts' = [cuts EXCEPT ![c] = w]
      BY <1>1, Zenon DEF Reads
    <2> QED BY <2>1 DEF Types
  <1>2. ASSUME NEW m, Says(c, m) PROVE wire'[d] = wire[d]
    BY <1>2 DEF Says, Types
  <1>3. CASE Talks(c)
    <2>1. (\E m \in Messages : Says(c, m)) /\ UNCHANGED <<conn, unread, server_>>
          /\ body'[d] = body[d]
      BY <1>3, TalkSays
    <2>2. wire'[d] = wire[d] BY <1>2, <2>1
    <2>3. files'[d] = files[d]
      <3>1. CASE SendFile(c)
        <4>1. \E v : files' = [files EXCEPT ![c] = v] BY <3>1, Zenon DEF SendFile
        <4> QED BY <4>1 DEF Types
      <3> QED BY <1>3, <3>1 DEF Talks, Ask, AskForFiles
    <2> QED BY <2>1, <2>2, <2>3 DEF server_
  <1>4. CASE End(c) \/ ReadAnswer(c) BY <1>4 DEF End, ReadAnswer, Types, server_
  <1>5. CASE WriteBlock(c)
    <2>1. /\ \E v, w : wire' = [wire EXCEPT ![c] = v] /\ body' = [body EXCEPT ![c] = w]
          /\ UNCHANGED <<conn, sent, unread, files, server_>>
      BY <1>5, Zenon DEF WriteBlock
    <2> QED BY <2>1 DEF Types, server_
  <1>6. CASE Serve(c)
    <2>1. PICK k \in 1..Len(wire[c]) :
           /\ Reads(c, MessageSize, k)
           /\ \/ IsType(wire[c][1]) /\ Handle(c, wire[c][1].msg)
              \/ UNCHANGED <<conn, unread>>
           /\ UNCHANGED <<body, files>>
      BY <1>6, ServeDoes
    <2>2. wire[c][1] \in Units BY <2>1 DEF Types
    <2>3. conn'[d] = conn[d] /\ unread'[d] = unread[d]
      BY <2>1, <2>2, HandleDoes, AnswerDoes
    <2> QED BY <1>1, <2>1, <2>3
  <1>7. CASE Disconnected(c) \/ Reset(c) BY <1>7 DEF Disconnected, Reset, client, Types
  <1>8. CASE ReadBody(c)
    <2>1. PICK k \in 1..Len(wire[c]) :
           Reads(c, BlockSize, k) /\ UNCHANGED <<conn, body, unread, files>>
      BY <1>8, ReadBodyDoes
    <2> QED BY <1>1, <2>1
  <1>9. CASE Finish(c) BY <1>9, FinishDoes, AnswerDoes
  <1>10. CASE BreakOff(c) BY <1>10, BreakOffDoes
  <1> QED BY <1>3, <1>4, <1>5, <1>6, <1>7, <1>8, <1>9, <1>10 DEF Acts

(* The stream of the client that acts, or is served.                       *)
LEMMA ServeMoves ==
  ASSUME Types, Types', NEW c \in Clients, Serve(c)
  PROVE  \E k \in 1..Len(wire[c]) : Moved(c, k) /\ Length(c)' = Length(c) - k
  <1>1. PICK k \in 1..Len(wire[c]) :
           /\ Reads(c, MessageSize, k)
           /\ \/ IsType(wire[c][1]) /\ Handle(c, wire[c][1].msg)
              \/ UNCHANGED <<conn, unread>>
           /\ UNCHANGED <<body, files>>
    BY ServeDoes
  <1>2. wire[c][1] \in Units BY <1>1 DEF Types
  <1>3. conn'[c] = "up" <=> conn[c] = "up"
    <2>1. CASE Answer(c)
      <3>1. conn[c] \in {"up", "fin", "rst", "finrst"} BY DEF Types
      <3> QED BY <2>1, <3>1, AnswerDoes
    <2> QED BY <1>1, <1>2, <2>1, HandleDoes
  <1>4. k \in Nat /\ MessageSize \in Nat \ {0} BY BlocksHaveRoom
  <1> QED BY <1>1, <1>3, <1>4, ReadMoves

LEMMA StillActs ==
  ASSUME Types, Types', Gone, NEW c \in Clients,
         ReadAnswer(c) \/ Disconnected(c) \/ Reset(c) \/ Finish(c) \/ BreakOff(c)
  PROVE  Moved(c, 0) /\ Length(c)' = Length(c)
  <1>1. CASE ReadAnswer(c) BY <1>1, StandsStill DEF ReadAnswer
  <1>2. CASE Disconnected(c) BY <1>2, StandsStill DEF Disconnected, client
  <1>3. CASE Reset(c)
    <2>1. UNCHANGED <<wire, body>> /\ conn[c] # "up" /\ conn'[c] # "up"
      BY <1>3 DEF Reset, Types
    <2> QED BY <2>1, StandsStill
  <1>4. CASE Finish(c)
    <2>1. UNCHANGED <<wire, body>> /\ Answer(c) BY <1>4, FinishDoes
    <2>2. conn[c] \in {"up", "fin", "rst", "finrst"} BY DEF Types
    <2>3. conn'[c] = "up" <=> conn[c] = "up" BY <2>1, <2>2, AnswerDoes
    <2> QED BY <2>1, <2>3, StandsStill
  <1>5. CASE BreakOff(c)
    <2>1. UNCHANGED <<wire, body>> /\ conn[c] # "up" /\ conn'[c] # "up"
      BY <1>5, BreakOffDoes
    <2> QED BY <2>1, StandsStill
  <1> QED BY <1>1, <1>2, <1>3, <1>4, <1>5

LEMMA ReadBodyMoves ==
  ASSUME Types, Types', NEW c \in Clients, NEW k \in 1..Len(wire[c]),
         Reads(c, BlockSize, k), UNCHANGED <<conn, body>>
  PROVE  Moved(c, k) /\ Length(c)' = Length(c) - k
  <1>1. k \in Nat /\ BlockSize \in Nat \ {0} BY BlocksHaveRoom
  <1> QED BY <1>1, ReadMoves

LEMMA ActsMove ==
  ASSUME Types, Types', Gone, Reading, NEW c \in Clients, Acts(c), ~Talks(c)
  PROVE  \E j \in Nat : Moved(c, j) /\ Length(c)' + j <= Length(c)
  <1>1. PICK l \in Nat : l = Length(c) BY Lengths
  <1>2. l + 0 <= l /\ \A k \in Nat : (l - k) + k <= l OBVIOUS
  <1>3. CASE End(c)
    <2>1. Moved(c, 0) /\ Length(c)' <= l BY <1>1, <1>3, EndCuts
    <2>2. Length(c)' \in Nat
      <3>1. wire'[c] \in Seq(Units) /\ body'[c] \in Seq(Units) BY DEF Types
      <3>2. PICK a \in Nat, b \in Nat : a = Len(wire'[c]) /\ b = Len(body'[c]) BY <3>1
      <3>3. Length(c)' = a + b BY <3>2 DEF Length
      <3> QED BY <3>3
    <2>3. Length(c)' + 0 <= Length(c) BY <1>1, <2>1, <2>2
    <2> QED BY <2>1, <2>3
  <1>4. CASE WriteBlock(c) BY <1>1, <1>2, <1>4, WriteStays
  <1>5. CASE Serve(c)
    <2>1. PICK k \in 1..Len(wire[c]) : Moved(c, k) /\ Length(c)' = Length(c) - k
      BY <1>5, ServeMoves
    <2> QED BY <1>1, <1>2, <2>1
  <1>6. CASE ReadBody(c)
    <2>1. PICK k \in 1..Len(wire[c]) : Reads(c, BlockSize, k) /\ UNCHANGED <<conn, body>>
      BY <1>6, ReadBodyDoes
    <2>2. Moved(c, k) /\ Length(c)' = Length(c) - k BY <2>1, ReadBodyMoves
    <2> QED BY <1>1, <1>2, <2>2
  <1>7. CASE ReadAnswer(c) \/ Disconnected(c) \/ Reset(c) \/ Finish(c) \/ BreakOff(c)
    BY <1>1, <1>2, <1>7, StillActs
  <1> QED BY <1>3, <1>4, <1>5, <1>6, <1>7 DEF Acts

LEMMA LengthThen ==
  ASSUME Types', NEW c \in Clients
  PROVE  Length(c)' \in Nat
  <1>1. wire'[c] \in Seq(Units) /\ body'[c] \in Seq(Units) BY DEF Types
  <1>2. PICK a \in Nat, b \in Nat : a = Len(wire'[c]) /\ b = Len(body'[c]) BY <1>1
  <1>3. Length(c)' = a + b BY <1>2 DEF Length
  <1> QED BY <1>3

(* The file that a client has just begun to send.                          *)
LEMMA NewFile ==
  ASSUME Types, Types', NEW c \in Clients, SendFile(c)
  PROVE  \E l \in Nat, m \in Messages, n \in Nat :
           /\ Moved(c, 0) /\ Length(c) = l /\ Len(wire[c]) = l /\ conn[c] = "up"
           /\ Len(wire'[c]) = l + MessageSize /\ Len(body'[c]) = Padded(n)
           /\ Length(c)' = l + MessageSize + Padded(n) /\ At(c, l + 1)' = Typed(m)
           /\ m.type = "SEND_FILE" /\ Sending(c, m)' /\ m.id \in Ids
           /\ (Announced(m.id).read = n)' /\ Follows(c, l + MessageSize, m.id, 0)'
           /\ \A q \in 1..Length(c)' : q > l + 1 => ~IsType(At(c, q))'
  <1>1. PICK f \in [size : Nat, read : Nat], sh \in Shelves :
           LET id == <<c, Len(files[c]) + 1>>
               m == [type |-> "SEND_FILE", id |-> id, shelf |-> sh, size |-> f.size]
           IN  /\ id \in Ids /\ m \in Messages /\ Says(c, m)
               /\ body' = [body EXCEPT ![c] = Written(id, f.read)]
               /\ files' = [files EXCEPT ![c] =
                     Append(files[c], [size |-> f.size, read |-> f.read, shelf |-> sh])]
               /\ UNCHANGED <<conn, unread, server_>>
    BY SendFileSays
  <1>2. PICK id, m, r, n, W :
           /\ id = <<c, Len(files[c]) + 1>> /\ n = f.read
           /\ m = [type |-> "SEND_FILE", id |-> id, shelf |-> sh, size |-> f.size]
           /\ r = [size |-> f.size, read |-> f.read, shelf |-> sh]
           /\ W = Written(id, n)
    OBVIOUS
  <1>3. /\ id \in Ids /\ m \in Messages /\ Says(c, m) /\ conn' = conn
        /\ body' = [body EXCEPT ![c] = W] /\ files' = [files EXCEPT ![c] = Append(files[c], r)]
    BY <1>1, <1>2
  <1>4. /\ m.type = "SEND_FILE" /\ m.id = id /\ m.size = r.size /\ m.shelf = r.shelf
        /\ r.read = n /\ n \in Nat /\ id[1] = c /\ r \in Sizes
    BY <1>2 DEF Sizes
  <1>5. files[c] \in Seq(Sizes) /\ files'[c] = Append(files[c], r)
    <2>1. files \in [Clients -> Seq(Sizes)] BY DEF Types
    <2> QED BY <2>1, <1>3
  <1>6. id[2] \in DOMAIN files'[c] /\ files'[c][id[2]] = r
    <2>1. id[2] = Len(files[c]) + 1 BY <1>2
    <2> QED BY <2>1, <1>4, <1>5
  <1>7. Known(id)' /\ Announced(id)' = r BY <1>4, <1>6 DEF Known, Announced
  <1>8. Sending(c, m)' BY <1>4, <1>7 DEF Sending
  <1>9. /\ W \in Seq(Units) /\ Len(W) = Padded(n) /\ \A k \in 1..Padded(n) : ~IsType(W[k])
        /\ Padded(n) \in Nat
    BY <1>2, <1>3, <1>4, WrittenUnits, PaddedSize
  <1>10. body'[c] = W BY <1>3 DEF Types
  <1>11. PICK l, b \in Nat :
           /\ Moved(c, 0) /\ Length(c) = l /\ Len(wire[c]) = l /\ Len(body'[c]) = b
           /\ Length(c)' = l + MessageSize + b /\ Len(wire'[c]) = l + MessageSize
           /\ At(c, l + 1)' = Typed(m)
           /\ \A q \in 1..Length(c)' : q > l + 1 /\ q <= l + MessageSize => ~IsType(At(c, q))'
           /\ \A q \in 1..b : At(c, l + MessageSize + q)' = body'[c][q]
    BY <1>3, TalkAdds
  <1>12. b = Padded(n) BY <1>9, <1>10, <1>11
  <1>13. conn[c] = "up" BY <1>3 DEF Says
  <1>14. \A q \in 1..b : At(c, l + MessageSize + q)' = W[q] BY <1>10, <1>11
  <1>15. ASSUME NEW q \in 1..Length(c)', q > l + 1 PROVE ~IsType(At(c, q))'
    <2>1. CASE q <= l + MessageSize BY <2>1, <1>11, <1>15
    <2>2. CASE q > l + MessageSize
      <3>1. PICK k \in Nat : k = q - (l + MessageSize) BY <2>2, BlocksHaveRoom
      <3>2. k \in 1..b /\ q = l + MessageSize + k
        <4>1. PICK z \in Nat : z = l + MessageSize BY BlocksHaveRoom
        <4>2. q \in 1..(z + b) /\ q > z /\ k = q - z BY <1>11, <2>2, <3>1, <4>1, Zenon
        <4>3. k \in 1..b /\ q = z + k BY <4>2
        <4> QED BY <4>1, <4>3
      <3>3. At(c, q)' = W[k] BY <3>2, <1>14
      <3>5. ~IsType(W[k]) BY <3>2, <1>9, <1>12
      <3>4. (At(c, q)').unit # "type" BY <3>3, <3>5, Zenon DEF IsType
      <3> QED BY <3>4 DEF IsType
    <2> QED BY <2>1, <2>2, BlocksHaveRoom
  <1>16. Follows(c, l + MessageSize, id, 0)'
    <2>1. \A q \in 1..(Length(c)' - (l + MessageSize)) : q \in 1..b /\ 0 + q = q
      BY <1>11, BlocksHaveRoom
    <2>2. (l + MessageSize) + Padded(n) <= Length(c)' + 0
      BY <1>9, <1>11, <1>12, BlocksHaveRoom
    <2>3. (Announced(id).read = n)' BY <1>4, <1>7
    <2>4. \A q \in 1..(Length(c)' - (l + MessageSize)) :
             At(c, (l + MessageSize) + q)' = Written(id, n)[0 + q]
      BY <1>2, <1>14, <2>1
    <2> QED BY <2>2, <2>3, <2>4, Zenon DEF Follows
  <1>17. (Announced(m.id).read = n)' BY <1>4, <1>7
  <1>18. Follows(c, l + MessageSize, m.id, 0)' BY <1>4, <1>16, Zenon
  <1>19. Len(body'[c]) = Padded(n) /\ Length(c)' = l + MessageSize + Padded(n)
    BY <1>11, <1>12, Zenon
  <1>20. m \in Messages /\ n \in Nat /\ l \in Nat /\ m.id \in Ids BY <1>3, <1>4
  <1>21. /\ Moved(c, 0) /\ Length(c) = l /\ Len(wire[c]) = l /\ conn[c] = "up"
         /\ Len(wire'[c]) = l + MessageSize /\ Len(body'[c]) = Padded(n)
         /\ Length(c)' = l + MessageSize + Padded(n) /\ At(c, l + 1)' = Typed(m)
         /\ m.type = "SEND_FILE" /\ Sending(c, m)' /\ m.id \in Ids
         /\ (Announced(m.id).read = n)' /\ Follows(c, l + MessageSize, m.id, 0)'
         /\ \A q \in 1..Length(c)' : q > l + 1 => ~IsType(At(c, q))'
    BY <1>4, <1>8, <1>11, <1>13, <1>15, <1>17, <1>18, <1>19, <1>20, Zenon
  <1> QED BY <1>20, <1>21, Zenon

LEMMA StreamsStep ==
  ASSUME Types, Types', Gone, Reading, Streams, Next
  PROVE  Streams'
  <1>1. Grow BY FilesGrow
  <1>2. ASSUME NEW d \in Clients, NEW j \in Nat, Moved(d, j), Length(d)' + j <= Length(d)
        PROVE  \A p \in 1..Length(d)' : StreamAt(d, p)'
    <2> SUFFICES ASSUME NEW p \in 1..Length(d)' PROVE StreamAt(d, p)'
      OBVIOUS
    <2>1. PICK l1 \in Nat : l1 = Length(d)' BY LengthThen
    <2>2. PICK l \in Nat : l = Length(d) BY Lengths
    <2>3. l1 + j <= l BY <1>2, <2>1, <2>2
    <2>4. p \in Nat /\ p + j <= l BY <2>1, <2>3
    <2>5. \A r \in 1..Length(d) : StreamAt(d, r) BY DEF Streams
    <2> QED BY <1>1, <1>2, <2>2, <2>4, <2>5, StreamsOn
  <1>3. ASSUME NEW d \in Clients, wire'[d] = wire[d], body'[d] = body[d], conn'[d] = conn[d]
        PROVE  \A p \in 1..Length(d)' : StreamAt(d, p)'
    <2>1. Moved(d, 0) /\ Length(d)' = Length(d) BY <1>3, StandsStill
    <2>2. PICK l \in Nat : l = Length(d) BY Lengths
    <2>3. Length(d)' + 0 <= Length(d) BY <2>1, <2>2
    <2> QED BY <1>2, <2>1, <2>3
  <1>4. CASE Select
    <2>1. UNCHANGED <<wire, body, conn>> BY <1>4 DEF Select, client
    <2> QED BY <2>1, <1>3 DEF Streams
  <1>5. ASSUME NEW c \in Clients, Acts(c) PROVE Streams'
    <2>1. ASSUME NEW d \in Clients \ {c} PROVE \A p \in 1..Length(d)' : StreamAt(d, p)'
      BY <1>3, <1>5, OthersStill
    <2>2. CASE ~Talks(c)
      BY <1>2, <1>5, <2>1, <2>2, ActsMove DEF Streams
    <2>3. CASE Ask(c) \/ AskForFiles(c)
      <3>1. PICK m \in Messages : Says(c, m) /\ m.type # "SEND_FILE" /\ UNCHANGED <<conn, body>>
        BY <2>3 DEF Ask, AskForFiles, Messages
      <3>2. PICK l, b \in Nat :
           /\ Moved(c, 0) /\ Length(c) = l /\ Len(wire[c]) = l /\ Len(body'[c]) = b
           /\ Length(c)' = l + MessageSize + b /\ Len(wire'[c]) = l + MessageSize
           /\ At(c, l + 1)' = Typed(m)
           /\ \A q \in 1..Length(c)' : q > l + 1 /\ q <= l + MessageSize => ~IsType(At(c, q))'
           /\ \A q \in 1..b : At(c, l + MessageSize + q)' = body'[c][q]
        BY <3>1, TalkAdds
      <3>3. body[c] = <<>> BY <3>1 DEF Says
      <3>4. b = 0 BY <3>1, <3>2, <3>3
      <3>5. ASSUME NEW p \in 1..Length(c)' PROVE StreamAt(c, p)'
        <4>1. CASE p <= l
          <5>1. p \in Nat /\ p + 0 <= Length(c) BY <4>1, <3>2
          <5>2. \A r \in 1..Length(c) : StreamAt(c, r) BY DEF Streams
          <5> QED BY <1>1, <3>2, <5>1, <5>2, StreamsOn
        <4>2. CASE p = l + 1
          <5>1. ~Announces(Typed(m)) BY <3>1, Kinds DEF Announces
          <5> QED BY <3>2, <4>2, <5>1, Zenon DEF StreamAt
        <4>3. CASE p > l + 1
          <5>1. ~IsType(At(c, p))' BY <4>3, <3>2, <3>4, BlocksHaveRoom
          <5>2. ASSUME NEW u \in {At(c, p)'} PROVE ~Announces(u)
            BY <5>1, Zenon DEF Announces, IsType
          <5> QED BY <5>2, Zenon DEF StreamAt
        <4> QED BY <4>1, <4>2, <4>3, <3>2
      <3> QED BY <2>1, <3>5 DEF Streams
    <2>4. CASE SendFile(c)
      <3>1. PICK l \in Nat, m \in Messages, n \in Nat :
           /\ Moved(c, 0) /\ Length(c) = l
           /\ Length(c)' = l + MessageSize + Padded(n) /\ At(c, l + 1)' = Typed(m)
           /\ Sending(c, m)' /\ Follows(c, l + MessageSize, m.id, 0)'
           /\ \A q \in 1..Length(c)' : q > l + 1 => ~IsType(At(c, q))'
        BY <2>4, NewFile
      <3>2. ASSUME NEW p \in 1..Length(c)' PROVE StreamAt(c, p)'
        <4>1. CASE p <= l
          <5>1. p \in Nat /\ p + 0 <= Length(c) BY <4>1, <3>1
          <5>2. \A r \in 1..Length(c) : StreamAt(c, r) BY DEF Streams
          <5> QED BY <1>1, <3>1, <5>1, <5>2, StreamsOn
        <4>2. CASE p = l + 1
          <5>1. Typed(m).msg = m BY Kinds
          <5>2. p + (MessageSize - 1) = l + MessageSize BY <4>2, BlocksHaveRoom
          <5>3. At(c, p)' = Typed(m) BY <3>1, <4>2
          <5>4. Follows(c, p + (MessageSize - 1), m.id, 0)' BY <3>1, <5>2, Zenon
          <5>5. ASSUME NEW u \in {At(c, p)'} PROVE u.msg = m BY <5>1, <5>3, Zenon
          <5>6. ASSUME NEW u \in {At(c, p)'}
                PROVE  Sending(c, u.msg)' /\ Follows(c, p + (MessageSize - 1), u.msg.id, 0)'
            BY <3>1, <5>4, <5>5, Zenon
          <5> QED BY <5>6, Zenon DEF StreamAt
        <4>3. CASE p > l + 1
          <5>1. ~IsType(At(c, p))' BY <4>3, <3>1
          <5>2. ASSUME NEW u \in {At(c, p)'} PROVE ~Announces(u)
            BY <5>1, Zenon DEF Announces, IsType
          <5> QED BY <5>2, Zenon DEF StreamAt
        <4>4. p \in Nat BY LengthThen
        <4> QED BY <4>1, <4>2, <4>3, <4>4, <3>1
      <3> QED BY <2>1, <3>2 DEF Streams
    <2> QED BY <2>2, <2>3, <2>4 DEF Talks
  <1> QED BY <1>4, <1>5, SomeoneActs

-----------------------------------------------------------------------------
(* What a step does to the stored files, and to the transfer.              *)
StoreMoves ==
    /\ \A sh \in Shelves : \A i \in Indexes :
          /\ store'[sh][i] # store[sh][i] =>
                 store[sh][i] = NoFile \/ (job # Idle /\ job.shelf = sh /\ job.index = i)
          /\ store[sh][i] # NoFile => store'[sh][i] # NoFile
    /\ job # Idle /\ job' # Idle => job'.shelf = job.shelf /\ job'.index = job.index
    /\ job = Idle /\ job' # Idle => store[job'.shelf][job'.index] = NoFile

LEMMA SequenceIsAFile ==
  ASSUME NEW s \in Seq(Units)
  PROVE  s # NoFile
  BY NoFileIsNone

LEMMA StoreStep ==
  ASSUME Types, Gone, Reading, Next
  PROVE  StoreMoves /\ (told' \subseteq told \/ \E c \in Clients : Finish(c))
  <1>1. CASE UNCHANGED <<store, job, told>> BY <1>1 DEF StoreMoves
  <1>2. CASE Select BY <1>1, <1>2 DEF Select
  <1>3. ASSUME NEW c \in Clients, Talks(c) PROVE UNCHANGED <<store, job, told>>
    BY <1>3, TalkSays DEF server_
  <1>4. ASSUME NEW c \in Clients, End(c) \/ ReadAnswer(c) \/ Disconnected(c) \/ Reset(c)
        PROVE  UNCHANGED <<store, job, told>>
    BY <1>4 DEF End, ReadAnswer, Disconnected, Reset, server_
  <1>5. ASSUME NEW c \in Clients, WriteBlock(c) PROVE UNCHANGED <<store, job, told>>
    BY <1>5, Zenon DEF WriteBlock, server_
  <1>6. ASSUME NEW c \in Clients, Serve(c) PROVE StoreMoves /\ told' = told
    <2>1. PICK k \in 1..Len(wire[c]) :
           /\ \/ IsType(wire[c][1]) /\ Handle(c, wire[c][1].msg)
              \/ UNCHANGED <<job, store>>
           /\ server = "select" /\ told' = told
      BY <1>6, ServeDoes
    <2>2. PICK u \in Units : u = wire[c][1] BY <2>1 DEF Types
    <2>3. CASE UNCHANGED <<job, store>> BY <2>1, <2>3 DEF StoreMoves
    <2>4. CASE Announces(u) /\ Opened(c, u.msg)
      <3>1. PICK i \in Indexes :
              /\ store[u.msg.shelf][i] = NoFile
              /\ store' = [store EXCEPT ![u.msg.shelf][i] = <<>>]
              /\ job' = [from |-> c, id |-> u.msg.id, size |-> u.msg.size, count |-> 0,
                         shelf |-> u.msg.shelf, index |-> i, wrote |-> "all"]
        BY <2>4, OpenedDoes
      <3>2. u.msg.shelf \in Shelves BY <2>4, Kinds
      <3>3. job = Idle BY <2>1 DEF Gone
      <3>4. job'.shelf = u.msg.shelf /\ job'.index = i BY <3>1
      <3>5. <<>> # NoFile
        <4>1. <<>> \in Seq(Units) OBVIOUS
        <4> QED BY <4>1, SequenceIsAFile
      <3>6. \A sh \in Shelves, x \in Indexes :
               store'[sh][x] = IF sh = u.msg.shelf /\ x = i THEN <<>> ELSE store[sh][x]
        BY <3>1, <3>2 DEF Types
      <3> QED BY <2>1, <3>1, <3>3, <3>4, <3>5, <3>6 DEF StoreMoves
    <2> QED BY <2>1, <2>2, <2>3, <2>4, HandleDoes
  <1>7. ASSUME NEW c \in Clients, ReadBody(c) PROVE StoreMoves /\ told' = told
    <2>1. PICK k \in 1..Len(wire[c]), w \in 0..Len(wire[c]) :
           /\ job \in Jobs /\ job # Idle
           /\ job' = [job EXCEPT !.count = job.count + k, !.wrote = Wrote(k, w)] /\ job' # Idle
           /\ Slot(job) \in Seq(Units)
           /\ store' = [store EXCEPT ![job.shelf][job.index] =
                            Slot(job) \o SubSeq(wire[c], 1, w)]
           /\ told' = told
      BY <1>7, ReadBodyDoes
    <2>2. job.shelf \in Shelves /\ job.index \in Indexes BY <2>1 DEF Jobs
    <2>3. job'.shelf = job.shelf /\ job'.index = job.index BY <2>1 DEF Jobs
    <2>4. wire[c] \in Seq(Units) BY DEF Types
    <2>5. SubSeq(wire[c], 1, w) \in Seq(Units) BY <2>4
    <2>6. PICK v : v = Slot(job) \o SubSeq(wire[c], 1, w) OBVIOUS
    <2>7. v # NoFile
      <3>1. v \in Seq(Units) BY <2>1, <2>5, <2>6
      <3> QED BY <3>1, SequenceIsAFile
    <2>8. \A sh \in Shelves, x \in Indexes :
             store'[sh][x] = IF sh = job.shelf /\ x = job.index THEN v ELSE store[sh][x]
      BY <2>1, <2>2, <2>6 DEF Types
    <2>9. \A sh \in Shelves : \A x \in Indexes :
             /\ store'[sh][x] # store[sh][x] => job.shelf = sh /\ job.index = x
             /\ store[sh][x] # NoFile => store'[sh][x] # NoFile
      BY <2>7, <2>8
    <2>10. job # Idle /\ job' # Idle /\ told' = told BY <2>1
    <2> QED BY <2>3, <2>9, <2>10, Zenon DEF StoreMoves
  <1>8. ASSUME NEW c \in Clients, Finish(c) PROVE StoreMoves
    <2>1. job' = Idle /\ store' = store BY <1>8, FinishDoes
    <2> QED BY <2>1 DEF StoreMoves
  <1>9. ASSUME NEW c \in Clients, BreakOff(c) PROVE StoreMoves /\ told' = told
    BY <1>9, BreakOffDoes DEF StoreMoves
  <1> QED BY <1>1, <1>2, <1>3, <1>4, <1>5, <1>6, <1>7, <1>8, <1>9, StepIs

(* The transfer being read: its file is what the stream is short of.       *)
LEMMA ReadingOn ==
  ASSUME Types, Types', Gone, Reading, Grow, job \in Jobs, job # Idle, job' = job,
         store' = store, Moved(job.from, 0)
  PROVE  Reading'
  <1>1. job.from \in Clients /\ job.id \in Ids /\ job.count \in Nat BY DEF Jobs
  <1>2. PICK j \in Jobs : j = job OBVIOUS
  <1>3. Sending(j.from, j) /\ Follows(j.from, 0, j.id, j.count) /\ Stores(j)
    BY <1>2, Zenon DEF Reading
  <1>4. j.from \in Clients /\ j.id \in Ids /\ j.count \in Nat /\ Known(j.id) /\ Moved(j.from, 0)
    BY <1>1, <1>2, <1>3 DEF Sending
  <1>5. Announced(j.id)' = Announced(j.id) BY <1>4, SameFile
  <1>6. Follows(j.from, 0, j.id, j.count)'
    <2>1. 0 + j.count + 0 = 0 + j.count /\ j.count >= j.count /\ 0 \in Nat BY <1>4
    <2> QED BY <1>3, <1>4, <2>1, FollowsOn
  <1>7. Sending(j.from, j)' BY <1>3, <1>4, SendingOn
  <1>8. Stores(j)'
    <2>1. PICK n : n = Announced(j.id).read OBVIOUS
    <2>2. /\ Slot(j) # NoFile
          /\ j.wrote = "all" =>
                /\ Len(Slot(j)) = j.count
                /\ \A q \in 1..j.count : q <= Padded(n) => Slot(j)[q] = Written(j.id, n)[q]
      BY <1>3, <2>1, Zenon DEF Stores
    <2>3. (Announced(j.id).read = n)' /\ Slot(j)' = Slot(j) BY <1>5, <2>1 DEF Slot
    <2>4. (/\ Slot(j) # NoFile
           /\ j.wrote = "all" =>
                 /\ Len(Slot(j)) = j.count
                 /\ \A q \in 1..j.count : q <= Padded(n) => Slot(j)[q] = Written(j.id, n)[q])'
      BY <2>2, <2>3
    <2> QED BY <2>3, <2>4, Zenon DEF Stores
  <1> QED BY <1>2, <1>6, <1>7, <1>8, Zenon DEF Reading

(* The transfer that begins: what follows its announcement.                *)
LEMMA ReadingBegins ==
  ASSUME Types, Types', Grow, Streams, NEW c \in Clients, NEW u \in Units, Announces(u),
         wire[c] # <<>>, u = wire[c][1], Opened(c, u.msg), Moved(c, MessageSize)
  PROVE  Reading'
  <1>1. PICK i \in Indexes :
           /\ store[u.msg.shelf][i] = NoFile
           /\ store' = [store EXCEPT ![u.msg.shelf][i] = <<>>]
           /\ job' = [from |-> c, id |-> u.msg.id, size |-> u.msg.size, count |-> 0,
                      shelf |-> u.msg.shelf, index |-> i, wrote |-> "all"]
    BY OpenedDoes
  <1>2. u.msg.id \in Ids /\ u.msg.shelf \in Shelves /\ u.msg.size \in Nat BY Kinds
  <1>3. PICK j : j = job' OBVIOUS
  <1>4. /\ j.from = c /\ j.id = u.msg.id /\ j.size = u.msg.size /\ j.count = 0
        /\ j.shelf = u.msg.shelf /\ j.index = i
    BY <1>1, <1>3
  <1>5. Len(wire[c]) \in Nat \ {0}
    <2>1. wire[c] \in Seq(Units) BY DEF Types
    <2> QED BY <2>1
  <1>6. 1 \in 1..Length(c) /\ At(c, 1) = u
    <2>1. PICK l \in Nat, b \in Nat : l = Len(wire[c]) /\ b = Len(body[c]) BY Lengths
    <2>2. Length(c) = l + b /\ l >= 1 BY <1>5, <2>1 DEF Length
    <2>3. At(c, 1) = u BY <2>1, <2>2 DEF At
    <2>4. 1 \in 1..(l + b) BY <2>2
    <2> QED BY <2>2, <2>3, <2>4, Zenon
  <1>7. Sending(c, u.msg) /\ Follows(c, 1 + (MessageSize - 1), u.msg.id, 0)
    BY <1>6, Zenon DEF Streams, StreamAt
  <1>8. Known(u.msg.id) BY <1>7 DEF Sending
  <1>9. Follows(c, 0, u.msg.id, 0)'
    <2>1. /\ 1 + (MessageSize - 1) \in Nat /\ MessageSize \in Nat /\ 0 \in Nat /\ 0 >= 0
          /\ 0 + 0 + MessageSize = (1 + (MessageSize - 1)) + 0
      BY BlocksHaveRoom
    <2> QED BY <1>2, <1>7, <1>8, <2>1, FollowsOn
  <1>10. Sending(c, u.msg)' BY <1>2, <1>7, SendingOn
  <1>11. Sending(c, j)' BY <1>4, <1>10 DEF Sending, Known, Announced
  <1>12. Follows(j.from, 0, j.id, j.count)' BY <1>4, <1>9, Zenon
  <1>13. Stores(j)'
    <2>1. store'[j.shelf][j.index] = <<>> BY <1>1, <1>2, <1>4 DEF Types
    <2>2. <<>> # NoFile
      <3>1. <<>> \in Seq(Units) OBVIOUS
      <3> QED BY <3>1, SequenceIsAFile
    <2>3. Len(<<>>) = 0 /\ \A q \in 1..0 : FALSE OBVIOUS
    <2> QED BY <1>4, <2>1, <2>2, <2>3 DEF Stores, Slot
  <1> QED BY <1>3, <1>4, <1>11, <1>12, <1>13, Zenon DEF Reading

(* The transfer that goes on: what is read is what follows.                *)
LEMMA ReadingGoesOn ==
  ASSUME Types, Types', Gone, Reading, Grow, NEW c \in Clients, ReadBody(c)
  PROVE  Reading'
  <1>1. PICK k \in 1..Len(wire[c]), w \in 0..Len(wire[c]) :
           /\ Reads(c, BlockSize, k) /\ w <= k
           /\ job \in Jobs /\ job # Idle /\ job.from = c
           /\ job' = [job EXCEPT !.count = job.count + k, !.wrote = Wrote(k, w)]
           /\ job' \in Jobs
           /\ Slot(job) \in Seq(Units)
           /\ store' = [store EXCEPT ![job.shelf][job.index] =
                            Slot(job) \o SubSeq(wire[c], 1, w)]
           /\ UNCHANGED <<conn, body>>
    BY ReadBodyDoes
  <1>2. PICK j, x, s : j = job /\ x = job' /\ s = Slot(job) OBVIOUS
  <1>3. /\ j \in Jobs /\ x.from = c /\ x.id = j.id /\ x.size = j.size /\ x.count = j.count + k
        /\ x.shelf = j.shelf /\ x.index = j.index /\ j.from = c /\ j.id \in Ids
        /\ x.wrote = (IF w = k THEN j.wrote ELSE "some")
        /\ j.count \in Nat /\ j.shelf \in Shelves /\ j.index \in Indexes
    BY <1>1, <1>2 DEF Jobs, Wrote
  <1>4. Sending(c, j) /\ Follows(c, 0, j.id, j.count) /\ Stores(j)
    BY <1>1, <1>2, <1>3, Zenon DEF Reading
  <1>5. Known(j.id) BY <1>4 DEF Sending
  <1>6. Announced(j.id)' = Announced(j.id) /\ Announced(j.id).read \in Nat
    BY <1>3, <1>5, SameFile DEF Sizes
  <1>0. PICK W : W = Written(j.id, Announced(j.id).read) OBVIOUS
  <1>7. PICK n \in Nat, N \in Nat :
           n = Announced(j.id).read /\ N = Padded(n) /\ W = Written(j.id, n)
    BY <1>0, <1>6, PaddedSize
  <1>8. Moved(c, k) BY <1>1, ReadBodyMoves
  <1>9. k \in Nat BY <1>1
  <1>10. Follows(c, 0, j.id, j.count + k)'
    <2>1. /\ 0 + j.count + k = 0 + (j.count + k) /\ j.count + k >= j.count /\ 0 \in Nat
          /\ j.count + k \in Nat
      BY <1>3, <1>9
    <2> QED BY <1>3, <1>4, <1>5, <1>8, <1>9, <2>1, FollowsOn
  <1>11. Sending(c, x)'
    <2>1. Sending(c, j)' BY <1>3, <1>4, SendingOn
    <2> QED BY <1>3, <2>1 DEF Sending, Known, Announced
  <1>12. ASSUME x.wrote = "all" PROVE Stores(x)'
    <2>1. w = k /\ j.wrote = "all" BY <1>3, <1>12
    <2>2. /\ s \in Seq(Units) /\ Len(s) = j.count
           /\ \A q \in 1..j.count : q <= N => s[q] = W[q]
      BY <1>1, <1>2, <1>4, <1>7, <2>1, Zenon DEF Stores
    <2>3. PICK r : r = SubSeq(wire[c], 1, k) OBVIOUS
    <2>4. r \in Seq(Units) /\ Len(r) = k /\ \A q \in 1..k : r[q] = wire[c][q]
      <3>1. BlockSize \in Nat \ {0} BY BlocksHaveRoom
      <3>2. SubSeq(wire[c], 1, k) \in Seq(Units) /\ Len(SubSeq(wire[c], 1, k)) = k
        BY <1>1, <1>9, <3>1, ReadTakes
      <3>3. \A q \in 1..k : SubSeq(wire[c], 1, k)[q] = wire[c][q]
        BY <1>1, <1>9, <3>1, ReadTakes
      <3> QED BY <2>3, <3>2, <3>3
    <2>5. \A q \in 1..k : j.count + q <= N => r[q] = W[j.count + q]
      <3> SUFFICES ASSUME NEW q \in 1..k, j.count + q <= N PROVE r[q] = W[j.count + q]
        OBVIOUS
      <3>1. PICK l \in Nat, b \in Nat : l = Len(wire[c]) /\ b = Len(body[c]) BY Lengths
      <3>2. Length(c) = l + b /\ k <= l BY <1>1, <3>1 DEF Length
      <3>3. q <= l /\ q \in 1..((l + b) - 0) /\ 0 + q = q
        <4>1. k \in Nat /\ k <= l BY <1>9, <3>2
        <4> QED BY <4>1
      <3>4. At(c, q) = wire[c][q] BY <3>1, <3>3 DEF At
      <3>5. \A z \in 1..((l + b) - 0) : j.count + z <= N => At(c, 0 + z) = W[j.count + z]
        BY <1>4, <1>7, <3>2, Zenon DEF Follows
      <3>6. At(c, 0 + q) = W[j.count + q] BY <3>3, <3>5
      <3>7. At(c, q) = W[j.count + q] BY <3>3, <3>6
      <3> QED BY <3>4, <3>7, <2>4
    <2>6. /\ s \o r \in Seq(Units) /\ Len(s \o r) = j.count + k
           /\ \A q \in 1..(j.count + k) : q <= N => (s \o r)[q] = W[q]
      <3>1. s \o r \in Seq(Units) /\ Len(s \o r) = j.count + k BY <2>2, <2>4
      <3>2. ASSUME NEW q \in 1..(j.count + k), q <= N PROVE (s \o r)[q] = W[q]
        <4>1. PICK a \in Nat : a = j.count BY <1>3
        <4>2. Len(s) = a /\ q \in 1..(a + k) BY <2>2, <3>2, <4>1
        <4>3. CASE q <= a
          <5>1. q \in 1..a BY <4>2, <4>3
          <5>2. (s \o r)[q] = s[q] BY <5>1, <4>2, <2>2, <2>4
          <5> QED BY <4>1, <5>1, <5>2, <2>2, <3>2
        <4>4. CASE q > a
          <5>1. PICK z \in 1..k : q = a + z
            <6>1. q - a \in 1..k /\ q = a + (q - a) BY <4>2, <4>4, <1>9
            <6> QED BY <6>1
          <5>2. (s \o r)[a + z] = r[z]
            <6>1. s \in Seq(Units) /\ Len(s) = a BY <4>2, <2>2
            <6>2. r \in Seq(Units) /\ Len(r) = k /\ k \in Nat BY <1>9, <2>4
            <6> QED BY <6>1, <6>2
          <5>3. r[z] = W[a + z] BY <4>1, <5>1, <2>5, <3>2
          <5> QED BY <5>1, <5>2, <5>3
        <4>5. q \in Int BY <4>2
        <4>6. q <= a \/ q > a BY <4>5
        <4> QED BY <4>3, <4>4, <4>6, Zenon
      <3> QED BY <3>1, <3>2
    <2>7. store'[j.shelf][j.index] = s \o r
      <3>1. store' = [store EXCEPT ![j.shelf][j.index] = s \o r] BY <1>1, <1>2, <2>1, <2>3
      <3> QED BY <1>3, <3>1 DEF Types
    <2>8. Stores(x)'
      <3>1. (Announced(x.id).read = n)' BY <1>3, <1>6, <1>7
      <3>2. Slot(x)' = s \o r BY <1>3, <2>7 DEF Slot
      <3>3. s \o r # NoFile BY <2>6, SequenceIsAFile
      <3>4. \A q \in 1..x.count : q <= Padded(n) => (s \o r)[q] = Written(x.id, n)[q]
        BY <1>3, <1>7, <2>6
      <3>5. Len(s \o r) = x.count BY <1>3, <2>6
      <3> QED BY <3>1, <3>2, <3>3, <3>4, <3>5, Zenon DEF Stores
    <2> QED BY <2>8
  <1>13. ASSUME x.wrote # "all" PROVE Stores(x)'
    <2>1. PICK y : y = s \o SubSeq(wire[c], 1, w) OBVIOUS
    <2>2. y \in Seq(Units)
      <3>1. wire[c] \in Seq(Units) BY DEF Types
      <3>2. SubSeq(wire[c], 1, w) \in Seq(Units) BY <3>1
      <3> QED BY <1>1, <1>2, <2>1, <3>2
    <2>3. store'[j.shelf][j.index] = y
      <3>1. store' = [store EXCEPT ![j.shelf][j.index] = y] BY <1>1, <1>2, <2>1
      <3> QED BY <1>3, <3>1 DEF Types
    <2>4. Slot(x)' = y BY <1>3, <2>3 DEF Slot
    <2>5. y # NoFile BY <2>2, SequenceIsAFile
    <2> QED BY <1>13, <2>4, <2>5, Zenon DEF Stores
  <1>14. Stores(x)' BY <1>12, <1>13
  <1>15. Follows(x.from, 0, x.id, x.count)' BY <1>3, <1>10, Zenon
  <1> QED BY <1>2, <1>3, <1>11, <1>14, <1>15, Zenon DEF Reading

LEMMA ReadingStep ==
  ASSUME Types, Types', Gone, Streams, Reading, Next
  PROVE  Reading'
  <1>1. Grow BY FilesGrow
  <1>2. ASSUME job' = Idle PROVE Reading' BY <1>2 DEF Reading
  <1>3. ASSUME job' = job, store' = store, job # Idle => Moved(job.from, 0) PROVE Reading'
    <2>1. CASE job = Idle BY <1>2, <1>3, <2>1
    <2>2. CASE job # Idle
      <3>1. job \in Jobs BY <2>2 DEF Types
      <3> QED BY <1>1, <1>3, <2>2, <3>1, ReadingOn
    <2> QED BY <2>1, <2>2
  <1>4. CASE Select
    <2>1. job = Idle /\ job' = job BY <1>4 DEF Select, Gone
    <2> QED BY <1>2, <2>1
  <1>5. ASSUME NEW c \in Clients, Acts(c), job' = job, store' = store, Moved(c, 0) PROVE Reading'
    <2>1. ASSUME job # Idle PROVE Moved(job.from, 0)
      <3>1. job.from \in Clients BY <2>1 DEF Types, Jobs
      <3>2. CASE job.from = c BY <1>5, <3>2
      <3>3. CASE job.from # c
        <4>1. PICK d \in Clients \ {c} : d = job.from BY <3>1, <3>3
        <4>2. wire'[d] = wire[d] /\ body'[d] = body[d] /\ conn'[d] = conn[d]
          BY <1>5, OthersStill
        <4>3. Moved(d, 0) BY <4>2, StandsStill
        <4> QED BY <4>1, <4>3
      <3> QED BY <3>2, <3>3
    <2> QED BY <1>3, <1>5, <2>1
  <1>6. ASSUME NEW c \in Clients, Talks(c) PROVE Reading'
    <2>1. PICK m \in Messages : Says(c, m) BY <1>6, TalkSays
    <2>2. UNCHANGED <<conn, job, store>> BY <1>6, TalkSays DEF server_
    <2>3. Moved(c, 0) BY <2>1, <2>2, TalkAdds
    <2> QED BY <1>5, <1>6, <2>2, <2>3 DEF Acts
  <1>7. ASSUME NEW c \in Clients, End(c) PROVE Reading'
    <2>1. UNCHANGED <<job, store>> /\ Moved(c, 0) BY <1>7, EndCuts DEF End, server_
    <2> QED BY <1>5, <1>7, <2>1 DEF Acts
  <1>8. ASSUME NEW c \in Clients, WriteBlock(c) PROVE Reading'
    <2>1. UNCHANGED <<job, store>> BY <1>8, Zenon DEF WriteBlock, server_
    <2> QED BY <1>5, <1>8, <2>1, WriteStays DEF Acts
  <1>9. ASSUME NEW c \in Clients, ReadAnswer(c) \/ Disconnected(c) \/ Reset(c) PROVE Reading'
    <2>1. UNCHANGED <<job, store>> BY <1>9 DEF ReadAnswer, Disconnected, Reset, server_
    <2> QED BY <1>5, <1>9, <2>1, StillActs DEF Acts
  <1>10. ASSUME NEW c \in Clients, Finish(c) \/ BreakOff(c) PROVE Reading'
    BY <1>2, <1>10, FinishDoes, BreakOffDoes
  <1>11. ASSUME NEW c \in Clients, ReadBody(c) PROVE Reading'
    BY <1>1, <1>11, ReadingGoesOn
  <1>12. ASSUME NEW c \in Clients, Serve(c) PROVE Reading'
    <2>1. PICK k \in 1..Len(wire[c]) :
           /\ Reads(c, MessageSize, k)
           /\ \/ k = MessageSize /\ IsType(wire[c][1]) /\ Handle(c, wire[c][1].msg)
              \/ UNCHANGED <<conn, job, store>>
           /\ server = "select" /\ UNCHANGED body
      BY <1>12, ServeDoes
    <2>2. PICK u \in Units : u = wire[c][1] BY <2>1 DEF Types
    <2>3. job = Idle BY <2>1 DEF Gone
    <2>4. CASE job' = job BY <1>2, <2>3, <2>4
    <2>5. CASE k = MessageSize /\ Announces(u) /\ Opened(c, u.msg) /\ UNCHANGED <<conn, unread>>
      <3>1. wire[c] # <<>> BY <2>1 DEF Reads
      <3>2. Moved(c, MessageSize)
        <4>1. MessageSize \in Nat \ {0} /\ k \in Nat BY BlocksHaveRoom
        <4> QED BY <2>1, <2>5, <4>1, ReadMoves
      <3> QED BY <1>1, <2>2, <2>5, <3>1, <3>2, ReadingBegins
    <2> QED BY <2>1, <2>2, <2>4, <2>5, HandleDoes
  <1> QED BY <1>4, <1>6, <1>7, <1>8, <1>9, <1>10, <1>11, <1>12, StepIs

LEMMA KeptStep ==
  ASSUME Types, Types', Gone, Reading, \A t \in told : Kept(t), Next
  PROVE  \A t \in told' : Kept(t)'
  <1>1. Grow /\ StoreMoves /\ (told' \subseteq told \/ \E c \in Clients : Finish(c))
    BY FilesGrow, StoreStep
  <1>2. ASSUME NEW t \in told PROVE Kept(t)'
    <2>1. t.id \in Ids /\ t.shelf \in Shelves /\ t.index \in Indexes BY DEF Types, Tellings
    <2>2. Known(t.id) /\ Slot(t) # NoFile /\ (job # Idle => t.shelf # job.shelf \/ t.index # job.index)
      BY DEF Kept
    <2>3. Known(t.id)' /\ Announced(t.id)' = Announced(t.id) BY <1>1, <2>1, <2>2, SameFile
    <2>4. store'[t.shelf][t.index] = store[t.shelf][t.index]
      BY <1>1, <2>1, <2>2 DEF StoreMoves, Slot
    <2>5. Slot(t)' = Slot(t) BY <2>4 DEF Slot
    <2>6. job' # Idle => t.shelf # job'.shelf \/ t.index # job'.index
      BY <1>1, <2>2 DEF StoreMoves, Slot
    <2>7. PICK f, s : f = Announced(t.id) /\ s = Slot(t) OBVIOUS
    <2>8. Unchanged(f) /\ t.wrote = "all" =>
             /\ t.shelf = f.shelf /\ Len(s) >= f.size
             /\ \A q \in 1..f.size : s[q] = Data(t.id, q)
      BY <2>7, Zenon DEF Kept
    <2>9. (Announced(t.id) = f)' /\ Slot(t)' = s BY <2>3, <2>5, <2>7
    <2> QED BY <2>2, <2>3, <2>5, <2>6, <2>8, <2>9, Zenon DEF Kept
  <1>3. ASSUME NEW c \in Clients, Finish(c), NEW t \in told', t \notin told PROVE Kept(t)'
    <2>1. /\ job \in Jobs /\ job # Idle /\ job.from = c /\ job.count >= job.size
          /\ job' = Idle /\ store' = store /\ files' = files
          /\ told' \subseteq told \cup {[id |-> job.id, shelf |-> job.shelf, index |-> job.index,
                                        wrote |-> job.wrote]}
      BY <1>3, FinishDoes
    <2>2. t = [id |-> job.id, shelf |-> job.shelf, index |-> job.index, wrote |-> job.wrote]
      BY <1>3, <2>1
    <2>3. PICK j \in Jobs : j = job BY <2>1
    <2>4. t.id = j.id /\ t.shelf = j.shelf /\ t.index = j.index /\ t.wrote = j.wrote
      BY <2>2, <2>3
    <2>5. Sending(j.from, j) /\ Stores(j) BY <2>1, <2>3, Zenon DEF Reading
    <2>6. PICK f, s : f = Announced(j.id) /\ s = Slot(j) OBVIOUS
    <2>7. Known(j.id) /\ j.size = f.size /\ j.shelf = f.shelf BY <2>5, <2>6 DEF Sending
    <2>8. j.id \in Ids /\ j.count \in Nat /\ j.size \in Nat /\ j.count >= j.size
      BY <2>1, <2>3 DEF Jobs
    <2>9. f \in Sizes BY <1>1, <2>6, <2>7, <2>8, SameFile
    <2>10. /\ s # NoFile
           /\ j.wrote = "all" =>
                 /\ Len(s) = j.count
                 /\ \A q \in 1..j.count : q <= Padded(f.read) => s[q] = Written(j.id, f.read)[q]
      BY <2>5, <2>6, Zenon DEF Stores
    <2>11. ASSUME Unchanged(f), j.wrote = "all"
           PROVE  Len(s) >= f.size /\ \A q \in 1..f.size : s[q] = Data(j.id, q)
      <3>1. PICK n \in Nat, k \in Nat : n = f.size /\ n = f.read /\ k = j.count /\ k >= n
        BY <2>7, <2>8, <2>9, <2>11 DEF Unchanged, Sizes
      <3>2. Padded(n) \in Nat /\ Padded(n) > n BY PaddedSize
      <3>3. \A q \in 1..n : q \in 1..k /\ q <= Padded(n) BY <3>1, <3>2
      <3>4. \A q \in 1..n : s[q] = Written(j.id, n)[q] BY <2>10, <2>11, <3>1, <3>3
      <3>5. \A q \in 1..n : s[q] = Data(j.id, q) BY <2>8, <3>4, WrittenUnits
      <3> QED BY <2>10, <2>11, <3>1, <3>5
    <2>12. (Announced(t.id) = f)' BY <2>1, <2>4, <2>6 DEF Announced
    <2>13. Slot(t)' = s BY <2>1, <2>4, <2>6 DEF Slot
    <2>14. Known(t.id)' BY <2>1, <2>4, <2>7 DEF Known
    <2> QED BY <2>1, <2>4, <2>7, <2>10, <2>11, <2>12, <2>13, <2>14, Zenon DEF Kept
  <1> QED BY <1>1, <1>2, <1>3

-----------------------------------------------------------------------------
(* The invariant holds.                                                    *)
LEMMA IInvInit == Init => IInv
  <1> SUFFICES ASSUME Init PROVE IInv OBVIOUS
  <1> USE DEF Init
  <1>1. Types
    <2>1. NoClient \notin Clients /\ Idle \in {Idle} /\ 0 \in 0..MaxCuts /\ 0 \in 0..MaxRequests
      BY NoClientIsNone, BoundsAreNumbers
    <2> QED BY <2>1, StoredIsDirectory DEF Types
  <1>2. Gone BY DEF Gone
  <1>3. Bodies
    <2>1. Len(<<>>) \in Blocks BY BlocksAdd
    <2> QED BY <2>1 DEF Bodies
  <1>4. \A c \in Clients : Length(c) = 0 BY DEF Length
  <1>5. Streams BY <1>4 DEF Streams
  <1>6. Reading BY DEF Reading
  <1> QED BY <1>1, <1>2, <1>3, <1>5, <1>6 DEF IInv

LEMMA IInvStep == IInv /\ [Next]_vars => IInv'
  <1> SUFFICES ASSUME IInv, [Next]_vars PROVE IInv' OBVIOUS
  <1> USE DEF IInv
  <1>1. CASE Next
    <2>1. Types' BY <1>1, TypesStep
    <2>2. Gone' /\ Bodies' BY <1>1, <2>1, GoneStep, BodiesStep
    <2>3. Streams' /\ Reading' BY <1>1, <2>1, StreamsStep, ReadingStep
    <2>4. \A t \in told' : Kept(t)' BY <1>1, <2>1, KeptStep
    <2> QED BY <2>1, <2>2, <2>3, <2>4
  <1>2. CASE UNCHANGED vars
    <2> USE <1>2 DEF vars, client, server_
    <2>1. Types' BY DEF Types
    <2>2. Gone' BY DEF Gone
    <2>3. Bodies' BY DEF Bodies
    <2>4. Streams'
      <3> SUFFICES ASSUME NEW c \in Clients, NEW p \in 1..Length(c)' PROVE StreamAt(c, p)'
        BY DEF Streams
      <3>1. p \in 1..Length(c) BY DEF Length
      <3>2. StreamAt(c, p) BY <3>1 DEF Streams
      <3>3. At(c, p)' = At(c, p) BY DEF At
      <3>4. ASSUME NEW x, Sending(c, x), NEW q, Follows(c, q, x.id, 0)
            PROVE  Sending(c, x)' /\ Follows(c, q, x.id, 0)'
        BY <3>4 DEF Sending, Follows, Known, Announced, Length, At
      <3> QED BY <3>2, <3>3, <3>4, Zenon DEF StreamAt
    <2>5. Reading' BY DEF Reading, Sending, Follows, Known, Announced, Length, At, Stores, Slot
    <2>6. \A t \in told' : Kept(t)' BY DEF Kept, Known, Announced, Slot
    <2> QED BY <2>1, <2>2, <2>3, <2>4, <2>5, <2>6
  <1> QED BY <1>1, <1>2

LEMMA IInvHolds == Spec => []IInv
  BY IInvInit, IInvStep, PTL DEF Spec

LEMMA BeginsWith ==
  ASSUME NEW s \in Seq(Units), NEW n \in Nat, Len(s) >= n, NEW id \in Ids,
         \A q \in 1..n : s[q] = Data(id, q)
  PROVE  SubSeq(s, 1, n) = Content(id, n)
  <1>1. SubSeq(s, 1, n) = [q \in 1..n |-> s[q]] OBVIOUS
  <1>2. [q \in 1..n |-> s[q]] = [q \in 1..n |-> Data(id, q)] BY Zenon
  <1> QED BY <1>1, <1>2, Zenon DEF Content

(* Whoever is told of success, and none of whose writes failed (fwrite and *)
(* fclose are not looked at), has a stored file that begins with all of    *)
(* his, for files and blocks of any size and any number of clients, ended  *)
(* or not, whose streams come in any pieces (server.c:137-216): the        *)
(* transfer that is read, and every file still behind its announcement,    *)
(* is followed by exactly what the client wrote of it.                     *)
THEOREM ToldMeansKeptHolds == Spec => []ToldMeansKept
  <1>1. IInv => ToldMeansKept
    <2> SUFFICES ASSUME IInv, NEW t \in told, Unchanged(Announced(t.id)), t.wrote = "all"
                 PROVE  /\ t.shelf = Announced(t.id).shelf
                        /\ Len(store[t.shelf][t.index]) >= Announced(t.id).size
                        /\ SubSeq(store[t.shelf][t.index], 1, Announced(t.id).size)
                               = Content(t.id, Announced(t.id).size)
      BY Zenon DEF ToldMeansKept
    <2>1. Kept(t) /\ Types BY DEF IInv
    <2>2. t.id \in Ids /\ t.shelf \in Shelves /\ t.index \in Indexes
      BY <2>1 DEF Types, Tellings
    <2>3. PICK s : s = store[t.shelf][t.index] OBVIOUS
    <2>4. s # NoFile /\ Known(t.id) BY <2>1, <2>3 DEF Kept, Slot
    <2>5. s \in Seq(Units) BY <2>1, <2>2, <2>3, <2>4 DEF Types
    <2>6. Announced(t.id).size \in Nat
      <3>1. t.id[1] \in Clients BY <2>2 DEF Ids
      <3>2. PICK f : f = files[t.id[1]] OBVIOUS
      <3>3. PICK n : n = t.id[2] OBVIOUS
      <3>4. f \in Seq(Sizes) /\ n \in DOMAIN f BY <2>1, <2>4, <3>1, <3>2, <3>3 DEF Types, Known
      <3>5. f[n] \in Sizes BY <3>4
      <3>6. f[n].size \in Nat BY <3>5 DEF Sizes
      <3>7. Announced(t.id) = f[n] BY <3>2, <3>3 DEF Announced
      <3> QED BY <3>6, <3>7
    <2>7. PICK n \in Nat : n = Announced(t.id).size BY <2>6
    <2>8. /\ t.shelf = Announced(t.id).shelf /\ Len(s) >= n
          /\ \A q \in 1..n : s[q] = Data(t.id, q)
      BY <2>1, <2>3, <2>7, Zenon DEF Kept, Slot
    <2>9. SubSeq(s, 1, n) = Content(t.id, n) BY <2>2, <2>5, <2>8, BeginsWith
    <2> QED BY <2>3, <2>7, <2>8, <2>9, Zenon
  <1> QED BY <1>1, IInvHolds, PTL

(* No stored file is touched but the one being received: the name that is  *)
(* opened is free (server.c:151-161), and the server has one transfer at a *)
(* time.                                                                   *)
THEOREM StoreOnlyGrowsHolds == Spec => StoreOnlyGrows
  <1> DEFINE Safe == \A sh \in Shelves : \A i \in Indexes :
          store[sh][i] # NoFile /\ store'[sh][i] # store[sh][i] =>
              job # Idle /\ job.shelf = sh /\ job.index = i
  <1>1. IInv /\ [Next]_vars => [Safe]_vars
    <2>1. ASSUME IInv, Next PROVE Safe
      <3>1. StoreMoves BY <2>1, StoreStep DEF IInv
      <3> QED BY <3>1 DEF StoreMoves
    <2> QED BY <2>1
  <1>2. Spec => [][Safe]_vars BY <1>1, IInvHolds, PTL DEF Spec
  <1> QED BY <1>2 DEF StoreOnlyGrows
=============================================================================
