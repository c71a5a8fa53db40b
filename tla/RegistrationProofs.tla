------------------------- MODULE RegistrationProofs -------------------------
(***************************************************************************)
(* Proofs about Registration: its type, that a client told of success is   *)
(* in the file, that a granted name is not granted to a later caller, and  *)
(* that the key of a registered user is safe from whoever got a child.     *)
(***************************************************************************)
EXTENDS Registration, TLAPS

-----------------------------------------------------------------------------
(* The inductive invariant.                                                *)
HasCalled == {"waiting", "newkey", "request", "readkey", "rewrite", "ask", "done"}
MakesKeys == {"newkey", "request", "readkey", "rewrite", "ask", "done"}
HasKey == {"request", "readkey", "rewrite", "ask", "done"}
Granted(c) == child[c] \in {"append", "reply", "done"}

(* How the places of a client, its two children and its form agree.        *)
Places ==
    \A c \in Clients :
        /\ client[c] = "start" => child[c] = "none"
        /\ client[c] \in HasCalled => form[c] \in Form
        /\ client[c] \in MakesKeys => AnswerHeard(c)
        /\ signer[c] # "none" => client[c] = "done"
        /\ Granted(c) => users # Missing

(* The search of the child is still right when the line is appended, for   *)
(* those who had their success, and their line, when the client called.    *)
Once ==
    \A c \in Clients : \A d \in before[c] :
        /\ child[d] = "done"
        /\ Granted(c) /\ d \notin lost => NameOf(d) # NameOf(c)

(* Keys of those who registered before are of names in the file; no client *)
(* that was granted a name, or has made a key, ever meets one.             *)
Keys ==
    /\ \A n \in Names : keyOf[n] = Owner => Registered(n)
    /\ \A c \in Clients : held[c] # Owner
    /\ \A c \in Clients : form[c] \in Form =>
        /\ Granted(c) => keyOf[NameOf(c)] # Owner
        /\ child[c] = "dead" => users = Missing \/ keyOf[NameOf(c)] # Owner
        /\ client[c] \in HasKey => keyOf[NameOf(c)] # Owner

Inv == TypeOK /\ Places /\ ToldMeansStored /\ Once /\ Keys

-----------------------------------------------------------------------------
(* Every client's step, one at a time.                                     *)
Step(c) ==
    \/ Submit(c) \/ Abandon(c) \/ Stop(c) \/ ClientRuns(c) \/ ServersRun(c)

LEMMA FormsAreLines == Form \subseteq Line /\ NoForm \in Line
  BY DEF Form, Line, NoForm

LEMMA FormHasName == \A f \in Form : f.name \in Names
  BY DEF Form

(* What is appended, and what stays.                                       *)
LEMMA Longer ==
  ASSUME users \in Seq(Line), NEW f \in Line
  PROVE  /\ WithLine(f) \in Seq(Line)
         /\ WithLine(f) # Missing
         /\ \E k \in DOMAIN WithLine(f) : WithLine(f)[k] = f
         /\ \A k \in DOMAIN users : k \in DOMAIN WithLine(f) /\ WithLine(f)[k] = users[k]
  <1>1. /\ WithLine(f) \in Seq(Line)
        /\ Len(WithLine(f)) = Len(users) + 1
        /\ DOMAIN WithLine(f) = 1..(Len(users) + 1)
        /\ DOMAIN users = 1..Len(users)
        /\ Len(users) \in Nat
        /\ WithLine(f)[Len(users) + 1] = f
        /\ \A k \in 1..Len(users) : WithLine(f)[k] = users[k]
    BY DEF WithLine
  <1>2. WithLine(f) # Missing
    BY <1>1, MissingIsNoFile
  <1> QED BY <1>1, <1>2

LEMMA TypeInit == Init => TypeOK
  <1> SUFFICES ASSUME Init PROVE TypeOK OBVIOUS
  <1> USE DEF Init
  <1>1. users \in Seq(Line) \cup {Missing}
    <2>1. CASE users = Missing BY <2>1
    <2>2. CASE users \in Seq(Form) BY <2>2, FormsAreLines
    <2> QED BY <2>1, <2>2, FilesAreTyped
  <1>2. keyOf \in [Names -> Makers] BY DEF Makers
  <1>3. /\ requestOf \in [Names -> Makers] /\ certOf \in [Names -> Makers]
        /\ held \in [Clients -> Makers] /\ pending \in [Clients -> Makers]
    BY <1>2 DEF Makers
  <1>4. /\ form \in [Clients -> Form \cup {NoForm}]
        /\ before \in [Clients -> SUBSET Clients]
        /\ forked \in [{"register", "ca"} -> 0..MaxChildren]
        /\ lost \subseteq Unlucky
    OBVIOUS
  <1> QED BY <1>1, <1>2, <1>3, <1>4 DEF TypeOK

LEMMA InvInit == Init => Inv
  <1> SUFFICES ASSUME Init PROVE Inv OBVIOUS
  <1> USE DEF Init
  <1>1. TypeOK BY TypeInit
  <1>2. Places BY DEF Places, HasCalled, MakesKeys, Granted
  <1>3. ToldMeansStored BY DEF ToldMeansStored, Stored
  <1>4. Once BY DEF Once
  <1>5. Keys
    <2>1. \A n \in Names : keyOf[n] = Owner => Registered(n)
      BY NobodyIsNoClient
    <2>2. \A c \in Clients : held[c] # Owner
      BY NobodyIsNoClient
    <2>3. \A c \in Clients : ~Granted(c) /\ child[c] # "dead" /\ client[c] \notin HasKey
      BY DEF Granted, HasKey
    <2> QED BY <2>1, <2>2, <2>3 DEF Keys
  <1> QED BY <1>1, <1>2, <1>3, <1>4, <1>5 DEF Inv

-----------------------------------------------------------------------------
LEMMA TypeStep ==
  ASSUME Inv, NEW c \in Clients, Step(c)
  PROVE  TypeOK'
  <1> USE DEF Inv, TypeOK, files
  <1>0. NameOf(c) \in Names \/ client[c] \notin HasCalled
    BY FormHasName DEF Places, NameOf
  <1>1. CASE Submit(c) BY <1>1 DEF Submit
  <1>2. CASE Abandon(c) BY <1>2 DEF Abandon
  <1>3. CASE Stop(c) BY <1>3 DEF Stop
  <1>4. CASE Hear(c) BY <1>4 DEF Hear, Goes
  <1>5. CASE WriteKey(c) BY <1>5 DEF WriteKey, Goes, Makers
  <1>6. CASE WriteRequest(c) BY <1>6 DEF WriteRequest, Goes, Makers
  <1>7. CASE ReadKey(c) BY <1>7, <1>0 DEF ReadKey, Goes, HasCalled
  <1>8. CASE RewriteKey(c) BY <1>8 DEF RewriteKey, Goes
  <1>9. CASE AskForCertificate(c) BY <1>9 DEF AskForCertificate, Goes
  <1>10. CASE Accept(c)
    <2>1. forked' \in [{"register", "ca"} -> 0..MaxChildren]
      BY <1>10, ChildrenAreCounted DEF Accept, Fork, CanFork
    <2> QED BY <1>10, <2>1 DEF Accept
  <1>11. CASE AcceptSigning(c)
    <2>1. forked' \in [{"register", "ca"} -> 0..MaxChildren]
      BY <1>11, ChildrenAreCounted DEF AcceptSigning, Fork, CanFork
    <2> QED BY <1>11, <2>1 DEF AcceptSigning
  <1>12. CASE Lookup(c)
    <2>1. AfterLookup(c) \in {"dead", "spin", "append"} BY DEF AfterLookup
    <2> QED BY <1>12, <2>1 DEF Lookup, ChildGoes
  <1>13. CASE AppendLine(c)
    <2>1. users \in Seq(Line) BY <1>13 DEF AppendLine, ChildGoes, Places, Granted
    <2>2. form[c] \in Line BY FormsAreLines
    <2>3. users' \in Seq(Line) BY <1>13, <2>1, <2>2, Longer DEF AppendLine
    <2>4. lost' \subseteq Unlucky BY <1>13 DEF AppendLine
    <2> QED BY <1>13, <2>3, <2>4 DEF AppendLine, ChildGoes
  <1>14. CASE Reply(c) BY <1>14 DEF Reply, ChildGoes
  <1>15. CASE ReadRequest(c)
    <2>1. NameOf(c) \in Names BY <1>15, <1>0 DEF ReadRequest, Places, HasCalled
    <2> QED BY <1>15, <2>1 DEF ReadRequest
  <1>16. CASE WriteCertificate(c) BY <1>16 DEF WriteCertificate
  <1> QED BY <1>1, <1>2, <1>3, <1>4, <1>5, <1>6, <1>7, <1>8, <1>9, <1>10, <1>11,
             <1>12, <1>13, <1>14, <1>15, <1>16 DEF Step, ClientRuns, ServersRun

(* The outcomes of the search.                                             *)
LEMMA LookupCases ==
  ASSUME NEW c \in Clients
  PROVE  /\ AfterLookup(c) \in {"dead", "spin", "append"}
         /\ AfterLookup(c) = "append" => users # Missing /\ ~Registered(NameOf(c))
         /\ AfterLookup(c) = "dead" => users = Missing \/ NameOf(c) = NoName
  <1>1. CASE ~CanLook(c)
    <2>1. AfterLookup(c) = "dead" BY <1>1 DEF AfterLookup
    <2> QED BY <1>1, <2>1 DEF CanLook
  <1>2. CASE CanLook(c) /\ Taken(NameOf(c))
    <2>1. AfterLookup(c) = "spin" BY <1>2 DEF AfterLookup
    <2> QED BY <2>1
  <1>3. CASE CanLook(c) /\ ~Taken(NameOf(c))
    <2>1. AfterLookup(c) = "append" BY <1>3 DEF AfterLookup
    <2> QED BY <1>3, <2>1 DEF CanLook, Taken
  <1> QED BY <1>1, <1>2, <1>3

(* A step lengthens the file or leaves it alone.                           *)
LEMMA FileGrows ==
  ASSUME Inv, NEW c \in Clients, Step(c)
  PROVE  /\ users # Missing => users' # Missing
         /\ users = Missing => users' = Missing
         /\ \A n : Registered(n) => Registered(n)'
         /\ users # Missing =>
              \A k \in DOMAIN users : k \in DOMAIN users' /\ users'[k] = users[k]
  <1>1. CASE AppendLine(c) /\ users' # users
    <2>1. users # Missing BY <1>1 DEF AppendLine, ChildGoes, Inv, Places, Granted
    <2>2. users \in Seq(Line) BY <2>1 DEF Inv, TypeOK
    <2>3. form[c] \in Line BY FormsAreLines DEF Inv, TypeOK
    <2>4. users' = WithLine(form[c]) BY <1>1 DEF AppendLine
    <2>5. /\ users' # Missing
          /\ \A k \in DOMAIN users : k \in DOMAIN users' /\ users'[k] = users[k]
      BY <2>2, <2>3, <2>4, Longer
    <2>6. \A n : Registered(n) => Registered(n)'
      BY <2>5 DEF Registered
    <2> QED BY <2>1, <2>5, <2>6
  <1>2. CASE ~AppendLine(c) \/ users' = users
    <2>1. users' = users
      BY <1>2 DEF Step, ClientRuns, ServersRun, files, Submit, Abandon, Stop, Hear,
         WriteKey, WriteRequest, ReadKey, RewriteKey, AskForCertificate, Accept,
         AcceptSigning, Lookup, Reply, ReadRequest, WriteCertificate
    <2> QED BY <2>1 DEF Registered
  <1> QED BY <1>1, <1>2

(* Nobody else's place changes, and nobody's form once it is sent.         *)
LEMMA OthersStay ==
  ASSUME Inv, NEW c \in Clients, Step(c)
  PROVE  /\ \A d \in Clients \ {c} :
              /\ client'[d] = client[d] /\ child'[d] = child[d] /\ signer'[d] = signer[d]
              /\ form'[d] = form[d] /\ held'[d] = held[d] /\ before'[d] = before[d]
         /\ client[c] # "start" => form'[c] = form[c] /\ before'[c] = before[c]
         /\ child[c] = "done" => child'[c] = "done"
         /\ lost \subseteq lost' /\ lost' \subseteq lost \cup {c}
         /\ child[c] = "done" => lost' = lost
  <1> USE DEF Inv, TypeOK, files, Goes, ChildGoes
  <1>1. CASE Submit(c) BY <1>1 DEF Submit, Places
  <1>2. CASE Abandon(c) BY <1>2 DEF Abandon, Places
  <1>3. CASE Stop(c) BY <1>3 DEF Stop
  <1>4. CASE ClientRuns(c)
    BY <1>4 DEF ClientRuns, Hear, WriteKey, WriteRequest, ReadKey, RewriteKey,
       AskForCertificate
  <1>5. CASE ServersRun(c)
    BY <1>5 DEF ServersRun, Accept, Lookup, AppendLine, Reply, AcceptSigning,
       ReadRequest, WriteCertificate
  <1> QED BY <1>1, <1>2, <1>3, <1>4, <1>5 DEF Step

LEMMA PlacesStep ==
  ASSUME Inv, NEW c \in Clients, Step(c)
  PROVE  Places'
  <1>1. ASSUME NEW d \in Clients, d # c
        PROVE  /\ client'[d] = "start" => child'[d] = "none"
               /\ client'[d] \in HasCalled => form'[d] \in Form
               /\ client'[d] \in MakesKeys => AnswerHeard(d)'
               /\ signer'[d] # "none" => client'[d] = "done"
               /\ Granted(d)' => users' # Missing
    BY <1>1, OthersStay, FileGrows DEF Inv, Places, Granted, AnswerHeard
  <1>2. /\ client'[c] = "start" => child'[c] = "none"
        /\ client'[c] \in HasCalled => form'[c] \in Form
        /\ client'[c] \in MakesKeys => AnswerHeard(c)'
        /\ signer'[c] # "none" => client'[c] = "done"
        /\ Granted(c)' => users' # Missing
    <2> USE DEF Inv, TypeOK, Places, files, Goes, ChildGoes, HasCalled, MakesKeys,
                Granted, AnswerHeard
    <2>1. CASE Submit(c) BY <2>1 DEF Submit
    <2>2. CASE Abandon(c) BY <2>2 DEF Abandon
    <2>3. CASE Stop(c) BY <2>3 DEF Stop
    <2>4. CASE ClientRuns(c)
      BY <2>4 DEF ClientRuns, Hear, WriteKey, WriteRequest, ReadKey, RewriteKey,
         AskForCertificate
    <2>5. CASE Lookup(c)
      BY <2>5, LookupCases DEF Lookup
    <2>6. CASE AppendLine(c)
      BY <2>6, FileGrows DEF AppendLine
    <2>7. CASE Accept(c) BY <2>7 DEF Accept
    <2>8. CASE Reply(c) BY <2>8 DEF Reply
    <2>9. CASE AcceptSigning(c) \/ ReadRequest(c) \/ WriteCertificate(c)
      BY <2>9 DEF AcceptSigning, ReadRequest, WriteCertificate
    <2> QED BY <2>1, <2>2, <2>3, <2>4, <2>5, <2>6, <2>7, <2>8, <2>9 DEF Step, ServersRun
  <1> QED BY <1>1, <1>2 DEF Places

LEMMA ToldStep ==
  ASSUME Inv, NEW c \in Clients, Step(c)
  PROVE  ToldMeansStored'
  <1>1. ASSUME NEW d \in Clients \ lost', Stored(d), form'[d] = form[d]
        PROVE  users' # Missing /\ \E k \in DOMAIN users' : users'[k] = form'[d]
    <2>1. d \notin lost BY <1>1, OthersStay
    <2> QED BY <1>1, <2>1, FileGrows DEF Inv, ToldMeansStored
  <1>2. ASSUME NEW d \in Clients, Stored(d)
        PROVE  form'[d] = form[d]
    BY <1>2, OthersStay DEF Inv, Places, Stored
  <1>3. ASSUME NEW d \in Clients \ lost', Stored(d)', ~Stored(d)
        PROVE  users' # Missing /\ \E k \in DOMAIN users' : users'[k] = form'[d]
    <2>1. d = c BY <1>3, OthersStay DEF Stored
    <2>2. AppendLine(c)
      BY <1>3, <2>1, LookupCases
         DEF Step, ClientRuns, ServersRun, Stored, Inv, TypeOK, Goes, ChildGoes, Submit,
             Abandon, Stop, Hear, WriteKey, WriteRequest, ReadKey, RewriteKey,
             AskForCertificate, Accept, AcceptSigning, Lookup, Reply, ReadRequest,
             WriteCertificate
    <2>3. users \in Seq(Line) /\ form[c] \in Line
      BY <2>2, FormsAreLines DEF AppendLine, ChildGoes, Inv, Places, Granted, TypeOK
    <2>4. child'[c] # "dead" BY <1>3, <2>1 DEF Stored
    <2>5. users' = WithLine(form[c]) /\ form' = form
      BY <1>3, <2>1, <2>2, <2>4 DEF AppendLine, ChildGoes, Inv, TypeOK
    <2> QED BY <2>1, <2>3, <2>5, Longer
  <1> QED BY <1>1, <1>2, <1>3 DEF ToldMeansStored

(* A child is granted its name by a search that found it missing.          *)
LEMMA GrantedBySearch ==
  ASSUME Inv, NEW c \in Clients, Step(c), Granted(c)', ~Granted(c)
  PROVE  Lookup(c) /\ ~Registered(NameOf(c)) /\ UNCHANGED <<files, form, before>>
  <1>1. Lookup(c)
    BY DEF Step, ClientRuns, ServersRun, Granted, Inv, TypeOK, Goes, ChildGoes, Submit,
           Abandon, Stop, Hear, WriteKey, WriteRequest, ReadKey, RewriteKey,
           AskForCertificate, Accept, AcceptSigning, AppendLine, Reply, ReadRequest,
           WriteCertificate
  <1>2. AfterLookup(c) = "append"
    BY <1>1, LookupCases DEF Lookup, ChildGoes, Granted, Inv, TypeOK
  <1> QED BY <1>1, <1>2, LookupCases DEF Lookup

LEMMA OnceStep ==
  ASSUME Inv, NEW c \in Clients, Step(c)
  PROVE  Once'
  <1> SUFFICES ASSUME NEW e \in Clients, NEW d \in before'[e]
               PROVE  /\ child'[d] = "done"
                      /\ Granted(e)' /\ d \notin lost' => NameOf(d)' # NameOf(e)'
    BY DEF Once
  <1>1. CASE d \in before[e]
    <2>1. d \in Clients /\ child[d] = "done" BY <1>1 DEF Inv, TypeOK, Once
    <2>2. child'[d] = "done" BY <2>1, OthersStay
    <2>3. form'[d] = form[d] BY <2>1, OthersStay DEF Inv, Places
    <2>4. ASSUME Granted(e), d \notin lost' PROVE NameOf(d)' # NameOf(e)'
      <3>1. form'[e] = form[e] BY <2>4, OthersStay DEF Inv, Places, Granted
      <3>2. d \notin lost BY <2>4, OthersStay
      <3>3. NameOf(d) # NameOf(e) BY <1>1, <2>4, <3>2 DEF Inv, Once
      <3> QED BY <2>3, <3>1, <3>3 DEF NameOf
    <2>5. ASSUME Granted(e)', ~Granted(e), d \notin lost' PROVE NameOf(d)' # NameOf(e)'
      <3>1. e = c BY <2>5, OthersStay DEF Granted
      <3>2. ~Registered(NameOf(c)) /\ form' = form BY <2>5, <3>1, GrantedBySearch
      <3>3. users # Missing /\ \E k \in DOMAIN users : users[k] = form[d]
        BY <2>1, <2>5, OthersStay DEF Inv, ToldMeansStored, Stored
      <3>4. Registered(NameOf(d)) BY <3>3 DEF Registered, NameOf
      <3> QED BY <3>1, <3>2, <3>4 DEF NameOf
    <2> QED BY <2>2, <2>4, <2>5
  <1>2. CASE d \notin before[e]
    <2>1. e = c BY <1>2, OthersStay
    <2>2. Submit(c)
      BY <1>2, <2>1 DEF Step, ClientRuns, ServersRun, Abandon, Stop, Hear, WriteKey,
         WriteRequest, ReadKey, RewriteKey, AskForCertificate, Accept, AcceptSigning,
         Lookup, AppendLine, Reply, ReadRequest, WriteCertificate
    <2>3. before'[c] = { x \in Clients : child[x] = "done" } BY <2>2 DEF Submit, Inv, TypeOK
    <2>4. d \in Clients /\ child[d] = "done" BY <2>1, <2>3
    <2>5. child'[d] = "done" BY <2>4, OthersStay
    <2>6. ~Granted(c)' BY <2>2 DEF Submit, Granted, Inv, TypeOK
    <2> QED BY <2>1, <2>5, <2>6
  <1> QED BY <1>1, <1>2

-----------------------------------------------------------------------------
(* Keys are written by two steps, and neither writes an old key.           *)
LEMMA KeyWritten ==
  ASSUME Inv, NEW c \in Clients, Step(c), NEW n \in Names, keyOf'[n] # keyOf[n]
  PROVE  /\ WriteKey(c) \/ RewriteKey(c)
         /\ NameOf(c) = n /\ keyOf'[n] # Owner
         /\ client[c] \in {"newkey", "rewrite"} /\ form[c] \in Form /\ form' = form
         /\ child' = child
  <1>1. WriteKey(c) \/ RewriteKey(c)
    BY DEF Step, ClientRuns, ServersRun, files, Submit, Abandon, Stop, Hear,
           WriteRequest, ReadKey, AskForCertificate, Accept, AcceptSigning, Lookup,
           AppendLine, Reply, ReadRequest, WriteCertificate
  <1>2. NameOf(c) = n BY <1>1 DEF WriteKey, RewriteKey, Inv, TypeOK
  <1>3. keyOf'[n] \in {c, held[c]} BY <1>1, <1>2 DEF WriteKey, RewriteKey, Inv, TypeOK
  <1>4. keyOf'[n] # Owner BY <1>3, NobodyIsNoClient DEF Inv, Keys
  <1>5. client[c] \in {"newkey", "rewrite"} /\ form' = form /\ child' = child
    BY <1>1 DEF WriteKey, RewriteKey, Goes
  <1>6. form[c] \in Form BY <1>5 DEF Inv, Places, HasCalled
  <1> QED BY <1>1, <1>2, <1>4, <1>5, <1>6

(* So a key that is no longer the owner's stays so.                        *)
LEMMA NotOwnersStays ==
  ASSUME Inv, NEW c \in Clients, Step(c)
  PROVE  \A n \in Names : keyOf[n] # Owner => keyOf'[n] # Owner
  BY KeyWritten

LEMMA KeysStep ==
  ASSUME Inv, NEW c \in Clients, Step(c)
  PROVE  Keys'
  <1>1. \A n \in Names : keyOf'[n] = Owner => Registered(n)'
    BY NotOwnersStays, FileGrows DEF Inv, Keys
  <1>2. \A d \in Clients : held'[d] # Owner
    <2>1. CASE ReadKey(c)
      <3>1. keyOf[NameOf(c)] # Owner
        BY <2>1 DEF ReadKey, Goes, Inv, Places, HasCalled, Keys, HasKey
      <3>2. held' = [held EXCEPT ![c] = keyOf[NameOf(c)]] BY <2>1 DEF ReadKey
      <3> QED BY <3>1, <3>2 DEF Inv, TypeOK, Keys
    <2>2. CASE ~ReadKey(c)
      <3>1. held' = held
        BY <2>2 DEF Step, ClientRuns, ServersRun, Submit, Abandon, Stop, Hear, WriteKey,
           WriteRequest, RewriteKey, AskForCertificate, Accept, AcceptSigning, Lookup,
           AppendLine, Reply, ReadRequest, WriteCertificate
      <3> QED BY <3>1 DEF Inv, Keys
    <2> QED BY <2>1, <2>2
  <1>3. ASSUME NEW d \in Clients, form'[d] \in Form
        PROVE  /\ Granted(d)' => keyOf'[NameOf(d)'] # Owner
               /\ child'[d] = "dead" => users' = Missing \/ keyOf'[NameOf(d)'] # Owner
               /\ client'[d] \in HasKey => keyOf'[NameOf(d)'] # Owner
    <2>1. CASE form'[d] # form[d]
      <3>1. d = c /\ Submit(c)
        BY <2>1, OthersStay DEF Step, ClientRuns, ServersRun, Abandon, Stop, Hear,
           WriteKey, WriteRequest, ReadKey, RewriteKey, AskForCertificate, Accept,
           AcceptSigning, Lookup, AppendLine, Reply, ReadRequest, WriteCertificate
      <3>2. child'[d] = "called" /\ client'[d] = "waiting"
        BY <3>1 DEF Submit, Inv, TypeOK
      <3> QED BY <3>2 DEF Granted, HasKey
    <2>2. CASE form'[d] = form[d]
      <3>1. form[d] \in Form /\ NameOf(d)' = NameOf(d) /\ NameOf(d) \in Names
        BY <1>3, <2>2, FormHasName DEF NameOf
      <3>2. keyOf[NameOf(d)] # Owner => keyOf'[NameOf(d)'] # Owner
        BY <3>1, NotOwnersStays
      <3>3. ASSUME Granted(d)' PROVE keyOf'[NameOf(d)'] # Owner
        <4>1. CASE Granted(d) BY <3>1, <3>2, <4>1 DEF Inv, Keys
        <4>2. CASE ~Granted(d)
          <5>1. d = c BY <3>3, <4>2, OthersStay DEF Granted
          <5>2. ~Registered(NameOf(d)) BY <3>3, <4>2, <5>1, GrantedBySearch
          <5>3. keyOf[NameOf(d)] # Owner BY <3>1, <5>2 DEF Inv, Keys
          <5> QED BY <3>2, <5>3
        <4> QED BY <4>1, <4>2
      <3>4. ASSUME child'[d] = "dead" PROVE users' = Missing \/ keyOf'[NameOf(d)'] # Owner
        <4>1. CASE child[d] = "dead" BY <3>1, <3>2, <4>1, FileGrows DEF Inv, Keys
        <4>2. CASE child[d] # "dead"
          <5>1. d = c BY <3>4, <4>2, OthersStay
          <5>2. Lookup(c) \/ AppendLine(c)
            BY <3>4, <4>2, <5>1 DEF Step, ClientRuns, ServersRun, Inv, TypeOK, Goes,
               ChildGoes, Submit, Abandon, Stop, Hear, WriteKey, WriteRequest, ReadKey,
               RewriteKey, AskForCertificate, Accept, AcceptSigning, Reply, ReadRequest,
               WriteCertificate
          <5>3. CASE Lookup(c)
            <6>1. AfterLookup(c) = "dead" /\ users' = users
              BY <3>4, <5>1, <5>3 DEF Lookup, ChildGoes, Inv, TypeOK, files
            <6>2. NameOf(c) # NoName BY <3>1, <5>1, NoNameIsNoName
            <6> QED BY <6>1, <6>2, LookupCases
          <5>4. CASE AppendLine(c)
            <6>1. Granted(c) BY <5>4 DEF AppendLine, ChildGoes, Granted
            <6> QED BY <3>1, <3>2, <5>1, <6>1 DEF Inv, Keys
          <5> QED BY <5>2, <5>3, <5>4
        <4> QED BY <4>1, <4>2
      <3>5. ASSUME client'[d] \in HasKey PROVE keyOf'[NameOf(d)'] # Owner
        <4>1. CASE client[d] \in HasKey BY <3>1, <3>2, <4>1 DEF Inv, Keys
        <4>2. CASE client[d] \notin HasKey
          <5>1. d = c BY <3>5, <4>2, OthersStay
          <5>2. WriteKey(c)
            BY <3>5, <4>2, <5>1 DEF Step, ClientRuns, ServersRun, Inv, TypeOK, Goes,
               ChildGoes, Submit, Abandon, Stop, Hear, HasKey, WriteRequest, ReadKey,
               RewriteKey, AskForCertificate, Accept, AcceptSigning, Lookup, AppendLine,
               Reply, ReadRequest, WriteCertificate
          <5>3. keyOf'[NameOf(c)] = c
            BY <3>1, <5>1, <5>2 DEF WriteKey, Inv, TypeOK
          <5> QED BY <3>1, <5>1, <5>3, NobodyIsNoClient
        <4> QED BY <4>1, <4>2
      <3> QED BY <3>3, <3>4, <3>5
    <2> QED BY <2>1, <2>2
  <1> QED BY <1>1, <1>2, <1>3 DEF Keys

-----------------------------------------------------------------------------
LEMMA InvStutter ==
  ASSUME Inv, UNCHANGED vars
  PROVE  Inv'
  BY DEF Inv, vars, files, TypeOK, Places, ToldMeansStored, Once, Keys, Registered, NameOf,
         Granted, Stored, AnswerHeard

(* The inductive invariant of registration, for any number of clients,     *)
(* names and children (register_server.c:43-135, client.c:909-1027).       *)
THEOREM InvHolds == Spec => []Inv
  <1>1. Init => Inv BY InvInit
  <1>2. Inv /\ [Next]_vars => Inv'
    <2> SUFFICES ASSUME Inv, [Next]_vars PROVE Inv' OBVIOUS
    <2>1. CASE Next
      <3>1. PICK c \in Clients : Step(c) BY <2>1 DEF Next, Step
      <3> QED BY <3>1, TypeStep, PlacesStep, ToldStep, OnceStep, KeysStep DEF Inv
    <2>2. CASE UNCHANGED vars BY <2>2, InvStutter
    <2> QED BY <2>1, <2>2
  <1> QED BY <1>1, <1>2, PTL DEF Spec

(* Every variable of registration keeps its type.                          *)
THEOREM TypeCorrect == Spec => []TypeOK
  <1>1. Inv => TypeOK BY DEF Inv
  <1> QED BY <1>1, InvHolds, PTL

(* Whoever is told of success, and whose write did not fail, is in the     *)
(* file with his password, and no append of another child, whenever it     *)
(* comes, takes him out of it (register_server.c:98-117).                  *)
THEOREM ToldMeansStoredHolds == Spec => []ToldMeansStored
  <1>1. Inv => ToldMeansStored BY DEF Inv
  <1> QED BY <1>1, InvHolds, PTL

(* A name that was granted and written is granted again only to a call     *)
(* that overlaps the first (register_server.c:87 and 107).                 *)
THEOREM GrantedOnceHolds == Spec => []GrantedOnce
  <1>1. Inv => GrantedOnce BY DEF Inv, Once, GrantedOnce, Stored, Granted
  <1> QED BY <1>1, InvHolds, PTL

(* A key of a registered user is overwritten only by a client whose call   *)
(* got no child (client.c:948-986, register_server.c:57, 98).              *)
THEOREM TakenNameKeepsItsKeyHolds == Spec => TakenNameKeepsItsKey
  <1> DEFINE Safe == \A n \in Names : keyOf[n] = Owner /\ keyOf'[n] # Owner =>
                       \E c \in Clients : NameOf(c) = n /\ child[c] = "refused"
  <1>1. ASSUME Inv, [Next]_vars PROVE Safe
    <2> SUFFICES ASSUME NEW n \in Names, keyOf[n] = Owner, keyOf'[n] # Owner
                 PROVE  \E c \in Clients : NameOf(c) = n /\ child[c] = "refused"
      OBVIOUS
    <2>1. Next BY <1>1 DEF vars, files
    <2>2. PICK c \in Clients : Step(c) BY <2>1 DEF Next, Step
    <2>3. /\ NameOf(c) = n /\ form[c] \in Form
          /\ client[c] \in {"newkey", "rewrite"}
      BY <1>1, <2>2, KeyWritten
    <2>4. child[c] \in {"done", "dead", "refused"}
      BY <1>1, <2>3 DEF Inv, Places, MakesKeys, AnswerHeard
    <2>5. child[c] # "done" BY <1>1, <2>3 DEF Inv, Keys, Granted
    <2>6. child[c] # "dead"
      <3>1. Registered(n) BY <1>1 DEF Inv, Keys
      <3> QED BY <1>1, <2>2, <2>3, <3>1 DEF Inv, Keys, Registered
    <2> QED BY <2>3, <2>4, <2>5, <2>6
  <1>2. Spec => [][Safe]_vars
    BY <1>1, InvHolds, PTL DEF Spec
  <1> QED BY <1>2 DEF TakenNameKeepsItsKey

-----------------------------------------------------------------------------
(* Key, request and certificate of a name only one client makes keys for.  *)
HasRequest == {"readkey", "rewrite", "ask", "done"}

Sole ==
    \A c \in Clients : OnlyMaker(c) =>
        /\ client[c] \in HasKey => keyOf[NameOf(c)] = c
        /\ client[c] \in HasRequest => requestOf[NameOf(c)] = c
        /\ client[c] = "rewrite" => held[c] = c
        /\ signer[c] = "sign" => pending[c] = c
        /\ signer[c] = "done" => certOf[NameOf(c)] = c

(* A file is written by a client, or a signer of one, that made a key.     *)
LEMMA FileWritten ==
  ASSUME Inv, NEW c \in Clients, Step(c), NEW n \in Names,
         keyOf'[n] # keyOf[n] \/ requestOf'[n] # requestOf[n] \/ certOf'[n] # certOf[n]
  PROVE  NameOf(c) = n /\ client[c] \in MakesKeys /\ client'[c] \in MakesKeys /\ form' = form
  <1>1. WriteKey(c) \/ WriteRequest(c) \/ RewriteKey(c) \/ WriteCertificate(c)
    BY DEF Step, ClientRuns, ServersRun, files, Submit, Abandon, Stop, Hear, ReadKey,
           AskForCertificate, Accept, AcceptSigning, Lookup, AppendLine, Reply, ReadRequest
  <1>2. NameOf(c) = n /\ form' = form
    BY <1>1 DEF WriteKey, WriteRequest, RewriteKey, WriteCertificate, Inv, TypeOK
  <1>3. CASE WriteCertificate(c)
    <2>1. client[c] = "done" /\ client' = client
      BY <1>3 DEF WriteCertificate, Inv, Places
    <2> QED BY <1>2, <2>1 DEF MakesKeys
  <1>4. CASE WriteKey(c) \/ WriteRequest(c) \/ RewriteKey(c)
    BY <1>2, <1>4 DEF WriteKey, WriteRequest, RewriteKey, Goes, MakesKeys, Inv, TypeOK
  <1> QED BY <1>1, <1>3, <1>4

(* Who makes keys alone has always been alone.                             *)
LEMMA SoleBefore ==
  ASSUME Inv, NEW c \in Clients, Step(c), NEW d \in Clients, OnlyMaker(d)',
         form'[d] = form[d]
  PROVE  OnlyMaker(d)
  <1> SUFFICES ASSUME NEW e \in Clients \ {d}, NameOf(e) = NameOf(d)
               PROVE  client[e] \in {"start", "waiting"}
    BY DEF OnlyMaker
  <1>1. CASE client[e] = "start" BY <1>1
  <1>2. CASE client[e] # "start"
    <2>1. form'[e] = form[e] BY <1>2, OthersStay
    <2>2. client'[e] \in {"start", "waiting"} BY <2>1 DEF OnlyMaker, NameOf
    <2>3. CASE e # c BY <2>2, <2>3, OthersStay
    <2>4. CASE e = c
      BY <1>2, <2>2, <2>4 DEF Step, ClientRuns, ServersRun, Inv, TypeOK, Goes, Submit,
         Abandon, Stop, Hear, WriteKey, WriteRequest, ReadKey, RewriteKey,
         AskForCertificate, Accept, AcceptSigning, Lookup, AppendLine, Reply, ReadRequest,
         WriteCertificate
    <2> QED BY <2>3, <2>4
  <1> QED BY <1>1, <1>2

LEMMA SoleStep ==
  ASSUME Inv, Sole, NEW c \in Clients, Step(c), Places'
  PROVE  Sole'
  <1> SUFFICES ASSUME NEW d \in Clients, OnlyMaker(d)', client'[d] \in HasKey
               PROVE  /\ keyOf'[NameOf(d)'] = d
                      /\ client'[d] \in HasRequest => requestOf'[NameOf(d)'] = d
                      /\ client'[d] = "rewrite" => held'[d] = d
                      /\ signer'[d] = "sign" => pending'[d] = d
                      /\ signer'[d] = "done" => certOf'[NameOf(d)'] = d
    BY DEF Sole, HasKey, HasRequest, Places
  <1>1. form'[d] = form[d] /\ form[d] \in Form
    <2>1. client[d] # "start"
      BY OthersStay DEF Step, ClientRuns, ServersRun, Inv, TypeOK, Goes, HasKey, Submit,
         Abandon, Stop, Hear, WriteKey, WriteRequest, ReadKey, RewriteKey,
         AskForCertificate, Accept, AcceptSigning, Lookup, AppendLine, Reply, ReadRequest,
         WriteCertificate
    <2>2. form'[d] = form[d] BY <2>1, OthersStay
    <2> QED BY <2>2 DEF Places, HasKey, HasCalled
  <1>2. NameOf(d)' = NameOf(d) /\ NameOf(d) \in Names BY <1>1, FormHasName DEF NameOf
  <1>3. OnlyMaker(d) BY <1>1, SoleBefore
  <1>4. CASE d # c
    <2>1. /\ client[d] \in HasKey /\ client'[d] = client[d] /\ signer'[d] = signer[d]
          /\ held'[d] = held[d]
      BY <1>4, OthersStay
    <2>2. /\ keyOf'[NameOf(d)] = keyOf[NameOf(d)] /\ requestOf'[NameOf(d)] = requestOf[NameOf(d)]
          /\ certOf'[NameOf(d)] = certOf[NameOf(d)]
      <3>1. SUFFICES ASSUME \/ keyOf'[NameOf(d)] # keyOf[NameOf(d)]
                            \/ requestOf'[NameOf(d)] # requestOf[NameOf(d)]
                            \/ certOf'[NameOf(d)] # certOf[NameOf(d)]
                     PROVE  FALSE
        OBVIOUS
      <3>2. NameOf(c) = NameOf(d) /\ client'[c] \in MakesKeys /\ form' = form
        BY <1>2, <3>1, FileWritten
      <3>3. NameOf(c)' = NameOf(d)' BY <3>2 DEF NameOf
      <3> QED BY <1>4, <3>2, <3>3 DEF OnlyMaker, MakesKeys
    <2>3. pending'[d] = pending[d]
      BY <1>4 DEF Step, ClientRuns, ServersRun, Inv, TypeOK, Submit, Abandon, Stop, Hear,
         WriteKey, WriteRequest, ReadKey, RewriteKey, AskForCertificate, Accept,
         AcceptSigning, Lookup, AppendLine, Reply, ReadRequest, WriteCertificate
    <2> QED BY <1>2, <1>3, <2>1, <2>2, <2>3 DEF Sole
  <1>5. CASE d = c
    <2> USE DEF Inv, TypeOK, HasKey, HasRequest, Goes, ChildGoes, files
    <2>1. CASE WriteKey(c) BY <1>2, <1>5, <2>1 DEF WriteKey, Places
    <2>2. CASE WriteRequest(c) BY <1>2, <1>3, <1>5, <2>2 DEF WriteRequest, Places, Sole
    <2>3. CASE ReadKey(c) BY <1>2, <1>3, <1>5, <2>3 DEF ReadKey, Places, Sole
    <2>4. CASE RewriteKey(c) BY <1>2, <1>3, <1>5, <2>4 DEF RewriteKey, Places, Sole
    <2>5. CASE AskForCertificate(c) BY <1>2, <1>3, <1>5, <2>5 DEF AskForCertificate, Sole
    <2>6. CASE AcceptSigning(c) BY <1>2, <1>3, <1>5, <2>6 DEF AcceptSigning, Sole
    <2>7. CASE ReadRequest(c)
      <3>1. client[c] = "done" /\ signer[c] = "reading" BY <2>7 DEF ReadRequest, Places
      <3>2. keyOf[NameOf(c)] = c /\ requestOf[NameOf(c)] = c BY <1>3, <1>5, <3>1 DEF Sole
      <3> QED BY <1>2, <1>5, <2>7, <3>1, <3>2, NobodyIsNoClient DEF ReadRequest
    <2>8. CASE WriteCertificate(c)
      <3>1. client[c] = "done" BY <2>8 DEF WriteCertificate, Places
      <3> QED BY <1>2, <1>3, <1>5, <2>8, <3>1 DEF WriteCertificate, Sole
    <2>9. CASE Accept(c) \/ Lookup(c) \/ AppendLine(c) \/ Reply(c)
      BY <1>2, <1>3, <1>5, <2>9 DEF Accept, Lookup, AppendLine, Reply, Sole
    <2>10. CASE Submit(c) \/ Abandon(c) \/ Stop(c) \/ Hear(c)
      BY <1>5, <2>10 DEF Submit, Abandon, Stop, Hear
    <2> QED BY <2>1, <2>2, <2>3, <2>4, <2>5, <2>6, <2>7, <2>8, <2>9, <2>10
            DEF Step, ClientRuns, ServersRun
  <1> QED BY <1>4, <1>5

(* When a client that made keys alone for its name has ended, and its      *)
(* signer too, key, request and certificate of the name are its own, for   *)
(* any number of registrations of other names beside it (client.c:948-986, *)
(* ca_server.c:57-119): what check_private_key (client.c:180) needs.       *)
THEOREM CertificateFitsHolds == Spec => []CertificateFits
  <1>1. Init => Sole
    BY DEF Init, Sole, HasKey, HasRequest
  <1>2. Inv /\ Inv' /\ Sole /\ [Next]_vars => Sole'
    <2> SUFFICES ASSUME Inv, Inv', Sole, [Next]_vars PROVE Sole' OBVIOUS
    <2>1. CASE Next
      <3>1. PICK c \in Clients : Step(c) BY <2>1 DEF Next, Step
      <3> QED BY <3>1, SoleStep DEF Inv
    <2>2. CASE UNCHANGED vars
      BY <2>2 DEF Sole, OnlyMaker, NameOf, vars, files
    <2> QED BY <2>1, <2>2
  <1>3. Sole => CertificateFits BY DEF Sole, CertificateFits, HasKey, HasRequest
  <1> QED BY <1>1, <1>2, <1>3, InvHolds, PTL DEF Spec
=============================================================================
