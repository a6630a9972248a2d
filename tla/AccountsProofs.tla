--------------------------- MODULE AccountsProofs ---------------------------
(***************************************************************************)
(* Names and identities of Accounts, for any clients, threads, names and   *)
(* passwords and for either schema.                                        *)
(***************************************************************************)
EXTENDS Accounts, FiniteSetTheorems, TLAPS

TypedPcs == {"getIdByUsername", "addUser", "getUserID", "getUserFlag"}
TokenPcs == {"open", "write", "preHandle", "handle"}
Pcs == {"idle", "hung"} \cup TypedPcs \cup TokenPcs

JobType(j) ==
  j.pc \in Pcs /\ j.n \in Nat /\ DOMAIN j = {"pc", "username", "password", "n"}

Types ==
  /\ IsFiniteSet(user)
  /\ user \subseteq [id : Nat, flag : Clients \X Names, username : Names, password : Passwords]
  /\ tokens \in Seq(Clients \X Names)
  /\ file \in [Clients -> [kind : {"absent", "empty", "garbled", "token"}, n : Nat]]
  /\ DOMAIN job = Threads
  /\ \A th \in Threads : JobType(job[th])
  /\ asked \in [Clients -> SUBSET (Names \X Passwords)]
  /\ acted \subseteq [by : Clients, as : (Clients \X Names) \cup {NoFlag}]

\* A flag that c may act under, and a token of such a flag.
OwnFlag(c, flag) ==
  \E r \in user : r.flag = flag /\ <<r.username, r.password>> \in asked[c]
OwnToken(c, n) == n # 0 => n \in DOMAIN tokens /\ OwnFlag(c, tokens[n])

RowIds == \A r \in user : r.id \in 1 .. Cardinality(user) /\ \A s \in user : s.id = r.id => s = r

\* j, in hand at client c: the name and password were typed in, the row a login has found
\* is theirs, and a token is one of an own flag.
InHand(c, j) ==
  /\ j.pc \in TypedPcs =>
       /\ j.username \in Names /\ j.password \in Passwords
       /\ <<j.username, j.password>> \in asked[c]
  /\ j.pc = "getUserFlag" =>
       \E r \in user : r.id = j.n /\ r.username = j.username /\ r.password = j.password
  /\ j.pc \in TokenPcs => OwnToken(c, j.n)

ActsInv ==
  /\ Types
  /\ RowIds
  /\ \A th \in Threads : InHand(ClientOf[th], job[th])
  /\ \A c \in Clients : OwnToken(c, file[c].n)
  /\ ActsAsSelf

LEMMA ActsInit == ASSUME AccountsAssumption, Init PROVE ActsInv
<1>1. Types
  BY FS_EmptySet, SMT DEF Init, Types, JobType, Idle, Pcs
<1>2. RowIds /\ ActsAsSelf
  BY DEF Init, RowIds, ActsAsSelf
<1>3. \A th \in Threads : InHand(ClientOf[th], job[th])
  BY DEF Init, InHand, Idle, TypedPcs, TokenPcs
<1>4. \A c \in Clients : OwnToken(c, file[c].n)
  BY DEF Init, OwnToken
<1> QED BY <1>1, <1>2, <1>3, <1>4 DEF ActsInv

\* What was an own flag or token stays one when rows, tokens and typed names are added.
Grown ==
  /\ user \subseteq user'
  /\ \A c \in Clients : asked[c] \subseteq asked'[c]
  /\ \A n \in DOMAIN tokens : n \in DOMAIN tokens' /\ tokens'[n] = tokens[n]

LEMMA OwnGrows ==
  ASSUME Grown, NEW c \in Clients
  PROVE  /\ \A flag : OwnFlag(c, flag) => OwnFlag(c, flag)'
         /\ \A n : OwnToken(c, n) => OwnToken(c, n)'
  BY DEF Grown, OwnFlag, OwnToken

LEMMA InHandGrows ==
  ASSUME Grown, NEW c \in Clients, NEW j, InHand(c, j)
  PROVE  InHand(c, j)'
<1>1. j.pc \in TokenPcs => OwnToken(c, j.n)'
  BY OwnGrows DEF InHand
<1>2. j.pc = "getUserFlag" =>
        \E r \in user' : r.id = j.n /\ r.username = j.username /\ r.password = j.password
  BY DEF InHand, Grown
<1>3. j.pc \in TypedPcs => <<j.username, j.password>> \in asked'[c]
  BY DEF InHand, Grown
<1> QED BY <1>1, <1>2, <1>3 DEF InHand

\* One thread goes on, the others keep what they have in hand.
LEMMA AllInHand ==
  ASSUME AccountsAssumption, ActsInv, Grown, NEW th \in Threads, NEW j,
         Become(th, j), InHand(ClientOf[th], j)'
  PROVE  \A u \in Threads : InHand(ClientOf[u], job[u])'
<1> SUFFICES ASSUME NEW u \in Threads PROVE InHand(ClientOf[u], job[u])'
  OBVIOUS
<1>1. ClientOf[u] \in Clients
  BY DEF AccountsAssumption
<1>2. CASE u = th
  <2>1. job'[u] = j
    BY <1>2 DEF Become, ActsInv, Types
  <2> QED BY <1>2, <2>1 DEF InHand
<1>3. CASE u # th
  <2>1. job'[u] = job[u]
    BY <1>3 DEF Become, ActsInv, Types
  <2>2. \A k : InHand(ClientOf[u], k) => InHand(ClientOf[u], k)'
    BY <1>1, InHandGrows
  <2>3. InHand(ClientOf[u], job[u])
    BY DEF ActsInv
  <2> QED BY <2>1, <2>2, <2>3 DEF InHand
<1> QED BY <1>2, <1>3

LEMMA ActedGrows ==
  ASSUME Grown, acted' = acted, ActsAsSelf, Types
  PROVE  ActsAsSelf'
  BY DEF ActsAsSelf, Grown, Types
\* A step of a thread that leaves the files and what was done as they are.
LEMMA ThreadStep ==
  ASSUME AccountsAssumption, ActsInv, Grown, Types', RowIds', NEW th \in Threads, NEW j,
         Become(th, j), InHand(ClientOf[th], j)', file' = file, acted' = acted
  PROVE  ActsInv'
<1>1. \A u \in Threads : InHand(ClientOf[u], job[u])'
  BY AllInHand
<1>2. ActsAsSelf'
  BY ActedGrows DEF ActsInv
<1>3. \A c \in Clients : OwnToken(c, file[c].n)'
  <2> TAKE c \in Clients
  <2>1. OwnToken(c, file[c].n)
    BY DEF ActsInv
  <2>2. \A n : OwnToken(c, n) => OwnToken(c, n)'
    BY OwnGrows
  <2> QED BY <2>1, <2>2 DEF OwnToken
<1> QED BY <1>1, <1>2, <1>3 DEF ActsInv

LEMMA JobTypes ==
  ASSUME ActsInv, NEW th \in Threads, NEW j, JobType(j), Become(th, j)
  PROVE  DOMAIN job' = Threads /\ \A u \in Threads : JobType(job[u])'
  BY DEF ActsInv, Types, Become, JobType

\* A step that writes no row and no token, types nothing in and hands out nothing new.
LEMMA QuietStep ==
  ASSUME AccountsAssumption, ActsInv, NEW th \in Threads, NEW j, JobType(j), Become(th, j),
         InHand(ClientOf[th], j), UNCHANGED <<user, tokens, file, asked, acted>>
  PROVE  ActsInv'
<1>1. Grown
  BY DEF Grown
<1>2. Types'
  BY JobTypes DEF ActsInv, Types
<1>3. RowIds'
  BY DEF RowIds, ActsInv
<1>4. InHand(ClientOf[th], j)'
  BY <1>1, InHandGrows DEF AccountsAssumption
<1> QED BY <1>1, <1>2, <1>3, <1>4, ThreadStep

LEMMA EmptyHand ==
  ASSUME NEW c
  PROVE  /\ JobType(Idle) /\ InHand(c, Idle)
         /\ JobType([Idle EXCEPT !.pc = "hung"]) /\ InHand(c, [Idle EXCEPT !.pc = "hung"])
  BY DEF JobType, Pcs, Idle, InHand, TypedPcs, TokenPcs

LEMMA Leave ==
  ASSUME AccountsAssumption, ActsInv, NEW th \in Threads, Become(th, Idle) \/ Hang(th),
         UNCHANGED <<user, tokens, file, asked, acted>>
  PROVE  ActsInv'
  BY EmptyHand, QuietStep DEF Hang

LEMMA GoOn ==
  ASSUME AccountsAssumption, ActsInv, NEW th \in Threads, NEW pc \in Pcs \ {"getUserFlag"},
         Goto(th, pc), UNCHANGED <<user, tokens, file, asked, acted>>,
         (job[th].pc \in TypedPcs /\ pc \in TypedPcs)
           \/ (job[th].pc \in TokenPcs /\ pc \in TokenPcs)
  PROVE  ActsInv'
<1> DEFINE j == [job[th] EXCEPT !.pc = pc]
<1>1. JobType(job[th]) /\ InHand(ClientOf[th], job[th])
  BY DEF ActsInv, Types
<1>2. JobType(j) /\ Become(th, j)
  BY <1>1 DEF JobType, Goto
<1>3. InHand(ClientOf[th], j)
  BY <1>1 DEF InHand, JobType, TypedPcs, TokenPcs
<1> QED BY <1>2, <1>3, QuietStep

LEMMA TypeStep ==
  ASSUME AccountsAssumption, ActsInv, NEW th \in Threads,
         NEW pc \in {"getIdByUsername", "getUserID"}, Type(th, pc)
  PROVE  ActsInv'
<1> DEFINE c == ClientOf[th]
<1>1. PICK nm \in Names, pw \in Passwords :
        /\ Become(th, [Idle EXCEPT !.pc = pc, !.username = nm, !.password = pw])
        /\ asked' = [asked EXCEPT ![c] = @ \cup {<<nm, pw>>}]
  BY DEF Type
<1> DEFINE j == [Idle EXCEPT !.pc = pc, !.username = nm, !.password = pw]
<1>2. c \in Clients
  BY DEF AccountsAssumption
<1>3. JobType(j)
  BY DEF JobType, Idle, Pcs, TypedPcs
<1>4. asked' \in [Clients -> SUBSET (Names \X Passwords)] /\ <<nm, pw>> \in asked'[c]
  BY <1>1, <1>2 DEF ActsInv, Types
<1>5. Grown
  BY <1>1, <1>2 DEF Grown, Type, ActsInv, Types
<1>6. Types'
  BY <1>1, <1>3, <1>4, JobTypes DEF Type, ActsInv, Types
<1>7. RowIds'
  BY DEF RowIds, ActsInv, Type
<1>8. InHand(c, j)'
  BY <1>4 DEF InHand, Idle, TypedPcs, TokenPcs
<1> QED BY <1>1, <1>3, <1>5, <1>6, <1>7, <1>8, ThreadStep DEF Type

LEMMA GetUserIDStep ==
  ASSUME AccountsAssumption, ActsInv, NEW th \in Threads, GetUserID(th)
  PROVE  ActsInv'
<1>1. CASE Hang(th) \/ Become(th, Idle)
  BY <1>1, Leave DEF GetUserID, ghost
<1>2. CASE \E r \in Matching(th) : Become(th, [job[th] EXCEPT !.pc = "getUserFlag", !.n = r.id])
  <2>1. PICK r \in Matching(th) :
          Become(th, [job[th] EXCEPT !.pc = "getUserFlag", !.n = r.id])
    BY <1>2
  <2> DEFINE j == [job[th] EXCEPT !.pc = "getUserFlag", !.n = r.id]
  <2>2. r \in user /\ r.username = job[th].username /\ r.password = job[th].password
          /\ r.id \in Nat
    BY DEF Matching, NamedSo, ActsInv, Types
  <2>3. JobType(job[th]) /\ InHand(ClientOf[th], job[th]) /\ At(th, "getUserID")
    BY DEF ActsInv, Types, GetUserID
  <2>4. JobType(j)
    BY <2>2, <2>3 DEF JobType, Pcs, TypedPcs
  <2>5. InHand(ClientOf[th], j)
    BY <2>2, <2>3 DEF InHand, JobType, TypedPcs, TokenPcs, At
  <2> QED BY <2>1, <2>4, <2>5, QuietStep DEF GetUserID, ghost
<1> QED BY <1>1, <1>2 DEF GetUserID

\* A signed token of an own flag.
LEMMA SignStep ==
  ASSUME AccountsAssumption, ActsInv, NEW th \in Threads, NEW flag \in Clients \X Names,
         Sign(th, flag), user \subseteq user', OwnFlag(ClientOf[th], flag)',
         UNCHANGED <<file, asked, acted>>, RowIds', IsFiniteSet(user'),
         user' \subseteq [id : Nat, flag : Clients \X Names, username : Names, password : Passwords]
  PROVE  ActsInv'
<1>1. PICK j : /\ j = [job[th] EXCEPT !.pc = "open", !.n = Len(tokens) + 1]
               /\ Become(th, j) /\ tokens' = Append(tokens, flag)
  BY DEF Sign
<1>2. tokens \in Seq(Clients \X Names) /\ JobType(job[th])
  BY DEF ActsInv, Types
<1>3. tokens' \in Seq(Clients \X Names) /\ j.n \in DOMAIN tokens' /\ tokens'[j.n] = flag
  BY <1>1, <1>2 DEF JobType
<1>4. Grown
  BY <1>1, <1>2 DEF Grown
<1>5. JobType(j)
  BY <1>1, <1>2 DEF JobType, Pcs, TokenPcs
<1>6. Types'
  BY <1>1, <1>3, <1>5, JobTypes DEF ActsInv, Types
<1>7. InHand(ClientOf[th], j)'
  BY <1>1, <1>2, <1>3 DEF InHand, OwnToken, OwnFlag, JobType, TypedPcs, TokenPcs
<1> QED BY <1>1, <1>4, <1>5, <1>6, <1>7, ThreadStep

LEMMA AddUserStep ==
  ASSUME AccountsAssumption, ActsInv, NEW th \in Threads, AddUser(th)
  PROVE  ActsInv'
<1> DEFINE c == ClientOf[th]
           nm == job[th].username
           row == [id |-> Cardinality(user) + 1, flag |-> Flag(c, nm), username |-> nm,
                   password |-> job[th].password]
<1>1. CASE Hang(th) /\ UNCHANGED <<user, tokens>>
  BY <1>1, Leave DEF AddUser, ghost
<1>2. CASE user' = user \cup {row} /\ Sign(th, Flag(c, nm))
  <2>1. /\ c \in Clients /\ nm \in Names /\ job[th].password \in Passwords
        /\ <<nm, job[th].password>> \in asked[c]
    BY DEF AccountsAssumption, ActsInv, InHand, AddUser, At, TypedPcs
  <2>2. IsFiniteSet(user) /\ Cardinality(user) \in Nat
    BY FS_CardinalityType DEF ActsInv, Types
  <2>3. row \notin user
    BY <2>2 DEF ActsInv, RowIds
  <2>4. IsFiniteSet(user') /\ Cardinality(user') = Cardinality(user) + 1
    BY <1>2, <2>2, <2>3, FS_AddElement
  <2>5. Flag(c, nm) \in Clients \X Names
    BY <2>1 DEF Flag
  <2>6. user' \subseteq [id : Nat, flag : Clients \X Names, username : Names,
                        password : Passwords]
    BY <1>2, <2>1, <2>2, <2>5 DEF ActsInv, Types
  <2>7. RowIds'
    <3>1. \A r \in user : r.id \in 1 .. Cardinality(user)
      BY DEF ActsInv, RowIds
    <3>2. \A r, s \in user : s.id = r.id => s = r
      BY DEF ActsInv, RowIds
    <3>3. row.id = Cardinality(user) + 1
      OBVIOUS
    <3> HIDE DEF row
    <3>4. \A r \in user' : r.id \in 1 .. Cardinality(user')
      BY <1>2, <2>2, <2>4, <3>1, <3>3
    <3>5. \A r, s \in user' : s.id = r.id => s = r
      BY <1>2, <2>2, <3>1, <3>2, <3>3
    <3> QED BY <3>4, <3>5 DEF RowIds
  <2>8. UNCHANGED <<file, asked, acted>>
    BY DEF AddUser, ghost
  <2>9. PICK flag \in Clients \X Names : flag = Flag(c, nm)
    BY <2>5
  <2>10. OwnFlag(c, flag)'
    <3>1. row \in user' /\ row.flag = flag /\ <<row.username, row.password>> \in asked'[c]
      BY <1>2, <2>1, <2>8, <2>9
    <3> HIDE DEF row
    <3> QED BY <3>1 DEF OwnFlag
  <2>11. Sign(th, flag) /\ user \subseteq user'
    BY <1>2, <2>9
  <2> QED BY <2>4, <2>6, <2>7, <2>8, <2>10, <2>11, SignStep
<1> QED BY <1>1, <1>2 DEF AddUser

LEMMA GetUserFlagStep ==
  ASSUME AccountsAssumption, ActsInv, NEW th \in Threads, GetUserFlag(th)
  PROVE  ActsInv'
<1>1. PICK r \in user : r.id = job[th].n /\ Sign(th, r.flag)
  BY DEF GetUserFlag
<1>2. UNCHANGED <<user, file, asked, acted>>
  BY DEF GetUserFlag, ghost
<1>3. r.flag \in Clients \X Names /\ IsFiniteSet(user)
  BY DEF ActsInv, Types
<1>4. OwnFlag(ClientOf[th], r.flag)
  <2>1. InHand(ClientOf[th], job[th]) /\ job[th].pc = "getUserFlag"
    BY DEF ActsInv, GetUserFlag, At
  <2>2. PICK s \in user : s.id = job[th].n /\ s.username = job[th].username
                             /\ s.password = job[th].password
    BY <2>1 DEF InHand
  <2>3. s = r
    BY <1>1, <2>2 DEF ActsInv, RowIds
  <2> QED BY <2>1, <2>2, <2>3 DEF InHand, TypedPcs, OwnFlag
<1>5. OwnFlag(ClientOf[th], r.flag)' /\ RowIds'
  BY <1>2, <1>4 DEF OwnFlag, RowIds, ActsInv
<1>6. user' \subseteq [id : Nat, flag : Clients \X Names, username : Names,
                      password : Passwords]
  BY <1>2 DEF ActsInv, Types
<1> QED BY <1>1, <1>2, <1>3, <1>5, <1>6, SignStep

\* The file of one client changes, to something without a token or with one in hand.
LEMMA FileStep ==
  ASSUME AccountsAssumption, ActsInv, NEW th \in Threads, NEW v, NEW j, JobType(j),
         v \in [kind : {"absent", "empty", "garbled", "token"}, n : Nat],
         OwnToken(ClientOf[th], v.n), Become(th, j), InHand(ClientOf[th], j),
         file' = [file EXCEPT ![ClientOf[th]] = v], UNCHANGED <<user, tokens, asked, acted>>
  PROVE  ActsInv'
<1>1. Grown
  BY DEF Grown
<1>2. InHand(ClientOf[th], j)'
  BY <1>1, InHandGrows DEF AccountsAssumption
<1>3. \A u \in Threads : InHand(ClientOf[u], job[u])'
  BY <1>1, <1>2, AllInHand
<1>4. Types'
  BY JobTypes DEF ActsInv, Types, AccountsAssumption
<1>5. RowIds' /\ ActsAsSelf'
  BY <1>1, ActedGrows DEF RowIds, ActsInv
<1>6. \A c \in Clients : OwnToken(c, file[c].n)'
  BY DEF ActsInv, OwnToken, OwnFlag, Types
<1> QED BY <1>3, <1>4, <1>5, <1>6 DEF ActsInv

LEMMA OpenFileStep ==
  ASSUME AccountsAssumption, ActsInv, NEW th \in Threads, OpenFile(th)
  PROVE  ActsInv'
<1> DEFINE j == [job[th] EXCEPT !.pc = "write"]
<1>1. JobType(job[th]) /\ InHand(ClientOf[th], job[th])
  BY DEF ActsInv, Types
<1>2. JobType(j) /\ InHand(ClientOf[th], j)
  BY <1>1 DEF JobType, InHand, OpenFile, At, Pcs, TypedPcs, TokenPcs
<1>3. OwnToken(ClientOf[th], [kind |-> "empty", n |-> 0].n)
  BY DEF OwnToken
<1> QED BY <1>2, <1>3, FileStep DEF OpenFile, Goto, ghost

LEMMA WriteTokenStep ==
  ASSUME AccountsAssumption, ActsInv, NEW th \in Threads, WriteToken(th)
  PROVE  ActsInv'
<1>1. JobType(job[th]) /\ OwnToken(ClientOf[th], job[th].n)
  BY DEF ActsInv, Types, InHand, WriteToken, At, TokenPcs
<1>2. PICK v \in {[kind |-> "token", n |-> job[th].n], [kind |-> "garbled", n |-> 0]} :
        file' = [file EXCEPT ![ClientOf[th]] = v]
  BY DEF WriteToken
<1>3. /\ v \in [kind : {"absent", "empty", "garbled", "token"}, n : Nat]
      /\ OwnToken(ClientOf[th], v.n)
  BY <1>1 DEF OwnToken, JobType
<1> QED BY <1>2, <1>3, EmptyHand, FileStep DEF WriteToken, ghost

LEMMA RequestStep ==
  ASSUME AccountsAssumption, ActsInv, NEW th \in Threads, Request(th)
  PROVE  ActsInv'
<1> DEFINE j == [Idle EXCEPT !.pc = "preHandle", !.n = file[ClientOf[th]].n]
<1>1. ClientOf[th] \in Clients
  BY DEF AccountsAssumption
<1>2. file[ClientOf[th]].n \in Nat /\ OwnToken(ClientOf[th], file[ClientOf[th]].n)
  BY <1>1 DEF ActsInv, Types
<1>3. JobType(j) /\ InHand(ClientOf[th], j)
  BY <1>2 DEF JobType, InHand, Idle, Pcs, TypedPcs, TokenPcs
<1> QED BY <1>3, QuietStep DEF Request, ghost

LEMMA HandleStep ==
  ASSUME AccountsAssumption, ActsInv, NEW th \in Threads, Handle(th)
  PROVE  ActsInv'
<1> DEFINE c == ClientOf[th]
           a == [by |-> c, as |-> UserFlag(job[th].n)]
<1>1. c \in Clients
  BY DEF AccountsAssumption
<1>2. OwnToken(c, job[th].n)
  BY DEF ActsInv, InHand, Handle, At, TokenPcs
<1>3. UNCHANGED <<user, tokens, file, asked>> /\ Become(th, Idle) /\ acted' = acted \cup {a}
  BY DEF Handle
<1>4. UserFlag(job[th].n) = NoFlag
        \/ (UserFlag(job[th].n) \in Clients \X Names /\ OwnFlag(c, UserFlag(job[th].n)))
  BY <1>2 DEF UserFlag, Valid, OwnToken, ActsInv, Types
<1>5. ActsAsSelf'
  <2> SUFFICES ASSUME NEW b \in acted' PROVE (\E r \in user : r.flag = b.as
                 /\ <<r.username, r.password>> \in asked[b.by]) \/ b.as = NoFlag
    BY <1>3 DEF ActsAsSelf
  <2>1. CASE b \in acted
    BY <2>1 DEF ActsInv, ActsAsSelf
  <2>2. CASE b = a
    BY <1>4, <2>2 DEF OwnFlag
  <2> QED BY <1>3, <2>1, <2>2
<1>6. Grown
  BY <1>3 DEF Grown
<1>7. \A u \in Threads : InHand(ClientOf[u], job[u])'
  <2>1. InHand(c, Idle)'
    BY DEF InHand, Idle, TypedPcs, TokenPcs
  <2> QED BY <1>3, <1>6, <2>1, AllInHand
<1>8. Types'
  <2>1. acted' \subseteq [by : Clients, as : (Clients \X Names) \cup {NoFlag}]
    BY <1>1, <1>3, <1>4 DEF ActsInv, Types
  <2>2. DOMAIN job' = Threads /\ \A u \in Threads : JobType(job[u])'
    BY <1>3, EmptyHand, JobTypes
  <2> QED BY <1>3, <2>1, <2>2 DEF ActsInv, Types
<1>9. RowIds' /\ \A k \in Clients : OwnToken(k, file[k].n)'
  BY <1>3 DEF ActsInv, RowIds, OwnToken, OwnFlag
<1> QED BY <1>5, <1>7, <1>8, <1>9 DEF ActsInv

LEMMA StillStep ==
  ASSUME ActsInv, UNCHANGED <<user, tokens, file, job, asked, acted>>
  PROVE  ActsInv'
  BY DEF ActsInv, Types, RowIds, InHand, OwnToken, OwnFlag, ActsAsSelf

LEMMA ActsStep ==
  ASSUME AccountsAssumption, ActsInv, NEW th \in Threads, Step(th)
  PROVE  ActsInv'
<1>1. CASE GetIdByUsername(th)
  <2>1. Goto(th, "addUser") \/ Become(th, Idle) \/ Hang(th)
    BY <1>1 DEF GetIdByUsername
  <2>2. UNCHANGED <<user, tokens, file, asked, acted>>
    BY <1>1 DEF GetIdByUsername
  <2>3. job[th].pc \in TypedPcs /\ "addUser" \in TypedPcs
          /\ "addUser" \in Pcs \ {"getUserFlag"}
    BY <1>1 DEF GetIdByUsername, At, Pcs, TypedPcs
  <2>4. CASE Goto(th, "addUser")
    BY <2>2, <2>3, <2>4, GoOn
  <2>5. CASE Become(th, Idle) \/ Hang(th)
    BY <2>2, <2>5, Leave
  <2> QED BY <2>1, <2>4, <2>5
<1>2. CASE PreHandle(th)
  <2>1. Goto(th, "handle") \/ Hang(th)
    BY <1>2 DEF PreHandle
  <2> QED BY <1>2, <2>1, Leave, GoOn DEF PreHandle, At, Pcs, TokenPcs, ghost
<1>3. CASE GiveUp(th)
  BY <1>3, Leave DEF GiveUp, ghost
<1> QED BY <1>1, <1>2, <1>3, AddUserStep, GetUserIDStep, GetUserFlagStep, OpenFileStep,
           WriteTokenStep, HandleStep DEF Step

LEMMA ActsNext == ASSUME AccountsAssumption, ActsInv, [Next]_vars PROVE ActsInv'
<1>1. CASE Expire \/ UNCHANGED vars
  BY <1>1, StillStep DEF Expire, vars, ghost
<1>2. ASSUME NEW th \in Threads, Register(th) \/ Login(th) \/ Request(th) \/ Step(th)
      PROVE  ActsInv'
  BY <1>2, TypeStep, RequestStep, ActsStep DEF Register, Login
<1> QED BY <1>1, <1>2 DEF Next

\* Nobody acts under another's flag, whoever registers which name when.
THEOREM AlwaysActsAsSelf == Spec => []ActsAsSelf
<1>1. Init => ActsInv
  BY ActsInit, AccountsAssumption
<1>2. ActsInv /\ [Next]_vars => ActsInv'
  BY ActsNext, AccountsAssumption
<1>3. ActsInv => ActsAsSelf
  BY DEF ActsInv
<1> QED BY <1>1, <1>2, <1>3, PTL DEF Spec

----------------------------------------------------------------------------
\* A registration that has found its name free while there is an account of that name, or
\* another that has, is in a race.
FreeInv ==
  /\ NameOnce
  /\ DOMAIN job = Threads
  /\ \A th \in Threads : At(th, "addUser") =>
       \/ job[th].username \in raced
       \/ /\ NamedSo(job[th].username) = {}
          /\ \A u \in Threads : At(u, "addUser") /\ job[u].username = job[th].username => u = th

LEMMA FreeElsewhere ==
  ASSUME FreeInv, NEW th \in Threads, DOMAIN job' = Threads, job'[th].pc # "addUser",
         \A u \in Threads : u # th => job'[u] = job[u], UNCHANGED <<user, raced>>
  PROVE  FreeInv'
  BY DEF FreeInv, NameOnce, NamedSo, At

LEMMA FreeGet ==
  ASSUME FreeInv, NEW th \in Threads, GetIdByUsername(th)
  PROVE  FreeInv'
<1> DEFINE nm == job[th].username
           others == {u \in Threads : At(u, "addUser") /\ job[u].username = nm}
<1>1. user' = user /\ raced \subseteq raced'
  BY DEF GetIdByUsername
<1>2. NameOnce'
  BY <1>1 DEF FreeInv, NameOnce
<1>3. CASE Become(th, Idle) \/ Hang(th)
  <2>1. DOMAIN job' = Threads /\ job'[th].pc # "addUser"
          /\ \A u \in Threads : u # th => job'[u] = job[u]
    BY <1>3 DEF Become, Hang, Idle, FreeInv
  <2> QED BY <1>1, <1>2, <2>1 DEF FreeInv, NamedSo, At
<1>4. CASE Goto(th, "addUser") /\ NamedSo(nm) = {}
  <2>1. DOMAIN job' = Threads /\ job'[th].username = job[th].username
          /\ \A u \in Threads : u # th => job'[u] = job[u]
    BY <1>4 DEF Goto, Become, FreeInv
  <2>2. th \notin others
    BY DEF GetIdByUsername, At
  <2>3. CASE others = {}
    BY <1>1, <1>2, <1>4, <2>1, <2>3 DEF FreeInv, NamedSo, At
  <2>4. CASE others # {}
    <3>1. nm \in raced'
      BY <1>4, <2>4 DEF GetIdByUsername, NameTaken
    <3> QED BY <1>1, <1>2, <1>4, <2>1, <3>1 DEF FreeInv, NamedSo, At
  <2> QED BY <2>3, <2>4
<1>5. \/ Become(th, Idle) \/ Hang(th)
      \/ Goto(th, "addUser") /\ NamedSo(nm) = {}
  BY DEF GetIdByUsername, NameTaken
<1> QED BY <1>3, <1>4, <1>5

LEMMA FreeAdd ==
  ASSUME FreeInv, NEW th \in Threads, AddUser(th)
  PROVE  FreeInv'
<1> DEFINE nm == job[th].username
<1>1. CASE Hang(th) /\ UNCHANGED user
  <2>1. DOMAIN job' = Threads /\ job'[th].pc # "addUser"
          /\ \A u \in Threads : u # th => job'[u] = job[u]
    BY <1>1 DEF Hang, Become, Idle, FreeInv
  <2> QED BY <1>1, <2>1, FreeElsewhere DEF AddUser, ghost
<1>2. CASE \E row : user' = user \cup {row} /\ row.username = nm
                    /\ Sign(th, Flag(ClientOf[th], nm))
  <2>1. PICK row : user' = user \cup {row} /\ row.username = nm
    BY <1>2
  <2>2. DOMAIN job' = Threads /\ job'[th].pc # "addUser"
          /\ \A u \in Threads : u # th => job'[u] = job[u]
    BY <1>2 DEF Sign, Become, FreeInv, AddUser, At
  <2>3. raced' = raced
    BY DEF AddUser, ghost
  <2>4. NameOnce'
    BY <2>1, <2>3 DEF FreeInv, NameOnce, NamedSo, AddUser
  <2> QED BY <2>1, <2>2, <2>3, <2>4 DEF FreeInv, NamedSo, AddUser, At
<1> QED BY <1>1, <1>2 DEF AddUser

LEMMA FreeNext == ASSUME ActsInv, FreeInv, [Next]_vars PROVE FreeInv'
<1>1. CASE Expire \/ UNCHANGED vars
  BY <1>1 DEF Expire, vars, ghost, FreeInv, NameOnce, NamedSo, At
<1>2. ASSUME NEW th \in Threads, Register(th) \/ Login(th) \/ Request(th) \/ Step(th)
      PROVE  FreeInv'
  <2>1. CASE GetIdByUsername(th) \/ AddUser(th)
    BY <2>1, FreeGet, FreeAdd
  <2>2. CASE ~(GetIdByUsername(th) \/ AddUser(th))
    <3>1. JobType(job[th]) /\ DOMAIN job = Threads
      BY DEF ActsInv, Types
    <3>2. DOMAIN job' = Threads /\ \A u \in Threads : u # th => job'[u] = job[u]
      BY <1>2, <2>2, <3>1 DEF Register, Login, Request, Type, Step, GetUserID, GetUserFlag,
         Sign, OpenFile, WriteToken, PreHandle, Handle, GiveUp, Hang, Goto, Become
    <3>3. job'[th].pc # "addUser"
      <4> USE <3>1 DEF JobType, Become, Goto, Hang, Idle
      <4>1. CASE Request(th)
        BY <4>1 DEF Request
      <4>2. ASSUME NEW pc \in {"getIdByUsername", "getUserID"}, Type(th, pc)
            PROVE  job'[th].pc # "addUser"
        <5>1. PICK nm \in Names, pw \in Passwords :
                Become(th, [Idle EXCEPT !.pc = pc, !.username = nm, !.password = pw])
          BY <4>2 DEF Type
        <5> QED BY <5>1
      <4>3. CASE GetUserID(th)
        <5>1. CASE Hang(th) \/ Become(th, Idle)
          BY <5>1
        <5>2. CASE \E r \in Matching(th) :
                     Become(th, [job[th] EXCEPT !.pc = "getUserFlag", !.n = r.id])
          BY <5>2
        <5> QED BY <4>3, <5>1, <5>2 DEF GetUserID
      <4>4. CASE GetUserFlag(th)
        BY <4>4 DEF GetUserFlag, Sign
      <4>5. CASE OpenFile(th) \/ WriteToken(th) \/ GiveUp(th)
        BY <4>5 DEF OpenFile, WriteToken, GiveUp
      <4>6. CASE PreHandle(th) \/ Handle(th)
        BY <4>6 DEF PreHandle, Handle
      <4> QED BY <1>2, <2>2, <4>1, <4>3, <4>4, <4>5, <4>6, <4>2 DEF Step, Register, Login
    <3>4. UNCHANGED <<user, raced>>
      BY <1>2, <2>2 DEF Register, Login, Request, Type, Step, GetUserID, GetUserFlag,
         OpenFile, WriteToken, PreHandle, Handle, GiveUp, ghost
    <3> QED BY <3>4, <3>2, <3>3, FreeElsewhere
  <2> QED BY <2>1, <2>2
<1> QED BY <1>1, <1>2 DEF Next

\* Only registrations that overlap can give one name to two accounts.
THEOREM NamesMetOnce == Spec => []NameOnce
<1>1. Init => FreeInv
  BY DEF Init, FreeInv, NameOnce, Idle, At
<1>2. FreeInv => NameOnce
  BY DEF FreeInv
<1>3. Init => ActsInv
  BY ActsInit, AccountsAssumption
<1>4. ActsInv /\ [Next]_vars => ActsInv'
  BY ActsNext, AccountsAssumption
<1>5. ActsInv /\ FreeInv /\ [Next]_vars => FreeInv'
  BY FreeNext
<1> QED BY <1>1, <1>2, <1>3, <1>4, <1>5, PTL DEF Spec
=============================================================================
