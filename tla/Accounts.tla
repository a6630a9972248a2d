------------------------------ MODULE Accounts ------------------------------
(***************************************************************************)
(* Registration, login and the token: UserService, UserMapper.xml,         *)
(* TokenUtil and TokenInterceptor of csdaa-server with the pages of        *)
(* csdaa-client's WebService that call them.  The flag in a user's token   *)
(* is who the user is to all other services.                               *)
(*                                                                         *)
(* One action is one SQL statement, one check of a token, or one of the    *)
(* two moments of a FileWriter on login_token.txt, the one file that all   *)
(* threads of a client read their token from.                              *)
(***************************************************************************)
EXTENDS Integers, Sequences, FiniteSets

CONSTANTS
  Clients,
  Threads,     \* threads that serve the clients' web pages
  ClientOf,    \* ClientOf[th]
  Names, Passwords,
  UniqueName,  \* the schema (not in the repository) makes user.username unique
  MaxJobs      \* bound: requests of the pages

ASSUME AccountsAssumption ==
  /\ ClientOf \in [Threads -> Clients]
  /\ UniqueName \in BOOLEAN
  /\ MaxJobs \in Nat

\* What getUflag makes of a token that does not verify.
NoFlag == <<>>

VARIABLES
  user,     \* table user: rows [id, flag, username, password]
  tokens,   \* tokens[n]: the flag in the n-th token signed
  expired,  \* the tokens whose 10 hours are over
  file,     \* file[c]: login_token.txt, [kind, n]
  job,      \* job[th]: the request th is in: [pc, username, password, n]
  started,  \* requests so far
  asked,    \* for the properties: asked[c], the names and passwords typed in at c
  acted,    \* for the properties: [by, as], the clients served and under which flag
  raced     \* for the properties: names two registrations had found free at once

ghost == <<asked, acted, raced>>
vars == <<user, tokens, expired, file, job, started, ghost>>

\* The flag typed in, encrypted with the client's own key.
Flag(c, nm) == <<c, nm>>

Idle == [pc |-> "idle", username |-> CHOOSE nm \in Names : TRUE,
         password |-> CHOOSE pw \in Passwords : TRUE, n |-> 0]

Init ==
  /\ user = {} /\ tokens = <<>> /\ expired = {}
  /\ file = [c \in Clients |-> [kind |-> "absent", n |-> 0]]
  /\ job = [th \in Threads |-> Idle]
  /\ started = 0
  /\ asked = [c \in Clients |-> {}] /\ acted = {} /\ raced = {}

At(th, pc) == job[th].pc = pc
Become(th, j) == job' = [job EXCEPT ![th] = j]
Goto(th, pc) == Become(th, [job[th] EXCEPT !.pc = pc])

\* A null answer of the handler, or one that is no ResponseMsg: the client's call waits
\* for its 12000 seconds.
Hang(th) == Become(th, [Idle EXCEPT !.pc = "hung"])

GiveUp(th) ==
  /\ At(th, "hung") /\ Become(th, Idle)
  /\ UNCHANGED <<user, tokens, expired, file, started, ghost>>

Valid(n) == n # 0 /\ n \notin expired

\* TokenUtil.sign; the answer brings the token to the client.
Sign(th, flag) ==
  /\ tokens' = Append(tokens, flag)
  /\ Become(th, [job[th] EXCEPT !.pc = "open", !.n = Len(tokens) + 1])

\* The user types in a name and a password.
Type(th, pc) ==
  /\ At(th, "idle") /\ started < MaxJobs
  /\ \E nm \in Names, pw \in Passwords :
       /\ Become(th, [Idle EXCEPT !.pc = pc, !.username = nm, !.password = pw])
       /\ asked' = [asked EXCEPT ![ClientOf[th]] = @ \cup {<<nm, pw>>}]
  /\ started' = started + 1
  /\ UNCHANGED <<user, tokens, expired, file, acted, raced>>

----------------------------------------------------------------------------
(* register *)

Register(th) == Type(th, "getIdByUsername")

NamedSo(nm) == {r \in user : r.username = nm}

\* One row: 920.  Two: an exception.
NameFree(th) == {}                                       \* mutant: insert without looking
NameTaken(th) == NamedSo(job[th].username)

GetIdByUsername(th) ==
  /\ At(th, "getIdByUsername")
  /\ LET rows == NameTaken(th)
         nm == job[th].username
         others == {u \in Threads : At(u, "addUser") /\ job[u].username = nm}
     IN /\ IF Cardinality(rows) > 1 THEN Hang(th)
           ELSE IF rows # {} THEN Become(th, Idle) ELSE Goto(th, "addUser")
        /\ raced' = IF rows = {} /\ others # {} THEN raced \cup {nm} ELSE raced
  /\ UNCHANGED <<user, tokens, expired, file, started, asked, acted>>

\* 922 with a token, or null for an error of SQL.
AddUser(th) ==
  /\ At(th, "addUser")
  /\ LET nm == job[th].username
         flag == Flag(ClientOf[th], nm)
     IN IF UniqueName /\ NamedSo(nm) # {}
          THEN Hang(th) /\ UNCHANGED <<user, tokens>>
          ELSE /\ user' = user \cup {[id |-> Cardinality(user) + 1, flag |-> flag,
                                      username |-> nm, password |-> job[th].password]}
               /\ Sign(th, flag)
  /\ UNCHANGED <<expired, file, started, ghost>>

----------------------------------------------------------------------------
(* login *)

Login(th) == Type(th, "getUserID")

OfThatName(th) == NamedSo(job[th].username)              \* mutant: password not compared
Swapped(th) == {r \in NamedSo(job[th].password) : r.password = job[th].username}   \* mutant
Matching(th) == {r \in NamedSo(job[th].username) : r.password = job[th].password}

\* No row: 985.  Two: an exception.
GetUserID(th) ==
  /\ At(th, "getUserID")
  /\ LET rows == Matching(th) IN
       \/ Cardinality(rows) > 1 /\ Hang(th)
       \/ rows = {} /\ Become(th, Idle)
       \/ /\ Cardinality(rows) = 1
          /\ \E r \in rows : Become(th, [job[th] EXCEPT !.pc = "getUserFlag", !.n = r.id])
  /\ UNCHANGED <<user, tokens, expired, file, started, ghost>>

\* 987 with a token.
GetUserFlag(th) ==
  /\ At(th, "getUserFlag")
  /\ \E r \in user : r.id = job[th].n /\ Sign(th, r.flag)
  /\ UNCHANGED <<user, expired, file, started, ghost>>

----------------------------------------------------------------------------
(* the token in its file *)

\* new FileWriter(f, false) empties the file ...
OpenFile(th) ==
  /\ At(th, "open")
  /\ file' = [file EXCEPT ![ClientOf[th]] = [kind |-> "empty", n |-> 0]]
  /\ Goto(th, "write")
  /\ UNCHANGED <<user, tokens, expired, started, ghost>>

\* ... and flush puts the token at its start.  When another thread has written since, what
\* is there may be longer, and the end of it stays.
WriteToken(th) ==
  /\ At(th, "write")
  /\ LET c == ClientOf[th] IN
       \/ file' = [file EXCEPT ![c] = [kind |-> "token", n |-> job[th].n]]
       \/ /\ file[c].kind # "empty"
          /\ file' = [file EXCEPT ![c] = [kind |-> "garbled", n |-> 0]]
  /\ Become(th, Idle)
  /\ UNCHANGED <<user, tokens, expired, started, ghost>>

----------------------------------------------------------------------------
(* any other request of the client: upload, download, delete, audit *)

\* It reads the token once.  No file is the token ""; a line that is not there is null, an
\* exception before anything is sent.
Request(th) ==
  /\ At(th, "idle") /\ started < MaxJobs
  /\ file[ClientOf[th]].kind # "empty"
  /\ Become(th, [Idle EXCEPT !.pc = "preHandle", !.n = file[ClientOf[th]].n])
  /\ started' = started + 1
  /\ UNCHANGED <<user, tokens, expired, file, ghost>>

\* The interceptor; what it answers when it refuses is JSON.
PreHandle(th) ==
  /\ At(th, "preHandle")
  /\ IF Valid(job[th].n) THEN Goto(th, "handle") ELSE Hang(th)
  /\ UNCHANGED <<user, tokens, expired, file, started, ghost>>

\* The handler verifies the token once more, for the flag in it.
UserFlag(n) == IF Valid(n) THEN tokens[n] ELSE NoFlag

Handle(th) ==
  /\ At(th, "handle")
  /\ acted' = acted \cup {[by |-> ClientOf[th], as |-> UserFlag(job[th].n)]}
  /\ Become(th, Idle)
  /\ UNCHANGED <<user, tokens, expired, file, started, asked, raced>>

\* Tokens expire in the order they were signed in.
Expire ==
  /\ \E n \in DOMAIN tokens \ expired :
       /\ \A k \in 1 .. n - 1 : k \in expired
       /\ expired' = expired \cup {n}
  /\ UNCHANGED <<user, tokens, file, job, started, ghost>>

----------------------------------------------------------------------------
Step(th) ==
  \/ GetIdByUsername(th) \/ AddUser(th)
  \/ GetUserID(th) \/ GetUserFlag(th)
  \/ OpenFile(th) \/ WriteToken(th)
  \/ PreHandle(th) \/ Handle(th) \/ GiveUp(th)

Next == Expire \/ \E th \in Threads : Register(th) \/ Login(th) \/ Request(th) \/ Step(th)

Spec == Init /\ [][Next]_vars

\* A handler goes on with its request and the client with its answer.
FairSpec == Spec /\ \A th \in Threads : WF_vars(Step(th))

----------------------------------------------------------------------------
(* Properties *)

\* Two accounts have one name only when both registrations had found it free before either
\* inserted its row (UserService.register looks and inserts in two statements).
NameOnce ==
  \A r, s \in user : r.username = s.username => r = s \/ r.username \in raced

\* What a client does on the server is done under the flag of an account whose name and
\* password were typed in at that client, whoever else registers the name at the same time
\* and whichever threads write the token file; or under no flag, when the token expires
\* between TokenInterceptor.preHandle and TokenUtil.getUflag.
ActsAsSelf ==
  \A a \in acted :
    \/ \E r \in user : r.flag = a.as /\ <<r.username, r.password>> \in asked[a.by]
    \/ a.as = NoFlag

\* An account whose name was never contended for can be logged in to: the login ends with
\* a token of the account's flag (UserService.login lines 38 to 44).
Account(th) == {r \in user : r.username = job[th].username /\ r.password = job[th].password
                              /\ r.username \notin raced}
LoginWorks ==
  \A th \in Threads :
    At(th, "getUserID") /\ Account(th) # {}
      ~> At(th, "open") /\ \E r \in Account(th) : r.flag = tokens[job[th].n]
=============================================================================
