---------------------------- MODULE BatchProofs ----------------------------
(***************************************************************************)
(* Theorems about the batch audits (Batch): a challenge stays with the     *)
(* file at its position whatever the other threads of the handler answer,  *)
(* a filed verdict agrees with the proofs it was made from, a list in      *)
(* Redis is that of the batch its key names, and how many threads an SSP's *)
(* web server needs for the nested calls.                                  *)
(***************************************************************************)
EXTENDS Batch, FiniteSetTheorems, TLAPS

\* A chain that waits for a call has one thread at either SSP at most: at home that of the
\* first handler, at the other SSP that of the second.
LEMMA OneThreadEach ==
  ASSUME NEW s, NEW v \in Users, At(v, "call"), NEW n \in 1 .. 3, NEW k \in 1 .. 3,
         <<v, n>> \in Held(s), <<v, k>> \in Held(s)
  PROVE  n = k
<1>1. Home[v] \in {1, 2} /\ Other(Home[v]) # Home[v]
  BY BatchAssumption DEF Ssps, Other
<1>2. Stages[1] = "challenge" /\ Stages[2] = "proof" /\ Stages[3] = "result"
  BY DEF Stages
<1>3. \A i \in 1 .. 3 : <<v, i>> \in Held(s) => Place(v, Stages[i]) = s /\ Holds(v, Stages[i])
  BY DEF Held
<1>4. ~Holds(v, "result")
  BY DEF Holds
<1>5. n # 3 /\ k # 3
  BY <1>2, <1>3, <1>4
<1>6. Place(v, "challenge") # Place(v, "proof")
  BY <1>1 DEF Place
<1> QED BY <1>2, <1>3, <1>5, <1>6

\* Where a server has more threads than there are users, a call from SSP to SSP gets one in the
\* end: a thread is free, or a handler that is not itself waiting for a call holds one.
THEOREM CallsAlwaysGoOn ==
  ASSUME IsFiniteSet(Users), Cardinality(Users) < HttpThreads
  PROVE  Spec => []CallsGoOn
<1>1. CallsGoOn
  <2>1. SUFFICES ASSUME NEW u \in Users, At(u, "call"),
                        \A v \in Users : ~At(v, "call") => \A h \in Held(Here(u)) : h[1] # v
                 PROVE  Enough(Here(u))
    BY DEF CallsGoOn
  <2> DEFINE H == Held(Here(u))
             user == [h \in H |-> h[1]]
  <2>2. \A h \in H : h[1] \in Users /\ h[2] \in 1 .. 3 /\ h = <<h[1], h[2]>>
    BY DEF Held
  <2>3. \A h \in H : At(h[1], "call")
    BY <2>1, <2>2
  <2>4. \A g, h \in H : g[1] = h[1] => g = h
    <3>1. SUFFICES ASSUME NEW g \in H, NEW h \in H, g[1] = h[1] PROVE g = h
      OBVIOUS
    <3>2. <<g[1], g[2]>> \in H /\ <<g[1], h[2]>> \in H
      BY <2>2, <3>1
    <3>3. g[2] = h[2]
      BY <2>2, <2>3, <3>2, OneThreadEach
    <3> QED BY <2>2, <3>1, <3>3
  <2>5. user \in Injection(H, Users)
    BY <2>2, <2>4 DEF Injection, IsInjective
  <2>6. IsFiniteSet(H) /\ Cardinality(H) <= Cardinality(Users)
    BY <2>5, FS_Injection DEF ExistsInjection
  <2>7. HttpThreads \in Nat /\ Cardinality(H) \in Nat /\ Cardinality(Users) \in Nat
    BY <2>6, BatchAssumption, FS_CardinalityType
  <2> QED BY <2>6, <2>7 DEF Enough
<1> QED BY <1>1, PTL

----------------------------------------------------------------------------
(* What holds of a batch on its way through the handlers and the pools *)

AllStages == {"challenge", "proof", "result"}
Asking == {"range", "clear"}
Pcs == {"fork", "collect", "post", "push", "pushResult", "call"}
Tasks(s) == {queue[s][n] : n \in DOMAIN queue[s]} \cup running[s]

Requests == [kind : {"publish", "isfin"}, batch : Keys, no : Nat]
Answers == [file : Files, block : Nat, intact : BOOLEAN]
AllTasks == [user : Users, no : Nat, stage : AllStages, i : Nat, file : Files, block : Nat,
             proof : Answers]
Rec(j) == j = [pc |-> j.pc, no |-> j.no, stage |-> j.stage, batch |-> j.batch, asset |-> j.asset,
               futures |-> j.futures, outs |-> j.outs, ids |-> j.ids]

Shapes ==
  /\ wait \in [Users -> SUBSET Keys] /\ sent \in [Users -> SUBSET Keys]
  /\ writer = [u \in Users |-> writer[u]]
  /\ \A u \in Users : writer[u] = [pc |-> writer[u].pc, batch |-> writer[u].batch]
  /\ inbox \in [Users -> Seq(Requests)] /\ started \in [Users -> Nat]
  /\ job = [u \in Users |-> job[u]] /\ \A u \in Users : Rec(job[u])
  /\ queue \in [Ssps -> Seq(AllTasks)] /\ running \in [Ssps -> SUBSET AllTasks]

\* No two batches have the same number, and none has that of a task that is left over.
NumbersOK(u) ==
  /\ \A n \in DOMAIN inbox[u] :
       /\ inbox[u][n].batch \in Batches[u]
       /\ inbox[u][n].kind = "publish" => inbox[u][n].no \in 1 .. started[u]
  /\ \A m, n \in DOMAIN inbox[u] : inbox[u][m].kind = "publish" /\ inbox[u][n].kind = "publish"
                                   /\ inbox[u][m].no = inbox[u][n].no => m = n
  /\ job[u].pc \in Pcs =>
       /\ job[u].no \in 1 .. started[u]
       /\ \A n \in DOMAIN inbox[u] : inbox[u][n].kind = "publish" => inbox[u][n].no # job[u].no
  /\ \A s \in Ssps : \A t \in Tasks(s) : t.user = u =>
       /\ t.no \in 1 .. started[u]
       /\ \A n \in DOMAIN inbox[u] : inbox[u][n].kind = "publish" => inbox[u][n].no # t.no

\* The tasks of a handler are those whose futures it still waits for.
TasksOK(u) ==
  \A s \in Ssps : \A t \in Tasks(s) : t.user = u /\ job[u].pc \in Pcs /\ t.no = job[u].no =>
    /\ job[u].pc = "collect" /\ t.stage = job[u].stage
    /\ t.i \in DOMAIN Items(u) /\ t = Task(u, t.i) /\ ~Done(u, t.i)

\* A challenge is of the files that are the user's, in their order, and a proof of its blocks.
Own(u, b) == {i \in DOMAIN b : b[i] \notin Refused[u]}
Drawn(u, a) ==
  /\ a.audit[1] = u
  /\ \E b \in Batches[u] : \E p \in [DOMAIN a.ts -> DOMAIN b] :
         /\ \A m, n \in DOMAIN p : m < n => p[m] < p[n]
         /\ {p[n] : n \in DOMAIN p} = Own(u, b)
         /\ \A n \in DOMAIN p : a.ts[n] = b[p[n]]
  /\ DOMAIN a.blocks = DOMAIN a.ts /\ \A n \in DOMAIN a.ts : a.blocks[n] \in Index(a.ts[n])
Summed(a) == /\ DOMAIN a.proofs = DOMAIN a.ts
             /\ \A n \in DOMAIN a.ts : a.proofs[n].file = a.ts[n] /\ a.proofs[n].block = a.blocks[n]
Mine(u, b) == [n \in 1 .. Cardinality(Own(u, b)) |-> b[InOrder(Own(u, b))[n]]]
Judged(a) == a.result = 1 <=> \A n \in DOMAIN a.ts : a.proofs[n].intact
Right(a, n) == a.proofs[n] = [file |-> a.ts[n], block |-> a.blocks[n], intact |-> TRUE]

\* What the callable of the i-th item may return, unless it returns null.
Fits(u, i, value) ==
  /\ In(u, "challenge") => value \in Index(job[u].batch[i])
  /\ In(u, "proof") => /\ value \in Answers
                       /\ value.file = job[u].asset.ts[i] /\ value.block = job[u].asset.blocks[i]
  /\ In(u, "result") => value = Right(job[u].asset, i)
Withheld(u, i) == In(u, "challenge") /\ job[u].batch[i] \in Refused[u]
Kept(u) == {i \in DOMAIN Items(u) : ~Withheld(u, i)}
FutureOK(u, f) ==
  /\ f.i \in DOMAIN Items(u)
  /\ f.out \in {"value", "null", "thrown"}
  /\ f.out = "null" => Withheld(u, f.i)
  /\ f.out = "value" => ~Withheld(u, f.i) /\ Fits(u, f.i, f.value)
FuturesOK(u) ==
  /\ job[u].pc # "collect" => job[u].futures = {}
  /\ \A f \in job[u].futures : FutureOK(u, f)
  /\ \A f, g \in job[u].futures : f.i = g.i => f = g
OutsOK(u) ==
  job[u].pc = "post" =>
    /\ DOMAIN job[u].outs = 1 .. Cardinality(Kept(u))
    /\ \A n \in DOMAIN job[u].outs :
         job[u].outs[n].i = InOrder(Kept(u))[n] /\ Fits(u, job[u].outs[n].i, job[u].outs[n].value)

StageOK(u) ==
  /\ job[u].pc \in Pcs \cup Asking \cup {"free"}
  /\ job[u].stage \in AllStages
  /\ job[u].pc \in Asking \cup {"free"} => job[u].stage = "challenge"
  /\ job[u].pc # "free" => job[u].batch \in Batches[u]
  /\ job[u].pc = "push" => job[u].stage \in {"challenge", "result"}
  /\ job[u].pc = "pushResult" => job[u].stage = "result"
  /\ job[u].pc = "call" => job[u].stage \in {"proof", "result"}
  /\ job[u].asset \in Assets
  /\ job[u].asset.kind = IF job[u].pc \in {"push", "pushResult"} THEN job[u].stage
                         ELSE IF job[u].stage = "result" THEN "proof" ELSE "challenge"
  /\ job[u].stage # "challenge" \/ job[u].pc = "push" => Drawn(u, job[u].asset)
  /\ job[u].stage # "challenge" \/ job[u].pc = "push" => job[u].asset.ts = Mine(u, job[u].batch)
  /\ job[u].stage = "result" => Summed(job[u].asset)

\* What holds of a handler by itself.
LocalOK(u) == FuturesOK(u) /\ OutsOK(u) /\ StageOK(u)

\* The wait files, and the one that is being written, are of batches the user may ask for.
ClientOK(u) ==
  /\ wait[u] \cup sent[u] \subseteq Batches[u]
  /\ writer[u].pc # "none" => writer[u].batch \in Batches[u]

UserOK(u) == NumbersOK(u) /\ TasksOK(u) /\ LocalOK(u) /\ ClientOK(u)

\* A task is at the SSP of its stage, once, in the queue or in a thread.
QueueOK(s) ==
  /\ \A t \in Tasks(s) : Place(t.user, t.stage) = s
  /\ \A m, n \in DOMAIN queue[s] : queue[s][m] = queue[s][n] => m = n
  /\ \A n \in DOMAIN queue[s] : queue[s][n] \notin running[s]
  /\ IsFiniteSet(running[s]) /\ Cardinality(running[s]) <= PoolThreads
HeldOK(s) == IsFiniteSet(Held(s)) /\ Cardinality(Held(s)) <= HttpThreads

LedgerOK ==
  /\ ledger \subseteq Assets /\ IsFiniteSet(ledger)
  /\ \A a \in ledger : /\ Drawn(a.audit[1], a)
                       /\ a.kind # "challenge" => Summed(a)
                       /\ a.kind = "result" => Judged(a)

BatchInv == /\ Shapes
            /\ \A u \in Users : UserOK(u)
            /\ \A s \in Ssps : QueueOK(s) /\ HeldOK(s)
            /\ LedgerOK

----------------------------------------------------------------------------
(* Numbers in increasing order *)

LEMMA RankGrows ==
  ASSUME NEW S, IsFiniteSet(S), S \subseteq Nat, NEW i \in S
  PROVE  /\ Rank(S, i) \in 1 .. Cardinality(S)
         /\ \A k \in S : i < k => Rank(S, i) < Rank(S, k)
<1> DEFINE below(j) == {h \in S : h <= j}
<1>1. \A k \in S : /\ IsFiniteSet(below(k)) /\ Cardinality(below(k)) \in Nat
                   /\ Cardinality(below(k)) <= Cardinality(S)
  BY FS_Subset, FS_CardinalityType
<1>2. i \in below(i)
  OBVIOUS
<1>3. Cardinality(below(i)) # 0
  BY <1>1, <1>2, FS_EmptySet
<1>4. ASSUME NEW k \in S, i < k PROVE Cardinality(below(i)) < Cardinality(below(k))
  <2>1. below(i) \subseteq below(k) /\ k \in below(k) /\ k \notin below(i)
    <3>1. i \in Nat /\ k \in Nat /\ \A h \in S : h \in Nat
      OBVIOUS
    <3>2. \A h \in S : h <= i => h <= k
      BY <1>4, <3>1
    <3>3. k <= k /\ ~(k <= i)
      BY <1>4, <3>1
    <3> QED BY <3>2, <3>3
  <2>2. Cardinality(below(i)) <= Cardinality(below(k))
        /\ Cardinality(below(i)) # Cardinality(below(k))
    BY <1>1, <2>1, FS_Subset
  <2> QED BY <1>1, <2>2
<1>5. Cardinality(S) \in Nat
  BY FS_CardinalityType
<1> QED BY <1>1, <1>3, <1>4, <1>5 DEF Rank

\* InOrder lists each of the numbers once, the smaller before the greater.
LEMMA InOrderLists ==
  ASSUME NEW S, IsFiniteSet(S), S \subseteq Nat
  PROVE  /\ InOrder(S) \in [1 .. Cardinality(S) -> S]
         /\ \A m, n \in 1 .. Cardinality(S) : m < n => InOrder(S)[m] < InOrder(S)[n]
         /\ {InOrder(S)[n] : n \in 1 .. Cardinality(S)} = S
<1> DEFINE N == 1 .. Cardinality(S)
<1>0. Cardinality(S) \in Nat /\ IsFiniteSet(N) /\ Cardinality(N) = Cardinality(S)
  BY FS_CardinalityType, FS_Interval
<1>1. \A i, k \in S : /\ i < k => Rank(S, i) < Rank(S, k)
                      /\ Rank(S, i) = Rank(S, k) => i = k
  <2>1. \A i, k \in S : i < k => Rank(S, i) < Rank(S, k)
    BY RankGrows
  <2>2. \A i \in S : Rank(S, i) \in Nat /\ i \in Nat
    <3> TAKE i \in S
    <3>1. Rank(S, i) \in 1 .. Cardinality(S)
      BY RankGrows
    <3> QED BY <1>0, <3>1
  <2> QED BY <2>1, <2>2
<1>2. ASSUME NEW n \in N PROVE \E i \in S : Rank(S, i) = n
  <2> SUFFICES ASSUME \A i \in S : Rank(S, i) # n PROVE FALSE
    OBVIOUS
  <2> DEFINE T == N \ {n}
             r == [i \in S |-> Rank(S, i)]
  <2>1. r \in [S -> T]
    BY RankGrows
  <2>2. IsFiniteSet(T) /\ Cardinality(T) < Cardinality(S)
    <3>1. IsFiniteSet(T) /\ Cardinality(T) = Cardinality(N) - 1
      BY <1>0, FS_RemoveElement
    <3> QED BY <1>0, <3>1
  <2>3. \E i, k \in S : i # k /\ r[i] = r[k]
    <3> HIDE DEF r, T
    <3> QED BY <2>1, <2>2, FS_PigeonHole
  <2> QED BY <1>1, <2>3
<1>3. \A n \in N : InOrder(S)[n] \in S /\ Rank(S, InOrder(S)[n]) = n
  BY <1>2 DEF InOrder
<1>4. InOrder(S) \in [N -> S]
  BY <1>3 DEF InOrder
<1>5. ASSUME NEW m \in N, NEW n \in N, m < n PROVE InOrder(S)[m] < InOrder(S)[n]
  <2>1. PICK i, k \in S : i = InOrder(S)[m] /\ k = InOrder(S)[n]
    BY <1>3
  <2>2. Rank(S, i) = m /\ Rank(S, k) = n
    BY <1>3, <2>1
  <2>3. i # k /\ ~(k < i)
    <3>1. m \in Nat /\ n \in Nat
      BY <1>0
    <3> QED BY <1>1, <1>5, <2>2, <3>1
  <2>4. i \in Nat /\ k \in Nat
    BY <2>1
  <2> QED BY <2>1, <2>3, <2>4
<1>6. ASSUME NEW i \in S PROVE \E n \in N : InOrder(S)[n] = i
  <2>1. Rank(S, i) \in N
    BY RankGrows
  <2> QED BY <1>1, <1>3, <2>1
<1> QED BY <1>3, <1>4, <1>5, <1>6

LEMMA InOrderAll ==
  ASSUME NEW N \in Nat
  PROVE  Cardinality(1 .. N) = N /\ \A n \in 1 .. N : InOrder(1 .. N)[n] = n
<1>1. \A i \in Nat : Cardinality(1 .. i) = i
  <2> TAKE i \in Nat
  <2>1. Cardinality(1 .. i) = IF 1 > i THEN 0 ELSE i - 1 + 1
    BY FS_Interval, 1 \in Int, i \in Int
  <2> QED BY <2>1
<1>2. ASSUME NEW i \in 1 .. N PROVE Rank(1 .. N, i) = i
  <2>1. {j \in 1 .. N : j <= i} = 1 .. i
    OBVIOUS
  <2>2. Cardinality(1 .. i) = i
    BY <1>1
  <2> QED BY <2>1, <2>2 DEF Rank
<1>3. Cardinality(1 .. N) = N /\ \A n \in 1 .. N : Rank(1 .. N, n) = n
  BY <1>1, <1>2
<1>4. ASSUME NEW n \in 1 .. N PROVE InOrder(1 .. N)[n] = n
  <2>1. InOrder(1 .. N)[n] = CHOOSE i \in 1 .. N : Rank(1 .. N, i) = n
    BY <1>3 DEF InOrder
  <2> QED BY <1>3, <2>1
<1> QED BY <1>3, <1>4

----------------------------------------------------------------------------
(* What a step leaves alone *)

LEMMA KeyShape ==
  ASSUME NEW b \in Keys
  PROVE  \E n \in Nat : n <= Cardinality(Files) /\ b \in [1 .. n -> Files]
<1>1. PICK n \in 0 .. Cardinality(Files) : b \in [1 .. n -> Files]
  BY DEF Keys
<1>2. Cardinality(Files) \in Nat
  BY BatchAssumption, FS_CardinalityType
<1> QED BY <1>1, <1>2

LEMMA StageNames ==
  /\ Stages[1] = "challenge" /\ Stages[2] = "proof" /\ Stages[3] = "result"
  /\ AllStages = {Stages[n] : n \in 1 .. 3}
BY DEF Stages, AllStages

\* What holds of a handler by itself depends on nothing else.
LEMMA LocalStays ==
  ASSUME NEW u \in Users, LocalOK(u), job'[u] = job[u]
  PROVE  LocalOK(u)'
<1>1. \A stage : In(u, stage)' = In(u, stage)
  BY DEF In
<1>2. Items(u)' = Items(u)
  BY <1>1 DEF Items
<1>3. \A i : Withheld(u, i)' = Withheld(u, i)
  BY <1>1 DEF Withheld
<1>4. \A i, value : Fits(u, i, value)' = Fits(u, i, value)
  BY <1>1 DEF Fits, Right
<1>5. Kept(u)' = Kept(u)
  BY <1>2, <1>3 DEF Kept
<1>6. \A f : FutureOK(u, f)' = FutureOK(u, f)
  BY <1>2, <1>3, <1>4 DEF FutureOK
<1>7. FuturesOK(u)'
  BY <1>6 DEF LocalOK, FuturesOK
<1>8. OutsOK(u)'
  BY <1>4, <1>5 DEF LocalOK, OutsOK
<1>9. StageOK(u)'
  BY DEF LocalOK, StageOK, Drawn, Own, Summed
<1> QED BY <1>7, <1>8, <1>9 DEF LocalOK

\* A user whose handler and requests stay, and to whom no task is added.
LEMMA UserStays ==
  ASSUME NEW u \in Users, UserOK(u), job'[u] = job[u], inbox'[u] = inbox[u],
         started'[u] = started[u], ClientOK(u) => ClientOK(u)',
         \A s \in Ssps : \A t \in Tasks(s)' : t.user = u => t \in Tasks(s)
  PROVE  UserOK(u)'
<1>1. LocalOK(u)'
  BY LocalStays DEF UserOK
<1>2. NumbersOK(u)'
  BY DEF UserOK, NumbersOK
<1>3. Items(u)' = Items(u) /\ \A i : Task(u, i)' = Task(u, i) /\ Done(u, i)' = Done(u, i)
  BY DEF Items, Task, Done, In
<1>4. TasksOK(u)'
  BY <1>3 DEF UserOK, TasksOK
<1>5. ClientOK(u)'
  BY DEF UserOK
<1> QED BY <1>1, <1>2, <1>4, <1>5 DEF UserOK

\* Where no task of u bears the number of u's handler.
Retired(u) == \A s \in Ssps : \A t \in Tasks(s) : t.user = u => t.no # job[u].no

LEMMA NoTasks ==
  ASSUME NEW u \in Users, UserOK(u), job[u].pc \in Pcs, job[u].pc # "collect"
  PROVE  Retired(u)
BY DEF UserOK, TasksOK, Retired

LEMMA HeldStays ==
  ASSUME NEW s \in Ssps, HeldOK(s), UNCHANGED job
  PROVE  HeldOK(s)'
<1>1. \A h : Holds(h[1], Stages[h[2]])' = Holds(h[1], Stages[h[2]])
  BY DEF Holds, At, In
<1>2. Held(s)' = Held(s)
  BY <1>1 DEF Held
<1> QED BY <1>2 DEF HeldOK

\* A handler of u's chain takes no thread, or one of SSP s.
LEMMA HeldShrinks ==
  ASSUME NEW u \in Users, Shapes, NEW j, Become(u, j), NEW s \in Ssps, HeldOK(s),
         \A n \in 1 .. 3 : Holds(u, Stages[n])' => Holds(u, Stages[n])
  PROVE  HeldOK(s)'
<1>1. ASSUME NEW h \in Held(s)' PROVE h \in Held(s)
  <2>1. h \in Users \X (1 .. 3) /\ Place(h[1], Stages[h[2]]) = s /\ Holds(h[1], Stages[h[2]])'
    BY <1>1 DEF Held
  <2>2. CASE h[1] = u
    BY <2>1, <2>2 DEF Held
  <2>3. CASE h[1] # u
    <3>1. job'[h[1]] = job[h[1]]
      BY <2>1, <2>3 DEF Become, Shapes
    <3>2. Holds(h[1], Stages[h[2]])' = Holds(h[1], Stages[h[2]])
      BY <3>1 DEF Holds, At, In
    <3> QED BY <2>1, <3>2 DEF Held
  <2> QED BY <2>2, <2>3
<1>2. IsFiniteSet(Held(s)') /\ Cardinality(Held(s)') <= Cardinality(Held(s))
  BY <1>1, FS_Subset DEF HeldOK
<1>3. Cardinality(Held(s)) \in Nat /\ Cardinality(Held(s)') \in Nat /\ HttpThreads \in Nat
  BY <1>2, FS_CardinalityType, BatchAssumption DEF HeldOK
<1> QED BY <1>2, <1>3 DEF HeldOK

LEMMA HeldGrows ==
  ASSUME NEW u \in Users, Shapes, NEW j, Become(u, j), NEW s \in Ssps, HeldOK(s),
         NEW k \in 1 .. 3, Enough(Place(u, Stages[k])),
         \A n \in 1 .. 3 : n # k => (Holds(u, Stages[n])' => Holds(u, Stages[n]))
  PROVE  HeldOK(s)'
<1> DEFINE H == IF Place(u, Stages[k]) = s THEN Held(s) \cup {<<u, k>>} ELSE Held(s)
<1>1. ASSUME NEW h \in Held(s)' PROVE h \in H
  <2>1. /\ h \in Users \X (1 .. 3) /\ Place(h[1], Stages[h[2]]) = s /\ Holds(h[1], Stages[h[2]])'
        /\ h = <<h[1], h[2]>>
    BY <1>1 DEF Held
  <2>2. CASE h[1] = u
    <3>1. CASE h[2] = k
      BY <2>1, <2>2, <3>1
    <3>2. CASE h[2] # k
      BY <2>1, <2>2, <3>2 DEF Held
    <3> QED BY <3>1, <3>2
  <2>3. CASE h[1] # u
    <3>1. job'[h[1]] = job[h[1]]
      BY <2>1, <2>3 DEF Become, Shapes
    <3>2. Holds(h[1], Stages[h[2]])' = Holds(h[1], Stages[h[2]])
      BY <3>1 DEF Holds, At, In
    <3> QED BY <2>1, <3>2 DEF Held
  <2> QED BY <2>2, <2>3
<1>2. Cardinality(Held(s)) \in Nat /\ HttpThreads \in Nat
  BY FS_CardinalityType, BatchAssumption DEF HeldOK
<1>3. IsFiniteSet(H) /\ Cardinality(H) <= HttpThreads
  <2>1. CASE Place(u, Stages[k]) = s
    <3>1. IsFiniteSet(Held(s) \cup {<<u, k>>})
          /\ Cardinality(Held(s) \cup {<<u, k>>}) \in {Cardinality(Held(s)), Cardinality(Held(s)) + 1}
      BY FS_AddElement DEF HeldOK
    <3> QED BY <1>2, <2>1, <3>1 DEF Enough
  <2>2. CASE Place(u, Stages[k]) # s
    BY <2>2 DEF HeldOK
  <2> QED BY <2>1, <2>2
<1>4. IsFiniteSet(Held(s)') /\ Cardinality(Held(s)') <= Cardinality(H)
  <2> HIDE DEF H
  <2> QED BY <1>1, <1>3, FS_Subset
<1>5. Cardinality(H) \in Nat /\ Cardinality(Held(s)') \in Nat
  <2> HIDE DEF H
  <2> QED BY <1>3, <1>4, FS_CardinalityType
<1> QED BY <1>2, <1>3, <1>4, <1>5 DEF HeldOK

\* A step of u's handler that leaves the requests and the tasks alone.
LEMMA HandlerStep ==
  ASSUME BatchInv, NEW u \in Users, NEW j, Become(u, j), Rec(j),
         UNCHANGED <<wait, sent, writer, inbox, started, pool>>,
         j.pc \in Pcs => job[u].pc \in Pcs /\ j.no = job[u].no /\ Retired(u),
         LocalOK(u)', \A s \in Ssps : HeldOK(s)', LedgerOK'
  PROVE  BatchInv'
<1>1. job'[u] = j /\ \A v \in Users : v # u => job'[v] = job[v]
  BY DEF BatchInv, Shapes, Become
<1>2. Shapes'
  <2>1. job' = [v \in Users |-> job'[v]]
    BY DEF BatchInv, Shapes, Become
  <2>2. \A v \in Users : Rec(job'[v])
    BY <1>1 DEF BatchInv, Shapes
  <2> QED BY <2>1, <2>2 DEF BatchInv, Shapes, pool, Rec
<1>3. \A s : Tasks(s)' = Tasks(s)
  BY DEF Tasks, pool
<1>4. UserOK(u)'
  <2>1. UserOK(u)
    BY DEF BatchInv
  <2>2. NumbersOK(u)'
    BY <1>1, <1>3, <2>1 DEF UserOK, NumbersOK
  <2>3. TasksOK(u)'
    BY <1>1, <1>3 DEF TasksOK, Retired
  <2>4. ClientOK(u)'
    BY <2>1 DEF UserOK, ClientOK
  <2> QED BY <2>2, <2>3, <2>4 DEF UserOK
<1>5. ASSUME NEW v \in Users, v # u PROVE UserOK(v)'
  BY <1>1, <1>3, <1>5, UserStays DEF BatchInv, ClientOK
<1>6. \A s \in Ssps : QueueOK(s)'
  BY <1>3 DEF BatchInv, QueueOK, Place, pool
<1> QED BY <1>2, <1>4, <1>5, <1>6 DEF BatchInv

----------------------------------------------------------------------------
(* The client *)

LEMMA AppendAt ==
  ASSUME NEW T, NEW q \in Seq(T), NEW r
  PROVE  \A n \in DOMAIN Append(q, r) : \/ n \in DOMAIN q /\ Append(q, r)[n] = q[n]
                                        \/ n = Len(q) + 1 /\ Append(q, r)[n] = r
OBVIOUS

LEMMA TailAt ==
  ASSUME NEW T, NEW q \in Seq(T), q # <<>>
  PROVE  /\ Tail(q) \in Seq(T) /\ 1 \in DOMAIN q /\ Head(q) = q[1] /\ Head(q) \in T
         /\ \A n \in DOMAIN Tail(q) : n \in Nat /\ n + 1 \in DOMAIN q /\ Tail(q)[n] = q[n + 1]
         /\ \A n \in DOMAIN q : n # 1 => n - 1 \in DOMAIN Tail(q) /\ Tail(q)[n - 1] = q[n]
         /\ \A n \in DOMAIN Tail(q) : n + 1 # 1
OBVIOUS

LEMMA LedgerStays ==
  ASSUME LedgerOK, UNCHANGED ledger
  PROVE  LedgerOK'
BY DEF LedgerOK, Drawn, Own, Summed, Judged

\* A step that leaves the handlers, the requests and the tasks alone.
LEMMA QuietStep ==
  ASSUME BatchInv, UNCHANGED <<inbox, started, job, pool, ledger>>,
         wait' \in [Users -> SUBSET Keys], sent' \in [Users -> SUBSET Keys],
         writer' = [v \in Users |-> writer'[v]],
         \A v \in Users : /\ writer'[v] = [pc |-> writer'[v].pc, batch |-> writer'[v].batch]
                          /\ ClientOK(v) => ClientOK(v)'
  PROVE  BatchInv'
<1>1. Shapes'
  BY DEF BatchInv, Shapes, Rec, pool
<1>2. \A s : Tasks(s)' = Tasks(s)
  BY DEF Tasks, pool
<1>3. \A v \in Users : UserOK(v)'
  BY <1>2, UserStays DEF BatchInv, ClientOK
<1>4. \A s \in Ssps : QueueOK(s)'
  BY <1>2 DEF BatchInv, QueueOK, Place, pool
<1>5. \A s \in Ssps : HeldOK(s)'
  BY HeldStays DEF BatchInv
<1>6. LedgerOK'
  BY LedgerStays DEF BatchInv
<1> QED BY <1>1, <1>3, <1>4, <1>5, <1>6 DEF BatchInv

\* A request that is sent, with a new number when it asks for a batch.
LEMMA SendStep ==
  ASSUME BatchInv, NEW u \in Users, NEW r \in Requests, r.batch \in Batches[u],
         inbox' = [inbox EXCEPT ![u] = Append(@, r)],
         \/ r.kind = "isfin" /\ UNCHANGED started
         \/ r.no = started[u] + 1 /\ started' = [started EXCEPT ![u] = @ + 1],
         UNCHANGED <<job, pool, ledger>>,
         wait' \in [Users -> SUBSET Keys], sent' \in [Users -> SUBSET Keys], writer' = writer,
         \A v \in Users : ClientOK(v) => ClientOK(v)'
  PROVE  BatchInv'
<1>1. /\ inbox[u] \in Seq(Requests) /\ inbox'[u] = Append(inbox[u], r)
      /\ \A v \in Users : v # u => inbox'[v] = inbox[v] /\ started'[v] = started[v]
      /\ started[u] \in Nat /\ started'[u] \in {started[u], started[u] + 1}
      /\ r.kind # "isfin" => r.no = started[u] + 1 /\ started'[u] = started[u] + 1
  BY DEF BatchInv, Shapes
<1>2. Shapes'
  <2>0. inbox \in [Users -> Seq(Requests)] /\ started \in [Users -> Nat]
    BY DEF BatchInv, Shapes
  <2>1. inbox' \in [Users -> Seq(Requests)] /\ started' \in [Users -> Nat]
    <3>1. inbox' \in [Users -> Seq(Requests)]
      BY <1>1, <2>0
    <3>2. started' = started \/ started' = [started EXCEPT ![u] = started[u] + 1]
      OBVIOUS
    <3>3. started' \in [Users -> Nat]
      BY <2>0, <3>2
    <3> QED BY <3>1, <3>3
  <2>2. \A v \in Users : Rec(job[v])'
    BY DEF BatchInv, Shapes, Rec
  <2>3. writer' = [v \in Users |-> writer'[v]]
        /\ \A v \in Users : writer'[v] = [pc |-> writer'[v].pc, batch |-> writer'[v].batch]
    BY DEF BatchInv, Shapes
  <2> QED BY <2>1, <2>2, <2>3 DEF BatchInv, Shapes, pool
<1>3. \A s : Tasks(s)' = Tasks(s)
  BY DEF Tasks, pool
<1>4. UserOK(u)'
  <2>1. UserOK(u)
    BY DEF BatchInv
  <2>2. \A n \in DOMAIN inbox'[u] :
          \/ n \in DOMAIN inbox[u] /\ inbox'[u][n] = inbox[u][n]
          \/ n = Len(inbox[u]) + 1 /\ inbox'[u][n] = r
    BY <1>1, AppendAt
  <2>3. \A n \in 1 .. started[u] : n \in 1 .. started'[u] /\ n # started[u] + 1
    BY <1>1
  <2>4. \A n \in DOMAIN inbox'[u] :
          /\ inbox'[u][n].batch \in Batches[u]
          /\ inbox'[u][n].kind = "publish" => inbox'[u][n].no \in 1 .. started'[u]
    <3>1. r.kind = "publish" => r.no \in 1 .. started'[u]
      BY <1>1
    <3> QED BY <2>1, <2>2, <2>3, <3>1 DEF UserOK, NumbersOK
  <2>5. ASSUME NEW m \in DOMAIN inbox'[u], NEW n \in DOMAIN inbox'[u],
               inbox'[u][m].kind = "publish", inbox'[u][n].kind = "publish",
               inbox'[u][m].no = inbox'[u][n].no
        PROVE  m = n
    <3>1. CASE /\ m \in DOMAIN inbox[u] /\ n \in DOMAIN inbox[u]
               /\ inbox'[u][m] = inbox[u][m] /\ inbox'[u][n] = inbox[u][n]
      BY <2>1, <2>5, <3>1 DEF UserOK, NumbersOK
    <3>2. \A k \in DOMAIN inbox[u] : inbox[u][k].kind = "publish" => inbox[u][k].no # started[u] + 1
      BY <2>1, <2>3 DEF UserOK, NumbersOK
    <3>3. r.kind = "publish" => r.no = started[u] + 1
      BY <1>1
    <3> QED BY <2>2, <2>5, <3>1, <3>2, <3>3
  <2>6. \A n \in DOMAIN inbox'[u], k \in 1 .. started[u] :
          inbox'[u][n].kind = "publish" =>
            inbox'[u][n].no # k \/ (n \in DOMAIN inbox[u] /\ inbox'[u][n] = inbox[u][n])
    BY <1>1, <2>2, <2>3
  <2>7. job[u].pc \in Pcs =>
          /\ job[u].no \in 1 .. started'[u]
          /\ \A n \in DOMAIN inbox'[u] : inbox'[u][n].kind = "publish" => inbox'[u][n].no # job[u].no
    BY <2>1, <2>3, <2>6 DEF UserOK, NumbersOK
  <2>8. \A s \in Ssps : \A t \in Tasks(s) : t.user = u =>
          /\ t.no \in 1 .. started'[u]
          /\ \A n \in DOMAIN inbox'[u] : inbox'[u][n].kind = "publish" => inbox'[u][n].no # t.no
    BY <2>1, <2>3, <2>6 DEF UserOK, NumbersOK
  <2>9. NumbersOK(u)'
    BY <1>3, <2>4, <2>5, <2>7, <2>8 DEF NumbersOK
  <2>10. Items(u)' = Items(u) /\ \A i : Task(u, i)' = Task(u, i) /\ Done(u, i)' = Done(u, i)
    BY DEF Items, Task, Done, In
  <2>11. TasksOK(u)'
    BY <1>3, <2>1, <2>10 DEF UserOK, TasksOK
  <2> QED BY <2>1, <2>9, <2>11, LocalStays DEF UserOK
<1>5. ASSUME NEW v \in Users, v # u PROVE UserOK(v)'
  BY <1>1, <1>3, <1>5, UserStays DEF BatchInv, ClientOK
<1>6. \A s \in Ssps : QueueOK(s)'
  BY <1>3 DEF BatchInv, QueueOK, Place, pool
<1>7. \A s \in Ssps : HeldOK(s)'
  BY HeldStays DEF BatchInv
<1>8. LedgerOK'
  BY LedgerStays DEF BatchInv
<1> QED BY <1>2, <1>4, <1>5, <1>6, <1>7, <1>8 DEF BatchInv

LEMMA ClientSteps ==
  ASSUME BatchInv, NEW u \in Users,
         \/ Submit(u) \/ DoBatchAudit(u) \/ HandleFin(u)
         \/ \E b \in wait[u] : AskFin(u, b)
  PROVE  BatchInv'
<1>0. /\ wait \in [Users -> SUBSET Keys] /\ sent \in [Users -> SUBSET Keys] /\ started[u] \in Nat
      /\ writer = [v \in Users |-> writer[v]]
      /\ \A v \in Users : writer[v] = [pc |-> writer[v].pc, batch |-> writer[v].batch]
      /\ Batches[u] \subseteq Keys /\ wait[u] \cup sent[u] \subseteq Batches[u]
      /\ writer[u].pc # "none" => writer[u].batch \in Batches[u]
  BY BatchAssumption DEF BatchInv, Shapes, UserOK, ClientOK
<1>1. CASE Submit(u)
  <2>1. PICK b \in Batches[u] \ wait[u] :
          sent' = [sent EXCEPT ![u] = {b}] /\ Send(u, "publish", b, started[u] + 1)
    BY <1>1 DEF Submit
  <2> DEFINE r == [kind |-> "publish", batch |-> b, no |-> started[u] + 1]
  <2>2. r \in Requests /\ r.batch \in Batches[u] /\ r.no = started[u] + 1
    BY <1>0 DEF Requests
  <2>3. inbox' = [inbox EXCEPT ![u] = Append(@, r)]
    BY <2>1 DEF Send
  <2>4. wait' = wait /\ writer' = writer /\ sent' \in [Users -> SUBSET Keys] /\ sent'[u] = {b}
        /\ \A v \in Users : v # u => sent'[v] = sent[v]
    BY <1>0, <1>1, <2>1 DEF Submit
  <2>5. started' = [started EXCEPT ![u] = @ + 1] /\ UNCHANGED <<job, pool, ledger>>
    BY <1>1 DEF Submit
  <2> HIDE DEF r
  <2>6. \A v \in Users : ClientOK(v) => ClientOK(v)'
    BY <1>0, <2>4 DEF ClientOK
  <2> QED BY <1>0, <2>2, <2>3, <2>4, <2>5, <2>6, SendStep
<1>2. CASE CreateWait(u)
  <2>1. PICK b \in sent[u] : /\ sent' = [sent EXCEPT ![u] = @ \ {b}]
                             /\ wait' = [wait EXCEPT ![u] = @ \cup {b}]
                             /\ writer' = [writer EXCEPT ![u] = [pc |-> "created", batch |-> b]]
    BY <1>2 DEF CreateWait
  <2>2. UNCHANGED <<inbox, started, job, pool, ledger>>
    BY <1>2 DEF CreateWait, bounds
  <2>3. b \in Batches[u] /\ b \in Keys
    BY <1>0
  <2>4. wait' \in [Users -> SUBSET Keys] /\ sent' \in [Users -> SUBSET Keys]
    BY <1>0, <2>1, <2>3
  <2>5. PICK w : w = [pc |-> "created", batch |-> b]
    OBVIOUS
  <2>6. /\ writer' = [v \in Users |-> writer'[v]] /\ writer'[u] = w
        /\ \A v \in Users : v # u => writer'[v] = writer[v]
    BY <1>0, <2>1, <2>5
  <2>7. w = [pc |-> w.pc, batch |-> w.batch] /\ w.batch = b
    BY <2>5
  <2>8. \A v \in Users : writer'[v] = [pc |-> writer'[v].pc, batch |-> writer'[v].batch]
    BY <1>0, <2>6, <2>7
  <2>9. /\ wait'[u] = wait[u] \cup {b} /\ sent'[u] = sent[u] \ {b}
        /\ \A v \in Users : v # u => wait'[v] = wait[v] /\ sent'[v] = sent[v]
    BY <1>0, <2>1
  <2>10. \A v \in Users : ClientOK(v) => ClientOK(v)'
    BY <1>0, <2>3, <2>6, <2>7, <2>9 DEF ClientOK
  <2> QED BY <2>2, <2>4, <2>6, <2>8, <2>10, QuietStep
<1>3. CASE FillWait(u)
  <2>1. UNCHANGED <<sent, inbox, started, job, pool, ledger>> /\ (OpenWait(u) \/ WriteLine(u) \/ CloseWait(u))
    BY <1>3 DEF FillWait, bounds
  <2>2. CASE OpenWait(u)
    <3>1. PICK w : w = [writer[u] EXCEPT !.pc = "open"]
      OBVIOUS
    <3>2. PICK b : b = writer[u].batch
      OBVIOUS
    <3>3. /\ writer[u].pc = "created" /\ writer' = [writer EXCEPT ![u] = w]
          /\ wait' = [wait EXCEPT ![u] = @ \cup {b}]
      BY <2>2, <3>1, <3>2 DEF OpenWait
    <3>4. w = [pc |-> w.pc, batch |-> w.batch] /\ w.batch = b
      BY <1>0, <3>1, <3>2
    <3>5. /\ writer' = [v \in Users |-> writer'[v]] /\ writer'[u] = w
          /\ \A v \in Users : v # u => writer'[v] = writer[v]
      BY <1>0, <3>3
    <3>6. b \in Batches[u] /\ b \in Keys
      BY <1>0, <3>2, <3>3
    <3>7. /\ wait' \in [Users -> SUBSET Keys] /\ wait'[u] = wait[u] \cup {b}
          /\ \A v \in Users : v # u => wait'[v] = wait[v]
      BY <1>0, <3>3, <3>6
    <3>8. \A v \in Users : writer'[v] = [pc |-> writer'[v].pc, batch |-> writer'[v].batch]
      BY <1>0, <3>4, <3>5
    <3>9. \A v \in Users : ClientOK(v) => ClientOK(v)'
      BY <1>0, <2>1, <3>4, <3>5, <3>6, <3>7 DEF ClientOK
    <3> QED BY <1>0, <2>1, <3>5, <3>7, <3>8, <3>9, QuietStep
  <2>3. CASE WriteLine(u)
    BY <1>0, <2>1, <2>3, QuietStep DEF WriteLine, ClientOK
  <2>4. CASE CloseWait(u)
    <3>1. wait' = wait /\ writer' = [writer EXCEPT ![u] = NoWriter]
      BY <2>4 DEF CloseWait
    <3>2. /\ writer' = [v \in Users |-> writer'[v]] /\ writer'[u] = NoWriter
          /\ \A v \in Users : v # u => writer'[v] = writer[v]
      BY <1>0, <3>1
    <3>3. NoWriter = [pc |-> NoWriter.pc, batch |-> NoWriter.batch] /\ NoWriter.pc = "none"
      BY DEF NoWriter
    <3>4. \A v \in Users : writer'[v] = [pc |-> writer'[v].pc, batch |-> writer'[v].batch]
      BY <1>0, <3>2, <3>3
    <3>5. \A v \in Users : ClientOK(v) => ClientOK(v)'
      BY <2>1, <3>1, <3>2, <3>3 DEF ClientOK
    <3> QED BY <1>0, <2>1, <3>1, <3>2, <3>4, <3>5, QuietStep
  <2> QED BY <2>1, <2>2, <2>3, <2>4
<1>4. CASE ReadDate(u) \/ WriteLog(u)
  <2>1. UNCHANGED <<wait, sent, writer, inbox, started, job, pool, ledger>>
    BY <1>4 DEF ReadDate, WriteLog, bounds
  <2> QED BY <1>0, <2>1, QuietStep DEF ClientOK
<1>5. CASE DeleteWait(u)
  <2>1. UNCHANGED <<sent, writer, inbox, started, job, pool, ledger>>
    BY <1>5 DEF DeleteWait, bounds
  <2>2. PICK b : b = poll[u].batch
    OBVIOUS
  <2>3. UNCHANGED wait \/ wait' = [wait EXCEPT ![u] = @ \ {b}]
    BY <1>5, <2>2 DEF DeleteWait
  <2>4. wait' \in [Users -> SUBSET Keys] /\ \A v \in Users : wait'[v] \subseteq wait[v]
    BY <1>0, <2>3
  <2>5. \A v \in Users : ClientOK(v) => ClientOK(v)'
    BY <2>1, <2>4 DEF ClientOK
  <2> QED BY <1>0, <2>1, <2>4, <2>5, QuietStep
<1>6. CASE \E b \in wait[u] : AskFin(u, b)
  <2>1. PICK b \in wait[u] : AskFin(u, b)
    BY <1>6
  <2> DEFINE r == [kind |-> "isfin", batch |-> b, no |-> 0]
  <2>2. r \in Requests /\ r.batch \in Batches[u] /\ r.kind = "isfin"
    BY <1>0 DEF Requests
  <2>3. inbox' = [inbox EXCEPT ![u] = Append(@, r)]
    BY <2>1 DEF AskFin, Send
  <2>4. UNCHANGED <<wait, sent, writer, started, job, pool, ledger>>
    BY <2>1 DEF AskFin, bounds
  <2>5. \A v \in Users : ClientOK(v) => ClientOK(v)'
    BY <2>4 DEF ClientOK
  <2> HIDE DEF r
  <2> QED BY <1>0, <2>2, <2>3, <2>4, <2>5, SendStep
<1> QED BY <1>1, <1>2, <1>3, <1>4, <1>5, <1>6 DEF DoBatchAudit, HandleFin

LEMMA DamageStep ==
  ASSUME BatchInv, Damage
  PROVE  BatchInv'
BY QuietStep DEF Damage, client, bounds, BatchInv, Shapes, ClientOK

----------------------------------------------------------------------------
(* The handlers *)

LEMMA DraftOK ==
  ASSUME NEW u \in Users
  PROVE  /\ Draft \in Assets /\ Draft.kind = "challenge"
         /\ Rec(Free) /\ Free.pc = "free" /\ Free.stage = "challenge" /\ Free.futures = {}
         /\ Free.asset = Draft
<1>1. (CHOOSE v \in Users : TRUE) \in Users
  OBVIOUS
<1>2. <<>> \in Keys
  <2>1. Cardinality(Files) \in Nat
    BY BatchAssumption, FS_CardinalityType
  <2>2. <<>> \in [1 .. 0 -> Files] /\ 0 \in 0 .. Cardinality(Files)
    BY <2>1
  <2> QED BY <2>2 DEF Keys
<1>3. Draft \in Assets /\ Draft.kind = "challenge"
  BY <1>1, <1>2 DEF Draft, Assets
<1> QED BY <1>3 DEF Free, Rec

\* A handler that has begun, or that is over, has no task and no result.
LEMMA FreshLocal ==
  ASSUME NEW u \in Users, job'[u].pc \in {"fork", "free"} \cup Asking, job'[u].stage = "challenge",
         job'[u].pc # "free" => job'[u].batch \in Batches[u],
         job'[u].asset = Draft, job'[u].futures = {}
  PROVE  LocalOK(u)'
<1>1. FuturesOK(u)'
  BY DEF FuturesOK, Asking
<1>2. OutsOK(u)'
  BY DEF OutsOK, Asking
<1>3. StageOK(u)'
  BY DraftOK DEF StageOK, Asking, Pcs, AllStages
<1> QED BY <1>1, <1>2, <1>3 DEF LocalOK

LEMMA FreeHolds ==
  ASSUME NEW u \in Users, job'[u] = Free, NEW n \in 1 .. 3
  PROVE  ~Holds(u, Stages[n])'
<1>1. ~Holds(u, "challenge")' /\ ~Holds(u, "proof")' /\ ~Holds(u, "result")'
  BY DraftOK DEF Holds, At, In
<1> QED BY <1>1, StageNames

LEMMA StopStep ==
  ASSUME BatchInv, NEW u \in Users, Stop(u), UNCHANGED <<wait, sent, writer, inbox, started, pool>>, LedgerOK'
  PROVE  BatchInv'
<1>1. Become(u, Free) /\ job'[u] = Free
  BY DEF Stop, Become, BatchInv, Shapes
<1>2. LocalOK(u)'
  BY <1>1, DraftOK, FreshLocal
<1>3. \A s \in Ssps : HeldOK(s)'
  BY <1>1, FreeHolds, HeldShrinks DEF BatchInv
<1> QED BY <1>1, <1>2, <1>3, DraftOK, HandlerStep DEF Pcs

LEMMA ReceiveStep ==
  ASSUME BatchInv, NEW u \in Users, Receive(u)
  PROVE  BatchInv'
<1> DEFINE q == inbox[u]
<1>1. PICK r : r = Head(inbox[u])
  OBVIOUS
<1>2. PICK j : j = [Free EXCEPT !.pc = IF r.kind = "publish" THEN "fork" ELSE "range",
                                !.no = r.no, !.batch = r.batch]
  OBVIOUS
<1>3. /\ Become(u, j) /\ job[u].pc = "free" /\ q # <<>> /\ Enough(Home[u])
      /\ inbox' = [inbox EXCEPT ![u] = Tail(@)]
      /\ UNCHANGED <<wait, sent, writer, started, pool, ledger>>
  BY <1>1, <1>2 DEF Receive, At, client, bounds
<1>4. /\ q \in Seq(Requests) /\ inbox'[u] = Tail(q) /\ job'[u] = j
      /\ \A v \in Users : v # u => inbox'[v] = inbox[v] /\ job'[v] = job[v]
  BY <1>3 DEF BatchInv, Shapes, Become
<1>5. /\ Tail(q) \in Seq(Requests) /\ 1 \in DOMAIN q /\ r = q[1] /\ r \in Requests
      /\ \A n \in DOMAIN Tail(q) : n \in Nat /\ n + 1 \in DOMAIN q /\ Tail(q)[n] = q[n + 1] /\ n + 1 # 1
  BY <1>1, <1>3, <1>4, TailAt
<1>6. /\ j.pc = (IF r.kind = "publish" THEN "fork" ELSE "range") /\ j.no = r.no /\ j.batch = r.batch
      /\ j.stage = "challenge" /\ j.asset = Draft /\ j.futures = {} /\ Rec(j)
  BY <1>2 DEF Free, Rec
<1>7. UserOK(u)
  BY DEF BatchInv
<1>8. Shapes'
  <2>1. inbox' \in [Users -> Seq(Requests)]
    BY <1>3, <1>5 DEF BatchInv, Shapes
  <2>2. job' = [v \in Users |-> job'[v]] /\ \A v \in Users : Rec(job'[v])
    BY <1>3, <1>4, <1>6 DEF BatchInv, Shapes, Become
  <2> QED BY <1>3, <2>1, <2>2 DEF BatchInv, Shapes, pool, Rec
<1>9. \A s : Tasks(s)' = Tasks(s)
  BY <1>3 DEF Tasks, pool
<1>10. LocalOK(u)'
  <2>1. j.pc \in {"fork", "free"} \cup Asking /\ r.batch \in Batches[u]
    BY <1>5, <1>6, <1>7 DEF Asking, UserOK, NumbersOK
  <2> QED BY <1>4, <1>6, <2>1, FreshLocal
<1>11. NumbersOK(u)'
  <2>1. \A n \in DOMAIN Tail(q) :
          /\ Tail(q)[n].batch \in Batches[u]
          /\ Tail(q)[n].kind = "publish" => Tail(q)[n].no \in 1 .. started[u]
    BY <1>5, <1>7 DEF UserOK, NumbersOK
  <2>2. ASSUME NEW m \in DOMAIN Tail(q), NEW n \in DOMAIN Tail(q),
               Tail(q)[m].kind = "publish", Tail(q)[n].kind = "publish", Tail(q)[m].no = Tail(q)[n].no
        PROVE  m = n
    <3>1. m + 1 = n + 1
      BY <1>5, <1>7, <2>2 DEF UserOK, NumbersOK
    <3> QED BY <1>5, <3>1
  <2>3. j.pc \in Pcs =>
          /\ j.no \in 1 .. started[u]
          /\ \A n \in DOMAIN Tail(q) : Tail(q)[n].kind = "publish" => Tail(q)[n].no # j.no
    <3> SUFFICES ASSUME j.pc \in Pcs
                 PROVE  /\ j.no \in 1 .. started[u]
                        /\ \A n \in DOMAIN Tail(q) : Tail(q)[n].kind = "publish" => Tail(q)[n].no # j.no
      OBVIOUS
    <3>1. r.kind = "publish"
      BY <1>6 DEF Pcs
    <3> QED BY <1>5, <1>6, <1>7, <3>1 DEF UserOK, NumbersOK
  <2>4. \A s \in Ssps : \A t \in Tasks(s) : t.user = u =>
          /\ t.no \in 1 .. started[u]
          /\ \A n \in DOMAIN Tail(q) : Tail(q)[n].kind = "publish" => Tail(q)[n].no # t.no
    BY <1>5, <1>7 DEF UserOK, NumbersOK
  <2>5. inbox'[u] = Tail(q) /\ job'[u] = j /\ started' = started
    BY <1>3, <1>4
  <2> HIDE DEF q
  <2> QED BY <1>9, <2>1, <2>2, <2>3, <2>4, <2>5 DEF NumbersOK
<1>12. TasksOK(u)'
  <2>1. j.pc \in Pcs => \A s \in Ssps : \A t \in Tasks(s) : t.user = u => t.no # j.no
    <3>1. j.pc \in Pcs => r.kind = "publish"
      BY <1>6 DEF Pcs
    <3> QED BY <1>5, <1>6, <1>7, <3>1 DEF UserOK, NumbersOK
  <2> QED BY <1>4, <1>9, <2>1 DEF TasksOK
<1>13. UserOK(u)'
  <2>1. ClientOK(u)'
    BY <1>3, <1>7 DEF UserOK, ClientOK
  <2> QED BY <1>10, <1>11, <1>12, <2>1 DEF UserOK
<1>14. ASSUME NEW v \in Users, v # u PROVE UserOK(v)'
  BY <1>3, <1>4, <1>9, <1>14, UserStays DEF BatchInv, ClientOK
<1>15. \A s \in Ssps : QueueOK(s)'
  BY <1>3, <1>9 DEF BatchInv, QueueOK, Place, pool
<1>16. \A s \in Ssps : HeldOK(s)'
  <2>1. Place(u, Stages[1]) = Home[u]
    BY StageNames DEF Place
  <2>2. ~Holds(u, Stages[2])' /\ ~Holds(u, Stages[3])'
    BY <1>4, <1>6, StageNames DEF Holds, At, In
  <2>3. \A n \in 1 .. 3 : n # 1 => (Holds(u, Stages[n])' => Holds(u, Stages[n]))
    BY <2>2
  <2> QED BY <1>3, <2>1, <2>3, HeldGrows DEF BatchInv
<1>17. LedgerOK'
  BY <1>3, LedgerStays DEF BatchInv
<1> QED BY <1>8, <1>13, <1>14, <1>15, <1>16, <1>17 DEF BatchInv

----------------------------------------------------------------------------
(* The tasks of a handler *)

LEMMA ItemsShape ==
  ASSUME BatchInv, NEW u \in Users, job[u].pc \in Pcs
  PROVE  Items(u) \in Keys /\ \E n \in Nat : n <= Cardinality(Files) /\ Items(u) \in [1 .. n -> Files]
<1>1. UserOK(u) /\ Batches[u] \subseteq Keys
  BY BatchAssumption DEF BatchInv
<1>2. job[u].batch \in Keys
  BY <1>1 DEF UserOK, LocalOK, StageOK, Pcs
<1>3. job[u].asset.ts \in Keys
  BY <1>1 DEF UserOK, LocalOK, StageOK, Assets
<1> QED BY <1>2, <1>3, KeyShape DEF Items

LEMMA TaskShape ==
  ASSUME BatchInv, NEW u \in Users, job[u].pc \in Pcs, NEW i \in DOMAIN Items(u)
  PROVE  /\ Task(u, i) \in AllTasks /\ Task(u, i).user = u /\ Task(u, i).no = job[u].no
         /\ Task(u, i).stage = job[u].stage /\ Task(u, i).i = i /\ Task(u, i).file = Items(u)[i]
<1>1. UserOK(u)
  BY DEF BatchInv
<1>2. PICK n \in Nat : Items(u) \in [1 .. n -> Files]
  BY ItemsShape
<1>3. i \in Nat /\ Items(u)[i] \in Files /\ started[u] \in Nat /\ job[u].no \in Nat
      /\ job[u].stage \in AllStages
  BY <1>1, <1>2 DEF UserOK, NumbersOK, BatchInv, Shapes, LocalOK, StageOK
<1>4. (IF In(u, "challenge") THEN 0 ELSE job[u].asset.blocks[i]) \in Nat
  <2>1. CASE In(u, "challenge")
    BY <2>1
  <2>2. CASE ~In(u, "challenge")
    <3>1. Drawn(u, job[u].asset)
      BY <1>1, <2>2 DEF In, UserOK, LocalOK, StageOK
    <3>2. i \in DOMAIN job[u].asset.ts /\ job[u].asset.ts[i] = Items(u)[i]
      BY <2>2 DEF Items
    <3>3. job[u].asset.blocks[i] \in Index(Items(u)[i])
      BY <3>1, <3>2 DEF Drawn
    <3>4. Blocks[Items(u)[i]] \in Nat
      BY <1>3, BatchAssumption
    <3> QED BY <2>2, <3>3, <3>4 DEF Index
  <2> QED BY <2>1, <2>2
<1>5. (IF In(u, "result") THEN job[u].asset.proofs[i] ELSE NoProof) \in Answers
  <2>1. NoProof \in Answers
    BY BatchAssumption DEF NoProof, Answers
  <2>2. ASSUME In(u, "result") PROVE job[u].asset.proofs[i] \in Answers
    <3>1. Summed(job[u].asset) /\ job[u].asset.proofs \in Seq(Answers)
      BY <1>1, <2>2 DEF In, UserOK, LocalOK, StageOK, Assets, Answers
    <3>2. i \in DOMAIN job[u].asset.proofs
      BY <2>2, <3>1 DEF Summed, Items, In
    <3> QED BY <3>1, <3>2
  <2> QED BY <2>1, <2>2
<1>6. Task(u, i) = [user |-> u, no |-> job[u].no, stage |-> job[u].stage, i |-> i, file |-> Items(u)[i],
                    block |-> IF In(u, "challenge") THEN 0 ELSE job[u].asset.blocks[i],
                    proof |-> IF In(u, "result") THEN job[u].asset.proofs[i] ELSE NoProof]
  BY DEF Task
<1>7. PICK x \in Nat, y \in Answers : Task(u, i) =
        [user |-> u, no |-> job[u].no, stage |-> job[u].stage, i |-> i, file |-> Items(u)[i],
         block |-> x, proof |-> y]
  BY <1>4, <1>5, <1>6
<1> QED BY <1>3, <1>7 DEF AllTasks

LEMMA ConcatAt ==
  ASSUME NEW T, NEW q \in Seq(T), NEW n \in Nat, NEW f \in [1 .. n -> T]
  PROVE  /\ q \o f \in Seq(T)
         /\ \A k \in DOMAIN (q \o f) :
              \/ k \in DOMAIN q /\ (q \o f)[k] = q[k]
              \/ \E i \in DOMAIN f : k = Len(q) + i /\ (q \o f)[k] = f[i]
<1>1. f \in Seq(T) /\ Len(f) = n /\ DOMAIN f = 1 .. n
  OBVIOUS
<1>2. q \o f \in Seq(T) /\ DOMAIN (q \o f) = 1 .. Len(q) + Len(f)
  BY <1>1
<1>3. ASSUME NEW k \in 1 .. Len(q) + Len(f)
      PROVE  \/ k \in DOMAIN q /\ (q \o f)[k] = q[k]
             \/ \E i \in DOMAIN f : k = Len(q) + i /\ (q \o f)[k] = f[i]
  <2>1. CASE k <= Len(q)
    BY <1>1, <1>3, <2>1
  <2>2. CASE ~(k <= Len(q))
    <3>1. k - Len(q) \in DOMAIN f /\ k = Len(q) + (k - Len(q))
      BY <1>1, <1>3, <2>2
    <3>2. (q \o f)[k] = f[k - Len(q)]
      BY <1>1, <1>3, <2>2
    <3> QED BY <3>1, <3>2
  <2> QED BY <2>1, <2>2
<1> QED BY <1>2, <1>3

\* The futures of a handler are about its items, whatever its futures are.
LEMMA FutureStays ==
  ASSUME NEW u \in Users, job'[u].stage = job[u].stage, job'[u].batch = job[u].batch,
         job'[u].asset = job[u].asset
  PROVE  /\ Items(u)' = Items(u) /\ Kept(u)' = Kept(u)
         /\ \A i, value : Fits(u, i, value)' = Fits(u, i, value)
         /\ \A f : FutureOK(u, f)' = FutureOK(u, f)
         /\ job'[u].no = job[u].no => \A i : Task(u, i)' = Task(u, i)
<1>1. \A stage : In(u, stage)' = In(u, stage)
  BY DEF In
<1>2. Items(u)' = Items(u)
  BY <1>1 DEF Items
<1>3. \A i : Withheld(u, i)' = Withheld(u, i)
  BY <1>1 DEF Withheld
<1>4. \A i, value : Fits(u, i, value)' = Fits(u, i, value)
  BY <1>1 DEF Fits, Right
<1>5. Kept(u)' = Kept(u)
  BY <1>2, <1>3 DEF Kept
<1>6. \A f : FutureOK(u, f)' = FutureOK(u, f)
  BY <1>2, <1>3, <1>4 DEF FutureOK
<1>7. job'[u].no = job[u].no => \A i : Task(u, i)' = Task(u, i)
  BY <1>1, <1>2 DEF Task
<1> QED BY <1>2, <1>4, <1>5, <1>6, <1>7

LEMMA ForkStep ==
  ASSUME BatchInv, NEW u \in Users, Fork(u)
  PROVE  BatchInv'
<1>1. /\ job[u].pc = "fork"
      /\ UNCHANGED <<wait, sent, writer, inbox, started, running, ledger>>
  BY DEF Fork, At, client, bounds
<1>2. CASE Items(u) = <<>>
  <2>1. Stop(u) /\ UNCHANGED pool
    BY <1>1, <1>2 DEF Fork, pool
  <2>2. LedgerOK'
    BY <1>1, LedgerStays DEF BatchInv
  <2> QED BY <1>1, <2>1, <2>2, StopStep
<1>3. CASE Items(u) # <<>>
  <2>1. PICK f : f = [i \in DOMAIN Items(u) |-> Task(u, i)]
    OBVIOUS
  <2>2. PICK j : j = [job[u] EXCEPT !.pc = "collect"]
    OBVIOUS
  <2>3. queue' = [queue EXCEPT ![Here(u)] = @ \o f] /\ Become(u, j)
    BY <1>3, <2>1, <2>2 DEF Fork, Goto
  <2>4. UserOK(u) /\ job[u].pc \in Pcs /\ Rec(job[u])
    BY <1>1 DEF BatchInv, Shapes, Pcs
  <2>5. /\ j.pc = "collect" /\ j.no = job[u].no /\ j.stage = job[u].stage /\ j.batch = job[u].batch
        /\ j.asset = job[u].asset /\ j.futures = job[u].futures /\ Rec(j)
    BY <2>2, <2>4 DEF Rec
  <2>6. job'[u] = j /\ \A v \in Users : v # u => job'[v] = job[v]
    BY <2>3 DEF BatchInv, Shapes, Become
  <2>7. Retired(u)
    BY <1>1, <2>4, NoTasks
  <2>8. \A i \in DOMAIN f : /\ i \in DOMAIN Items(u) /\ f[i] = Task(u, i) /\ f[i] \in AllTasks
                            /\ f[i].user = u /\ f[i].no = job[u].no /\ f[i].stage = job[u].stage
                            /\ f[i].i = i
    BY <2>1, <2>4, TaskShape
  <2>9. PICK n \in Nat : DOMAIN Items(u) = 1 .. n
    BY <2>4, ItemsShape
  <2>10. f \in [1 .. n -> AllTasks]
    BY <2>1, <2>8, <2>9
  <2>11. PICK h \in Ssps : h = Here(u)
    BY BatchAssumption DEF Here, Place, Ssps, Other
  <2>12. PICK q \in Seq(AllTasks) : q = queue[h]
    BY DEF BatchInv, Shapes
  <2>13. /\ queue'[h] = q \o f /\ \A s \in Ssps : s # h => queue'[s] = queue[s]
         /\ queue' = [queue EXCEPT ![h] = q \o f]
    BY <2>3, <2>11, <2>12 DEF BatchInv, Shapes
  <2>14. /\ q \o f \in Seq(AllTasks)
         /\ \A k \in DOMAIN (q \o f) :
              \/ k \in DOMAIN q /\ (q \o f)[k] = q[k]
              \/ \E i \in DOMAIN f : k = Len(q) + i /\ (q \o f)[k] = f[i]
    BY <2>10, ConcatAt
  <2>15. \A s \in Ssps : \A t \in Tasks(s)' :
           t \in Tasks(s) \/ (s = h /\ \E i \in DOMAIN f : t = f[i])
    <3> SUFFICES ASSUME NEW s \in Ssps, NEW t \in Tasks(s)'
                 PROVE  t \in Tasks(s) \/ (s = h /\ \E i \in DOMAIN f : t = f[i])
      OBVIOUS
    <3>1. t \in running[s] \/ \E k \in DOMAIN queue'[s] : t = queue'[s][k]
      BY <1>1 DEF Tasks
    <3>2. CASE s = h
      BY <2>12, <2>13, <2>14, <3>1, <3>2 DEF Tasks
    <3>3. CASE s # h
      BY <2>13, <3>1, <3>3 DEF Tasks
    <3> QED BY <3>2, <3>3
  <2>16. Shapes'
    <3>1. queue' \in [Ssps -> Seq(AllTasks)]
      BY <2>13, <2>14 DEF BatchInv, Shapes
    <3>2. job' = [v \in Users |-> job'[v]] /\ \A v \in Users : Rec(job'[v])
      BY <2>3, <2>5, <2>6 DEF BatchInv, Shapes, Become
    <3> QED BY <1>1, <3>1, <3>2 DEF BatchInv, Shapes, Rec
  <2>17. LocalOK(u)'
    <3>1. job[u].futures = {}
      BY <1>1, <2>4 DEF UserOK, LocalOK, FuturesOK
    <3>2. FuturesOK(u)'
      BY <2>5, <2>6, <3>1 DEF FuturesOK
    <3>3. OutsOK(u)'
      BY <2>5, <2>6 DEF OutsOK
    <3>4. StageOK(u)'
      BY <1>1, <2>4, <2>5, <2>6 DEF UserOK, LocalOK, StageOK, Pcs, Asking
    <3> QED BY <3>2, <3>3, <3>4 DEF LocalOK
  <2>18. NumbersOK(u)'
    <3>1. \A s \in Ssps : \A t \in Tasks(s)' : t.user = u => t \in Tasks(s) \/ t.no = job[u].no
      BY <2>8, <2>15
    <3> QED BY <1>1, <2>4, <2>5, <2>6, <3>1 DEF UserOK, NumbersOK
  <2>19. TasksOK(u)'
    <3> SUFFICES ASSUME NEW s \in Ssps, NEW t \in Tasks(s)', t.user = u, t.no = job[u].no
                 PROVE  /\ t.stage = job[u].stage /\ t.i \in DOMAIN Items(u)'
                        /\ t = Task(u, t.i)' /\ ~Done(u, t.i)'
      BY <2>5, <2>6 DEF TasksOK
    <3>1. PICK i \in DOMAIN f : t = f[i]
      BY <2>7, <2>15 DEF Retired
    <3>2. t.i = i /\ i \in DOMAIN Items(u) /\ t = Task(u, i) /\ t.stage = job[u].stage
      BY <2>8, <3>1
    <3>3. Items(u)' = Items(u) /\ Task(u, i)' = Task(u, i)
      BY <2>5, <2>6, FutureStays
    <3>4. job'[u].futures = {}
      BY <1>1, <2>4, <2>5, <2>6 DEF UserOK, LocalOK, FuturesOK
    <3> QED BY <3>2, <3>3, <3>4 DEF Done
  <2>20. UserOK(u)'
    BY <1>1, <2>4, <2>17, <2>18, <2>19 DEF UserOK, ClientOK
  <2>21. ASSUME NEW v \in Users, v # u PROVE UserOK(v)'
    <3>1. \A s \in Ssps : \A t \in Tasks(s)' : t.user = v => t \in Tasks(s)
      BY <2>8, <2>15, <2>21
    <3> QED BY <1>1, <2>6, <2>21, <3>1, UserStays DEF BatchInv, ClientOK
  <2>22. ASSUME NEW s \in Ssps PROVE QueueOK(s)'
    <3>1. QueueOK(s)
      BY DEF BatchInv
    <3>2. \A t \in Tasks(s)' : Place(t.user, t.stage) = s
      BY <2>8, <2>11, <2>15, <3>1 DEF QueueOK, Here
    <3>3. CASE s # h
      BY <1>1, <2>13, <3>1, <3>2, <3>3 DEF QueueOK
    <3>4. CASE s = h
      <4>1. \A k \in DOMAIN q : q[k] \in Tasks(h)
        BY <2>12 DEF Tasks
      <4>2. \A t \in Tasks(h) : t.user = u => t.no # job[u].no
        BY <2>7 DEF Retired
      <4>3. ASSUME NEW m \in DOMAIN (q \o f), NEW k \in DOMAIN (q \o f), (q \o f)[m] = (q \o f)[k]
            PROVE  m = k
        <5>1. CASE (m \in DOMAIN q /\ (q \o f)[m] = q[m]) /\ (k \in DOMAIN q /\ (q \o f)[k] = q[k])
          BY <2>12, <3>1, <3>4, <4>3, <5>1 DEF QueueOK
        <5>2. CASE (m \in DOMAIN q /\ (q \o f)[m] = q[m])
                   /\ \E i \in DOMAIN f : k = Len(q) + i /\ (q \o f)[k] = f[i]
          BY <2>8, <4>1, <4>2, <4>3, <5>2
        <5>3. CASE (k \in DOMAIN q /\ (q \o f)[k] = q[k])
                   /\ \E i \in DOMAIN f : m = Len(q) + i /\ (q \o f)[m] = f[i]
          BY <2>8, <4>1, <4>2, <4>3, <5>3
        <5>4. CASE /\ \E i \in DOMAIN f : m = Len(q) + i /\ (q \o f)[m] = f[i]
                   /\ \E i \in DOMAIN f : k = Len(q) + i /\ (q \o f)[k] = f[i]
          BY <2>8, <4>3, <5>4
        <5> QED BY <2>14, <5>1, <5>2, <5>3, <5>4
      <4>4. \A k \in DOMAIN (q \o f) : (q \o f)[k] \notin running[h]
        <5>1. \A k \in DOMAIN q : q[k] \notin running[h]
          BY <2>12, <3>1, <3>4 DEF QueueOK
        <5>2. \A i \in DOMAIN f : f[i] \notin running[h]
          BY <2>8, <4>2 DEF Tasks
        <5> QED BY <2>14, <5>1, <5>2
      <4> QED BY <1>1, <2>13, <3>1, <3>2, <3>4, <4>3, <4>4 DEF QueueOK
    <3> QED BY <3>3, <3>4
  <2>23. \A s \in Ssps : HeldOK(s)'
    <3>1. \A n2 \in 1 .. 3 : Holds(u, Stages[n2])' => Holds(u, Stages[n2])
      BY <1>1, <2>5, <2>6, StageNames DEF Holds, At, In
    <3> QED BY <2>3, <3>1, HeldShrinks DEF BatchInv
  <2>24. LedgerOK'
    BY <1>1, LedgerStays DEF BatchInv
  <2> QED BY <2>16, <2>20, <2>21, <2>22, <2>23, <2>24 DEF BatchInv
<1> QED BY <1>2, <1>3

----------------------------------------------------------------------------
(* The pools *)

LEMMA StartTaskStep ==
  ASSUME BatchInv, NEW s \in Ssps, StartTask(s)
  PROVE  BatchInv'
<1>1. PICK q \in Seq(AllTasks) : q = queue[s]
  BY DEF BatchInv, Shapes
<1>2. PICK t : t = Head(q)
  OBVIOUS
<1>3. PICK R \in SUBSET AllTasks : R = running[s]
  BY DEF BatchInv, Shapes
<1>4. /\ q # <<>> /\ Cardinality(R) < PoolThreads
      /\ running' = [running EXCEPT ![s] = R \cup {t}] /\ queue' = [queue EXCEPT ![s] = Tail(q)]
      /\ UNCHANGED <<wait, sent, writer, inbox, started, job, ledger>>
  BY <1>1, <1>2, <1>3 DEF StartTask, client, bounds
<1>5. /\ Tail(q) \in Seq(AllTasks) /\ 1 \in DOMAIN q /\ t = q[1] /\ t \in AllTasks
      /\ \A n \in DOMAIN Tail(q) : n \in Nat /\ n + 1 \in DOMAIN q /\ Tail(q)[n] = q[n + 1] /\ n + 1 # 1
  BY <1>2, <1>4, TailAt
<1>6. /\ running'[s] = R \cup {t} /\ queue'[s] = Tail(q)
      /\ \A r \in Ssps : r # s => running'[r] = running[r] /\ queue'[r] = queue[r]
  BY <1>4 DEF BatchInv, Shapes
<1>7. Shapes'
  <2>1. running' \in [Ssps -> SUBSET AllTasks] /\ queue' \in [Ssps -> Seq(AllTasks)]
    BY <1>4, <1>5 DEF BatchInv, Shapes
  <2> QED BY <1>4, <2>1 DEF BatchInv, Shapes, Rec
<1>8. \A r \in Ssps : \A x \in Tasks(r)' : x \in Tasks(r)
  <2> SUFFICES ASSUME NEW r \in Ssps, NEW x \in Tasks(r)' PROVE x \in Tasks(r)
    OBVIOUS
  <2>1. x \in running'[r] \/ \E n \in DOMAIN queue'[r] : x = queue'[r][n]
    BY DEF Tasks
  <2>2. CASE r = s
    <3>1. \A n \in DOMAIN q : q[n] \in Tasks(s)
      BY <1>1 DEF Tasks
    <3>2. \A y \in R : y \in Tasks(s)
      BY <1>3 DEF Tasks
    <3>3. x \in R \cup {t} \/ \E n \in DOMAIN Tail(q) : x = Tail(q)[n]
      BY <1>6, <2>1, <2>2
    <3> QED BY <1>5, <2>2, <3>1, <3>2, <3>3
  <2>3. CASE r # s
    BY <1>6, <2>1, <2>3 DEF Tasks
  <2> QED BY <2>2, <2>3
<1>9. \A v \in Users : UserOK(v)'
  BY <1>4, <1>8, UserStays DEF BatchInv, ClientOK
<1>10. ASSUME NEW r \in Ssps PROVE QueueOK(r)'
  <2>1. QueueOK(r)
    BY DEF BatchInv
  <2>2. \A x \in Tasks(r)' : Place(x.user, x.stage) = r
    BY <1>8, <2>1 DEF QueueOK
  <2>3. CASE r # s
    BY <1>6, <2>1, <2>2, <2>3 DEF QueueOK
  <2>4. CASE r = s
    <3>1. /\ \A m, n \in DOMAIN q : q[m] = q[n] => m = n
          /\ \A n \in DOMAIN q : q[n] \notin R
          /\ IsFiniteSet(R)
      BY <1>1, <1>3, <2>1, <2>4 DEF QueueOK
    <3>2. ASSUME NEW m \in DOMAIN Tail(q), NEW n \in DOMAIN Tail(q), Tail(q)[m] = Tail(q)[n]
          PROVE  m = n
      <4>1. m + 1 = n + 1
        BY <1>5, <3>1, <3>2
      <4> QED BY <1>5, <4>1
    <3>3. \A n \in DOMAIN Tail(q) : Tail(q)[n] \notin R \cup {t}
      BY <1>5, <3>1
    <3>4. IsFiniteSet(R \cup {t}) /\ Cardinality(R \cup {t}) = Cardinality(R) + 1
      BY <1>5, <3>1, FS_AddElement
    <3>5. Cardinality(R \cup {t}) <= PoolThreads
      <4>1. Cardinality(R) \in Nat /\ PoolThreads \in Nat
        BY <3>1, FS_CardinalityType, BatchAssumption
      <4> QED BY <1>4, <3>4, <4>1
    <3> QED BY <1>6, <2>2, <2>4, <3>2, <3>3, <3>4, <3>5 DEF QueueOK
  <2> QED BY <2>3, <2>4
<1>11. \A r \in Ssps : HeldOK(r)'
  BY <1>4, HeldStays DEF BatchInv
<1>12. LedgerOK'
  BY <1>4, LedgerStays DEF BatchInv
<1> QED BY <1>7, <1>9, <1>10, <1>11, <1>12 DEF BatchInv

\* What a callable returns is about its item, and only a drawing one throws for the ledger.
LEMMA OutcomeFits ==
  ASSUME BatchInv, NEW u \in Users, job[u].pc = "collect", NEW i \in DOMAIN Items(u),
         NEW s \in Ssps, NEW done \in Outcomes(s, Task(u, i))
  PROVE  /\ done.i = i /\ FutureOK(u, done)
         /\ [done EXCEPT !.out = "thrown"].i = i /\ FutureOK(u, [done EXCEPT !.out = "thrown"])
<1> DEFINE t == Task(u, i)
<1>0. UserOK(u) /\ job[u].pc \in Pcs /\ Blocks \in [Files -> Nat \ {0}]
  BY BatchAssumption DEF BatchInv, Pcs
<1>1. t.user = u /\ t.stage = job[u].stage /\ t.i = i /\ t.file = Items(u)[i] /\ t \in AllTasks
  BY <1>0, TaskShape
<1>2. t.block = (IF In(u, "challenge") THEN 0 ELSE job[u].asset.blocks[i])
      /\ t.proof = (IF In(u, "result") THEN job[u].asset.proofs[i] ELSE NoProof)
  BY DEF Task
<1>3. job[u].stage \in AllStages /\ t.file \in Files
  BY <1>0, <1>1 DEF UserOK, LocalOK, StageOK, AllTasks
<1> HIDE DEF t
<1>4. CASE job[u].stage = "challenge"
  <2>1. done \in Draws(t)
    BY <1>1, <1>4 DEF Outcomes, t
  <2>2. t.file = job[u].batch[i] /\ In(u, "challenge") /\ ~In(u, "proof") /\ ~In(u, "result")
    BY <1>1, <1>4 DEF Items, In
  <2>3. CASE t.file \in Refused[u]
    <3>1. done = [i |-> i, out |-> "null", value |-> 0]
      BY <1>1, <2>1, <2>3 DEF Draws
    <3> QED BY <2>2, <2>3, <3>1 DEF FutureOK, Withheld
  <2>4. CASE t.file \notin Refused[u]
    <3>1. PICK b \in Index(t.file) : done = [i |-> i, out |-> "value", value |-> b]
      BY <1>1, <2>1, <2>4 DEF Draws
    <3> QED BY <2>2, <2>4, <3>1 DEF FutureOK, Withheld, Fits
  <2> QED BY <2>3, <2>4
<1>5. CASE job[u].stage = "proof"
  <2>1. done \in Proofs(s, t)
    BY <1>1, <1>5 DEF Outcomes, t
  <2>2. /\ t.file = job[u].asset.ts[i] /\ t.block = job[u].asset.blocks[i]
        /\ ~In(u, "challenge") /\ In(u, "proof") /\ ~In(u, "result") /\ t.block \in Nat
    BY <1>1, <1>2, <1>5 DEF Items, In, AllTasks
  <2>3. PICK out \in {"thrown", "value"}, ok \in BOOLEAN :
          done = [i |-> i, out |-> out,
                  value |-> [file |-> t.file, block |-> t.block, intact |-> ok]]
    BY <1>1, <2>1 DEF Proofs
  <2>4. done.value \in Answers /\ done.value.file = t.file /\ done.value.block = t.block
    BY <1>3, <2>2, <2>3 DEF Answers
  <2>5. done.i = i /\ done.out \in {"thrown", "value"} /\ [done EXCEPT !.out = "thrown"].i = i
        /\ [done EXCEPT !.out = "thrown"].out = "thrown"
    BY <2>3
  <2> QED BY <2>2, <2>4, <2>5 DEF FutureOK, Withheld, Fits
<1>6. CASE job[u].stage = "result"
  <2>1. done \in Pairings(t)
    BY <1>1, <1>6 DEF Outcomes, t
  <2>2. /\ t.file = job[u].asset.ts[i] /\ t.block = job[u].asset.blocks[i]
        /\ t.proof = job[u].asset.proofs[i]
        /\ ~In(u, "challenge") /\ ~In(u, "proof") /\ In(u, "result")
    BY <1>1, <1>2, <1>6 DEF Items, In
  <2>3. done = [i |-> i, out |-> "value", value |-> Right(job[u].asset, i)]
    BY <1>1, <2>1, <2>2 DEF Pairings, Right
  <2>4. done.i = i /\ done.out = "value" /\ [done EXCEPT !.out = "thrown"].i = i
        /\ [done EXCEPT !.out = "thrown"].out = "thrown" /\ done.value = Right(job[u].asset, i)
    BY <2>3
  <2> QED BY <2>2, <2>4 DEF FutureOK, Withheld, Fits
<1> QED BY <1>3, <1>4, <1>5, <1>6 DEF AllStages

\* A task ends: its future is its handler's, if that still waits for it.
LEMMA EndTaskStep ==
  ASSUME BatchInv, NEW s \in Ssps, NEW t \in running[s], EndTask(s, t)
  PROVE  BatchInv'
<1> DEFINE u == t.user
<1>0. PICK done \in Outcomes(s, t) : \E end \in {done, [done EXCEPT !.out = "thrown"]} :
        job' = IF Wanted(t) THEN [job EXCEPT ![u].futures = @ \cup {end}] ELSE job
  BY DEF EndTask
<1>1. PICK end \in {done, [done EXCEPT !.out = "thrown"]} :
        job' = IF Wanted(t) THEN [job EXCEPT ![u].futures = @ \cup {end}] ELSE job
  BY <1>0
<1>2. /\ running' = [running EXCEPT ![s] = @ \ {t}]
      /\ UNCHANGED <<wait, sent, writer, inbox, started, queue, ledger>>
  BY DEF EndTask, client
<1>3. t \in AllTasks /\ u \in Users /\ t \in Tasks(s) /\ UserOK(u)
  BY DEF BatchInv, Shapes, AllTasks, Tasks
<1> HIDE DEF u
<1>4. /\ running'[s] = running[s] \ {t}
      /\ \A r \in Ssps : r # s => running'[r] = running[r]
      /\ \A r \in Ssps : running'[r] \subseteq running[r]
  BY <1>2 DEF BatchInv, Shapes
<1>5. \A r : \A x \in Tasks(r)' : r \in Ssps => x \in Tasks(r)
  BY <1>2, <1>4 DEF Tasks
<1>6. \A r \in Ssps : \A x \in Tasks(r)' : x # t
  <2> SUFFICES ASSUME NEW r \in Ssps, t \in Tasks(r)' PROVE FALSE
    OBVIOUS
  <2>1. Place(t.user, t.stage) = s /\ t \in Tasks(r) /\ QueueOK(s) /\ QueueOK(r)
    BY <1>3, <1>5 DEF BatchInv, QueueOK
  <2>2. r = s
    BY <2>1 DEF QueueOK
  <2>3. t \in {queue[s][n] : n \in DOMAIN queue[s]}
    BY <1>2, <1>4, <2>2 DEF Tasks
  <2> QED BY <2>1, <2>3 DEF QueueOK
<1>7. ASSUME NEW r \in Ssps PROVE QueueOK(r)'
  <2>1. QueueOK(r)
    BY DEF BatchInv
  <2>2. IsFiniteSet(running'[r]) /\ Cardinality(running'[r]) <= Cardinality(running[r])
    BY <1>4, <2>1, FS_Subset DEF QueueOK
  <2>3. Cardinality(running'[r]) <= PoolThreads
    <3>1. Cardinality(running'[r]) \in Nat /\ Cardinality(running[r]) \in Nat /\ PoolThreads \in Nat
      BY <2>1, <2>2, FS_CardinalityType, BatchAssumption DEF QueueOK
    <3> QED BY <2>1, <2>2, <3>1 DEF QueueOK
  <2>4. \A x \in Tasks(r)' : Place(x.user, x.stage) = r
    BY <1>5, <2>1 DEF QueueOK
  <2>5. /\ \A m, n \in DOMAIN queue[r] : queue[r][m] = queue[r][n] => m = n
        /\ \A n \in DOMAIN queue[r] : queue[r][n] \notin running'[r]
    BY <1>4, <2>1 DEF QueueOK
  <2> QED BY <1>2, <2>2, <2>3, <2>4, <2>5 DEF QueueOK
<1>8. LedgerOK'
  BY <1>2, LedgerStays DEF BatchInv
<1>9. running' \in [Ssps -> SUBSET AllTasks]
  BY <1>2 DEF BatchInv, Shapes
<1>10. CASE ~Wanted(t)
  <2>1. UNCHANGED job
    BY <1>1, <1>10
  <2>2. Shapes'
    BY <1>2, <1>9, <2>1 DEF BatchInv, Shapes, Rec
  <2>3. \A v \in Users : UserOK(v)'
    BY <1>2, <1>5, <2>1, UserStays DEF BatchInv, ClientOK
  <2>4. \A r \in Ssps : HeldOK(r)'
    BY <2>1, HeldStays DEF BatchInv
  <2> QED BY <1>7, <1>8, <2>2, <2>3, <2>4 DEF BatchInv
<1>11. CASE Wanted(t)
  <2>1. job[u].pc = "collect" /\ job[u].no = t.no /\ job[u].stage = t.stage
    BY <1>11 DEF Wanted, u
  <2>2. PICK i \in DOMAIN Items(u) : t = Task(u, i) /\ i = t.i /\ ~Done(u, i)
    BY <1>3, <2>1 DEF UserOK, TasksOK, Pcs, u
  <2>3. end.i = i /\ FutureOK(u, end)
    <3>1. done \in Outcomes(s, Task(u, i))
      BY <2>2
    <3>2. /\ done.i = i /\ FutureOK(u, done)
          /\ [done EXCEPT !.out = "thrown"].i = i /\ FutureOK(u, [done EXCEPT !.out = "thrown"])
      BY <1>3, <2>1, <3>1, OutcomeFits
    <3>3. PICK thrown : thrown = [done EXCEPT !.out = "thrown"]
      OBVIOUS
    <3>4. end = done \/ end = thrown
      BY <1>1, <3>3
    <3>5. thrown.i = i /\ FutureOK(u, thrown)
      BY <3>2, <3>3
    <3> QED BY <3>2, <3>4, <3>5
  <2>4. PICK j : j = [job[u] EXCEPT !.futures = @ \cup {end}]
    OBVIOUS
  <2>5. Become(u, j)
    <3>1. job' = [job EXCEPT ![u].futures = @ \cup {end}]
      BY <1>1, <1>11
    <3> QED BY <2>4, <3>1 DEF Become
  <2>6. Rec(job[u])
    BY <1>3 DEF BatchInv, Shapes
  <2>7. /\ j.pc = "collect" /\ j.no = job[u].no /\ j.stage = job[u].stage /\ j.batch = job[u].batch
        /\ j.asset = job[u].asset /\ j.futures = job[u].futures \cup {end} /\ Rec(j)
    BY <2>1, <2>4, <2>6 DEF Rec
  <2>8. job'[u] = j /\ \A v \in Users : v # u => job'[v] = job[v]
    BY <1>3, <2>5 DEF BatchInv, Shapes, Become
  <2>9. /\ Items(u)' = Items(u) /\ \A f : FutureOK(u, f)' = FutureOK(u, f)
        /\ \A k : Task(u, k)' = Task(u, k)
    BY <1>3, <2>7, <2>8, FutureStays
  <2>10. Shapes'
    <3>1. job' = [v \in Users |-> job'[v]] /\ \A v \in Users : Rec(job'[v])
      BY <2>5, <2>7, <2>8 DEF BatchInv, Shapes, Become
    <3> QED BY <1>2, <1>9, <3>1 DEF BatchInv, Shapes, Rec
  <2>11. FuturesOK(u)'
    <3>1. \A f \in j.futures : FutureOK(u, f)'
      BY <1>3, <2>3, <2>7, <2>9 DEF UserOK, LocalOK, FuturesOK
    <3>2. \A f \in job[u].futures : f.i # i
      BY <2>2 DEF Done
    <3>3. \A f, g \in job[u].futures : f.i = g.i => f = g
      BY <1>3 DEF UserOK, LocalOK, FuturesOK
    <3>4. \A f, g \in j.futures : f.i = g.i => f = g
      BY <2>3, <2>7, <3>2, <3>3
    <3> QED BY <2>7, <2>8, <3>1, <3>4 DEF FuturesOK
  <2>12. OutsOK(u)'
    BY <2>7, <2>8 DEF OutsOK
  <2>13. StageOK(u)'
    BY <1>3, <2>1, <2>7, <2>8 DEF UserOK, LocalOK, StageOK
  <2>14. NumbersOK(u)'
    BY <1>2, <1>3, <1>5, <2>1, <2>7, <2>8 DEF UserOK, NumbersOK
  <2>15. TasksOK(u)'
    <3> SUFFICES ASSUME NEW r \in Ssps, NEW x \in Tasks(r)', x.user = u, x.no = job[u].no
                 PROVE  /\ x.stage = job[u].stage /\ x.i \in DOMAIN Items(u)'
                        /\ x = Task(u, x.i)' /\ ~Done(u, x.i)'
      BY <2>7, <2>8 DEF TasksOK
    <3>1. /\ x.stage = job[u].stage /\ x.i \in DOMAIN Items(u) /\ x = Task(u, x.i) /\ ~Done(u, x.i)
      BY <1>3, <1>5, <2>1 DEF UserOK, TasksOK, Pcs
    <3>2. x.i # i
      BY <1>6, <2>2, <3>1
    <3>3. ~Done(u, x.i)'
      BY <2>3, <2>7, <2>8, <3>1, <3>2 DEF Done
    <3>4. x = Task(u, x.i)'
      BY <2>9, <3>1
    <3> QED BY <2>9, <3>1, <3>3, <3>4
  <2>16. UserOK(u)'
    BY <1>2, <1>3, <2>11, <2>12, <2>13, <2>14, <2>15 DEF UserOK, LocalOK, ClientOK
  <2>17. ASSUME NEW v \in Users, v # u PROVE UserOK(v)'
    BY <1>2, <1>5, <2>8, <2>17, UserStays DEF BatchInv, ClientOK
  <2>18. \A r \in Ssps : HeldOK(r)'
    <3>1. \A n \in 1 .. 3 : Holds(u, Stages[n])' => Holds(u, Stages[n])
      BY <2>1, <2>7, <2>8, StageNames DEF Holds, At, In
    <3> QED BY <1>3, <2>5, <3>1, HeldShrinks DEF BatchInv
  <2> QED BY <1>7, <1>8, <2>10, <2>16, <2>17, <2>18 DEF BatchInv
<1> QED BY <1>10, <1>11

----------------------------------------------------------------------------
(* What the tasks found *)

LEMMA KeptShape ==
  ASSUME BatchInv, NEW u \in Users, job[u].pc \in Pcs
  PROVE  /\ IsFiniteSet(Kept(u)) /\ Kept(u) \subseteq Nat /\ Kept(u) \subseteq DOMAIN Items(u)
         /\ Cardinality(Kept(u)) \in 0 .. Cardinality(Files)
         /\ ~In(u, "challenge") => Kept(u) = DOMAIN Items(u)
<1>1. PICK n \in Nat : n <= Cardinality(Files) /\ Items(u) \in [1 .. n -> Files]
  BY ItemsShape
<1>2. DOMAIN Items(u) = 1 .. n /\ IsFiniteSet(1 .. n) /\ Cardinality(1 .. n) = n
  BY <1>1, FS_Interval, InOrderAll
<1>3. Kept(u) \subseteq DOMAIN Items(u)
  BY DEF Kept
<1>4. IsFiniteSet(Kept(u)) /\ Cardinality(Kept(u)) <= n
  BY <1>2, <1>3, FS_Subset
<1>5. Cardinality(Kept(u)) \in Nat /\ Cardinality(Files) \in Nat
  BY <1>4, FS_CardinalityType, BatchAssumption
<1>6. ~In(u, "challenge") => Kept(u) = DOMAIN Items(u)
  BY DEF Kept, Withheld
<1> QED BY <1>1, <1>2, <1>3, <1>4, <1>5, <1>6

LEMMA CollectStep ==
  ASSUME BatchInv, NEW u \in Users, Collect(u)
  PROVE  BatchInv'
<1>1. /\ job[u].pc = "collect" /\ job[u].pc \in Pcs
      /\ UNCHANGED <<wait, sent, writer, inbox, started, pool, ledger>>
  BY DEF Collect, At, client, bounds, Pcs
<1>2. LedgerOK'
  BY <1>1, LedgerStays DEF BatchInv
<1>3. CASE Threw(u) /\ Stop(u)
  BY <1>1, <1>2, <1>3, StopStep
<1>4. CASE /\ ~Threw(u) /\ \A i \in DOMAIN Items(u) : Done(u, i)
           /\ Become(u, [job[u] EXCEPT !.pc = "post", !.futures = {}, !.outs = Outs(u)])
  <2>1. PICK j : j = [job[u] EXCEPT !.pc = "post", !.futures = {}, !.outs = Outs(u)]
    OBVIOUS
  <2>2. UserOK(u) /\ Rec(job[u])
    BY DEF BatchInv, Shapes
  <2>3. /\ j.pc = "post" /\ j.no = job[u].no /\ j.stage = job[u].stage /\ j.batch = job[u].batch
        /\ j.asset = job[u].asset /\ j.futures = {} /\ j.outs = Outs(u) /\ Rec(j)
    BY <2>1, <2>2 DEF Rec
  <2>4. Become(u, j) /\ job'[u] = j
    BY <1>4, <2>1 DEF Become, BatchInv, Shapes
  <2>5. Retired(u)
    BY <1>1, <1>4, <2>2 DEF Retired, UserOK, TasksOK
  <2>6. \A f \in job[u].futures : FutureOK(u, f) /\ f.out # "thrown"
    <3> SUFFICES ASSUME NEW f \in job[u].futures PROVE FutureOK(u, f) /\ f.out # "thrown"
      OBVIOUS
    <3>1. FutureOK(u, f)
      BY <2>2 DEF UserOK, LocalOK, FuturesOK
    <3>2. PICK n \in Nat : DOMAIN Items(u) = 1 .. n
      BY <1>1, ItemsShape
    <3>3. \A i \in 1 .. f.i : i \in DOMAIN Items(u)
      BY <3>1, <3>2 DEF FutureOK
    <3> QED BY <1>4, <3>1, <3>3 DEF Threw
  <2>7. {f.i : f \in Found(u)} = Kept(u)
    <3>1. \A f \in Found(u) : f.i \in Kept(u)
      BY <2>6 DEF Found, FutureOK, Kept
    <3>2. \A i \in Kept(u) : \E f \in Found(u) : f.i = i
      BY <1>4, <2>6 DEF Found, FutureOK, Kept, Done
    <3> QED BY <3>1, <3>2
  <2>8. PICK order : order = InOrder({f.i : f \in Found(u)}) /\ order = InOrder(Kept(u))
    BY <2>7
  <2>9. order \in [1 .. Cardinality(Kept(u)) -> Kept(u)]
    BY <1>1, <2>8, KeptShape, InOrderLists
  <2>10. Outs(u) = [n \in DOMAIN order |-> CHOOSE f \in Found(u) : f.i = order[n]]
    BY <2>8 DEF Outs
  <2>11. ASSUME NEW n \in DOMAIN Outs(u)
         PROVE  Outs(u)[n].i = order[n] /\ Fits(u, Outs(u)[n].i, Outs(u)[n].value)
    <3>1. order[n] \in Kept(u) /\ Outs(u)[n] = CHOOSE f \in Found(u) : f.i = order[n]
      BY <2>9, <2>10
    <3>2. Outs(u)[n] \in Found(u) /\ Outs(u)[n].i = order[n]
      BY <2>7, <3>1
    <3> QED BY <2>6, <3>2 DEF Found, FutureOK
  <2>12. /\ Kept(u)' = Kept(u)
         /\ \A i, value : Fits(u, i, value)' = Fits(u, i, value)
    BY <2>3, <2>4, FutureStays
  <2>13. OutsOK(u)'
    <3>1. DOMAIN Outs(u) = 1 .. Cardinality(Kept(u))
      BY <2>9, <2>10
    <3>2. job'[u].outs = Outs(u)
      BY <2>3, <2>4
    <3>3. PICK o : o = Outs(u)
      OBVIOUS
    <3>4. \A n \in DOMAIN o : o[n].i = InOrder(Kept(u))[n] /\ Fits(u, o[n].i, o[n].value)'
      BY <2>8, <2>11, <2>12, <3>3
    <3>5. job'[u].outs = o /\ DOMAIN o = 1 .. Cardinality(Kept(u))
      BY <3>1, <3>2, <3>3
    <3> QED BY <2>12, <3>4, <3>5 DEF OutsOK, Fits, In, Right
  <2>14. FuturesOK(u)'
    BY <2>3, <2>4 DEF FuturesOK
  <2>15. StageOK(u)'
    BY <1>1, <2>2, <2>3, <2>4 DEF UserOK, LocalOK, StageOK, Pcs, Asking
  <2>16. \A s \in Ssps : HeldOK(s)'
    <3>1. \A n \in 1 .. 3 : Holds(u, Stages[n])' => Holds(u, Stages[n])
      BY <1>1, <2>3, <2>4, StageNames DEF Holds, At, In
    <3> QED BY <2>4, <3>1, HeldShrinks DEF BatchInv
  <2> QED BY <1>1, <1>2, <2>3, <2>4, <2>5, <2>13, <2>14, <2>15, <2>16, HandlerStep DEF LocalOK
<1> QED BY <1>3, <1>4 DEF Collect

\* The next asset of an audit is of what the stage found.
LEMMA AssetOK ==
  ASSUME BatchInv, NEW u \in Users, job[u].pc = "post"
  PROVE  /\ Asset(u) \in Assets /\ Asset(u).audit[1] = u /\ Asset(u).kind = job[u].stage
         /\ Drawn(u, Asset(u)) /\ Asset(u).ts = Mine(u, job[u].batch)
         /\ job[u].stage # "challenge" => /\ Summed(Asset(u)) /\ Asset(u).audit = job[u].asset.audit
                                          /\ Asset(u).ts = job[u].asset.ts
         /\ job[u].stage = "result" => Judged(Asset(u))
<1>1. UserOK(u) /\ job[u].pc \in Pcs /\ LedgerOK
  BY DEF BatchInv, Pcs
<1>2. PICK a : a = job[u].asset
  OBVIOUS
<1>3. PICK K : K = Kept(u)
  OBVIOUS
<1>4. PICK N \in 0 .. Cardinality(Files) : N = Cardinality(K)
  BY <1>1, <1>3, KeptShape
<1>5. PICK o : o = job[u].outs
  OBVIOUS
<1>6. /\ DOMAIN o = 1 .. N
      /\ \A n \in 1 .. N : o[n].i = InOrder(K)[n] /\ Fits(u, o[n].i, o[n].value)
  BY <1>1, <1>3, <1>4, <1>5 DEF UserOK, LocalOK, OutsOK
<1>7. /\ IsFiniteSet(K) /\ K \subseteq Nat /\ K \subseteq DOMAIN Items(u)
      /\ ~In(u, "challenge") => K = DOMAIN Items(u)
  BY <1>1, <1>3, KeptShape
<1>8. /\ InOrder(K) \in [1 .. N -> K]
      /\ \A m, n \in 1 .. N : m < n => InOrder(K)[m] < InOrder(K)[n]
      /\ {InOrder(K)[n] : n \in 1 .. N} = K
  BY <1>4, <1>7, InOrderLists
<1>9. /\ a \in Assets /\ a = [audit |-> a.audit, kind |-> a.kind, ts |-> a.ts, blocks |-> a.blocks,
                              proofs |-> a.proofs, result |-> a.result]
      /\ job[u].stage \in AllStages
      /\ a.kind = (IF job[u].stage = "result" THEN "proof" ELSE "challenge")
      /\ job[u].stage # "challenge" => Drawn(u, a) /\ a.ts = Mine(u, job[u].batch)
      /\ job[u].stage = "result" => Summed(a)
  BY <1>1, <1>2 DEF UserOK, LocalOK, StageOK, Assets, Pcs
<1>10. N \in Nat
  BY <1>4
<1>11. CASE job[u].stage = "challenge"
  <2>1. PICK b \in Batches[u] : b = job[u].batch
    BY <1>1 DEF UserOK, LocalOK, StageOK, Pcs
  <2>2. Items(u) = b /\ In(u, "challenge") /\ ~In(u, "proof") /\ ~In(u, "result")
    BY <1>11, <2>1 DEF Items, In
  <2>3. PICK k \in Nat : k <= Cardinality(Files) /\ b \in [1 .. k -> Files]
    BY <1>1, <2>2, ItemsShape
  <2>4. PICK ts : ts = ByIndex(u)
    OBVIOUS
  <2>5. PICK blocks : blocks = Values(u)
    OBVIOUS
  <2>6. /\ DOMAIN ts = 1 .. N /\ DOMAIN blocks = 1 .. N
        /\ \A n \in 1 .. N : ts[n] = b[InOrder(K)[n]] /\ blocks[n] = o[n].value
    BY <1>5, <1>6, <2>1, <2>4, <2>5 DEF ByIndex, Values
  <2>7. \A n \in 1 .. N : InOrder(K)[n] \in DOMAIN b /\ ts[n] \in Files
    BY <1>7, <1>8, <2>2, <2>3, <2>6
  <2>8. ts \in [1 .. N -> Files]
    <3>1. ts = [n \in 1 .. N |-> ts[n]]
      BY <1>5, <1>6, <2>4 DEF ByIndex
    <3> QED BY <2>7, <3>1
  <2>9. ts \in Keys
    BY <2>8 DEF Keys
  <2>10. \A n \in 1 .. N : blocks[n] \in Index(ts[n]) /\ blocks[n] \in Nat \ {0}
    <3> SUFFICES ASSUME NEW n \in 1 .. N PROVE blocks[n] \in Index(ts[n]) /\ blocks[n] \in Nat \ {0}
      OBVIOUS
    <3>1. blocks[n] \in Index(ts[n])
      BY <1>6, <2>1, <2>2, <2>6 DEF Fits
    <3>2. Blocks[ts[n]] \in Nat
      BY <2>7, BatchAssumption
    <3> QED BY <3>1, <3>2 DEF Index
  <2>11. blocks \in Seq(Nat \ {0})
    <3>1. blocks = [n \in 1 .. N |-> blocks[n]]
      BY <1>5, <1>6, <2>5 DEF Values
    <3> QED BY <1>10, <2>10, <3>1
  <2>12. PICK mine : mine = {e \in ledger : e.audit[1] = u /\ e.kind = "challenge"}
    OBVIOUS
  <2>13. Cardinality(mine) + 1 \in Nat
    <3>1. IsFiniteSet(mine)
      BY <1>1, <2>12, FS_Subset DEF LedgerOK
    <3>2. Cardinality(mine) \in Nat
      BY <3>1, FS_CardinalityType
    <3> QED BY <3>2
  <2>14. PICK id \in Users \X Nat : id = <<u, Cardinality(mine) + 1>>
    BY <2>13
  <2>15. Asset(u) = [a EXCEPT !.audit = id, !.ts = ts, !.blocks = blocks]
    BY <1>2, <2>2, <2>4, <2>5, <2>12, <2>14 DEF Asset
  <2>16. Asset(u) = [audit |-> id, kind |-> a.kind, ts |-> ts, blocks |-> blocks,
                     proofs |-> a.proofs, result |-> a.result]
    BY <1>9, <2>15
  <2>17. Asset(u) \in Assets
    BY <1>9, <2>9, <2>11, <2>16 DEF Assets
  <2>18. /\ Asset(u).audit[1] = u /\ Asset(u).kind = "challenge"
         /\ Asset(u).ts = ts /\ Asset(u).blocks = blocks
    BY <1>9, <1>11, <2>14, <2>16
  <2>19. K = Own(u, b)
    BY <1>3, <2>1, <2>2 DEF Kept, Withheld, Own
  <2>20. \E p \in [DOMAIN ts -> DOMAIN b] :
           /\ \A m, n \in DOMAIN p : m < n => p[m] < p[n]
           /\ {p[n] : n \in DOMAIN p} = Own(u, b)
           /\ \A n \in DOMAIN p : ts[n] = b[p[n]]
    <3>1. PICK p : p = InOrder(K)
      OBVIOUS
    <3>2. p \in [DOMAIN ts -> DOMAIN b] /\ DOMAIN p = 1 .. N
      BY <1>7, <1>8, <2>2, <2>6, <3>1
    <3>3. /\ \A m, n \in DOMAIN p : m < n => p[m] < p[n]
          /\ {p[n] : n \in DOMAIN p} = Own(u, b)
      BY <1>8, <2>19, <3>1, <3>2
    <3>4. \A n \in DOMAIN p : ts[n] = b[p[n]]
      BY <2>6, <3>1, <3>2
    <3> QED BY <3>2, <3>3, <3>4
  <2>21. Drawn(u, Asset(u))
    <3>1. PICK x : x = Asset(u)
      OBVIOUS
    <3>2. x.audit[1] = u /\ x.ts = ts /\ x.blocks = blocks
      BY <2>18, <3>1
    <3>3. DOMAIN x.blocks = DOMAIN x.ts /\ \A n \in DOMAIN x.ts : x.blocks[n] \in Index(x.ts[n])
      BY <2>6, <2>10, <3>2
    <3>4. Drawn(u, x)
      BY <2>20, <3>2, <3>3 DEF Drawn
    <3> QED BY <3>1, <3>4
  <2>22. ts = Mine(u, b)
    <3>1. ts = [n \in 1 .. N |-> ts[n]]
      BY <2>8
    <3> QED BY <1>4, <2>6, <2>19, <3>1 DEF Mine
  <2> QED BY <1>11, <2>1, <2>17, <2>18, <2>21, <2>22
<1>12. ASSUME job[u].stage # "challenge"
       PROVE  /\ \E k \in Nat : N = k /\ DOMAIN a.ts = 1 .. k
              /\ \A n \in 1 .. N : o[n].i = n
  <2>1. ~In(u, "challenge") /\ Items(u) = a.ts
    BY <1>2, <1>12 DEF In, Items
  <2>2. PICK k \in Nat : a.ts \in [1 .. k -> Files]
    BY <1>1, <2>1, ItemsShape
  <2>3. K = 1 .. k
    BY <1>7, <2>1, <2>2
  <2>4. N = k /\ \A n \in 1 .. k : InOrder(1 .. k)[n] = n
    BY <1>4, <2>3, InOrderAll
  <2> QED BY <1>6, <2>2, <2>3, <2>4
<1>13. CASE job[u].stage = "proof"
  <2>1. ~In(u, "challenge") /\ In(u, "proof") /\ ~In(u, "result")
    BY <1>13 DEF In
  <2>2. PICK proofs : proofs = Values(u)
    OBVIOUS
  <2>3. DOMAIN proofs = 1 .. N /\ \A n \in 1 .. N : proofs[n] = o[n].value
    BY <1>5, <1>6, <2>2 DEF Values
  <2>4. \A n \in 1 .. N : /\ proofs[n] \in Answers
                          /\ proofs[n].file = a.ts[n] /\ proofs[n].block = a.blocks[n]
    BY <1>2, <1>6, <1>12, <1>13, <2>1, <2>3 DEF Fits
  <2>5. proofs \in Seq(Answers)
    <3>1. proofs = [n \in 1 .. N |-> proofs[n]]
      BY <1>5, <1>6, <2>2 DEF Values
    <3> QED BY <1>10, <2>4, <3>1
  <2>6. Asset(u) = [a EXCEPT !.kind = "proof", !.proofs = proofs]
    BY <1>2, <2>1, <2>2 DEF Asset
  <2>7. Asset(u) = [audit |-> a.audit, kind |-> "proof", ts |-> a.ts, blocks |-> a.blocks,
                    proofs |-> proofs, result |-> a.result]
    BY <1>9, <2>6
  <2>8. Asset(u) \in Assets
    BY <1>9, <2>5, <2>7 DEF Assets, Answers
  <2>9. Drawn(u, Asset(u)) /\ Asset(u).audit[1] = u
    BY <1>9, <1>13, <2>7 DEF Drawn
  <2>10. Summed(Asset(u))
    BY <1>12, <1>13, <2>3, <2>4, <2>7 DEF Summed
  <2> QED BY <1>2, <1>9, <1>13, <2>7, <2>8, <2>9, <2>10
<1>14. CASE job[u].stage = "result"
  <2>1. ~In(u, "challenge") /\ ~In(u, "proof") /\ In(u, "result")
    BY <1>14 DEF In
  <2>2. PICK r \in {0, 1} : r = (IF AllEqual(u) THEN 1 ELSE 0)
    OBVIOUS
  <2>3. Asset(u) = [a EXCEPT !.kind = "result", !.result = r]
    BY <1>2, <2>1, <2>2 DEF Asset
  <2>4. Asset(u) = [audit |-> a.audit, kind |-> "result", ts |-> a.ts, blocks |-> a.blocks,
                    proofs |-> a.proofs, result |-> r]
    BY <1>9, <2>3
  <2>5. Asset(u) \in Assets
    BY <1>9, <2>4 DEF Assets
  <2>6. Drawn(u, Asset(u)) /\ Asset(u).audit[1] = u /\ Summed(Asset(u))
    BY <1>9, <1>14, <2>4 DEF Drawn, Summed
  <2>7. \A n \in 1 .. N : o[n].value = Right(a, n)
    BY <1>2, <1>6, <1>12, <1>14, <2>1 DEF Fits
  <2>8. \A n \in 1 .. N : Right(a, n) <=> a.proofs[n].intact
    <3> SUFFICES ASSUME NEW n \in 1 .. N PROVE Right(a, n) <=> a.proofs[n].intact
      OBVIOUS
    <3>1. n \in DOMAIN a.ts /\ Summed(a) /\ a.proofs \in Seq(Answers)
      BY <1>9, <1>12, <1>14 DEF Assets, Answers
    <3>2. a.proofs[n] \in Answers /\ a.proofs[n].file = a.ts[n] /\ a.proofs[n].block = a.blocks[n]
      BY <3>1 DEF Summed
    <3>3. a.proofs[n] = [file |-> a.ts[n], block |-> a.blocks[n], intact |-> a.proofs[n].intact]
          /\ a.proofs[n].intact \in BOOLEAN
      BY <3>2 DEF Answers
    <3>4. PICK ok \in BOOLEAN : ok = a.proofs[n].intact
      BY <3>3
    <3>5. a.proofs[n] = [file |-> a.ts[n], block |-> a.blocks[n], intact |-> ok]
      BY <3>3, <3>4
    <3>6. Right(a, n) <=> ok = TRUE
      <4>1. ok = TRUE => Right(a, n)
        BY <3>5 DEF Right
      <4>2. Right(a, n) => a.proofs[n].intact = TRUE
        BY DEF Right
      <4> QED BY <3>4, <4>1, <4>2
    <3> QED BY <3>4, <3>6
  <2>9. AllEqual(u) <=> \A n \in 1 .. N : a.proofs[n].intact
    <3>1. AllEqual(u) <=> \A n \in 1 .. N : o[n].value
      BY <1>5, <1>6 DEF AllEqual
    <3> QED BY <2>7, <2>8, <3>1
  <2>10. Judged(Asset(u))
    <3>1. r = 1 <=> AllEqual(u)
      BY <2>2
    <3>2. DOMAIN a.ts = 1 .. N
      BY <1>12, <1>14
    <3>3. Asset(u).result = r /\ Asset(u).ts = a.ts /\ Asset(u).proofs = a.proofs
      BY <2>4
    <3> QED BY <2>9, <3>1, <3>2, <3>3 DEF Judged
  <2> QED BY <1>2, <1>9, <1>14, <2>4, <2>5, <2>6, <2>10
<1> QED BY <1>9, <1>11, <1>13, <1>14 DEF AllStages

LEMMA PostStep ==
  ASSUME BatchInv, NEW u \in Users, Post(u)
  PROVE  BatchInv'
<1>1. /\ job[u].pc = "post" /\ job[u].pc \in Pcs
      /\ UNCHANGED <<wait, sent, writer, inbox, started, pool>>
  BY DEF Post, At, client, Pcs
<1>2. UserOK(u) /\ Rec(job[u]) /\ LedgerOK
  BY DEF BatchInv, Shapes
<1>3. CASE Stop(u) /\ UNCHANGED ledger
  BY <1>1, <1>2, <1>3, LedgerStays, StopStep
<1>4. CASE /\ ledger' = ledger \cup {Asset(u)}
           /\ Become(u, [job[u] EXCEPT !.asset = Asset(u), !.outs = <<>>,
                !.pc = IF In(u, "proof") THEN "call" ELSE "push",
                !.stage = IF In(u, "proof") THEN "result" ELSE @])
  <2>1. PICK a : a = Asset(u)
    OBVIOUS
  <2>2. /\ a \in Assets /\ a.audit[1] = u /\ a.kind = job[u].stage /\ Drawn(u, a)
        /\ a.ts = Mine(u, job[u].batch)
        /\ job[u].stage # "challenge" => Summed(a)
        /\ job[u].stage = "result" => Judged(a)
    BY <1>1, <2>1, AssetOK
  <2>3. PICK j : j = [job[u] EXCEPT !.asset = a, !.outs = <<>>,
                        !.pc = IF In(u, "proof") THEN "call" ELSE "push",
                        !.stage = IF In(u, "proof") THEN "result" ELSE @]
    OBVIOUS
  <2>4. /\ j.pc = (IF In(u, "proof") THEN "call" ELSE "push") /\ j.no = job[u].no
        /\ j.stage = (IF In(u, "proof") THEN "result" ELSE job[u].stage)
        /\ j.batch = job[u].batch /\ j.asset = a /\ j.futures = job[u].futures /\ Rec(j)
    BY <1>2, <2>3 DEF Rec
  <2>5. Become(u, j) /\ job'[u] = j
    BY <1>4, <2>1, <2>3 DEF Become, BatchInv, Shapes
  <2>6. Retired(u)
    BY <1>1, <1>2, NoTasks
  <2>7. job[u].stage \in AllStages /\ job[u].futures = {} /\ job[u].batch \in Batches[u]
    BY <1>1, <1>2 DEF UserOK, LocalOK, FuturesOK, StageOK
  <2>8. LocalOK(u)'
    <3>1. j.pc \in {"push", "call"}
      BY <2>4
    <3>2. FuturesOK(u)' /\ OutsOK(u)'
      BY <2>4, <2>5, <2>7, <3>1 DEF FuturesOK, OutsOK
    <3>3. StageOK(u)'
      <4>1. CASE job[u].stage = "proof"
        BY <2>2, <2>4, <2>5, <2>7, <4>1 DEF StageOK, In, Pcs, Asking, AllStages
      <4>2. CASE job[u].stage # "proof"
        BY <2>2, <2>4, <2>5, <2>7, <4>2 DEF StageOK, In, Pcs, Asking, AllStages
      <4> QED BY <4>1, <4>2
    <3> QED BY <3>2, <3>3 DEF LocalOK
  <2>9. LedgerOK'
    <3>1. ledger' = ledger \cup {a}
      BY <1>4, <2>1
    <3>2. IsFiniteSet(ledger')
      BY <1>2, <3>1, FS_AddElement DEF LedgerOK
    <3>3. \A e \in ledger' : /\ e \in Assets /\ Drawn(e.audit[1], e)
                             /\ e.kind # "challenge" => Summed(e)
                             /\ e.kind = "result" => Judged(e)
      BY <1>2, <2>2, <3>1 DEF LedgerOK
    <3> QED BY <3>2, <3>3 DEF LedgerOK
  <2>10. \A s \in Ssps : HeldOK(s)'
    <3>1. \A n \in 1 .. 3 : Holds(u, Stages[n])' => Holds(u, Stages[n])
      <4>1. CASE job[u].stage = "proof"
        BY <1>1, <2>4, <2>5, <4>1, StageNames DEF Holds, At, In
      <4>2. CASE job[u].stage # "proof"
        BY <1>1, <2>4, <2>5, <4>2, StageNames DEF Holds, At, In
      <4> QED BY <4>1, <4>2
    <3> QED BY <2>5, <3>1, HeldShrinks DEF BatchInv
  <2> QED BY <1>1, <2>4, <2>5, <2>6, <2>8, <2>9, <2>10, HandlerStep
<1> QED BY <1>3, <1>4 DEF Post

LEMMA PushSteps ==
  ASSUME BatchInv, NEW u \in Users, PushChallenge(u) \/ PushProof(u)
  PROVE  BatchInv'
<1>1. /\ job[u].pc = "push" /\ job[u].pc \in Pcs
      /\ UNCHANGED <<wait, sent, writer, inbox, started, pool, ledger>>
  BY DEF PushChallenge, PushProof, At, client, bounds, Pcs
<1>2. UserOK(u) /\ Rec(job[u])
  BY DEF BatchInv, Shapes
<1>3. PICK j : /\ Become(u, j) /\ Rec(j) /\ j.no = job[u].no /\ j.batch = job[u].batch
               /\ j.asset = job[u].asset /\ j.futures = job[u].futures
               /\ \/ job[u].stage = "challenge" /\ j.pc = "call" /\ j.stage = "proof"
                  \/ job[u].stage = "result" /\ j.pc = "pushResult" /\ j.stage = "result"
  <2>1. CASE PushChallenge(u)
    <3>1. PICK j : j = [job[u] EXCEPT !.pc = "call", !.stage = "proof"]
      OBVIOUS
    <3>2. Become(u, j) /\ job[u].stage = "challenge"
      BY <2>1, <3>1 DEF PushChallenge, In
    <3>3. /\ j.pc = "call" /\ j.stage = "proof" /\ Rec(j) /\ j.no = job[u].no /\ j.batch = job[u].batch
          /\ j.asset = job[u].asset /\ j.futures = job[u].futures
      BY <1>2, <3>1 DEF Rec
    <3> QED BY <3>2, <3>3
  <2>2. CASE PushProof(u)
    <3>1. PICK j : j = [job[u] EXCEPT !.pc = "pushResult"]
      OBVIOUS
    <3>2. Become(u, j) /\ job[u].stage = "result"
      BY <2>2, <3>1 DEF PushProof, In, Goto
    <3>3. /\ j.pc = "pushResult" /\ j.stage = job[u].stage /\ Rec(j) /\ j.no = job[u].no
          /\ j.batch = job[u].batch /\ j.asset = job[u].asset /\ j.futures = job[u].futures
      BY <1>2, <3>1 DEF Rec
    <3> QED BY <3>2, <3>3
  <2> QED BY <2>1, <2>2
<1>4. job'[u] = j
  BY <1>3 DEF Become, BatchInv, Shapes
<1>5. /\ job[u].futures = {} /\ job[u].batch \in Batches[u] /\ job[u].asset \in Assets
      /\ job[u].asset.kind = job[u].stage /\ Drawn(u, job[u].asset)
      /\ job[u].asset.ts = Mine(u, job[u].batch)
      /\ job[u].stage = "result" => Summed(job[u].asset)
  BY <1>1, <1>2 DEF UserOK, LocalOK, FuturesOK, StageOK
<1>6. LocalOK(u)'
  <2>0. /\ job'[u].batch = job[u].batch /\ job'[u].asset = job[u].asset /\ job'[u].futures = {}
        /\ \/ job[u].stage = "challenge" /\ job'[u].pc = "call" /\ job'[u].stage = "proof"
           \/ job[u].stage = "result" /\ job'[u].pc = "pushResult" /\ job'[u].stage = "result"
    BY <1>3, <1>4, <1>5
  <2>1. FuturesOK(u)' /\ OutsOK(u)'
    BY <2>0 DEF FuturesOK, OutsOK
  <2>2. StageOK(u)'
    <3>1. CASE job[u].stage = "challenge" /\ job'[u].pc = "call" /\ job'[u].stage = "proof"
      BY <1>5, <2>0, <3>1 DEF StageOK, Pcs, Asking, AllStages
    <3>2. CASE job[u].stage = "result" /\ job'[u].pc = "pushResult" /\ job'[u].stage = "result"
      BY <1>5, <2>0, <3>2 DEF StageOK, Pcs, Asking, AllStages
    <3> QED BY <2>0, <3>1, <3>2
  <2> QED BY <2>1, <2>2 DEF LocalOK
<1>7. \A s \in Ssps : HeldOK(s)'
  <2>1. \A n \in 1 .. 3 : Holds(u, Stages[n])' => Holds(u, Stages[n])
    BY <1>1, <1>3, <1>4, StageNames DEF Holds, At, In
  <2> QED BY <1>3, <2>1, HeldShrinks DEF BatchInv
<1>8. LedgerOK'
  BY <1>1, LedgerStays DEF BatchInv
<1>9. Retired(u)
  BY <1>1, <1>2, NoTasks
<1> QED BY <1>1, <1>3, <1>6, <1>7, <1>8, <1>9, HandlerStep

LEMMA EnterStep ==
  ASSUME BatchInv, NEW u \in Users, Enter(u)
  PROVE  BatchInv'
<1>1. /\ job[u].pc = "call" /\ job[u].pc \in Pcs /\ Enough(Place(u, job[u].stage))
      /\ UNCHANGED <<wait, sent, writer, inbox, started, pool, ledger>>
  BY DEF Enter, At, Here, client, bounds, Pcs
<1>2. UserOK(u) /\ Rec(job[u])
  BY DEF BatchInv, Shapes
<1>3. PICK j : j = [job[u] EXCEPT !.pc = "fork"]
  OBVIOUS
<1>4. /\ j.pc = "fork" /\ j.stage = job[u].stage /\ Rec(j) /\ j.no = job[u].no
      /\ j.batch = job[u].batch /\ j.asset = job[u].asset /\ j.futures = job[u].futures
  BY <1>2, <1>3 DEF Rec
<1>5. Become(u, j) /\ job'[u] = j
  BY <1>3 DEF Enter, Goto, Become, BatchInv, Shapes
<1>6. LocalOK(u)'
  <2>1. job[u].futures = {}
    BY <1>1, <1>2 DEF UserOK, LocalOK, FuturesOK
  <2>2. FuturesOK(u)' /\ OutsOK(u)'
    BY <1>4, <1>5, <2>1 DEF FuturesOK, OutsOK
  <2>3. StageOK(u)'
    BY <1>1, <1>2, <1>4, <1>5 DEF UserOK, LocalOK, StageOK, Pcs, Asking
  <2> QED BY <2>2, <2>3 DEF LocalOK
<1>7. PICK k \in {2, 3} : Stages[k] = job[u].stage
  BY <1>1, <1>2, StageNames DEF UserOK, LocalOK, StageOK
<1>8. \A n \in 1 .. 3 : n # k => (Holds(u, Stages[n])' => Holds(u, Stages[n]))
  <2>1. CASE k = 2
    <3>1. job[u].stage = "proof"
      BY <1>7, <2>1, StageNames
    <3>2. Holds(u, "challenge") /\ ~Holds(u, "result")'
      BY <1>1, <1>4, <1>5, <3>1 DEF Holds, At, In
    <3> QED BY <2>1, <3>2, StageNames
  <2>2. CASE k = 3
    <3>1. job[u].stage = "result"
      BY <1>7, <2>2, StageNames
    <3>2. Holds(u, "challenge") /\ Holds(u, "proof")
      BY <1>1, <3>1 DEF Holds, At, In
    <3> QED BY <2>2, <3>2, StageNames
  <2> QED BY <1>7, <2>1, <2>2
<1>9. \A s \in Ssps : HeldOK(s)'
  BY <1>1, <1>5, <1>7, <1>8, HeldGrows DEF BatchInv
<1>10. LedgerOK'
  BY <1>1, LedgerStays DEF BatchInv
<1>11. Retired(u)
  BY <1>1, <1>2, NoTasks
<1> QED BY <1>1, <1>4, <1>5, <1>6, <1>9, <1>10, <1>11, HandlerStep

LEMMA ListSteps ==
  ASSUME BatchInv, NEW u \in Users, PushResult(u) \/ ReadList(u) \/ ClearList(u)
  PROVE  BatchInv'
<1>1. UNCHANGED <<wait, sent, writer, inbox, started, pool, ledger>>
  BY DEF PushResult, ReadList, ClearList, client, bounds
<1>2. LedgerOK'
  BY <1>1, LedgerStays DEF BatchInv
<1>3. CASE Stop(u)
  BY <1>1, <1>2, <1>3, StopStep
<1>4. CASE ReadList(u) /\ ~Stop(u)
  <2>1. UserOK(u) /\ Rec(job[u]) /\ job[u].pc = "range"
    BY <1>4 DEF BatchInv, Shapes, ReadList, At
  <2>2. PICK ids : Become(u, [job[u] EXCEPT !.pc = "clear", !.ids = ids])
    BY <1>4 DEF ReadList
  <2>3. PICK j : j = [job[u] EXCEPT !.pc = "clear", !.ids = ids]
    OBVIOUS
  <2>4. /\ j.pc = "clear" /\ j.stage = job[u].stage /\ Rec(j) /\ j.no = job[u].no
        /\ j.batch = job[u].batch /\ j.asset = job[u].asset /\ j.futures = job[u].futures
    BY <2>1, <2>3 DEF Rec
  <2>5. Become(u, j) /\ job'[u] = j
    BY <2>2, <2>3 DEF Become, BatchInv, Shapes
  <2>6. LocalOK(u)'
    <3>1. job[u].futures = {}
      BY <2>1 DEF UserOK, LocalOK, FuturesOK
    <3>2. FuturesOK(u)' /\ OutsOK(u)'
      BY <2>4, <2>5, <3>1 DEF FuturesOK, OutsOK
    <3>3. StageOK(u)'
      BY <2>1, <2>4, <2>5 DEF UserOK, LocalOK, StageOK, Pcs, Asking
    <3> QED BY <3>2, <3>3 DEF LocalOK
  <2>7. \A s \in Ssps : HeldOK(s)'
    <3>1. \A n \in 1 .. 3 : Holds(u, Stages[n])' => Holds(u, Stages[n])
      BY <2>1, <2>4, <2>5, StageNames DEF Holds, At, In
    <3> QED BY <2>5, <3>1, HeldShrinks DEF BatchInv
  <2>8. j.pc \notin Pcs
    BY <2>4 DEF Pcs
  <2> QED BY <1>1, <1>2, <2>4, <2>5, <2>6, <2>7, <2>8, HandlerStep
<1> QED BY <1>3, <1>4 DEF PushResult, ClearList

----------------------------------------------------------------------------
(* The lists of a user's audits *)

\* No two batches of a user are for the same files of its own.
Apart == \A u \in Users : \A b, c \in Batches[u] : Mine(u, b) = Mine(u, c) => b = c

Ids == [audit : Users \X Nat, kind : AllStages]
ListShapes ==
  /\ list \in [Users -> [Keys -> Seq(Ids)]]
  /\ poll = [u \in Users |-> poll[u]]
  /\ \A u \in Users : poll[u] = [pc |-> poll[u].pc, batch |-> poll[u].batch, ids |-> poll[u].ids,
                              read |-> poll[u].read]

\* A batch is under way from the request to the end of its last handler.
Queued(u, b) == \E n \in DOMAIN inbox[u] : inbox[u][n].kind = "publish" /\ inbox[u][n].batch = b
Served(u, b) == job[u].pc \in Pcs /\ job[u].batch = b
Pushed(u) == IF job[u].stage = "challenge" THEN 0 ELSE IF job[u].pc = "pushResult" THEN 2 ELSE 1
Filed(u, audit, kind, k) ==
  \E a \in ledger : a.audit = audit /\ a.kind = kind /\ a.audit[1] = u /\ a.ts = k

\* A batch under way is in the client's directories, is so once, and its list is as long as
\* its handlers have come; without a file there the list is empty.
RequestsOK(u) ==
  /\ \A m, n \in DOMAIN inbox[u] : inbox[u][m].kind = "publish" /\ inbox[u][n].kind = "publish"
                                   /\ inbox[u][m].batch = inbox[u][n].batch => m = n
  /\ \A b \in Batches[u] :
       /\ Queued(u, b) => ~Served(u, b) /\ b \in wait[u] \cup sent[u] /\ list[u][Mine(u, b)] = <<>>
       /\ Served(u, b) => b \in wait[u] \cup sent[u]
       /\ b \notin wait[u] \cup sent[u] => list[u][Mine(u, b)] = <<>>
CountOK(u) ==
  job[u].pc \in Pcs =>
    /\ Len(list[u][Mine(u, job[u].batch)]) = Pushed(u)
    /\ \A n \in DOMAIN list[u][Mine(u, job[u].batch)] :
         list[u][Mine(u, job[u].batch)][n].audit = job[u].asset.audit

\* What a handler is to push, or has had pushed, is of an asset that is filed.
FiledOK(u) ==
  job[u].pc \in Pcs =>
    /\ job[u].pc = "push" => Filed(u, job[u].asset.audit, job[u].stage, job[u].asset.ts)
    /\ job[u].stage = "result" => Filed(u, job[u].asset.audit, "proof", job[u].asset.ts)
    /\ job[u].pc = "pushResult" => Filed(u, job[u].asset.audit, "result", job[u].asset.ts)

\* The client asks for one list at a time; when it has had it, there is nothing left of the batch.
PollOK(u) ==
  /\ poll[u].pc # "idle" => poll[u].batch \in wait[u]
  /\ \A n \in DOMAIN inbox[u] : inbox[u][n].kind = "isfin" =>
       poll[u].pc = "asked" /\ poll[u].batch = inbox[u][n].batch
  /\ \A m, n \in DOMAIN inbox[u] : inbox[u][m].kind = "isfin" /\ inbox[u][n].kind = "isfin" => m = n
  /\ job[u].pc \in Asking => /\ poll[u].pc = "asked" /\ poll[u].batch = job[u].batch
                             /\ \A n \in DOMAIN inbox[u] : inbox[u][n].kind # "isfin"
  /\ job[u].pc = "clear" => Len(list[u][job[u].batch]) = 3
  /\ poll[u].pc \in {"finished", "reading"} =>
       /\ ~Queued(u, poll[u].batch) /\ ~Served(u, poll[u].batch)
       /\ list[u][Mine(u, poll[u].batch)] = <<>>

\* A list is the beginning of the trail of one audit.
TrailOK(u, k) ==
  /\ Len(list[u][k]) <= 3
  /\ \A n \in DOMAIN list[u][k] : /\ list[u][k][n].kind = Stages[n]
                                  /\ list[u][k][n].audit = list[u][k][1].audit
                                  /\ Filed(u, list[u][k][n].audit, list[u][k][n].kind, k)
  /\ list[u][k] # <<>> => \E b \in Batches[u] : k = Mine(u, b)

ListOK(u) == /\ RequestsOK(u) /\ CountOK(u) /\ FiledOK(u) /\ PollOK(u)
             /\ \A k \in Keys : TrailOK(u, k)
ListInv == ListShapes /\ \A u \in Users : ListOK(u)

LEMMA OwnShape ==
  ASSUME NEW u \in Users, NEW b \in Batches[u]
  PROVE  /\ \E n \in Nat : n <= Cardinality(Files) /\ b \in [1 .. n -> Files]
         /\ IsFiniteSet(Own(u, b)) /\ Own(u, b) \subseteq Nat /\ Own(u, b) \subseteq DOMAIN b
         /\ Cardinality(Own(u, b)) \in 0 .. Cardinality(Files)
<1>1. PICK n \in Nat : n <= Cardinality(Files) /\ b \in [1 .. n -> Files]
  BY BatchAssumption, KeyShape
<1>2. DOMAIN b = 1 .. n /\ IsFiniteSet(1 .. n) /\ Cardinality(1 .. n) = n
  BY <1>1, FS_Interval, InOrderAll
<1>3. Own(u, b) \subseteq DOMAIN b
  BY DEF Own
<1>4. IsFiniteSet(Own(u, b)) /\ Cardinality(Own(u, b)) <= n
  BY <1>2, <1>3, FS_Subset
<1>5. Cardinality(Own(u, b)) \in Nat /\ Cardinality(Files) \in Nat
  BY <1>4, FS_CardinalityType, BatchAssumption
<1> QED BY <1>1, <1>2, <1>3, <1>4, <1>5

LEMMA MineShape ==
  ASSUME NEW u \in Users, NEW b \in Batches[u]
  PROVE  /\ Mine(u, b) \in Keys
         /\ \A n \in DOMAIN Mine(u, b) : Mine(u, b)[n] \notin Refused[u]
<1>1. PICK k \in Nat : k <= Cardinality(Files) /\ b \in [1 .. k -> Files]
  BY OwnShape
<1>2. PICK N \in 0 .. Cardinality(Files) : N = Cardinality(Own(u, b))
  BY OwnShape
<1>3. InOrder(Own(u, b)) \in [1 .. N -> Own(u, b)]
  BY <1>2, OwnShape, InOrderLists
<1>4. ASSUME NEW n \in 1 .. N
      PROVE  /\ InOrder(Own(u, b))[n] \in DOMAIN b /\ b[InOrder(Own(u, b))[n]] \in Files
             /\ b[InOrder(Own(u, b))[n]] \notin Refused[u]
  BY <1>1, <1>3, OwnShape DEF Own
<1>5. Mine(u, b) = [n \in 1 .. N |-> b[InOrder(Own(u, b))[n]]]
  BY <1>2 DEF Mine
<1>6. Mine(u, b) \in [1 .. N -> Files]
  BY <1>4, <1>5
<1> QED BY <1>4, <1>5, <1>6 DEF Keys

\* A list that is at the key of a batch is that batch's, all of whose files are the user's.
LEMMA MineWhole ==
  ASSUME Apart, NEW u \in Users, NEW b \in Batches[u], NEW c \in Batches[u], b = Mine(u, c)
  PROVE  c = b /\ Mine(u, b) = b
<1>1. \A n \in DOMAIN b : b[n] \notin Refused[u]
  BY MineShape
<1>2. PICK k \in Nat : b \in [1 .. k -> Files]
  BY OwnShape
<1>3. Own(u, b) = 1 .. k
  BY <1>1, <1>2 DEF Own
<1>4. Cardinality(1 .. k) = k /\ \A n \in 1 .. k : InOrder(1 .. k)[n] = n
  BY InOrderAll
<1>5. Mine(u, b) = [n \in 1 .. k |-> b[InOrder(1 .. k)[n]]]
  BY <1>3, <1>4 DEF Mine
<1>6. Mine(u, b) = b
  BY <1>2, <1>4, <1>5
<1> QED BY <1>6 DEF Apart

LEMMA FiledStays ==
  ASSUME ledger \subseteq ledger'
  PROVE  \A u, audit, kind, k : Filed(u, audit, kind, k) => Filed(u, audit, kind, k)'
BY DEF Filed

LEMMA ListStays ==
  ASSUME NEW v \in Users, ListOK(v), job'[v] = job[v], inbox'[v] = inbox[v], poll'[v] = poll[v],
         wait'[v] = wait[v], sent'[v] = sent[v], list'[v] = list[v], ledger \subseteq ledger'
  PROVE  ListOK(v)'
<1>1. /\ \A b : Queued(v, b)' = Queued(v, b) /\ Served(v, b)' = Served(v, b)
      /\ Pushed(v)' = Pushed(v)
  BY DEF Queued, Served, Pushed
<1>2. RequestsOK(v)'
  BY <1>1 DEF ListOK, RequestsOK
<1>3. CountOK(v)'
  BY <1>1 DEF ListOK, CountOK
<1>4. FiledOK(v)'
  BY FiledStays DEF ListOK, FiledOK
<1>5. PollOK(v)'
  BY <1>1 DEF ListOK, PollOK
<1>6. \A k \in Keys : TrailOK(v, k)'
  BY FiledStays DEF ListOK, TrailOK
<1> QED BY <1>2, <1>3, <1>4, <1>5, <1>6 DEF ListOK

\* A handler goes on, or is over, without a look at the lists.
LEMMA ListProgress ==
  ASSUME NEW u \in Users, ListOK(u), inbox'[u] = inbox[u], poll'[u] = poll[u],
         wait'[u] = wait[u], sent'[u] = sent[u], list'[u] = list[u], ledger \subseteq ledger',
         job'[u].pc \in Asking => job'[u].pc = job[u].pc /\ job'[u].batch = job[u].batch,
         job'[u].pc \in Pcs =>
           /\ job[u].pc \in Pcs /\ job'[u].batch = job[u].batch /\ Pushed(u)' = Pushed(u)
           /\ job'[u].asset.audit = job[u].asset.audit
              \/ (Pushed(u) = 0 /\ \A n \in DOMAIN list[u][Mine(u, job[u].batch)] : FALSE),
         FiledOK(u)'
  PROVE  ListOK(u)'
<1>1. \A b : Queued(u, b)' = Queued(u, b) /\ (Served(u, b)' => Served(u, b))
  BY DEF Queued, Served
<1>2. RequestsOK(u)'
  BY <1>1 DEF ListOK, RequestsOK
<1>3. CountOK(u)'
  BY DEF ListOK, CountOK
<1>4. PollOK(u)'
  BY <1>1 DEF ListOK, PollOK, Asking
<1>5. \A k \in Keys : TrailOK(u, k)'
  BY FiledStays DEF ListOK, TrailOK
<1> QED BY <1>2, <1>3, <1>4, <1>5 DEF ListOK

\* A step that is no other user's.
LEMMA ListOthers ==
  ASSUME ListInv, NEW u \in Users, ListShapes', ListOK(u)', ledger \subseteq ledger',
         \A v \in Users : v # u =>
           /\ job'[v] = job[v] /\ inbox'[v] = inbox[v] /\ poll'[v] = poll[v]
           /\ wait'[v] = wait[v] /\ sent'[v] = sent[v] /\ list'[v] = list[v]
  PROVE  ListInv'
BY ListStays DEF ListInv

LEMMA ListSubmit ==
  ASSUME BatchInv, ListInv, NEW u \in Users, Submit(u)
  PROVE  ListInv'
<1>1. PICK b \in Batches[u] \ wait[u] :
        sent' = [sent EXCEPT ![u] = {b}] /\ Send(u, "publish", b, started[u] + 1)
  BY DEF Submit
<1>2. PICK r : r = [kind |-> "publish", batch |-> b, no |-> started[u] + 1]
  OBVIOUS
<1>3. r.kind = "publish" /\ r.batch = b /\ inbox' = [inbox EXCEPT ![u] = Append(@, r)]
  BY <1>1, <1>2 DEF Send
<1>4. PICK q \in Seq(Requests) : q = inbox[u]
  BY DEF BatchInv, Shapes
<1>5. /\ inbox'[u] = Append(q, r) /\ sent[u] = {} /\ sent'[u] = {b} /\ wait' = wait
      /\ \A v \in Users : v # u => inbox'[v] = inbox[v] /\ sent'[v] = sent[v]
      /\ UNCHANGED <<poll, job, ledger, list>>
  BY <1>1, <1>3, <1>4 DEF Submit, BatchInv, Shapes
<1>6. \A n \in DOMAIN Append(q, r) : \/ n \in DOMAIN q /\ Append(q, r)[n] = q[n]
                                     \/ n = Len(q) + 1 /\ Append(q, r)[n] = r
  BY AppendAt
<1>7. ListOK(u) /\ b \notin wait[u] \cup sent[u] /\ ListShapes
  BY <1>5 DEF ListInv
<1>8. ~Queued(u, b) /\ ~Served(u, b) /\ list[u][Mine(u, b)] = <<>>
  BY <1>7 DEF ListOK, RequestsOK
<1>9. /\ \A c : Queued(u, c)' => Queued(u, c) \/ c = b
      /\ \A c : Served(u, c)' = Served(u, c)
      /\ Pushed(u)' = Pushed(u)
  BY <1>3, <1>4, <1>5, <1>6 DEF Queued, Served, Pushed
<1>10. RequestsOK(u)'
  <2>1. ASSUME NEW m \in DOMAIN inbox'[u], NEW n \in DOMAIN inbox'[u],
               inbox'[u][m].kind = "publish", inbox'[u][n].kind = "publish",
               inbox'[u][m].batch = inbox'[u][n].batch
        PROVE  m = n
    <3>1. \A k \in DOMAIN q : q[k].kind = "publish" => q[k].batch # b
      BY <1>4, <1>8 DEF Queued
    <3>2. \A k, l \in DOMAIN q : q[k].kind = "publish" /\ q[l].kind = "publish"
                                 /\ q[k].batch = q[l].batch => k = l
      BY <1>4, <1>7 DEF ListOK, RequestsOK
    <3> QED BY <1>3, <1>5, <1>6, <2>1, <3>1, <3>2
  <2>2. ASSUME NEW c \in Batches[u]
        PROVE  /\ Queued(u, c)' => /\ ~Served(u, c)' /\ c \in wait'[u] \cup sent'[u]
                                   /\ list'[u][Mine(u, c)] = <<>>
               /\ Served(u, c)' => c \in wait'[u] \cup sent'[u]
               /\ c \notin wait'[u] \cup sent'[u] => list'[u][Mine(u, c)] = <<>>
    BY <1>5, <1>7, <1>8, <1>9 DEF ListOK, RequestsOK
  <2> QED BY <2>1, <2>2 DEF RequestsOK
<1>11. CountOK(u)'
  BY <1>5, <1>7, <1>9 DEF ListOK, CountOK
<1>12. FiledOK(u)'
  BY <1>5, <1>7, FiledStays DEF ListOK, FiledOK
<1>13. PollOK(u)'
  <2>1. poll[u].pc # "idle" => poll[u].batch # b
    BY <1>7 DEF ListOK, PollOK
  <2>2. poll[u].pc \in {"finished", "reading"} => ~Queued(u, poll[u].batch)'
    <3>1. PICK p : p = poll[u].batch
      OBVIOUS
    <3>2. poll[u].pc \in {"finished", "reading"} => ~Queued(u, p)'
      BY <1>7, <1>9, <2>1, <3>1 DEF ListOK, PollOK
    <3>3. poll'[u].batch = p
      BY <1>5, <3>1
    <3> QED BY <3>2, <3>3 DEF Queued
  <2>3. \A n \in DOMAIN inbox'[u] : inbox'[u][n].kind = "isfin" =>
          n \in DOMAIN q /\ inbox'[u][n] = q[n]
    BY <1>3, <1>5, <1>6
  <2> QED BY <1>4, <1>5, <1>7, <1>9, <2>2, <2>3 DEF ListOK, PollOK
<1>14. \A k \in Keys : TrailOK(u, k)'
  BY <1>5, <1>7, FiledStays DEF ListOK, TrailOK
<1>15. ListShapes'
  BY <1>5, <1>7 DEF ListShapes
<1>16. ListOK(u)'
  BY <1>10, <1>11, <1>12, <1>13, <1>14 DEF ListOK
<1> QED BY <1>5, <1>15, <1>16, ListOthers

LEMMA ListAskFin ==
  ASSUME BatchInv, ListInv, NEW u \in Users, NEW b \in wait[u], AskFin(u, b)
  PROVE  ListInv'
<1>1. PICK r : r = [kind |-> "isfin", batch |-> b, no |-> 0]
  OBVIOUS
<1>2. r.kind = "isfin" /\ r.batch = b /\ inbox' = [inbox EXCEPT ![u] = Append(@, r)]
  BY <1>1 DEF AskFin, Send
<1>3. PICK q \in Seq(Requests) : q = inbox[u]
  BY DEF BatchInv, Shapes
<1>4. ListOK(u) /\ ListShapes
  BY DEF ListInv
<1>5. /\ inbox'[u] = Append(q, r) /\ poll[u].pc = "idle"
      /\ poll'[u] = [Quiet EXCEPT !.pc = "asked", !.batch = b]
      /\ poll'[u].pc = "asked" /\ poll'[u].batch = b /\ poll' = [v \in Users |-> poll'[v]]
      /\ poll'[u] = [pc |-> poll'[u].pc, batch |-> poll'[u].batch, ids |-> poll'[u].ids,
                      read |-> poll'[u].read]
      /\ \A v \in Users : v # u => inbox'[v] = inbox[v] /\ poll'[v] = poll[v]
      /\ UNCHANGED <<wait, sent, job, ledger, list>>
  <2>1. PICK x : x = [Quiet EXCEPT !.pc = "asked", !.batch = b]
    OBVIOUS
  <2>2. /\ x.pc = "asked" /\ x.batch = b
        /\ x = [pc |-> x.pc, batch |-> x.batch, ids |-> x.ids, read |-> x.read]
    BY <2>1 DEF Quiet
  <2>3. poll' = [poll EXCEPT ![u] = x] /\ poll[u].pc = "idle" /\ UNCHANGED <<wait, sent, job, ledger, list>>
    BY <2>1 DEF AskFin
  <2>4. /\ poll'[u] = x /\ poll' = [v \in Users |-> poll'[v]]
        /\ \A v \in Users : v # u => poll'[v] = poll[v]
    BY <1>4, <2>3 DEF ListShapes
  <2>5. inbox'[u] = Append(q, r) /\ \A v \in Users : v # u => inbox'[v] = inbox[v]
    BY <1>2, <1>3 DEF BatchInv, Shapes
  <2> QED BY <2>1, <2>2, <2>3, <2>4, <2>5
<1>6. \A n \in DOMAIN Append(q, r) : \/ n \in DOMAIN q /\ Append(q, r)[n] = q[n]
                                     \/ n = Len(q) + 1 /\ Append(q, r)[n] = r
  BY AppendAt
<1>7. /\ \A c : Queued(u, c)' => Queued(u, c)
      /\ \A c : Served(u, c)' = Served(u, c)
      /\ Pushed(u)' = Pushed(u)
  BY <1>2, <1>3, <1>5, <1>6 DEF Queued, Served, Pushed
<1>8. RequestsOK(u)'
  <2>1. \A m, n \in DOMAIN inbox'[u] : inbox'[u][m].kind = "publish" /\ inbox'[u][n].kind = "publish"
                                       /\ inbox'[u][m].batch = inbox'[u][n].batch => m = n
    BY <1>2, <1>3, <1>4, <1>5, <1>6 DEF ListOK, RequestsOK
  <2> QED BY <1>4, <1>5, <1>7, <2>1 DEF ListOK, RequestsOK
<1>9. CountOK(u)'
  BY <1>4, <1>5, <1>7 DEF ListOK, CountOK
<1>10. FiledOK(u)'
  BY <1>4, <1>5, FiledStays DEF ListOK, FiledOK
<1>11. PollOK(u)'
  <2>1. job[u].pc \notin Asking /\ \A n \in DOMAIN q : q[n].kind # "isfin"
    BY <1>3, <1>4, <1>5 DEF ListOK, PollOK
  <2>2. \A m, n \in DOMAIN inbox'[u] :
          inbox'[u][m].kind = "isfin" /\ inbox'[u][n].kind = "isfin" => m = n
    BY <1>5, <1>6, <2>1
  <2>3. \A n \in DOMAIN inbox'[u] : inbox'[u][n].kind = "isfin" => inbox'[u][n].batch = b
    BY <1>2, <1>5, <1>6, <2>1
  <2> QED BY <1>5, <2>1, <2>2, <2>3 DEF PollOK, Asking
<1>12. \A k \in Keys : TrailOK(u, k)'
  BY <1>4, <1>5, FiledStays DEF ListOK, TrailOK
<1>13. ListShapes'
  BY <1>4, <1>5 DEF ListShapes
<1>14. ListOK(u)'
  BY <1>8, <1>9, <1>10, <1>11, <1>12 DEF ListOK
<1> QED BY <1>5, <1>13, <1>14, ListOthers

\* The steps of the client on its own directories.
LEMMA ListFiles ==
  ASSUME BatchInv, ListInv, NEW u \in Users, DoBatchAudit(u) \/ HandleFin(u)
  PROVE  ListInv'
<1>1. ListOK(u) /\ ListShapes
  BY DEF ListInv
<1>2. UNCHANGED <<inbox, job, ledger, list>>
  BY DEF DoBatchAudit, HandleFin, CreateWait, FillWait, ReadDate, WriteLog, DeleteWait
<1>3. /\ \/ poll'[u].batch = poll[u].batch /\ poll'[u].pc = poll[u].pc
         \/ poll[u].pc = "finished" /\ poll'[u].pc = "reading" /\ poll'[u].batch = poll[u].batch
         \/ poll[u].pc = "reading" /\ poll'[u].pc = "idle"
      /\ IF poll'[u].pc = "idle" /\ poll[u].pc = "reading"
         THEN (wait[u] \cup sent[u]) \ {poll[u].batch} \subseteq wait'[u] \cup sent'[u]
         ELSE wait[u] \cup sent[u] \subseteq wait'[u] \cup sent'[u] /\ wait[u] \subseteq wait'[u]
      /\ \A v \in Users : v # u => poll'[v] = poll[v] /\ wait'[v] = wait[v] /\ sent'[v] = sent[v]
      /\ ListShapes'
  <2>0. /\ poll[u] = [pc |-> poll[u].pc, batch |-> poll[u].batch, ids |-> poll[u].ids,
                      read |-> poll[u].read]
        /\ wait \in [Users -> SUBSET Keys] /\ sent \in [Users -> SUBSET Keys]
    BY <1>1 DEF ListShapes, BatchInv, Shapes
  <2>1. CASE DoBatchAudit(u)
    <3>1. poll' = poll
      BY <2>1 DEF DoBatchAudit, CreateWait, FillWait
    <3>2. /\ wait[u] \subseteq wait'[u] /\ wait[u] \cup sent[u] \subseteq wait'[u] \cup sent'[u]
          /\ \A v \in Users : v # u => wait'[v] = wait[v] /\ sent'[v] = sent[v]
      <4>1. CASE CreateWait(u)
        <5>1. PICK b \in sent[u] : /\ sent' = [sent EXCEPT ![u] = @ \ {b}]
                                   /\ wait' = [wait EXCEPT ![u] = @ \cup {b}]
          BY <4>1 DEF CreateWait
        <5> QED BY <2>0, <5>1
      <4>2. CASE FillWait(u)
        <5>1. sent' = sent
          BY <4>2 DEF FillWait
        <5>2. PICK b : b = writer[u].batch
          OBVIOUS
        <5>3. wait' = wait \/ wait' = [wait EXCEPT ![u] = @ \cup {b}]
          BY <4>2, <5>2 DEF FillWait, OpenWait, WriteLine, CloseWait
        <5> QED BY <2>0, <5>1, <5>3
      <4> QED BY <2>1, <4>1, <4>2 DEF DoBatchAudit
    <3>3. ListShapes'
      BY <1>1, <1>2, <3>1 DEF ListShapes
    <3>4. ~(poll'[u].pc = "idle" /\ poll[u].pc = "reading")
      BY <3>1
    <3> QED BY <3>1, <3>2, <3>3, <3>4
  <2>2. CASE ReadDate(u) \/ WriteLog(u)
    <3>1. wait' = wait /\ sent' = sent
      BY <2>2 DEF ReadDate, WriteLog
    <3>2. PICK n, x : /\ x = [[poll[u] EXCEPT !.pc = "reading"] EXCEPT !.read = n]
                      /\ poll' = [poll EXCEPT ![u] = x] /\ poll[u].pc \in {"finished", "reading"}
      <4>1. CASE ReadDate(u)
        <5>1. PICK n : n = IF Written(u) = 0 THEN 0 ELSE 1
          OBVIOUS
        <5>2. PICK x : x = [[poll[u] EXCEPT !.pc = "reading"] EXCEPT !.read = n]
          OBVIOUS
        <5>3. poll' = [poll EXCEPT ![u] = x] /\ poll[u].pc = "finished"
          BY <1>1, <2>0, <4>1, <5>1, <5>2 DEF ReadDate, ListShapes
        <5> QED BY <5>2, <5>3
      <4>2. CASE WriteLog(u)
        <5>1. PICK n : n = poll[u].read + 1
          OBVIOUS
        <5>2. PICK x : x = [[poll[u] EXCEPT !.pc = "reading"] EXCEPT !.read = n]
          OBVIOUS
        <5>3. poll' = [poll EXCEPT ![u] = x] /\ poll[u].pc = "reading"
          BY <1>1, <2>0, <4>2, <5>1, <5>2 DEF WriteLog, ListShapes
        <5> QED BY <5>2, <5>3
      <4> QED BY <2>2, <4>1, <4>2
    <3>3. /\ x.pc = "reading" /\ x.batch = poll[u].batch
          /\ x = [pc |-> x.pc, batch |-> x.batch, ids |-> x.ids, read |-> x.read]
      BY <2>0, <3>2
    <3>4. poll'[u] = x /\ \A v \in Users : v # u => poll'[v] = poll[v]
      BY <1>1, <3>2 DEF ListShapes
    <3>5. ListShapes'
      BY <1>1, <1>2, <3>2, <3>3, <3>4 DEF ListShapes
    <3> QED BY <3>1, <3>2, <3>3, <3>4, <3>5
  <2>3. CASE DeleteWait(u)
    <3>0. PICK b : b = poll[u].batch
      OBVIOUS
    <3>1. /\ sent' = sent /\ poll[u].pc = "reading" /\ poll' = [poll EXCEPT ![u] = Quiet]
          /\ wait' = wait \/ wait' = [wait EXCEPT ![u] = @ \ {b}]
      BY <2>3, <3>0 DEF DeleteWait
    <3>2. poll'[u] = Quiet /\ \A v \in Users : v # u => poll'[v] = poll[v]
      BY <1>1, <3>1 DEF ListShapes
    <3>3. /\ Quiet.pc = "idle"
          /\ Quiet = [pc |-> Quiet.pc, batch |-> Quiet.batch, ids |-> Quiet.ids, read |-> Quiet.read]
      BY DEF Quiet
    <3>4. ListShapes'
      BY <1>1, <1>2, <3>1, <3>2, <3>3 DEF ListShapes
    <3>5. /\ (wait[u] \cup sent[u]) \ {b} \subseteq wait'[u] \cup sent'[u]
          /\ \A v \in Users : v # u => wait'[v] = wait[v]
      BY <2>0, <3>1
    <3> QED BY <3>0, <3>1, <3>2, <3>3, <3>4, <3>5
  <2> QED BY <2>1, <2>2, <2>3 DEF HandleFin
<1>4. /\ \A c : Queued(u, c)' = Queued(u, c) /\ Served(u, c)' = Served(u, c)
      /\ Pushed(u)' = Pushed(u)
  BY <1>2 DEF Queued, Served, Pushed
<1>5. RequestsOK(u)'
  BY <1>1, <1>2, <1>3, <1>4 DEF ListOK, RequestsOK, PollOK
<1>6. CountOK(u)'
  BY <1>1, <1>2, <1>4 DEF ListOK, CountOK
<1>7. FiledOK(u)'
  BY <1>1, <1>2, FiledStays DEF ListOK, FiledOK
<1>8. PollOK(u)'
  BY <1>1, <1>2, <1>3, <1>4 DEF ListOK, PollOK, Asking
<1>9. \A k \in Keys : TrailOK(u, k)'
  BY <1>1, <1>2, FiledStays DEF ListOK, TrailOK
<1>10. ListOK(u)'
  BY <1>5, <1>6, <1>7, <1>8, <1>9 DEF ListOK
<1> QED BY <1>2, <1>3, <1>10, ListOthers

LEMMA ListReceive ==
  ASSUME BatchInv, ListInv, NEW u \in Users, Receive(u)
  PROVE  ListInv'
<1>1. PICK r : r = Head(inbox[u])
  OBVIOUS
<1>2. PICK j : j = [Free EXCEPT !.pc = IF r.kind = "publish" THEN "fork" ELSE "range",
                                !.no = r.no, !.batch = r.batch]
  OBVIOUS
<1>3. PICK q \in Seq(Requests) : q = inbox[u]
  BY DEF BatchInv, Shapes
<1>4. /\ Become(u, j) /\ job[u].pc = "free" /\ q # <<>>
      /\ inbox' = [inbox EXCEPT ![u] = Tail(@)]
      /\ UNCHANGED <<wait, sent, poll, ledger, list>>
  BY <1>1, <1>2, <1>3 DEF Receive, At, client
<1>5. /\ inbox'[u] = Tail(q) /\ job'[u] = j
      /\ \A v \in Users : v # u => inbox'[v] = inbox[v] /\ job'[v] = job[v]
  BY <1>3, <1>4 DEF BatchInv, Shapes, Become
<1>6. /\ 1 \in DOMAIN q /\ r = q[1] /\ r \in Requests
      /\ \A n \in DOMAIN Tail(q) : n \in Nat /\ n + 1 \in DOMAIN q /\ Tail(q)[n] = q[n + 1] /\ n + 1 # 1
  BY <1>1, <1>3, <1>4, TailAt
<1>7. /\ j.pc = (IF r.kind = "publish" THEN "fork" ELSE "range") /\ j.batch = r.batch
      /\ j.stage = "challenge" /\ j.asset = Draft
  BY <1>2 DEF Free
<1>8. ListOK(u) /\ ListShapes /\ r.kind \in {"publish", "isfin"} /\ r.batch \in Batches[u]
  BY <1>3, <1>6 DEF ListInv, BatchInv, UserOK, NumbersOK, Requests
<1>9. /\ \A c : Queued(u, c)' => Queued(u, c)
      /\ r.kind = "publish" => Queued(u, r.batch) /\ ~Queued(u, r.batch)'
  <2>1. \A c : Queued(u, c)' => Queued(u, c)
    BY <1>3, <1>5, <1>6 DEF Queued
  <2>2. ASSUME r.kind = "publish" PROVE Queued(u, r.batch) /\ ~Queued(u, r.batch)'
    <3>1. Queued(u, r.batch)
      BY <1>3, <1>6, <2>2 DEF Queued
    <3>2. \A n \in DOMAIN Tail(q) : Tail(q)[n].kind = "publish" => Tail(q)[n].batch # r.batch
      BY <1>3, <1>6, <1>8, <2>2 DEF ListOK, RequestsOK
    <3>3. ~Queued(u, r.batch)'
      BY <1>5, <3>2 DEF Queued
    <3> QED BY <3>1, <3>3
  <2> QED BY <2>1, <2>2
<1>10. \A c : Served(u, c)' <=> r.kind = "publish" /\ c = r.batch
  BY <1>5, <1>7, <1>8 DEF Served, Pcs
<1>11. RequestsOK(u)'
  <2>1. ASSUME NEW m \in DOMAIN Tail(q), NEW n \in DOMAIN Tail(q),
               Tail(q)[m].kind = "publish", Tail(q)[n].kind = "publish",
               Tail(q)[m].batch = Tail(q)[n].batch
        PROVE  m = n
    <3>1. m + 1 = n + 1
      BY <1>3, <1>6, <1>8, <2>1 DEF ListOK, RequestsOK
    <3> QED BY <1>6, <3>1
  <2>2. ASSUME NEW c \in Batches[u]
        PROVE  /\ Queued(u, c)' => /\ ~Served(u, c)' /\ c \in wait[u] \cup sent[u]
                                   /\ list[u][Mine(u, c)] = <<>>
               /\ Served(u, c)' => c \in wait[u] \cup sent[u]
               /\ c \notin wait[u] \cup sent[u] => list[u][Mine(u, c)] = <<>>
    BY <1>8, <1>9, <1>10 DEF ListOK, RequestsOK
  <2> QED BY <1>4, <1>5, <2>1, <2>2 DEF RequestsOK
<1>12. CountOK(u)'
  <2>1. r.kind = "publish" => list[u][Mine(u, r.batch)] = <<>>
    BY <1>8, <1>9 DEF ListOK, RequestsOK
  <2>2. j.pc \in Pcs => r.kind = "publish"
    BY <1>7 DEF Pcs
  <2> QED BY <1>4, <1>5, <1>7, <2>1, <2>2 DEF CountOK, Pushed
<1>13. FiledOK(u)'
  BY <1>5, <1>7 DEF FiledOK
<1>14. PollOK(u)'
  <2>1. ASSUME r.kind = "isfin"
        PROVE  /\ poll[u].pc = "asked" /\ poll[u].batch = r.batch
               /\ \A n \in DOMAIN Tail(q) : Tail(q)[n].kind # "isfin"
    BY <1>3, <1>6, <1>8, <2>1 DEF ListOK, PollOK
  <2>2. \A n \in DOMAIN Tail(q) : Tail(q)[n].kind = "isfin" =>
          poll[u].pc = "asked" /\ poll[u].batch = Tail(q)[n].batch
    BY <1>3, <1>6, <1>8 DEF ListOK, PollOK
  <2>3. ASSUME NEW m \in DOMAIN Tail(q), NEW n \in DOMAIN Tail(q),
               Tail(q)[m].kind = "isfin", Tail(q)[n].kind = "isfin"
        PROVE  m = n
    <3>1. m + 1 = n + 1
      BY <1>3, <1>6, <1>8, <2>3 DEF ListOK, PollOK
    <3> QED BY <1>6, <3>1
  <2>4. ASSUME poll[u].pc \in {"finished", "reading"}
        PROVE  ~Queued(u, poll[u].batch)' /\ ~Served(u, poll[u].batch)'
    <3>1. PICK p : p = poll[u].batch
      OBVIOUS
    <3>2. ~Queued(u, p)
      BY <1>8, <2>4, <3>1 DEF ListOK, PollOK
    <3>3. ~Queued(u, p)' /\ ~Served(u, p)'
      BY <1>9, <1>10, <3>2
    <3>4. poll'[u].batch = p
      BY <1>4, <3>1
    <3> QED BY <3>3, <3>4 DEF Queued, Served
  <2>5. j.pc \in Asking => r.kind = "isfin"
    BY <1>7, <1>8 DEF Asking
  <2>6. j.pc # "clear"
    BY <1>7
  <2> QED BY <1>4, <1>5, <1>7, <1>8, <2>1, <2>2, <2>3, <2>4, <2>5, <2>6 DEF ListOK, PollOK
<1>15. \A k \in Keys : TrailOK(u, k)'
  BY <1>4, <1>8, FiledStays DEF ListOK, TrailOK
<1>16. ListShapes'
  BY <1>4, <1>8 DEF ListShapes
<1>17. ListOK(u)'
  BY <1>11, <1>12, <1>13, <1>14, <1>15 DEF ListOK
<1> QED BY <1>4, <1>5, <1>16, <1>17, ListOthers

\* The handler of u goes on and leaves the rest of u's alone.
LEMMA ListHandler ==
  ASSUME BatchInv, ListInv, NEW u \in Users, NEW j, Become(u, j),
         UNCHANGED <<wait, sent, poll, inbox, list>>, ledger \subseteq ledger',
         j.pc \notin Asking,
         j.pc \in Pcs =>
           /\ job[u].pc \in Pcs /\ j.batch = job[u].batch /\ Pushed(u)' = Pushed(u)
           /\ j.asset.audit = job[u].asset.audit \/ Pushed(u) = 0,
         FiledOK(u)'
  PROVE  ListInv'
<1>1. job'[u] = j /\ \A v \in Users : v # u => job'[v] = job[v]
  BY DEF Become, BatchInv, Shapes
<1>2. ListOK(u) /\ ListShapes
  BY DEF ListInv
<1>3. ListShapes'
  BY <1>2 DEF ListShapes
<1>4. ASSUME job[u].pc \in Pcs, Pushed(u) = 0
      PROVE  \A n \in DOMAIN list[u][Mine(u, job[u].batch)] : FALSE
  <2>1. job[u].batch \in Batches[u]
    BY <1>4 DEF BatchInv, UserOK, LocalOK, StageOK, Pcs
  <2>2. Mine(u, job[u].batch) \in Keys
    BY <2>1, MineShape
  <2>3. PICK ids \in Seq(Ids) : ids = list[u][Mine(u, job[u].batch)]
    BY <1>2, <2>2 DEF ListShapes
  <2>4. Len(ids) = 0
    BY <1>2, <1>4, <2>3 DEF ListOK, CountOK
  <2> QED BY <2>3, <2>4
<1>5. ListOK(u)'
  BY <1>1, <1>2, <1>4, ListProgress
<1> QED BY <1>1, <1>3, <1>5, ListOthers

LEMMA ListStop ==
  ASSUME BatchInv, ListInv, NEW u \in Users, Stop(u),
         UNCHANGED <<wait, sent, poll, inbox, list>>, ledger \subseteq ledger'
  PROVE  ListInv'
<1>1. Become(u, Free) /\ job'[u] = Free /\ Free.pc \notin Asking /\ Free.pc \notin Pcs
  BY DraftOK DEF Stop, Become, BatchInv, Shapes, Asking, Pcs
<1>2. FiledOK(u)'
  BY <1>1 DEF FiledOK
<1> QED BY <1>1, <1>2, ListHandler

\* The steps of a stage before its asset: no asset changes.
LEMMA ListInStage ==
  ASSUME BatchInv, ListInv, NEW u \in Users, job[u].pc \in Pcs, job[u].pc \notin {"push", "pushResult"},
         NEW j, Become(u, j), j.pc \in Pcs, j.pc \notin {"push", "pushResult"},
         j.stage = job[u].stage, j.batch = job[u].batch, j.asset = job[u].asset,
         UNCHANGED <<wait, sent, poll, inbox, list, ledger>>
  PROVE  ListInv'
<1>1. job'[u] = j /\ j.pc \notin Asking
  BY DEF Become, BatchInv, Shapes, Pcs, Asking
<1>2. Pushed(u)' = Pushed(u)
  BY <1>1 DEF Pushed
<1>3. FiledOK(u)'
  BY <1>1, FiledStays DEF FiledOK, ListInv, ListOK
<1> QED BY <1>1, <1>2, <1>3, ListHandler

LEMMA ListStages ==
  ASSUME BatchInv, ListInv, NEW u \in Users, Fork(u) \/ Collect(u) \/ Enter(u)
  PROVE  ListInv'
<1>1. UNCHANGED <<wait, sent, poll, inbox, list, ledger>> /\ Rec(job[u])
  BY DEF Fork, Collect, Enter, client, BatchInv, Shapes
<1>2. CASE Stop(u)
  BY <1>1, <1>2, ListStop
<1>3. CASE ~Stop(u)
  <2>1. PICK j : /\ Become(u, j) /\ j.pc \in {"collect", "post", "fork"}
                 /\ j.stage = job[u].stage /\ j.batch = job[u].batch /\ j.asset = job[u].asset
    <3>1. CASE Fork(u) \/ Enter(u)
      <4>1. PICK pc \in {"collect", "fork"} : Become(u, [job[u] EXCEPT !.pc = pc])
        BY <1>3, <3>1 DEF Fork, Enter, Goto
      <4>2. PICK j : j = [job[u] EXCEPT !.pc = pc]
        OBVIOUS
      <4>3. j.pc = pc /\ j.stage = job[u].stage /\ j.batch = job[u].batch /\ j.asset = job[u].asset
        BY <1>1, <4>2 DEF Rec
      <4> QED BY <4>1, <4>2, <4>3
    <3>2. CASE Collect(u)
      <4>1. PICK j : j = [job[u] EXCEPT !.pc = "post", !.futures = {}, !.outs = Outs(u)]
        OBVIOUS
      <4>2. Become(u, j)
        BY <1>3, <3>2, <4>1 DEF Collect
      <4>3. j.pc = "post" /\ j.stage = job[u].stage /\ j.batch = job[u].batch /\ j.asset = job[u].asset
        BY <1>1, <4>1 DEF Rec
      <4> QED BY <4>2, <4>3
    <3> QED BY <3>1, <3>2
  <2>2. job[u].pc \in {"fork", "collect", "call"}
    BY DEF Fork, Collect, Enter, At
  <2>3. job[u].pc \in Pcs /\ j.pc \in Pcs
    BY <2>1, <2>2 DEF Pcs
  <2> QED BY <1>1, <2>1, <2>2, <2>3, ListInStage
<1> QED BY <1>2, <1>3

LEMMA ListPost ==
  ASSUME BatchInv, ListInv, NEW u \in Users, Post(u)
  PROVE  ListInv'
<1>1. /\ job[u].pc = "post" /\ job[u].pc \in Pcs /\ Rec(job[u]) /\ UserOK(u) /\ ListOK(u)
      /\ UNCHANGED <<wait, sent, poll, inbox, list>>
  BY DEF Post, At, client, Pcs, BatchInv, Shapes, ListInv
<1>2. CASE Stop(u) /\ UNCHANGED ledger
  BY <1>1, <1>2, ListStop
<1>3. CASE /\ ledger' = ledger \cup {Asset(u)}
           /\ Become(u, [job[u] EXCEPT !.asset = Asset(u), !.outs = <<>>,
                !.pc = IF In(u, "proof") THEN "call" ELSE "push",
                !.stage = IF In(u, "proof") THEN "result" ELSE @])
  <2>1. PICK a : a = Asset(u)
    OBVIOUS
  <2>2. /\ a.audit[1] = u /\ a.kind = job[u].stage
        /\ job[u].stage # "challenge" => a.audit = job[u].asset.audit /\ a.ts = job[u].asset.ts
    BY <1>1, <2>1, AssetOK
  <2>3. PICK j : j = [job[u] EXCEPT !.asset = a, !.outs = <<>>,
                        !.pc = IF In(u, "proof") THEN "call" ELSE "push",
                        !.stage = IF In(u, "proof") THEN "result" ELSE @]
    OBVIOUS
  <2>4. /\ j.pc = (IF In(u, "proof") THEN "call" ELSE "push")
        /\ j.stage = (IF In(u, "proof") THEN "result" ELSE job[u].stage)
        /\ j.batch = job[u].batch /\ j.asset = a
    BY <1>1, <2>3 DEF Rec
  <2>5. Become(u, j) /\ job'[u] = j /\ j.pc \notin Asking
    BY <1>3, <2>1, <2>3, <2>4 DEF Become, BatchInv, Shapes, Asking
  <2>6. ledger' = ledger \cup {a} /\ job[u].stage \in AllStages
    BY <1>1, <1>3, <2>1 DEF UserOK, LocalOK, StageOK
  <2>7. Pushed(u)' = Pushed(u) /\ (job[u].stage = "challenge" => Pushed(u) = 0)
    BY <1>1, <2>4, <2>5, <2>6 DEF Pushed, In, AllStages
  <2>8. Filed(u, a.audit, a.kind, a.ts)'
    BY <2>2, <2>6 DEF Filed
  <2>9. FiledOK(u)'
    <3>1. CASE job[u].stage = "challenge"
      BY <2>2, <2>4, <2>5, <2>8, <3>1 DEF FiledOK, In
    <3>2. CASE job[u].stage = "proof"
      BY <2>2, <2>4, <2>5, <2>8, <3>2 DEF FiledOK, In
    <3>3. CASE job[u].stage = "result"
      <4>1. Filed(u, a.audit, "proof", a.ts)'
        BY <1>1, <2>2, <2>6, <3>3, FiledStays DEF ListOK, FiledOK
      <4> QED BY <2>2, <2>4, <2>5, <2>8, <3>3, <4>1 DEF FiledOK, In
    <3> QED BY <2>6, <3>1, <3>2, <3>3 DEF AllStages
  <2> QED BY <1>1, <2>2, <2>4, <2>5, <2>6, <2>7, <2>9, ListHandler
<1> QED BY <1>2, <1>3 DEF Post

LEMMA ListPools ==
  ASSUME BatchInv, ListInv, Damage \/ (\E s \in Ssps : Work(s)) \/ UNCHANGED vars
  PROVE  ListInv'
<1>1. UNCHANGED <<wait, sent, poll, inbox, list, ledger>>
  BY DEF Damage, Work, StartTask, EndTask, client, vars
<1>2. \A u \in Users : /\ job'[u].pc = job[u].pc /\ job'[u].stage = job[u].stage
                       /\ job'[u].batch = job[u].batch /\ job'[u].asset = job[u].asset
  <2>1. CASE UNCHANGED job
    BY <2>1
  <2>2. ASSUME NEW s \in Ssps, NEW t \in running[s], EndTask(s, t), job' # job
        PROVE  \A u \in Users : /\ job'[u].pc = job[u].pc /\ job'[u].stage = job[u].stage
                                /\ job'[u].batch = job[u].batch /\ job'[u].asset = job[u].asset
    <3>1. PICK end : job' = [job EXCEPT ![t.user] = [job[t.user] EXCEPT !.futures = @ \cup {end}]]
      BY <2>2 DEF EndTask
    <3>2. t.user \in Users /\ Rec(job[t.user])
      BY DEF BatchInv, Shapes, AllTasks
    <3>3. PICK j : j = [job[t.user] EXCEPT !.futures = @ \cup {end}]
      OBVIOUS
    <3>4. /\ j.pc = job[t.user].pc /\ j.stage = job[t.user].stage /\ j.batch = job[t.user].batch
          /\ j.asset = job[t.user].asset
      BY <3>2, <3>3 DEF Rec
    <3>5. \A u \in Users : job'[u] = IF u = t.user THEN j ELSE job[u]
      BY <3>1, <3>2, <3>3 DEF BatchInv, Shapes
    <3> QED BY <3>4, <3>5
  <2>3. ASSUME NEW s \in Ssps, StartTask(s) PROVE UNCHANGED job
    BY <2>3 DEF StartTask
  <2> QED BY <2>1, <2>2, <2>3 DEF Damage, Work, vars
<1>3. ASSUME NEW u \in Users PROVE ListOK(u)'
  <2>1. ListOK(u)
    BY DEF ListInv
  <2>2. Pushed(u)' = Pushed(u)
    BY <1>2 DEF Pushed
  <2>3. FiledOK(u)'
    BY <1>1, <1>2, <2>1, FiledStays DEF ListOK, FiledOK
  <2> QED BY <1>1, <1>2, <2>1, <2>2, <2>3, ListProgress
<1> QED BY <1>1, <1>3 DEF ListInv, ListShapes

\* An id at the end of the list of the audit it is of.
LEMMA ListPush ==
  ASSUME BatchInv, ListInv, Apart, NEW u \in Users, NEW kind \in AllStages, NEW j, Become(u, j),
         job[u].pc \in {"push", "pushResult"}, Push(u, kind),
         Filed(u, job[u].asset.audit, kind, job[u].asset.ts), kind = Stages[Pushed(u) + 1],
         UNCHANGED <<wait, sent, poll, inbox, ledger>>, j.pc \notin Asking,
         j.pc \in Pcs => /\ j.batch = job[u].batch /\ j.asset = job[u].asset
                         /\ Pushed(u)' = Pushed(u) + 1,
         FiledOK(u)'
  PROVE  ListInv'
<1>1. /\ job'[u] = j /\ ListOK(u) /\ ListShapes /\ job[u].pc \in Pcs
      /\ \A v \in Users : v # u => job'[v] = job[v]
  BY DEF Become, BatchInv, Shapes, ListInv, Pcs
<1>2. PICK b \in Batches[u] : b = job[u].batch
  BY <1>1 DEF BatchInv, UserOK, LocalOK, StageOK, Pcs
<1>3. PICK k \in Keys : k = Mine(u, b)
  BY MineShape
<1>4. job[u].asset.ts = k /\ job[u].asset.audit \in Users \X Nat
  BY <1>1, <1>2, <1>3 DEF BatchInv, UserOK, LocalOK, StageOK, Assets
<1>5. PICK id \in Ids : id = [audit |-> job[u].asset.audit, kind |-> kind]
  BY <1>4 DEF Ids
<1>6. PICK ids \in Seq(Ids) : ids = list[u][k]
  BY <1>1 DEF ListShapes
<1>7. list' = [list EXCEPT ![u][k] = Append(ids, id)]
  BY <1>1, <1>4, <1>5, <1>6 DEF Push, Id, ListShapes
<1>8. /\ list'[u][k] = Append(ids, id)
      /\ \A l \in Keys : l # k => list'[u][l] = list[u][l]
      /\ \A v \in Users : v # u => list'[v] = list[v]
      /\ list' \in [Users -> [Keys -> Seq(Ids)]]
  BY <1>1, <1>7 DEF ListShapes
<1>9. \A c \in Batches[u] : c # b => Mine(u, c) \in Keys /\ Mine(u, c) # k
  BY <1>3, MineShape DEF Apart
<1>10. /\ \A c : Queued(u, c)' = Queued(u, c) /\ (Served(u, c)' => Served(u, c))
       /\ Served(u, b) /\ b \in wait[u] \cup sent[u] /\ ~Queued(u, b)
  BY <1>1, <1>2 DEF Queued, Served, ListOK, RequestsOK
<1>11. /\ Len(ids) = Pushed(u) /\ Pushed(u) \in {0, 1, 2}
       /\ \A n \in DOMAIN ids : ids[n].audit = job[u].asset.audit
  BY <1>1, <1>2, <1>3, <1>6 DEF ListOK, CountOK, Pushed
<1>12. /\ Len(Append(ids, id)) = Pushed(u) + 1
       /\ \A n \in DOMAIN Append(ids, id) : \/ n \in DOMAIN ids /\ Append(ids, id)[n] = ids[n]
                                            \/ n = Len(ids) + 1 /\ Append(ids, id)[n] = id
       /\ 1 \in DOMAIN Append(ids, id)
  BY <1>11, AppendAt
<1>13. \A n \in DOMAIN Append(ids, id) : Append(ids, id)[n].audit = job[u].asset.audit
  BY <1>5, <1>11, <1>12
<1>14. RequestsOK(u)'
  BY <1>1, <1>8, <1>9, <1>10 DEF ListOK, RequestsOK
<1>15. CountOK(u)'
  <2>1. CASE j.pc \in Pcs
    BY <1>1, <1>2, <1>3, <1>8, <1>12, <1>13, <2>1 DEF CountOK
  <2>2. CASE j.pc \notin Pcs
    BY <1>1, <2>2 DEF CountOK
  <2> QED BY <2>1, <2>2
<1>16. PollOK(u)'
  <2>1. ASSUME poll[u].pc \in {"finished", "reading"}
        PROVE  /\ ~Queued(u, poll[u].batch)' /\ ~Served(u, poll[u].batch)'
               /\ list'[u][Mine(u, poll[u].batch)] = <<>>
    <3>1. PICK p : p = poll[u].batch
      OBVIOUS
    <3>2. p \in wait[u] /\ ~Queued(u, p) /\ ~Served(u, p) /\ list[u][Mine(u, p)] = <<>>
      BY <1>1, <2>1, <3>1 DEF ListOK, PollOK
    <3>3. p \in Batches[u] /\ p # b
      BY <1>10, <3>2 DEF BatchInv, UserOK, ClientOK
    <3>4. ~Queued(u, p)' /\ ~Served(u, p)' /\ list'[u][Mine(u, p)] = <<>>
      BY <1>8, <1>9, <1>10, <3>2, <3>3
    <3>5. poll'[u].batch = p
      BY <3>1
    <3> QED BY <3>1, <3>4, <3>5 DEF Queued, Served
  <2> QED BY <1>1, <2>1 DEF ListOK, PollOK, Asking
<1>17. ASSUME NEW l \in Keys PROVE TrailOK(u, l)'
  <2>1. TrailOK(u, l)
    BY <1>1 DEF ListOK
  <2>2. CASE l # k
    BY <1>8, <2>1, <2>2, FiledStays DEF TrailOK
  <2>3. CASE l = k
    <3>1. Len(Append(ids, id)) <= 3
      BY <1>11, <1>12
    <3>2. ASSUME NEW n \in DOMAIN Append(ids, id)
          PROVE  /\ Append(ids, id)[n].kind = Stages[n]
                 /\ Append(ids, id)[n].audit = Append(ids, id)[1].audit
                 /\ Filed(u, Append(ids, id)[n].audit, Append(ids, id)[n].kind, k)'
      <4>1. Append(ids, id)[n].audit = Append(ids, id)[1].audit
        BY <1>12, <1>13
      <4>2. CASE n \in DOMAIN ids /\ Append(ids, id)[n] = ids[n]
        BY <1>6, <2>1, <2>3, <4>1, <4>2, FiledStays DEF TrailOK
      <4>3. CASE n = Len(ids) + 1 /\ Append(ids, id)[n] = id
        BY <1>4, <1>5, <1>11, <4>1, <4>3, FiledStays
      <4> QED BY <1>12, <4>2, <4>3
    <3>3. PICK new : new = Append(ids, id)
      OBVIOUS
    <3>4. list'[u][l] = new
      BY <1>8, <2>3, <3>3
    <3>5. /\ Len(new) <= 3
          /\ \A n \in DOMAIN new : /\ new[n].kind = Stages[n] /\ new[n].audit = new[1].audit
                                   /\ Filed(u, new[n].audit, new[n].kind, l)'
      BY <2>3, <3>1, <3>2, <3>3
    <3>6. l = Mine(u, b)
      BY <1>3, <2>3
    <3> QED BY <3>4, <3>5, <3>6 DEF TrailOK, Filed
  <2> QED BY <2>2, <2>3
<1>18. ListShapes'
  BY <1>1, <1>8 DEF ListShapes
<1>19. ListOK(u)'
  BY <1>14, <1>15, <1>16, <1>17 DEF ListOK
<1> QED BY <1>1, <1>8, <1>18, <1>19, ListOthers

LEMMA ListPushes ==
  ASSUME BatchInv, ListInv, Apart, NEW u \in Users,
         PushChallenge(u) \/ PushProof(u) \/ PushResult(u)
  PROVE  ListInv'
<1>1. /\ UNCHANGED <<wait, sent, poll, inbox, ledger>> /\ Rec(job[u])
      /\ UserOK(u) /\ ListOK(u) /\ job[u].pc \in {"push", "pushResult"} /\ job[u].pc \in Pcs
  BY DEF PushChallenge, PushProof, PushResult, At, client, BatchInv, Shapes, ListInv, Pcs
<1>2. CASE PushChallenge(u)
  <2>1. PICK j : j = [job[u] EXCEPT !.pc = "call", !.stage = "proof"]
    OBVIOUS
  <2>2. /\ Become(u, j) /\ Push(u, "challenge") /\ job[u].stage = "challenge" /\ job[u].pc = "push"
        /\ job'[u] = j
    BY <1>2, <2>1 DEF PushChallenge, In, At, Become, BatchInv, Shapes
  <2>3. j.pc = "call" /\ j.stage = "proof" /\ j.batch = job[u].batch /\ j.asset = job[u].asset
    BY <1>1, <2>1 DEF Rec
  <2>4. Pushed(u) = 0 /\ Pushed(u)' = 1
    BY <2>2, <2>3 DEF Pushed
  <2>5. Filed(u, job[u].asset.audit, "challenge", job[u].asset.ts)
    BY <1>1, <2>2 DEF ListOK, FiledOK
  <2>6. FiledOK(u)'
    BY <2>2, <2>3 DEF FiledOK
  <2>7. "challenge" \in AllStages /\ "challenge" = Stages[Pushed(u) + 1]
    BY <2>4, StageNames DEF AllStages
  <2>8. j.pc \notin Asking /\ Pushed(u)' = Pushed(u) + 1
    BY <2>3, <2>4 DEF Asking
  <2> QED BY <1>1, <2>2, <2>3, <2>5, <2>6, <2>7, <2>8, ListPush
<1>3. CASE PushProof(u)
  <2>1. PICK j : j = [job[u] EXCEPT !.pc = "pushResult"]
    OBVIOUS
  <2>2. /\ Become(u, j) /\ Push(u, "proof") /\ job[u].stage = "result" /\ job[u].pc = "push"
        /\ job'[u] = j
    BY <1>3, <2>1 DEF PushProof, Goto, In, At, Become, BatchInv, Shapes
  <2>3. j.pc = "pushResult" /\ j.stage = "result" /\ j.batch = job[u].batch /\ j.asset = job[u].asset
    BY <1>1, <2>1, <2>2 DEF Rec
  <2>4. Pushed(u) = 1 /\ Pushed(u)' = 2
    BY <2>2, <2>3 DEF Pushed
  <2>5. /\ Filed(u, job[u].asset.audit, "proof", job[u].asset.ts)
        /\ Filed(u, job[u].asset.audit, "result", job[u].asset.ts)
    BY <1>1, <2>2 DEF ListOK, FiledOK
  <2>6. FiledOK(u)'
    BY <1>1, <2>2, <2>3, <2>5, FiledStays DEF FiledOK
  <2>7. "proof" \in AllStages /\ "proof" = Stages[Pushed(u) + 1]
    BY <2>4, StageNames DEF AllStages
  <2>8. j.pc \notin Asking /\ Pushed(u)' = Pushed(u) + 1
    BY <2>3, <2>4 DEF Asking
  <2> QED BY <1>1, <2>2, <2>3, <2>5, <2>6, <2>7, <2>8, ListPush
<1>4. CASE PushResult(u)
  <2>1. /\ Become(u, Free) /\ Push(u, "result") /\ job[u].pc = "pushResult" /\ job'[u] = Free
        /\ Free.pc \notin Pcs /\ Free.pc \notin Asking
    BY <1>4, DraftOK DEF PushResult, Stop, At, Become, BatchInv, Shapes, Pcs, Asking
  <2>2. job[u].stage = "result"
    BY <1>1, <2>1 DEF UserOK, LocalOK, StageOK
  <2>3. Pushed(u) = 2
    BY <2>1, <2>2 DEF Pushed
  <2>4. Filed(u, job[u].asset.audit, "result", job[u].asset.ts)
    BY <1>1, <2>1 DEF ListOK, FiledOK
  <2>5. FiledOK(u)'
    BY <2>1 DEF FiledOK
  <2>6. "result" \in AllStages /\ "result" = Stages[Pushed(u) + 1]
    BY <2>3, StageNames DEF AllStages
  <2> QED BY <1>1, <2>1, <2>4, <2>5, <2>6, ListPush
<1> QED BY <1>2, <1>3, <1>4

LEMMA ListRead ==
  ASSUME BatchInv, ListInv, NEW u \in Users, ReadList(u)
  PROVE  ListInv'
<1>1. /\ job[u].pc = "range" /\ Rec(job[u]) /\ ListOK(u) /\ ListShapes
      /\ UNCHANGED <<wait, sent, inbox, ledger, list>>
      /\ poll[u] = [pc |-> poll[u].pc, batch |-> poll[u].batch, ids |-> poll[u].ids, read |-> poll[u].read]
  BY DEF ReadList, At, BatchInv, Shapes, ListInv, ListShapes
<1>2. CASE /\ AllIds(list[u][job[u].batch]) /\ UNCHANGED poll
           /\ Become(u, [job[u] EXCEPT !.pc = "clear", !.ids = list[u][job[u].batch]])
  <2>1. PICK j : j = [job[u] EXCEPT !.pc = "clear", !.ids = list[u][job[u].batch]]
    OBVIOUS
  <2>2. j.pc = "clear" /\ j.batch = job[u].batch
    BY <1>1, <2>1 DEF Rec
  <2>3. job'[u] = j /\ \A v \in Users : v # u => job'[v] = job[v]
    BY <1>2, <2>1 DEF Become, BatchInv, Shapes
  <2>4. /\ \A c : Queued(u, c)' = Queued(u, c) /\ ~Served(u, c)'
        /\ j.pc \notin Pcs
    BY <1>1, <2>2, <2>3 DEF Queued, Served, Pcs
  <2>5. RequestsOK(u)'
    BY <1>1, <2>4 DEF ListOK, RequestsOK
  <2>6. CountOK(u)' /\ FiledOK(u)'
    BY <2>3, <2>4 DEF CountOK, FiledOK
  <2>7. PollOK(u)'
    <3>1. /\ poll[u].pc = "asked" /\ poll[u].batch = job[u].batch
          /\ \A n \in DOMAIN inbox[u] : inbox[u][n].kind # "isfin"
      BY <1>1 DEF ListOK, PollOK, Asking
    <3>2. Len(list[u][j.batch]) = 3
      BY <1>2, <2>2 DEF AllIds
    <3> QED BY <1>1, <1>2, <2>2, <2>3, <3>1, <3>2 DEF ListOK, PollOK, Asking
  <2>8. \A k \in Keys : TrailOK(u, k)'
    BY <1>1, FiledStays DEF ListOK, TrailOK
  <2>9. ListShapes'
    BY <1>1, <1>2 DEF ListShapes
  <2>10. ListOK(u)'
    BY <2>5, <2>6, <2>7, <2>8 DEF ListOK
  <2> QED BY <1>1, <1>2, <2>3, <2>9, <2>10, ListOthers
<1>3. CASE Stop(u) /\ poll' = [poll EXCEPT ![u].pc = "idle"]
  <2>1. PICK p : p = [poll[u] EXCEPT !.pc = "idle"]
    OBVIOUS
  <2>2. p.pc = "idle" /\ p = [pc |-> p.pc, batch |-> p.batch, ids |-> p.ids, read |-> p.read]
    BY <1>1, <2>1
  <2>3. /\ poll' = [poll EXCEPT ![u] = p] /\ poll'[u] = p
        /\ \A v \in Users : v # u => poll'[v] = poll[v]
    BY <1>1, <1>3, <2>1 DEF ListShapes
  <2>4. /\ job'[u] = Free /\ Free.pc \notin Pcs /\ Free.pc \notin Asking
        /\ \A v \in Users : v # u => job'[v] = job[v]
    BY <1>3, DraftOK DEF Stop, Become, BatchInv, Shapes, Pcs, Asking
  <2>5. \A c : Queued(u, c)' = Queued(u, c) /\ ~Served(u, c)'
    BY <1>1, <2>4 DEF Queued, Served
  <2>6. RequestsOK(u)'
    BY <1>1, <2>5 DEF ListOK, RequestsOK
  <2>7. CountOK(u)' /\ FiledOK(u)'
    BY <2>4 DEF CountOK, FiledOK
  <2>8. PollOK(u)'
    <3>1. \A n \in DOMAIN inbox[u] : inbox[u][n].kind # "isfin"
      BY <1>1 DEF ListOK, PollOK, Asking
    <3>2. job'[u].pc # "clear"
      BY <2>4 DEF Asking
    <3> QED BY <1>1, <2>2, <2>3, <2>4, <3>1, <3>2 DEF PollOK
  <2>9. \A k \in Keys : TrailOK(u, k)'
    BY <1>1, FiledStays DEF ListOK, TrailOK
  <2>10. ListShapes'
    BY <1>1, <2>2, <2>3 DEF ListShapes
  <2>11. ListOK(u)'
    BY <2>6, <2>7, <2>8, <2>9 DEF ListOK
  <2> QED BY <1>1, <2>3, <2>4, <2>10, <2>11, ListOthers
<1> QED BY <1>2, <1>3 DEF ReadList

LEMMA ListClear ==
  ASSUME BatchInv, ListInv, Apart, NEW u \in Users, ClearList(u)
  PROVE  ListInv'
<1>1. /\ job[u].pc = "clear" /\ UserOK(u) /\ ListOK(u) /\ ListShapes
      /\ UNCHANGED <<wait, sent, inbox, ledger>>
      /\ poll[u] = [pc |-> poll[u].pc, batch |-> poll[u].batch, ids |-> poll[u].ids, read |-> poll[u].read]
  BY DEF ClearList, At, BatchInv, ListInv, ListShapes
<1>2. PICK b \in Batches[u] : b = job[u].batch
  BY <1>1 DEF UserOK, LocalOK, StageOK
<1>3. /\ Len(list[u][b]) = 3 /\ poll[u].pc = "asked" /\ poll[u].batch = b /\ b \in wait[u]
      /\ \A n \in DOMAIN inbox[u] : inbox[u][n].kind # "isfin"
  BY <1>1, <1>2 DEF ListOK, PollOK, Asking
<1>4. b \in Keys /\ list[u][b] # <<>> /\ list[u][b] \in Seq(Ids)
  <2>1. b \in Keys
    BY <1>2, BatchAssumption
  <2>2. list[u][b] \in Seq(Ids)
    BY <1>1, <2>1 DEF ListShapes
  <2>3. list[u][b] # <<>>
    <3>1. Len(<<>>) = 0
      OBVIOUS
    <3>2. list[u][b] = <<>> => Len(list[u][b]) = 0
      BY <3>1
    <3> QED BY <1>3, <3>2
  <2> QED BY <2>1, <2>2, <2>3
<1>5. Mine(u, b) = b
  <2>1. PICK c \in Batches[u] : b = Mine(u, c)
    BY <1>1, <1>4 DEF ListOK, TrailOK
  <2> QED BY <1>2, <2>1, MineWhole
<1>6. PICK p : p = [[poll[u] EXCEPT !.pc = "finished"] EXCEPT !.ids = job[u].ids]
  OBVIOUS
<1>7. p.pc = "finished" /\ p.batch = b /\ p = [pc |-> p.pc, batch |-> p.batch, ids |-> p.ids, read |-> p.read]
  BY <1>1, <1>3, <1>6
<1>8. /\ poll' = [poll EXCEPT ![u] = p] /\ poll'[u] = p
      /\ \A v \in Users : v # u => poll'[v] = poll[v]
  BY <1>1, <1>6 DEF ClearList, ListShapes
<1>9. /\ list' = [list EXCEPT ![u][b] = <<>>] /\ list'[u][b] = <<>>
      /\ \A k \in Keys : k # b => list'[u][k] = list[u][k]
      /\ \A v \in Users : v # u => list'[v] = list[v]
      /\ list' \in [Users -> [Keys -> Seq(Ids)]]
  BY <1>1, <1>2, <1>4 DEF ClearList, ListShapes
<1>10. /\ job'[u] = Free /\ Free.pc \notin Pcs /\ Free.pc \notin Asking
       /\ \A v \in Users : v # u => job'[v] = job[v]
  BY DraftOK DEF ClearList, Stop, Become, BatchInv, Shapes, Pcs, Asking
<1>11. /\ \A c : Queued(u, c)' = Queued(u, c) /\ ~Served(u, c)'
       /\ ~Queued(u, b)
  <2>1. \A c : Queued(u, c)' = Queued(u, c) /\ ~Served(u, c)'
    BY <1>1, <1>10 DEF Queued, Served
  <2>2. ~Queued(u, b)
    BY <1>1, <1>4, <1>5 DEF ListOK, RequestsOK
  <2> QED BY <2>1, <2>2
<1>12. \A k \in Keys : list'[u][k] = list[u][k] \/ list'[u][k] = <<>>
  BY <1>9
<1>13. RequestsOK(u)'
  <2>1. \A c \in Batches[u] : list[u][Mine(u, c)] = <<>> => list'[u][Mine(u, c)] = <<>>
    BY <1>12, MineShape
  <2> QED BY <1>1, <1>11, <2>1 DEF ListOK, RequestsOK
<1>14. CountOK(u)' /\ FiledOK(u)'
  BY <1>10 DEF CountOK, FiledOK
<1>15. PollOK(u)'
  <2>1. poll'[u].pc = "finished" /\ poll'[u].batch = b
    BY <1>7, <1>8
  <2>2. ~Queued(u, b)' /\ ~Served(u, b)' /\ list'[u][Mine(u, b)] = <<>>
    BY <1>5, <1>9, <1>11
  <2>3. ~Queued(u, poll[u].batch)' /\ ~Served(u, poll[u].batch)'
    BY <2>1, <2>2 DEF Queued, Served
  <2>4. job'[u].pc # "clear" /\ job'[u].pc \notin Asking
    BY <1>10 DEF Asking
  <2> QED BY <1>1, <1>3, <2>1, <2>2, <2>3, <2>4 DEF PollOK
<1>16. ASSUME NEW k \in Keys PROVE TrailOK(u, k)'
  <2>1. CASE list'[u][k] = list[u][k]
    BY <1>1, <2>1, FiledStays DEF ListOK, TrailOK
  <2>2. CASE list'[u][k] = <<>>
    BY <2>2 DEF TrailOK
  <2> QED BY <1>12, <2>1, <2>2
<1>17. ListShapes'
  BY <1>1, <1>7, <1>8, <1>9 DEF ListShapes
<1>18. ListOK(u)'
  BY <1>13, <1>14, <1>15, <1>16 DEF ListOK
<1> QED BY <1>1, <1>8, <1>9, <1>10, <1>17, <1>18, ListOthers

LEMMA ListInit ==
  ASSUME Init
  PROVE  ListInv
<1>1. ListShapes
  BY DEF Init, ListShapes, Quiet
<1>2. ASSUME NEW u \in Users PROVE ListOK(u)
  <2>1. /\ inbox[u] = <<>> /\ \A k \in Keys : list[u][k] = <<>>
        /\ poll[u].pc = "idle" /\ job[u].pc = "free"
    BY DraftOK DEF Init, Quiet
  <2>2. \A b : ~Queued(u, b) /\ ~Served(u, b)
    BY <2>1 DEF Queued, Served, Pcs
  <2>3. \A b \in Batches[u] : list[u][Mine(u, b)] = <<>>
    BY <2>1, MineShape
  <2>4. RequestsOK(u)
    BY <2>1, <2>2, <2>3 DEF RequestsOK
  <2>5. CountOK(u) /\ FiledOK(u)
    BY <2>1 DEF CountOK, FiledOK, Pcs
  <2>6. PollOK(u)
    BY <2>1 DEF PollOK, Asking
  <2>7. \A k \in Keys : TrailOK(u, k)
    BY <2>1 DEF TrailOK
  <2> QED BY <2>4, <2>5, <2>6, <2>7 DEF ListOK
<1> QED BY <1>1, <1>2 DEF ListInv

LEMMA ListStep ==
  ASSUME BatchInv, ListInv, Apart, [Next]_vars
  PROVE  ListInv'
<1>1. CASE \E u \in Users : Submit(u) \/ DoBatchAudit(u) \/ HandleFin(u)
  BY <1>1, ListSubmit, ListFiles
<1>2. CASE \E u \in Users : \E b \in wait[u] : AskFin(u, b)
  BY <1>2, ListAskFin
<1>3. CASE \E u \in Users : Receive(u) \/ Enter(u)
  BY <1>3, ListReceive, ListStages
<1>4. CASE \E u \in Users : Serve(u)
  BY <1>4, ListStages, ListPost, ListPushes, ListRead, ListClear DEF Serve
<1>5. CASE (\E s \in Ssps : Work(s)) \/ Damage \/ UNCHANGED vars
  BY <1>5, ListPools
<1> QED BY <1>1, <1>2, <1>3, <1>4, <1>5 DEF Next

----------------------------------------------------------------------------
(* The theorems *)

LEMMA BatchInit ==
  ASSUME Init
  PROVE  BatchInv
<1>1. Shapes
  <2>1. \A u \in Users : Rec(job[u])
    BY DraftOK DEF Init
  <2>2. /\ wait \in [Users -> SUBSET Keys] /\ sent \in [Users -> SUBSET Keys]
        /\ inbox \in [Users -> Seq(Requests)] /\ started \in [Users -> Nat]
        /\ job = [u \in Users |-> job[u]]
        /\ queue \in [Ssps -> Seq(AllTasks)] /\ running \in [Ssps -> SUBSET AllTasks]
    BY DEF Init
  <2>3. NoWriter = [pc |-> NoWriter.pc, batch |-> NoWriter.batch]
    BY DEF NoWriter
  <2>4. writer = [u \in Users |-> writer[u]]
        /\ \A u \in Users : writer[u] = [pc |-> writer[u].pc, batch |-> writer[u].batch]
    BY <2>3 DEF Init
  <2> QED BY <2>1, <2>2, <2>4 DEF Shapes
<1>2. \A s \in Ssps : Tasks(s) = {}
  BY DEF Tasks, Init
<1>3. ASSUME NEW u \in Users PROVE UserOK(u)
  <2>1. job[u] = Free /\ inbox[u] = <<>> /\ wait[u] \cup sent[u] = {}
    BY DEF Init
  <2>2. job[u].pc = "free" /\ job[u].stage = "challenge" /\ job[u].asset = Draft /\ job[u].futures = {}
    BY <2>1, DraftOK
  <2>3. NumbersOK(u)
    BY <1>2, <2>1, <2>2 DEF NumbersOK, Pcs
  <2>4. TasksOK(u)
    BY <1>2 DEF TasksOK
  <2>5. FuturesOK(u) /\ OutsOK(u)
    BY <2>2 DEF FuturesOK, OutsOK
  <2>6. StageOK(u)
    BY <2>2, DraftOK DEF StageOK, Pcs, Asking, AllStages
  <2>7. ClientOK(u)
    BY <2>1 DEF Init, NoWriter, ClientOK
  <2> QED BY <2>3, <2>4, <2>5, <2>6, <2>7 DEF UserOK, LocalOK
<1>4. ASSUME NEW s \in Ssps PROVE QueueOK(s) /\ HeldOK(s)
  <2>1. queue[s] = <<>> /\ running[s] = {}
    BY DEF Init
  <2>2. IsFiniteSet({}) /\ Cardinality({}) = 0 /\ PoolThreads \in Nat /\ HttpThreads \in Nat
    BY FS_EmptySet, BatchAssumption
  <2>3. QueueOK(s)
    BY <1>2, <2>1, <2>2 DEF QueueOK
  <2>4. \A u \in Users : job[u].pc = "free" /\ job[u].stage = "challenge"
    BY DraftOK DEF Init
  <2>5. \A h \in Users \X (1 .. 3) : ~Holds(h[1], Stages[h[2]])
    <3> SUFFICES ASSUME NEW u \in Users, NEW n \in 1 .. 3 PROVE ~Holds(u, Stages[n])
      OBVIOUS
    <3>1. ~Holds(u, "challenge") /\ ~Holds(u, "proof") /\ ~Holds(u, "result")
      BY <2>4 DEF Holds, At, In
    <3> QED BY <3>1, StageNames
  <2>6. Held(s) = {}
    BY <2>5 DEF Held
  <2> QED BY <2>2, <2>3, <2>6 DEF HeldOK
<1>5. LedgerOK
  BY FS_EmptySet DEF Init, LedgerOK
<1> QED BY <1>1, <1>3, <1>4, <1>5 DEF BatchInv

LEMMA BatchStep ==
  ASSUME BatchInv, [Next]_vars
  PROVE  BatchInv'
<1>1. CASE \E u \in Users :
             \/ Submit(u) \/ DoBatchAudit(u) \/ HandleFin(u)
             \/ \E b \in wait[u] : AskFin(u, b)
  BY <1>1, ClientSteps
<1>2. CASE \E u \in Users : Receive(u) \/ Enter(u)
  BY <1>2, ReceiveStep, EnterStep
<1>3. CASE \E u \in Users : Serve(u)
  BY <1>3, ForkStep, CollectStep, PostStep, PushSteps, ListSteps DEF Serve
<1>4. CASE \E s \in Ssps : Work(s)
  BY <1>4, StartTaskStep, EndTaskStep DEF Work
<1>5. CASE Damage
  BY <1>5, DamageStep
<1>6. CASE UNCHANGED vars
  <2>1. UNCHANGED <<wait, sent, writer, inbox, started, job, pool, ledger>>
    BY <1>6 DEF vars, client, bounds
  <2> QED BY <2>1, QuietStep DEF BatchInv, Shapes, ClientOK
<1> QED BY <1>1, <1>2, <1>3, <1>4, <1>5, <1>6 DEF Next

LEMMA BatchAlways == Spec => []BatchInv
<1> QED BY BatchInit, BatchStep, PTL DEF Spec

\* Whatever the order of the tasks and of the calls, the assets are well formed, no pool and no
\* server uses more threads than it has, and a task runs where the blocks it reads are: on the
\* other SSP for the proof, at home for the rest.
THEOREM BatchTypeCorrect == Spec => []TypeOK
<1>1. BatchInv => TypeOK
  <2> SUFFICES ASSUME BatchInv PROVE TypeOK
    OBVIOUS
  <2>1. ledger \subseteq Assets
    BY DEF BatchInv, LedgerOK
  <2>2. \A u \in Users : job[u].asset \in Assets /\ ClientOK(u)
    BY DEF BatchInv, UserOK, LocalOK, StageOK
  <2>3. \A s \in Ssps : Cardinality(running[s]) <= PoolThreads /\ Cardinality(Held(s)) <= HttpThreads
    BY DEF BatchInv, QueueOK, HeldOK
  <2>4. \A s \in Ssps : \A t \in running[s] : t.file \in Files /\ Place(t.user, t.stage) = s
    BY DEF BatchInv, Shapes, QueueOK, Tasks, AllTasks
  <2> QED BY <2>1, <2>2, <2>3, <2>4 DEF TypeOK, ClientOK
<1> QED BY <1>1, BatchAlways, PTL

\* The challenge that is published is of the files of a request that are the user's, in their
\* order and each with a block of its own, and the proof is of those files and blocks: however
\* the callables are scheduled, refused or thrown away with the handler they were for.
THEOREM BatchChallengeAligned == Spec => []ChallengeAligned
<1>1. BatchInv => ChallengeAligned
  BY DEF BatchInv, LedgerOK, Drawn, Own, Summed, ChallengeAligned
<1> QED BY <1>1, BatchAlways, PTL

\* The one verdict on a batch is 1 just when every challenged block was intact when its proof was
\* computed, however late the task of a single file ends.
THEOREM BatchVerdictExact == Spec => []VerdictExact
<1>1. BatchInv => VerdictExact
  BY DEF BatchInv, LedgerOK, Judged, VerdictExact
<1> QED BY <1>1, BatchAlways, PTL

\* Where no two batches of a user are for the same files of its own, the list the client polls
\* is that of one audit, its challenge, proof and result in this order, all filed and for the
\* files of its key, whatever fails or is left over in between.
THEOREM BatchListsWhole == Apart => (Spec => []ListsWhole)
<1> SUFFICES ASSUME Apart PROVE Spec => []ListsWhole
  OBVIOUS
<1>1. BatchInv /\ ListInv => ListsWhole
  <2> SUFFICES ASSUME ListInv, NEW u \in Users, NEW k \in Keys
               PROVE  /\ \A n \in DOMAIN list[u][k] : \E a \in ledger :
                           /\ a.audit = list[u][k][n].audit /\ a.kind = list[u][k][n].kind
                           /\ a.audit[1] = u /\ a.ts = k
                      /\ AllIds(list[u][k]) => \A n \in 1 .. 3 :
                           list[u][k][n].kind = Stages[n]
                           /\ list[u][k][n].audit = list[u][k][1].audit
    BY DEF ListsWhole
  <2>1. TrailOK(u, k) /\ list[u][k] \in Seq(Ids)
    BY DEF ListInv, ListOK, ListShapes
  <2>2. AllIds(list[u][k]) => \A n \in 1 .. 3 : n \in DOMAIN list[u][k]
    BY <2>1 DEF AllIds
  <2> QED BY <2>1, <2>2 DEF TrailOK, Filed
<1>2. Init => ListInv
  BY ListInit
<1>3. BatchInv /\ ListInv /\ [Next]_vars => ListInv'
  BY ListStep
<1>4. Spec => []ListInv
  BY <1>2, <1>3, BatchAlways, PTL DEF Spec
<1> QED BY <1>1, <1>4, BatchAlways, PTL
----------------------------------------------------------------------------
(* The wait files *)

FileShapes ==
  /\ poll = [u \in Users |-> poll[u]]
  /\ \A u \in Users : poll[u] = [pc |-> poll[u].pc, batch |-> poll[u].batch, ids |-> poll[u].ids,
                                 read |-> poll[u].read]
  /\ text \in [Users -> [Keys -> Nat]]
  /\ logs = [u \in Users |-> logs[u]] /\ early = [u \in Users |-> early[u]]

\* A client has asked for one batch at most that it has not begun to write a wait file for.
SentOK(u) ==
  /\ \A b \in sent[u] : b \notin wait[u] /\ writer[u].pc = "none"
  /\ \A b, c \in sent[u] : b = c

\* A question about a list is open once at most, and answered to who has asked it.
AskedOK(u) ==
  /\ poll[u].pc # "idle" => poll[u].batch \in wait[u]
  /\ \A n \in DOMAIN inbox[u] : inbox[u][n].kind = "isfin" => poll[u].pc = "asked"
  /\ \A m, n \in DOMAIN inbox[u] : inbox[u][m].kind = "isfin" /\ inbox[u][n].kind = "isfin" => m = n
  /\ job[u].pc \in Asking => /\ poll[u].pc = "asked"
                             /\ \A n \in DOMAIN inbox[u] : inbox[u][n].kind # "isfin"

\* A wait file that nobody writes has all its lines, and what a poll has read of it is logged.
Entered(u, n) == [file |-> poll[u].batch[n], ids |-> poll[u].ids] \in logs[u]
LinesOK(u) ==
  /\ \A b \in wait[u] \ early[u] : WriterOf(u, b) \/ text[u][b] = Whole(b)
  /\ poll[u].pc = "reading" /\ poll[u].batch \notin early[u] =>
       /\ ~WriterOf(u, poll[u].batch)
       /\ poll[u].read \in 1 .. Whole(poll[u].batch)
       /\ \A n \in 1 .. poll[u].read - 1 : Entered(u, n)

FilesOK(u) == SentOK(u) /\ AskedOK(u) /\ LinesOK(u)
FilesInv == FileShapes /\ \A u \in Users : FilesOK(u)

LEMMA FilesInit ==
  ASSUME Init
  PROVE  FilesInv
<1>1. Quiet = [pc |-> Quiet.pc, batch |-> Quiet.batch, ids |-> Quiet.ids, read |-> Quiet.read]
      /\ Quiet.pc = "idle"
  BY DEF Quiet
<1>2. FileShapes
  BY <1>1 DEF Init, FileShapes
<1>3. ASSUME NEW u \in Users PROVE FilesOK(u)
  <2>1. /\ wait[u] = {} /\ sent[u] = {} /\ poll[u] = Quiet /\ inbox[u] = <<>> /\ job[u].pc = "free"
    BY DraftOK DEF Init
  <2> QED BY <1>1, <2>1 DEF FilesOK, SentOK, AskedOK, LinesOK, Asking
<1> QED BY <1>2, <1>3 DEF FilesInv

\* What a step leaves alone of a client stays right.
LEMMA FilesStay ==
  ASSUME NEW u \in Users, FilesOK(u),
         wait'[u] = wait[u], text'[u] = text[u], sent'[u] = sent[u], writer'[u] = writer[u],
         poll'[u] = poll[u], logs'[u] = logs[u], early'[u] = early[u], inbox'[u] = inbox[u],
         job'[u].pc \in Asking => job[u].pc \in Asking
  PROVE  FilesOK(u)'
BY DEF FilesOK, SentOK, AskedOK, LinesOK, Entered, WriterOf, Whole

\* The steps of the handlers and pools that answer no question.
LEMMA FilesServed ==
  ASSUME FilesInv, UNCHANGED <<client, inbox, early>>,
         \A u \in Users : job'[u].pc \in Asking => job[u].pc \in Asking
  PROVE  FilesInv'
<1>1. UNCHANGED <<wait, text, sent, writer, poll, logs>>
  BY DEF client
<1>2. FileShapes'
  BY <1>1 DEF FilesInv, FileShapes
<1>3. ASSUME NEW u \in Users PROVE FilesOK(u)'
  BY <1>1, FilesStay DEF FilesInv
<1> QED BY <1>2, <1>3 DEF FilesInv

LEMMA FilesWork ==
  ASSUME BatchInv, FilesInv,
         \/ \E u \in Users : Enter(u)
         \/ \E u \in Users : Fork(u) \/ Collect(u) \/ Post(u) \/ PushChallenge(u) \/ PushProof(u) \/ PushResult(u)
         \/ \E s \in Ssps : Work(s)
         \/ Damage \/ UNCHANGED vars
  PROVE  FilesInv'
<1>1. job = [u \in Users |-> job[u]] /\ \A u \in Users : Rec(job[u])
  BY DEF BatchInv, Shapes
<1>2. Free.pc = "free"
  BY DEF Free
<1>3. UNCHANGED <<client, inbox, early>>
  BY DEF Enter, Fork, Collect, Post, PushChallenge, PushProof, PushResult, Work, StartTask, EndTask, Damage,
         vars, bounds
<1>4. ASSUME NEW u \in Users, NEW j, Become(u, j), j.pc \notin Asking, NEW v \in Users, job'[v].pc \in Asking
      PROVE  job[v].pc \in Asking
  BY <1>1, <1>4 DEF Become
<1>5. CASE \E u \in Users : Enter(u) \/ PushChallenge(u) \/ PushProof(u) \/ PushResult(u) \/ Fork(u)
  <2>1. PICK u \in Users : Enter(u) \/ PushChallenge(u) \/ PushProof(u) \/ PushResult(u) \/ Fork(u)
    BY <1>5
  <2>2. \E j : Become(u, j) /\ j.pc \notin Asking
    <3>1. CASE Enter(u)
      BY <1>1, <3>1 DEF Enter, Goto, Rec, Asking
    <3>2. CASE PushChallenge(u)
      <4>1. Become(u, [job[u] EXCEPT !.pc = "call", !.stage = "proof"])
        BY <3>2 DEF PushChallenge
      <4>2. [job[u] EXCEPT !.pc = "call", !.stage = "proof"].pc = "call"
        BY <1>1 DEF Rec
      <4> QED BY <4>1, <4>2 DEF Asking
    <3>3. CASE PushProof(u)
      BY <1>1, <3>3 DEF PushProof, Goto, Rec, Asking
    <3>4. CASE PushResult(u)
      BY <1>2, <3>4 DEF PushResult, Stop, Asking
    <3>5. CASE Fork(u)
      BY <1>1, <1>2, <3>5 DEF Fork, Goto, Stop, Rec, Asking
    <3> QED BY <2>1, <3>1, <3>2, <3>3, <3>4, <3>5
  <2> QED BY <1>3, <1>4, <2>2, FilesServed
<1>6. CASE \E u \in Users : Collect(u) \/ Post(u)
  <2>1. PICK u \in Users : Collect(u) \/ Post(u)
    BY <1>6
  <2>2. \E j : Become(u, j) /\ j.pc \notin Asking
    <3>1. CASE Collect(u)
      <4>1. Become(u, Free) \/ Become(u, [job[u] EXCEPT !.pc = "post", !.futures = {}, !.outs = Outs(u)])
        BY <3>1 DEF Collect, Stop
      <4>2. [job[u] EXCEPT !.pc = "post", !.futures = {}, !.outs = Outs(u)].pc = "post"
        BY <1>1 DEF Rec
      <4> QED BY <1>2, <4>1, <4>2 DEF Asking
    <3>2. CASE Post(u)
      <4>1. \/ Become(u, Free)
            \/ Become(u, [job[u] EXCEPT !.asset = Asset(u), !.outs = <<>>,
                 !.pc = IF In(u, "proof") THEN "call" ELSE "push",
                 !.stage = IF In(u, "proof") THEN "result" ELSE @])
        BY <3>2 DEF Post, Stop
      <4>2. [job[u] EXCEPT !.asset = Asset(u), !.outs = <<>>,
                 !.pc = IF In(u, "proof") THEN "call" ELSE "push",
                 !.stage = IF In(u, "proof") THEN "result" ELSE @].pc \in {"call", "push"}
        BY <1>1 DEF Rec
      <4> QED BY <1>2, <4>1, <4>2 DEF Asking
    <3> QED BY <2>1, <3>1, <3>2
  <2> QED BY <1>3, <1>4, <2>2, FilesServed
<1>7. CASE \E s \in Ssps : Work(s)
  <2>1. PICK s \in Ssps : StartTask(s) \/ \E t \in running[s] : EndTask(s, t)
    BY <1>7 DEF Work
  <2>2. CASE StartTask(s)
    BY <1>3, <2>2, FilesServed DEF StartTask
  <2>3. CASE \E t \in running[s] : EndTask(s, t)
    <3>1. PICK t \in running[s] : EndTask(s, t)
      BY <2>3
    <3>2. \A v \in Users : job'[v].pc = job[v].pc
      BY <1>1, <3>1 DEF EndTask, Rec
    <3> QED BY <1>3, <3>2, FilesServed
  <2> QED BY <2>1, <2>2, <2>3
<1>8. CASE Damage \/ UNCHANGED vars
  BY <1>3, <1>8, FilesServed DEF Damage, vars
<1> QED BY <1>5, <1>6, <1>7, <1>8


LEMMA FilesSubmit ==
  ASSUME BatchInv, FilesInv, NEW u \in Users, Submit(u)
  PROVE  FilesInv'
<1>1. PICK b \in Batches[u] \ wait[u] :
        sent' = [sent EXCEPT ![u] = {b}] /\ Send(u, "publish", b, started[u] + 1)
  BY DEF Submit
<1>2. /\ sent \in [Users -> SUBSET Keys] /\ inbox \in [Users -> Seq(Requests)] /\ started[u] \in Nat
      /\ b \in Keys
  BY BatchAssumption DEF BatchInv, Shapes
<1>3. UNCHANGED <<wait, text, writer, poll, logs, job, early>> /\ writer[u].pc = "none"
  BY DEF Submit
<1>4. PICK r : r = [kind |-> "publish", batch |-> b, no |-> started[u] + 1]
  OBVIOUS
<1>5. r.kind = "publish" /\ r \in Requests /\ inbox' = [inbox EXCEPT ![u] = Append(@, r)]
  BY <1>1, <1>2, <1>4 DEF Send, Requests
<1>6. ASSUME NEW v \in Users PROVE FilesOK(v)'
  <2>1. CASE v # u
    <3>1. sent'[v] = sent[v] /\ inbox'[v] = inbox[v]
      BY <1>1, <1>2, <1>5, <2>1
    <3> QED BY <1>3, <3>1, FilesStay DEF FilesInv
  <2>2. CASE v = u
    <3>1. sent'[u] = {b} /\ inbox'[u] = Append(inbox[u], r) /\ inbox[u] \in Seq(Requests)
      BY <1>1, <1>2, <1>5
    <3>2. FilesOK(u)
      BY DEF FilesInv
    <3>3. SentOK(u)'
      BY <1>3, <3>1 DEF SentOK
    <3>4. \A n \in DOMAIN inbox'[u] : inbox'[u][n].kind = "isfin" =>
            n \in DOMAIN inbox[u] /\ inbox'[u][n] = inbox[u][n]
      BY <1>5, <3>1, AppendAt
    <3>5. AskedOK(u)'
      BY <1>3, <3>2, <3>4 DEF FilesOK, AskedOK
    <3>6. LinesOK(u)'
      BY <1>3, <3>2 DEF FilesOK, LinesOK, Entered, WriterOf, Whole
    <3> QED BY <2>2, <3>3, <3>5, <3>6 DEF FilesOK
  <2> QED BY <2>1, <2>2
<1>7. FileShapes'
  BY <1>3 DEF FilesInv, FileShapes
<1> QED BY <1>6, <1>7 DEF FilesInv

LEMMA FilesWrite ==
  ASSUME BatchInv, FilesInv, NEW u \in Users, DoBatchAudit(u)
  PROVE  FilesInv'
<1>1. /\ wait \in [Users -> SUBSET Keys] /\ sent \in [Users -> SUBSET Keys]
      /\ writer = [v \in Users |-> writer[v]]
      /\ \A v \in Users : writer[v] = [pc |-> writer[v].pc, batch |-> writer[v].batch]
      /\ wait[u] \cup sent[u] \subseteq Keys /\ (writer[u].pc # "none" => writer[u].batch \in Keys)
      /\ text \in [Users -> [Keys -> Nat]]
  BY BatchAssumption DEF BatchInv, Shapes, UserOK, ClientOK, FilesInv, FileShapes
<1>2. UNCHANGED <<poll, logs, inbox, job, early>>
  BY DEF DoBatchAudit, CreateWait, FillWait, bounds
<1>3. FilesOK(u)
  BY DEF FilesInv
<1>4. AskedOK(u) /\ SentOK(u) /\ LinesOK(u)
  BY <1>3 DEF FilesOK
<1>5. /\ \A v \in Users : v # u => /\ wait'[v] = wait[v] /\ text'[v] = text[v]
                                   /\ sent'[v] = sent[v] /\ writer'[v] = writer[v]
      /\ text' \in [Users -> [Keys -> Nat]]
      /\ SentOK(u)' /\ LinesOK(u)' /\ wait[u] \subseteq wait'[u]
  <2>1. CASE CreateWait(u)
    <3>1. PICK b \in sent[u] : /\ sent' = [sent EXCEPT ![u] = @ \ {b}]
                               /\ wait' = [wait EXCEPT ![u] = @ \cup {b}]
                               /\ writer' = [writer EXCEPT ![u] = [pc |-> "created", batch |-> b]]
      BY <2>1 DEF CreateWait
    <3>2. text' = text
      BY <2>1 DEF CreateWait
    <3>3. /\ sent'[u] = {} /\ wait'[u] = wait[u] \cup {b} /\ writer'[u] = [pc |-> "created", batch |-> b]
          /\ \A v \in Users : v # u => /\ wait'[v] = wait[v] /\ sent'[v] = sent[v] /\ writer'[v] = writer[v]
      BY <1>1, <1>4, <3>1 DEF SentOK
    <3>4. b \notin wait[u] /\ writer[u].pc = "none"
      BY <1>4 DEF SentOK
    <3>5. writer'[u].pc = "created" /\ writer'[u].batch = b
      BY <3>3
    <3>6. \A c \in Keys : c # b => ~WriterOf(u, c) /\ ~WriterOf(u, c)'
      BY <3>4, <3>5 DEF WriterOf
    <3>7. WriterOf(u, b)'
      BY <3>5 DEF WriterOf
    <3>8. \A c \in wait'[u] \ early'[u] : WriterOf(u, c)' \/ text'[u][c] = Whole(c)
      BY <1>1, <1>2, <1>4, <3>2, <3>3, <3>6, <3>7 DEF LinesOK
    <3>9. poll[u].pc = "reading" => poll[u].batch # b /\ poll[u].batch \in Keys
      BY <1>1, <1>4, <3>4 DEF AskedOK
    <3>10. LinesOK(u)'
      BY <1>2, <1>4, <3>6, <3>8, <3>9 DEF LinesOK, Entered, Whole
    <3> QED BY <1>1, <3>2, <3>3, <3>10 DEF SentOK
  <2>2. CASE FillWait(u)
    <3>0. sent' = sent
      BY <2>2 DEF FillWait
    <3>1. PICK b : b = writer[u].batch
      OBVIOUS
    <3>2. CASE OpenWait(u)
      <4>1. /\ writer[u].pc = "created" /\ writer' = [writer EXCEPT ![u].pc = "open"] /\ text' = text
            /\ wait' = [wait EXCEPT ![u] = @ \cup {b}]
        BY <3>1, <3>2 DEF OpenWait
      <4>2. /\ wait'[u] = wait[u] \cup {b} /\ writer'[u].pc = "open" /\ writer'[u].batch = b
            /\ \A v \in Users : v # u => wait'[v] = wait[v] /\ writer'[v] = writer[v]
        BY <1>1, <3>1, <4>1
      <4>3. sent[u] = {}
        BY <1>4, <4>1 DEF SentOK
      <4>4. \A c : WriterOf(u, c)' <=> WriterOf(u, c)
        BY <3>1, <4>1, <4>2 DEF WriterOf
      <4>5. WriterOf(u, b)
        BY <3>1, <4>1 DEF WriterOf
      <4>6. LinesOK(u)'
        BY <1>2, <1>4, <4>1, <4>2, <4>4, <4>5 DEF LinesOK, Entered, Whole
      <4> QED BY <1>1, <3>0, <4>1, <4>2, <4>3, <4>6 DEF SentOK
    <3>3. CASE WriteLine(u)
      <4>1. /\ writer[u].pc = "open" /\ text' = [text EXCEPT ![u][b] = @ + 1] /\ wait' = wait /\ writer' = writer
        BY <3>1, <3>3 DEF WriteLine
      <4>2. b \in Keys /\ WriterOf(u, b)
        BY <1>1, <3>1, <4>1 DEF WriterOf
      <4>3. /\ text' \in [Users -> [Keys -> Nat]] /\ \A v \in Users : v # u => text'[v] = text[v]
            /\ \A c \in Keys : c # b => text'[u][c] = text[u][c]
        BY <1>1, <4>1, <4>2
      <4>4. SentOK(u)'
        BY <1>4, <3>0, <4>1 DEF SentOK
      <4>5. LinesOK(u)'
        BY <1>1, <1>2, <1>4, <4>1, <4>2, <4>3 DEF LinesOK, Entered, Whole, WriterOf
      <4> QED BY <3>0, <4>1, <4>3, <4>4, <4>5
    <3>4. CASE CloseWait(u)
      <4>1. /\ writer[u].pc = "open" /\ text[u][b] = Whole(b) /\ wait' = wait /\ text' = text
            /\ writer' = [writer EXCEPT ![u] = NoWriter]
        BY <3>1, <3>4 DEF CloseWait
      <4>2. /\ writer'[u].pc = "none" /\ \A v \in Users : v # u => writer'[v] = writer[v]
        BY <1>1, <4>1 DEF NoWriter
      <4>3. SentOK(u)'
        BY <1>4, <3>0, <4>1, <4>2 DEF SentOK
      <4>4. \A c : ~WriterOf(u, c)' /\ (WriterOf(u, c) => c = b)
        BY <3>1, <4>2 DEF WriterOf
      <4>5. LinesOK(u)'
        BY <1>2, <1>4, <4>1, <4>4 DEF LinesOK, Entered, Whole
      <4> QED BY <1>1, <3>0, <4>1, <4>2, <4>3, <4>5
    <3> QED BY <2>2, <3>2, <3>3, <3>4 DEF FillWait
  <2> QED BY <2>1, <2>2 DEF DoBatchAudit
<1>6. AskedOK(u)'
  BY <1>2, <1>4, <1>5 DEF AskedOK
<1>7. \A v \in Users : v # u => FilesOK(v)'
  BY <1>2, <1>5, FilesStay DEF FilesInv
<1>8. FileShapes'
  BY <1>2, <1>5 DEF FilesInv, FileShapes
<1> QED BY <1>5, <1>6, <1>7, <1>8 DEF FilesInv, FilesOK


LEMMA FilesAskFin ==
  ASSUME BatchInv, FilesInv, NEW u \in Users, NEW b \in wait[u], AskFin(u, b)
  PROVE  FilesInv'
<1>1. /\ inbox \in [Users -> Seq(Requests)] /\ b \in Keys
      /\ poll = [v \in Users |-> poll[v]]
  BY DEF BatchInv, Shapes, FilesInv, FileShapes
<1>2. /\ UNCHANGED <<wait, text, sent, writer, logs, job, early>> /\ poll[u].pc = "idle"
      /\ poll' = [poll EXCEPT ![u] = [Quiet EXCEPT !.pc = "asked", !.batch = b]]
      /\ Send(u, "isfin", b, 0)
  BY DEF AskFin, bounds
<1>3. PICK r : r = [kind |-> "isfin", batch |-> b, no |-> 0]
  OBVIOUS
<1>4. r \in Requests /\ inbox' = [inbox EXCEPT ![u] = Append(@, r)]
  BY <1>1, <1>2, <1>3 DEF Send, Requests
<1>5. /\ poll'[u] = [pc |-> "asked", batch |-> b, ids |-> Quiet.ids, read |-> Quiet.read]
      /\ \A v \in Users : v # u => poll'[v] = poll[v]
      /\ poll' = [v \in Users |-> poll'[v]]
  BY <1>1, <1>2 DEF Quiet
<1>6. ASSUME NEW v \in Users PROVE FilesOK(v)'
  <2>1. CASE v # u
    <3>1. poll'[v] = poll[v] /\ inbox'[v] = inbox[v]
      BY <1>1, <1>4, <1>5, <2>1
    <3> QED BY <1>2, <3>1, FilesStay DEF FilesInv
  <2>2. CASE v = u
    <3>1. inbox'[u] = Append(inbox[u], r) /\ inbox[u] \in Seq(Requests)
      BY <1>1, <1>4
    <3>2. poll'[u].pc = "asked" /\ poll'[u].batch = b
      BY <1>5
    <3>3. FilesOK(u)
      BY DEF FilesInv
    <3>4. \A n \in DOMAIN inbox[u] : inbox[u][n].kind # "isfin"
      BY <1>2, <3>3 DEF FilesOK, AskedOK
    <3>5. \A n \in DOMAIN inbox'[u] : inbox'[u][n].kind = "isfin" => n = Len(inbox[u]) + 1
      BY <1>4, <3>1, <3>4, AppendAt
    <3>6. job'[u].pc \notin Asking
      BY <1>2, <3>3 DEF FilesOK, AskedOK
    <3>7. AskedOK(u)'
      BY <1>2, <3>2, <3>5, <3>6 DEF AskedOK
    <3>8. SentOK(u)' /\ LinesOK(u)'
      BY <1>2, <3>2, <3>3 DEF FilesOK, SentOK, LinesOK, WriterOf, Whole
    <3> QED BY <2>2, <3>7, <3>8 DEF FilesOK
  <2> QED BY <2>1, <2>2
<1>7. FileShapes'
  <2>1. \A v \in Users : poll'[v] = [pc |-> poll'[v].pc, batch |-> poll'[v].batch, ids |-> poll'[v].ids,
                                     read |-> poll'[v].read]
    BY <1>5 DEF FilesInv, FileShapes
  <2> QED BY <1>2, <1>5, <2>1 DEF FilesInv, FileShapes
<1> QED BY <1>6, <1>7 DEF FilesInv

\* A poll that has not come too early has read the lines it is at, and logged them.
LEMMA FilesRead ==
  ASSUME BatchInv, FilesInv, NEW u \in Users, HandleFin(u)
  PROVE  FilesInv' /\ \A b \in wait[u] \ wait'[u] :
           b \in early[u] \/ \A n \in DOMAIN b : [file |-> b[n], ids |-> poll[u].ids] \in logs[u]
<1>1. /\ wait \in [Users -> SUBSET Keys] /\ text \in [Users -> [Keys -> Nat]]
      /\ poll = [v \in Users |-> poll[v]] /\ logs = [v \in Users |-> logs[v]]
      /\ early = [v \in Users |-> early[v]]
      /\ poll[u] = [pc |-> poll[u].pc, batch |-> poll[u].batch, ids |-> poll[u].ids, read |-> poll[u].read]
  BY DEF BatchInv, Shapes, FilesInv, FileShapes
<1>2. UNCHANGED <<sent, writer, inbox, job>>
  BY DEF HandleFin, ReadDate, WriteLog, DeleteWait, bounds
<1>3. SentOK(u) /\ AskedOK(u) /\ LinesOK(u)
  BY DEF FilesInv, FilesOK
<1>4. PICK b : b = poll[u].batch
  OBVIOUS
<1>5. poll[u].pc # "idle" /\ b \in wait[u] /\ b \in Keys
  BY <1>1, <1>3, <1>4 DEF HandleFin, ReadDate, WriteLog, DeleteWait, AskedOK
<1>6. Len(b) \in Nat /\ DOMAIN b = 1 .. Len(b) /\ Whole(b) = Len(b) + 1
  BY <1>5, KeyShape DEF Whole
<1>7. \A n \in DOMAIN inbox[u] : poll[u].pc # "asked" => inbox[u][n].kind # "isfin"
  BY <1>3 DEF AskedOK
<1>8. poll[u].pc # "asked" => job[u].pc \notin Asking
  BY <1>3 DEF AskedOK
<1>9. \A c : WriterOf(u, c)' <=> WriterOf(u, c)
  BY <1>2 DEF WriterOf
<1>10. ASSUME \A v \in Users : v # u => /\ wait'[v] = wait[v] /\ text'[v] = text[v] /\ poll'[v] = poll[v]
                                        /\ logs'[v] = logs[v] /\ early'[v] = early[v],
              FileShapes', SentOK(u)', AskedOK(u)', LinesOK(u)'
       PROVE  FilesInv'
  <2>1. \A v \in Users : v # u => FilesOK(v)'
    BY <1>2, <1>10, FilesStay DEF FilesInv
  <2> QED BY <1>10, <2>1 DEF FilesInv, FilesOK
<1>11. CASE ReadDate(u)
  <2>1. PICK r : r = IF text[u][b] = 0 THEN 0 ELSE 1
    OBVIOUS
  <2>2. /\ poll[u].pc = "finished" /\ poll' = [poll EXCEPT ![u].pc = "reading", ![u].read = r]
        /\ early' = IF WriterOf(u, b) THEN [early EXCEPT ![u] = @ \cup {b}] ELSE early
        /\ UNCHANGED <<wait, text, logs>>
    BY <1>4, <1>11, <2>1 DEF ReadDate, Written
  <2>3. /\ poll'[u] = [pc |-> "reading", batch |-> b, ids |-> poll[u].ids, read |-> r]
        /\ \A v \in Users : v # u => poll'[v] = poll[v]
        /\ poll' = [v \in Users |-> poll'[v]]
    BY <1>1, <1>4, <2>2
  <2>4. poll'[u].pc = "reading" /\ poll'[u].batch = b /\ poll'[u].read = r
    BY <2>3
  <2>5. /\ early[u] \subseteq early'[u] /\ (WriterOf(u, b) => b \in early'[u])
        /\ \A v \in Users : v # u => early'[v] = early[v]
        /\ early' = [v \in Users |-> early'[v]]
    BY <1>1, <2>2
  <2>6. SentOK(u)'
    BY <1>2, <1>3, <2>2 DEF SentOK
  <2>7. AskedOK(u)'
    BY <1>2, <1>3, <1>5, <1>7, <1>8, <2>2, <2>4 DEF AskedOK
  <2>8. b \notin early'[u] => ~WriterOf(u, b) /\ text[u][b] = Whole(b) /\ r = 1
    BY <1>3, <1>5, <1>6, <2>1, <2>5 DEF LinesOK
  <2>9. LinesOK(u)'
    <3>1. \A c \in wait'[u] \ early'[u] : WriterOf(u, c)' \/ text'[u][c] = Whole(c)
      BY <1>3, <1>9, <2>2, <2>5 DEF LinesOK
    <3>2. b \notin early'[u] => ~WriterOf(u, b) /\ r \in 1 .. Whole(b) /\ 1 .. r - 1 = {}
      BY <1>6, <2>8
    <3> QED BY <1>9, <2>4, <3>1, <3>2 DEF LinesOK, Whole
  <2>10. FileShapes'
    <3>1. \A v \in Users : poll'[v] = [pc |-> poll'[v].pc, batch |-> poll'[v].batch, ids |-> poll'[v].ids,
                                       read |-> poll'[v].read]
      BY <2>3 DEF FilesInv, FileShapes
    <3> QED BY <2>2, <2>3, <2>5, <3>1 DEF FilesInv, FileShapes
  <2> QED BY <1>10, <2>2, <2>3, <2>5, <2>6, <2>7, <2>9, <2>10
<1>12. CASE WriteLog(u)
  <2>1. PICK n : n = poll[u].read + 1
    OBVIOUS
  <2>2. PICK more : more = {[file |-> f, ids |-> poll[u].ids] : f \in Named(b, n)}
    OBVIOUS
  <2>3. /\ poll[u].pc = "reading" /\ n <= text[u][b] /\ poll' = [poll EXCEPT ![u].read = n]
        /\ logs' = [logs EXCEPT ![u] = @ \cup more]
        /\ UNCHANGED <<wait, text, early>>
    BY <1>4, <1>12, <2>1, <2>2 DEF WriteLog, Written, bounds
  <2>4. /\ poll'[u] = [pc |-> "reading", batch |-> b, ids |-> poll[u].ids, read |-> n]
        /\ \A v \in Users : v # u => poll'[v] = poll[v]
        /\ poll' = [v \in Users |-> poll'[v]]
    BY <1>1, <1>4, <2>3
  <2>5. poll'[u].pc = "reading" /\ poll'[u].batch = b /\ poll'[u].read = n /\ poll'[u].ids = poll[u].ids
    BY <2>4
  <2>6. /\ logs'[u] = logs[u] \cup more /\ \A v \in Users : v # u => logs'[v] = logs[v]
        /\ logs' = [v \in Users |-> logs'[v]]
    BY <1>1, <2>3
  <2>7. SentOK(u)' /\ AskedOK(u)'
    BY <1>2, <1>3, <1>5, <1>7, <1>8, <2>3, <2>5 DEF SentOK, AskedOK
  <2>8. LinesOK(u)'
    <3>1. \A c \in wait'[u] \ early'[u] : WriterOf(u, c)' \/ text'[u][c] = Whole(c)
      BY <1>3, <1>9, <2>3 DEF LinesOK
    <3>2. ASSUME b \notin early[u]
          PROVE  ~WriterOf(u, b) /\ n \in 1 .. Whole(b) /\ \A m \in 1 .. n - 1 : Entered(u, m)'
      <4>1. /\ ~WriterOf(u, b) /\ text[u][b] = Whole(b) /\ poll[u].read \in 1 .. Whole(b)
            /\ \A m \in 1 .. poll[u].read - 1 : Entered(u, m)
        BY <1>3, <1>4, <1>5, <2>3, <3>2 DEF LinesOK
      <4>2. n \in 2 .. Whole(b) /\ n - 1 = poll[u].read
        BY <1>6, <2>1, <2>3, <4>1
      <4>3. [file |-> b[n - 1], ids |-> poll[u].ids] \in more
        BY <2>2, <4>2 DEF Named
      <4>4. ASSUME NEW m \in 1 .. n - 1 PROVE Entered(u, m)'
        <5>1. CASE m = n - 1
          BY <2>5, <2>6, <4>3, <5>1 DEF Entered
        <5>2. CASE m # n - 1
          <6>1. m \in 1 .. poll[u].read - 1
            BY <4>1, <4>2, <5>2
          <6> QED BY <1>4, <2>5, <2>6, <4>1, <6>1 DEF Entered
        <5> QED BY <5>1, <5>2
      <4> QED BY <1>6, <4>1, <4>2, <4>4
    <3> QED BY <1>9, <2>3, <2>5, <3>1, <3>2 DEF LinesOK, Whole
  <2>9. FileShapes'
    <3>1. \A v \in Users : poll'[v] = [pc |-> poll'[v].pc, batch |-> poll'[v].batch, ids |-> poll'[v].ids,
                                       read |-> poll'[v].read]
      BY <2>4 DEF FilesInv, FileShapes
    <3> QED BY <2>3, <2>4, <2>6, <3>1 DEF FilesInv, FileShapes
  <2> QED BY <1>10, <2>3, <2>4, <2>6, <2>7, <2>8, <2>9
<1>13. CASE DeleteWait(u)
  <2>1. /\ poll[u].pc = "reading" /\ poll[u].read = text[u][b] /\ poll' = [poll EXCEPT ![u] = Quiet]
        /\ \/ UNCHANGED <<wait, text>>
           \/ wait' = [wait EXCEPT ![u] = @ \ {b}] /\ text' = [text EXCEPT ![u][b] = 0]
        /\ UNCHANGED <<logs, early>>
    BY <1>4, <1>13 DEF DeleteWait, Written, bounds
  <2>2. /\ poll'[u] = Quiet /\ poll'[u].pc = "idle" /\ \A v \in Users : v # u => poll'[v] = poll[v]
        /\ poll' = [v \in Users |-> poll'[v]]
    BY <1>1, <2>1 DEF Quiet
  <2>3. /\ wait'[u] \subseteq wait[u] /\ wait[u] \ {b} \subseteq wait'[u]
        /\ text' \in [Users -> [Keys -> Nat]]
        /\ \A c \in Keys : c # b => text'[u][c] = text[u][c]
        /\ \A c \in wait'[u] : text'[u][c] = text[u][c]
        /\ \A v \in Users : v # u => wait'[v] = wait[v] /\ text'[v] = text[v]
    <3>1. CASE UNCHANGED <<wait, text>>
      BY <1>1, <3>1
    <3>2. CASE wait' = [wait EXCEPT ![u] = @ \ {b}] /\ text' = [text EXCEPT ![u][b] = 0]
      <4>1. /\ wait'[u] = wait[u] \ {b} /\ text' \in [Users -> [Keys -> Nat]]
            /\ \A c \in Keys : c # b => text'[u][c] = text[u][c]
            /\ \A v \in Users : v # u => wait'[v] = wait[v] /\ text'[v] = text[v]
        BY <1>1, <1>5, <3>2
      <4> QED BY <1>1, <4>1
    <3> QED BY <2>1, <3>1, <3>2
  <2>4. SentOK(u)'
    BY <1>2, <1>3, <2>3 DEF SentOK
  <2>5. AskedOK(u)'
    BY <1>2, <1>3, <1>7, <1>8, <2>1, <2>2 DEF AskedOK
  <2>6. LinesOK(u)'
    BY <1>3, <1>9, <2>1, <2>2, <2>3 DEF LinesOK
  <2>7. FileShapes'
    <3>1. Quiet = [pc |-> Quiet.pc, batch |-> Quiet.batch, ids |-> Quiet.ids, read |-> Quiet.read]
      BY DEF Quiet
    <3>2. \A v \in Users : poll'[v] = [pc |-> poll'[v].pc, batch |-> poll'[v].batch, ids |-> poll'[v].ids,
                                       read |-> poll'[v].read]
      BY <2>2, <3>1 DEF FilesInv, FileShapes
    <3> QED BY <2>1, <2>2, <2>3, <3>2 DEF FilesInv, FileShapes
  <2>8. b \in early[u] \/ \A n \in DOMAIN b : [file |-> b[n], ids |-> poll[u].ids] \in logs[u]
    <3> SUFFICES ASSUME b \notin early[u], NEW n \in DOMAIN b
                 PROVE  [file |-> b[n], ids |-> poll[u].ids] \in logs[u]
      OBVIOUS
    <3>1. /\ text[u][b] = Whole(b) /\ \A m \in 1 .. poll[u].read - 1 : Entered(u, m)
      BY <1>3, <1>4, <1>5, <2>1 DEF LinesOK
    <3>2. n \in 1 .. poll[u].read - 1
      BY <1>6, <2>1, <3>1
    <3> QED BY <1>4, <3>1, <3>2 DEF Entered
  <2> QED BY <1>10, <2>1, <2>2, <2>3, <2>4, <2>5, <2>6, <2>7, <2>8
<1> QED BY <1>11, <1>12, <1>13 DEF HandleFin


LEMMA FilesReceive ==
  ASSUME BatchInv, FilesInv, NEW u \in Users, Receive(u)
  PROVE  FilesInv'
<1>1. /\ inbox \in [Users -> Seq(Requests)] /\ job = [v \in Users |-> job[v]] /\ inbox[u] # <<>>
      /\ UNCHANGED <<wait, text, sent, writer, poll, logs, early>>
      /\ inbox' = [inbox EXCEPT ![u] = Tail(@)]
  BY DEF BatchInv, Shapes, Receive, client, bounds
<1>2. PICK req : req = Head(inbox[u])
  OBVIOUS
<1>3. PICK j : j = [Free EXCEPT !.pc = IF req.kind = "publish" THEN "fork" ELSE "range",
                                !.no = req.no, !.batch = req.batch]
  OBVIOUS
<1>4. Become(u, j)
  BY <1>2, <1>3 DEF Receive
<1>5. j.pc = IF req.kind = "publish" THEN "fork" ELSE "range"
  BY <1>3 DEF Free
<1>6. /\ inbox[u] \in Seq(Requests) /\ inbox'[u] = Tail(inbox[u]) /\ job'[u] = j
      /\ \A v \in Users : v # u => inbox'[v] = inbox[v] /\ job'[v] = job[v]
  BY <1>1, <1>4 DEF Become
<1>7. /\ 1 \in DOMAIN inbox[u] /\ req = inbox[u][1] /\ req \in Requests
      /\ \A n \in DOMAIN inbox'[u] : n \in Nat /\ n + 1 \in DOMAIN inbox[u] /\ inbox'[u][n] = inbox[u][n + 1]
      /\ \A n \in DOMAIN inbox'[u] : n + 1 # 1
  BY <1>1, <1>2, <1>6, TailAt
<1>8. FilesOK(u)'
  <2>1. SentOK(u) /\ AskedOK(u) /\ LinesOK(u)
    BY DEF FilesInv, FilesOK
  <2>2. SentOK(u)' /\ LinesOK(u)'
    BY <1>1, <2>1 DEF SentOK, LinesOK, Entered, WriterOf, Whole
  <2>3. \A m, n \in DOMAIN inbox'[u] : inbox'[u][m].kind = "isfin" /\ inbox'[u][n].kind = "isfin" => m = n
    BY <1>7, <2>1 DEF AskedOK
  <2>4. job'[u].pc \in Asking => req.kind = "isfin"
    BY <1>5, <1>6, <1>7 DEF Asking, Requests
  <2>5. req.kind = "isfin" => poll[u].pc = "asked" /\ \A n \in DOMAIN inbox'[u] : inbox'[u][n].kind # "isfin"
    BY <1>7, <2>1 DEF AskedOK
  <2>6. \A n \in DOMAIN inbox'[u] : inbox'[u][n].kind = "isfin" => poll[u].pc = "asked"
    BY <1>7, <2>1 DEF AskedOK
  <2>7. AskedOK(u)'
    BY <1>1, <2>1, <2>3, <2>4, <2>5, <2>6 DEF AskedOK
  <2> QED BY <2>2, <2>7 DEF FilesOK
<1>9. \A v \in Users : v # u => FilesOK(v)'
  BY <1>1, <1>6, FilesStay DEF FilesInv
<1>10. FileShapes'
  BY <1>1 DEF FilesInv, FileShapes
<1> QED BY <1>8, <1>9, <1>10 DEF FilesInv

\* The answer goes to the poll that has asked, for the file it has asked about.
LEMMA FilesAnswer ==
  ASSUME BatchInv, FilesInv, NEW u \in Users, ReadList(u) \/ ClearList(u)
  PROVE  FilesInv'
<1>1. /\ job = [v \in Users |-> job[v]] /\ Rec(job[u]) /\ poll = [v \in Users |-> poll[v]]
      /\ poll[u] = [pc |-> poll[u].pc, batch |-> poll[u].batch, ids |-> poll[u].ids, read |-> poll[u].read]
      /\ job[u].pc \in Asking
  BY DEF BatchInv, Shapes, FilesInv, FileShapes, ReadList, ClearList, At, Asking
<1>2. UNCHANGED <<wait, text, sent, writer, logs, inbox, early>>
  BY DEF ReadList, ClearList, bounds
<1>3. \E j : Become(u, j) /\ (j.pc \in Asking => UNCHANGED poll)
  <2>1. CASE ReadList(u)
    <3>1. \/ Become(u, Free)
          \/ Become(u, [job[u] EXCEPT !.pc = "clear", !.ids = list[u][job[u].batch]]) /\ UNCHANGED poll
      BY <2>1 DEF ReadList, Stop
    <3> QED BY <3>1 DEF Free, Asking
  <2>2. CASE ClearList(u)
    BY <2>2 DEF ClearList, Stop, Free, Asking
  <2> QED BY <2>1, <2>2
<1>4. /\ \A v \in Users : v # u => job'[v] = job[v]
      /\ job'[u].pc \in Asking => UNCHANGED poll
  BY <1>1, <1>3 DEF Become
<1>5. \/ UNCHANGED poll
      \/ poll' = [poll EXCEPT ![u].pc = "idle"]
      \/ poll' = [poll EXCEPT ![u].pc = "finished", ![u].ids = job[u].ids]
  BY DEF ReadList, ClearList
<1>6. /\ poll'[u].batch = poll[u].batch /\ (poll'[u].pc = poll[u].pc \/ poll'[u].pc \in {"idle", "finished"})
      /\ poll'[u] = [pc |-> poll'[u].pc, batch |-> poll'[u].batch, ids |-> poll'[u].ids, read |-> poll'[u].read]
      /\ \A v \in Users : v # u => poll'[v] = poll[v]
      /\ poll' = [v \in Users |-> poll'[v]]
  BY <1>1, <1>5
<1>7. SentOK(u) /\ AskedOK(u) /\ LinesOK(u)
  BY DEF FilesInv, FilesOK
<1>8. poll[u].pc = "asked" /\ \A n \in DOMAIN inbox[u] : inbox[u][n].kind # "isfin"
  BY <1>1, <1>7 DEF AskedOK
<1>9. FilesOK(u)'
  <2>1. SentOK(u)' /\ LinesOK(u)'
    BY <1>2, <1>6, <1>7, <1>8 DEF SentOK, LinesOK, WriterOf, Whole
  <2>2. AskedOK(u)'
    BY <1>2, <1>4, <1>6, <1>7, <1>8 DEF AskedOK
  <2> QED BY <2>1, <2>2 DEF FilesOK
<1>10. \A v \in Users : v # u => FilesOK(v)'
  BY <1>2, <1>4, <1>6, FilesStay DEF FilesInv
<1>11. FileShapes'
  <2>1. \A v \in Users : poll'[v] = [pc |-> poll'[v].pc, batch |-> poll'[v].batch, ids |-> poll'[v].ids,
                                     read |-> poll'[v].read]
    BY <1>6 DEF FilesInv, FileShapes
  <2> QED BY <1>2, <1>6, <2>1 DEF FilesInv, FileShapes
<1> QED BY <1>9, <1>10, <1>11 DEF FilesInv

LEMMA FilesStep ==
  ASSUME BatchInv, FilesInv, [Next]_vars
  PROVE  FilesInv'
<1>1. CASE \E u \in Users : Submit(u) \/ DoBatchAudit(u) \/ HandleFin(u)
  BY <1>1, FilesSubmit, FilesWrite, FilesRead
<1>2. CASE \E u \in Users : \E b \in wait[u] : AskFin(u, b)
  BY <1>2, FilesAskFin
<1>3. CASE \E u \in Users : Receive(u) \/ Enter(u)
  BY <1>3, FilesReceive, FilesWork
<1>4. CASE \E u \in Users : Serve(u)
  BY <1>4, FilesWork, FilesAnswer DEF Serve
<1>5. CASE (\E s \in Ssps : Work(s)) \/ Damage \/ UNCHANGED vars
  BY <1>5, FilesWork
<1> QED BY <1>1, <1>2, <1>3, <1>4, <1>5 DEF Next

\* Only a poll deletes a wait file.
LEMMA WaitKept ==
  ASSUME BatchInv, [Next]_vars, NEW u \in Users, ~HandleFin(u)
  PROVE  wait[u] \subseteq wait'[u]
<1>1. wait \in [Users -> SUBSET Keys]
  BY DEF BatchInv, Shapes
<1>2. CASE \E v \in Users : DoBatchAudit(v)
  <2>1. PICK v \in Users : DoBatchAudit(v)
    BY <1>2
  <2>2. \/ wait' = wait
        \/ \E b : wait' = [wait EXCEPT ![v] = @ \cup {b}]
    BY <2>1 DEF DoBatchAudit, CreateWait, FillWait, OpenWait, WriteLine, CloseWait
  <2> QED BY <1>1, <2>2
<1>3. CASE \E v \in Users : HandleFin(v)
  <2>1. PICK v \in Users : HandleFin(v) /\ v # u
    BY <1>3
  <2>2. PICK b : b = poll[v].batch
    OBVIOUS
  <2>3. wait' = wait \/ wait' = [wait EXCEPT ![v] = @ \ {b}]
    BY <2>1, <2>2 DEF HandleFin, ReadDate, WriteLog, DeleteWait
  <2> QED BY <1>1, <2>1, <2>3
<1>4. CASE \E v \in Users : Submit(v) \/ Receive(v) \/ Enter(v) \/ \E b \in wait[v] : AskFin(v, b)
  BY <1>4 DEF Submit, Receive, Enter, AskFin, client
<1>5. CASE \E v \in Users : Serve(v)
  BY <1>5 DEF Serve, Fork, Collect, Post, PushChallenge, PushProof, PushResult, ReadList, ClearList, client
<1>6. CASE (\E s \in Ssps : Work(s)) \/ Damage \/ UNCHANGED vars
  BY <1>6 DEF Work, StartTask, EndTask, Damage, vars, client
<1> QED BY <1>2, <1>3, <1>4, <1>5, <1>6 DEF Next

\* For any users, batches and faults: a wait file goes only when each file of its batch has the
\* entry of the audit the poll was answered with, unless a poll has read it while doBatchAudit
\* was writing it.
THEOREM BatchLoggedWhole == Spec => LoggedWhole
<1>1. BatchInv /\ FilesInv /\ [Next]_vars =>
        [\A u \in Users : \A b \in wait[u] \ wait'[u] :
           \/ b \in early[u]
           \/ \A n \in DOMAIN b : [file |-> b[n], ids |-> poll[u].ids] \in logs[u]]_vars
  BY WaitKept, FilesRead
<1>2. Spec => []FilesInv
  BY FilesInit, FilesStep, BatchAlways, PTL DEF Spec
<1> QED BY <1>1, <1>2, BatchAlways, PTL DEF Spec, LoggedWhole

=============================================================================
