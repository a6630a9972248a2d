---------------------------- MODULE ClientProofs ----------------------------
(***************************************************************************)
(* The client's uploads and downloads (Client, on SyncCall), for any       *)
(* threads, files and number of faults of every kind: they implement       *)
(* Calls; what is recorded of an upload is on the server; and downloads    *)
(* bring whole copies of it.                                               *)
(*                                                                         *)
(* The invariant of each is made of layers, each proved from the ones      *)
(* before: Inv (the calls and their bookkeeping), MixInv (who may share    *)
(* sk, t and a name with whom), MatchInv (whose request and answer a stamp *)
(* stands for), WholeInv (what rows, channel and answers say of a file),   *)
(* CopyInv (what downloads have brought).                                  *)
(***************************************************************************)
EXTENDS Client, FiniteSetTheorems, TLAPS

----------------------------------------------------------------------------
(* How often a request is in a queue *)

Places(q, r) == {i \in DOMAIN q : Same(q[i], r)}

LEMMA CountType ==
  ASSUME NEW S, NEW q \in Seq(S), NEW r
  PROVE  IsFiniteSet(Places(q, r)) /\ Count(q, r) = Cardinality(Places(q, r)) /\ Count(q, r) \in Nat
<1>1. DOMAIN q = 1 .. Len(q) /\ Len(q) \in Nat
  OBVIOUS
<1>2. IsFiniteSet(1 .. Len(q))
  BY <1>1, FS_Interval
<1>3. Places(q, r) \in SUBSET (1 .. Len(q))
  BY <1>1 DEF Places
<1>4. IsFiniteSet(Places(q, r))
  BY <1>2, <1>3, FS_Subset
<1>5. Count(q, r) = Cardinality(Places(q, r))
  BY DEF Count, Places
<1> QED BY <1>4, <1>5, FS_CardinalityType

LEMMA CountAppend ==
  ASSUME NEW S, NEW q \in Seq(S), NEW m \in S, NEW r
  PROVE  Count(Append(q, m), r) = Count(q, r) + (IF Same(m, r) THEN 1 ELSE 0)
<1> DEFINE p == Append(q, m)
           n == Len(q) + 1
<1>1. /\ p \in Seq(S) /\ DOMAIN q = 1 .. Len(q) /\ Len(q) \in Nat
      /\ DOMAIN p = 1 .. n /\ p[n] = m /\ \A i \in 1 .. Len(q) : p[i] = q[i]
  OBVIOUS
<1> HIDE DEF p
<1>2. Places(p, r) = IF Same(m, r) THEN Places(q, r) \cup {n} ELSE Places(q, r)
  BY <1>1 DEF Places
<1>3. n \notin Places(q, r)
  BY <1>1 DEF Places
<1>4. /\ IsFiniteSet(Places(q, r)) /\ Count(q, r) = Cardinality(Places(q, r)) /\ Count(q, r) \in Nat
      /\ Count(p, r) = Cardinality(Places(p, r))
  BY <1>1, CountType
<1>5. Cardinality(Places(q, r) \cup {n}) = Cardinality(Places(q, r)) + 1
  BY <1>3, <1>4, FS_AddElement
<1> QED BY <1>2, <1>4, <1>5 DEF p

LEMMA CountTail ==
  ASSUME NEW S, NEW q \in Seq(S), q # <<>>, NEW r
  PROVE  Count(q, r) = Count(Tail(q), r) + (IF Same(Head(q), r) THEN 1 ELSE 0)
<1> DEFINE p == Tail(q)
           Moved == {i + 1 : i \in Places(p, r)}
<1>1. /\ p \in Seq(S) /\ Len(q) \in Nat /\ Len(q) > 0 /\ DOMAIN q = 1 .. Len(q)
      /\ DOMAIN p = 1 .. Len(q) - 1 /\ Head(q) = q[1]
      /\ \A i \in 1 .. Len(q) - 1 : p[i] = q[i + 1]
  OBVIOUS
<1> HIDE DEF p
<1>2. /\ IsFiniteSet(Places(p, r)) /\ Count(p, r) = Cardinality(Places(p, r)) /\ Count(p, r) \in Nat
      /\ Count(q, r) = Cardinality(Places(q, r))
  BY <1>1, CountType
<1>3. Cardinality(Moved) = Cardinality(Places(p, r)) /\ IsFiniteSet(Moved)
  <2> DEFINE f == [i \in Places(p, r) |-> i + 1]
  <2>1. Places(p, r) \subseteq Nat
    BY <1>1 DEF Places
  <2>2. f \in Bijection(Places(p, r), Moved)
    BY <2>1 DEF Bijection, Injection, Surjection, IsInjective
  <2> QED BY <1>2, <2>2, FS_Bijection DEF ExistsBijection
<1>4. Places(q, r) = IF Same(Head(q), r) THEN Moved \cup {1} ELSE Moved
  <2>1. ASSUME NEW i \in Places(q, r), i # 1 PROVE i \in Moved
    <3>1. i - 1 \in 1 .. Len(q) - 1 /\ p[i - 1] = q[i] /\ i = (i - 1) + 1
      BY <1>1, <2>1 DEF Places
    <3>2. i - 1 \in Places(p, r)
      BY <1>1, <2>1, <3>1 DEF Places
    <3> QED BY <3>1, <3>2
  <2>2. ASSUME NEW i \in Places(p, r) PROVE i + 1 \in Places(q, r)
    BY <1>1 DEF Places
  <2>3. 1 \in Places(q, r) <=> Same(Head(q), r)
    BY <1>1 DEF Places
  <2> QED BY <2>1, <2>2, <2>3
<1>5. 1 \notin Moved
  BY <1>1 DEF Places
<1>6. Cardinality(Moved \cup {1}) = Cardinality(Moved) + 1
  BY <1>3, <1>5, FS_AddElement
<1> QED BY <1>2, <1>3, <1>4, <1>6 DEF p

----------------------------------------------------------------------------
(* The calls *)

CallOK(c) ==
  /\ c = [pc |-> c.pc, stamp |-> c.stamp, code |-> c.code, arg |-> c.arg, ans |-> c.ans]
  /\ c.ans = Null \/ c.ans.by \in Threads
  /\ c = NoCall \/ (c.pc \in {"put", "sent"} /\ c.stamp \in Stamps /\ c.code \in Codes)

\* Who is in the cache waits for an answer with its key, unless the event loop is about to
\* remove that key.
CacheOK ==
  /\ cache \in [Stamps -> Threads \cup {Nobody}]
  /\ loop \in Stamps \cup {NoStamp}
  /\ \A s \in Stamps, th \in Threads :
       cache[s] = th => loop = s \/ (Waiting(th) /\ call[th].stamp = s)

SentOK(m) ==
  /\ m.by \in Threads
  /\ (m.code = 205 /\ m.stamp = NoStamp) \/ (m.code \in Codes /\ m.stamp \in Stamps)

BackOK(m) == m.by \in Threads /\ m.code \in Codes /\ m.stamp \in Stamps

CallInv ==
  /\ call = [th \in Threads |-> call[th]]
  /\ \A th \in Threads : CallOK(call[th])
  /\ CacheOK
  /\ sent \in Seq(On(sent)) /\ \A m \in On(sent) : SentOK(m)
  /\ back \in Seq(On(back)) /\ \A m \in On(back) : BackOK(m)

LEMMA StampNumbers == Stamps \subseteq Nat \ {0} /\ NoStamp = 0 /\ Nobody \notin Threads
BY SyncCallAssumption DEF Stamps, NoStamp

LEMMA Appended ==
  ASSUME NEW q, q \in Seq(On(q)), NEW m
  PROVE  /\ Append(q, m) \in Seq(On(Append(q, m))) /\ On(Append(q, m)) = On(q) \cup {m}
         /\ \A r : Count(Append(q, m), r) = Count(q, r) + (IF Same(m, r) THEN 1 ELSE 0)
         /\ \A r : Count(q, r) \in Nat
<1> DEFINE S == On(q) \cup {m}
           p == Append(q, m)
<1>1. q \in Seq(S) /\ m \in S
  OBVIOUS
<1>2. /\ DOMAIN q = 1 .. Len(q) /\ Len(q) \in Nat
      /\ DOMAIN p = 1 .. Len(q) + 1 /\ p[Len(q) + 1] = m /\ \A i \in 1 .. Len(q) : p[i] = q[i]
      /\ p \in Seq(S)
  BY <1>1
<1> HIDE DEF p
<1>3. On(p) = On(q) \cup {m}
  BY <1>2 DEF On
<1> QED BY <1>1, <1>2, <1>3, CountAppend, CountType DEF p

LEMMA Removed ==
  ASSUME NEW q, q \in Seq(On(q)), q # <<>>
  PROVE  /\ Tail(q) \in Seq(On(Tail(q))) /\ On(Tail(q)) \subseteq On(q) /\ Head(q) \in On(q)
         /\ \A r : Count(q, r) = Count(Tail(q), r) + (IF Same(Head(q), r) THEN 1 ELSE 0)
         /\ \A r : Count(Tail(q), r) \in Nat
<1> DEFINE p == Tail(q)
<1>1. /\ p \in Seq(On(q)) /\ Len(q) \in Nat /\ Len(q) > 0 /\ DOMAIN q = 1 .. Len(q)
      /\ Len(p) = Len(q) - 1 /\ DOMAIN p = 1 .. Len(p) /\ Head(q) = q[1]
      /\ \A i \in 1 .. Len(q) - 1 : p[i] = q[i + 1]
  OBVIOUS
<1> HIDE DEF p
<1>2. On(p) \subseteq On(q) /\ Head(q) \in On(q)
  BY <1>1 DEF On
<1>3. p \in Seq(On(p))
  <2>1. \A i \in 1 .. Len(p) : p[i] \in On(p)
    BY <1>1 DEF On
  <2>2. p = [i \in 1 .. Len(p) |-> p[i]] /\ Len(p) \in Nat
    BY <1>1
  <2> QED BY <2>1, <2>2
<1> QED BY <1>1, <1>2, <1>3, CountTail, CountType DEF p

\* The counts behind Flight.
LEMMA FlightType ==
  ASSUME CallInv
  PROVE  /\ Flight \in [Requests -> Nat]
         /\ \A r \in Requests : /\ Flight[r] = Unwritten(r) + Count(sent, r) + Count(back, r)
                                /\ Unwritten(r) \in 0 .. 1
                                /\ Count(sent, r) \in Nat /\ Count(back, r) \in Nat
<1>1. \A r : Count(sent, r) \in Nat /\ Count(back, r) \in Nat
  BY CountType DEF CallInv
<1>2. \A r : Unwritten(r) \in 0 .. 1
  BY DEF Unwritten
<1> QED BY <1>1, <1>2 DEF Flight

----------------------------------------------------------------------------
(* Each step of a call, the event loop and the channel *)

Stutter == UNCHANGED <<Open, From, Flight>>

\* Loss and nothing else.
LEMMA Lost1 ==
  ASSUME CallInv, CallInv', UNCHANGED <<Open, From>>,
         \A r \in Requests : Flight'[r] <= Flight[r]
  PROVE  Abstract!Lose
<1>1. Flight' \in [Requests -> Nat]
  <2>1. (Flight \in [Requests -> Nat])'
    BY FlightType, PTL
  <2> QED BY <2>1
<1> QED BY <1>1 DEF Abstract!Lose, Abstract!Requests, Requests

AbsStep == Abstract!Next \/ Stutter

Holds(c) == c.pc \in {"put", "sent"} /\ c.ans = Null

LEMMA Basics ==
  /\ CallOK(NoCall) /\ NoCall.pc = "none" /\ NoCall.ans = Null /\ Null.by = Nobody
  /\ NoStamp \notin Stamps /\ Nobody \notin Threads
BY StampNumbers DEF CallOK, NoCall, Null

\* The record of one call changes, and with it what its thread shows of it.
LEMMA CallMoved ==
  ASSUME CallInv, NEW th \in Threads, NEW c, CallOK(c), call' = [call EXCEPT ![th] = c]
  PROVE  /\ call' = [u \in Threads |-> call'[u]] /\ \A u \in Threads : CallOK(call'[u])
         /\ call'[th] = c /\ \A u \in Threads : u # th => call'[u] = call[u]
         /\ Open' = [Open EXCEPT ![th] = IF Holds(c) THEN {c.stamp} ELSE {}]
         /\ From' = [From EXCEPT ![th] = c.ans.by]
         /\ \A r \in Requests :
              Unwritten(r)' = IF r.by = th
                                THEN IF c.pc = "put" /\ c.stamp = r.stamp /\ c.code = r.code THEN 1 ELSE 0
                                ELSE Unwritten(r)
<1>1. /\ call' = [u \in Threads |-> call'[u]] /\ call'[th] = c
      /\ \A u \in Threads : u # th => call'[u] = call[u]
  BY DEF CallInv
<1>2. \A u \in Threads : CallOK(call'[u])
  BY <1>1 DEF CallInv
<1>3. Open' = [Open EXCEPT ![th] = IF Holds(c) THEN {c.stamp} ELSE {}]
  BY <1>1 DEF Open, Waiting, Holds
<1>4. From' = [From EXCEPT ![th] = c.ans.by]
  BY <1>1 DEF From
<1>5. \A r \in Requests : r.by \in Threads
  BY DEF Requests
<1> QED BY <1>1, <1>2, <1>3, <1>4, <1>5 DEF Unwritten

LEMMA StayOpen ==
  ASSUME UNCHANGED call
  PROVE  UNCHANGED <<Open, From>> /\ \A r : Unwritten(r)' = Unwritten(r)
BY DEF Open, From, Waiting, Unwritten

\* One of the counts that make up Flight, before and after.
LEMMA FlightNext ==
  ASSUME CallInv, CallInv'
  PROVE  \A r \in Requests :
           /\ Flight'[r] = Unwritten(r)' + Count(sent', r) + Count(back', r)
           /\ Unwritten(r)' \in 0 .. 1 /\ Count(sent', r) \in Nat /\ Count(back', r) \in Nat
<1>1. (\A r \in Requests : /\ Flight[r] = Unwritten(r) + Count(sent, r) + Count(back, r)
                           /\ Unwritten(r) \in 0 .. 1
                           /\ Count(sent, r) \in Nat /\ Count(back, r) \in Nat)'
  BY FlightType, PTL
<1> QED BY <1>1 DEF Count, Same

LEMMA FlightTypeNext ==
  ASSUME CallInv'
  PROVE  Flight' \in [Requests -> Nat]
<1>1. (Flight \in [Requests -> Nat])'
  BY FlightType, PTL
<1> QED BY <1>1

\* What leaves every count as it is leaves Flight.
LEMMA FlightStays ==
  ASSUME CallInv, CallInv', \A r \in Requests : Flight'[r] = Flight[r]
  PROVE  UNCHANGED Flight
<1>1. Flight' \in [Requests -> Nat] /\ Flight \in [Requests -> Nat]
  BY FlightType, FlightTypeNext
<1> QED BY <1>1

LEMMA PlaceStep ==
  ASSUME CallInv, NEW th \in Threads, NEW s \in Stamps, NEW code \in Codes, NEW arg,
         call[th].pc # "put", ~Waiting(th), Place(th, code, arg, s)
  PROVE  CallInv' /\ AbsStep
<1> DEFINE c == [pc |-> "put", stamp |-> s, code |-> code, arg |-> arg, ans |-> Null]
           r == [by |-> th, stamp |-> s, code |-> code]
<1>1. /\ c.pc = "put" /\ c.stamp = s /\ c.code = code /\ c.ans = Null /\ CallOK(c) /\ Holds(c)
      /\ call' = [call EXCEPT ![th] = c]
  BY DEF Place, CallOK, Holds
<1> HIDE DEF c
<1>2. /\ call' = [u \in Threads |-> call'[u]] /\ \A u \in Threads : CallOK(call'[u])
      /\ call'[th] = c /\ \A u \in Threads : u # th => call'[u] = call[u]
      /\ Open' = [Open EXCEPT ![th] = {s}] /\ From' = [From EXCEPT ![th] = Nobody]
      /\ \A x \in Requests : Unwritten(x)' = IF x.by = th
                               THEN IF s = x.stamp /\ code = x.code THEN 1 ELSE 0
                               ELSE Unwritten(x)
  <2>1. c.ans.by = Nobody
    BY <1>1, Basics
  <2> QED BY <1>1, <2>1, CallMoved
<1>3. CacheOK'
  <2>1. /\ cache' \in [Stamps -> Threads \cup {Nobody}] /\ loop' \in Stamps \cup {NoStamp}
        /\ cache'[s] = th /\ \A x \in Stamps : x # s => cache'[x] = cache[x]
        /\ loop' = loop
    BY DEF Place, CallInv, CacheOK
  <2>2. Waiting(th)' /\ \A u \in Threads : u # th => Waiting(u)' = Waiting(u)
    BY <1>1, <1>2 DEF Waiting
  <2>3. \A x \in Stamps, u \in Threads :
          cache'[x] = u => loop' = x \/ (Waiting(u)' /\ call'[u].stamp = x)
    BY <1>1, <1>2, <2>1, <2>2, Basics DEF CallInv, CacheOK
  <2> QED BY <2>1, <2>3 DEF CacheOK, Waiting
<1>4. CallInv'
  BY <1>2, <1>3 DEF Place, wire, CallInv, SentOK, BackOK, On, CallOK
<1>5. \A x \in Requests : Flight'[x] = Flight[x] + (IF x = r THEN 1 ELSE 0)
  <2>1. \A x \in Requests : x = r <=> x.by = th /\ x.stamp = s /\ x.code = code
    BY DEF Requests
  <2>2. \A x \in Requests : x.by = th => Unwritten(x) = 0
    BY DEF Unwritten
  <2>3. sent' = sent /\ back' = back
    BY DEF Place, wire
  <2> HIDE DEF r
  <2> QED BY <1>2, <1>4, <2>1, <2>2, <2>3, FlightType, FlightNext
<1>6. Abstract!Ask(th, s, code)
  <2>1. Open[th] = {}
    BY DEF Open
  <2>2. Flight' = [Flight EXCEPT ![r] = @ + 1]
    <3>1. r \in Requests
      BY DEF Requests
    <3>2. Flight' \in [Requests -> Nat] /\ Flight \in [Requests -> Nat]
      BY <1>4, FlightType, FlightTypeNext
    <3> HIDE DEF r
    <3> QED BY <1>5, <3>1, <3>2
  <2> QED BY <1>2, <2>1, <2>2 DEF Abstract!Ask
<1> QED BY <1>4, <1>6 DEF AbsStep, Abstract!Next

\* What a step leaves of CallInv when it leaves the records of the calls.
LEMMA SameCalls ==
  ASSUME CallInv, UNCHANGED <<call, cache, loop>>,
         sent' \in Seq(On(sent')), \A m \in On(sent') : SentOK(m),
         back' \in Seq(On(back')), \A m \in On(back') : BackOK(m)
  PROVE  CallInv'
<1>1. CacheOK'
  BY DEF CallInv, CacheOK, Waiting
<1> QED BY <1>1 DEF CallInv, CallOK, SentOK, BackOK, On

LEMMA WriteStep ==
  ASSUME CallInv, NEW th \in Threads, WriteOut(th)
  PROVE  CallInv' /\ AbsStep
<1> DEFINE c == [call[th] EXCEPT !.pc = "sent"]
           m == [by |-> th, stamp |-> call[th].stamp, code |-> call[th].code, arg |-> call[th].arg]
<1>1. /\ call[th].pc = "put" /\ call[th].stamp \in Stamps /\ call[th].code \in Codes
      /\ call' = [call EXCEPT ![th] = c]
      /\ c.pc = "sent" /\ c.stamp = call[th].stamp /\ c.code = call[th].code /\ c.ans = call[th].ans
      /\ CallOK(c)
  BY Basics DEF WriteOut, CallInv, CallOK
<1>2. SentOK(m) /\ m.by = th /\ m.stamp = call[th].stamp /\ m.code = call[th].code
  BY <1>1 DEF SentOK
<1>3. sent' = (IF up THEN Append(sent, m) ELSE sent) /\ UNCHANGED <<cache, back, loop>>
  BY DEF WriteOut, Written
<1> HIDE DEF c, m
<1>4. /\ sent \in Seq(On(sent)) /\ \A x \in On(sent) : SentOK(x)
      /\ back \in Seq(On(back)) /\ \A x \in On(back) : BackOK(x)
  BY DEF CallInv
<1>5. sent' \in Seq(On(sent')) /\ \A x \in On(sent') : SentOK(x)
  <2>1. /\ Append(sent, m) \in Seq(On(Append(sent, m)))
        /\ On(Append(sent, m)) = On(sent) \cup {m}
    BY <1>4, Appended
  <2> QED BY <1>2, <1>3, <1>4, <2>1
<1>6. /\ call' = [u \in Threads |-> call'[u]] /\ \A u \in Threads : CallOK(call'[u])
      /\ call'[th] = c /\ \A u \in Threads : u # th => call'[u] = call[u]
      /\ Open' = [Open EXCEPT ![th] = IF Holds(c) THEN {c.stamp} ELSE {}]
      /\ From' = [From EXCEPT ![th] = c.ans.by]
      /\ \A r \in Requests : Unwritten(r)' = IF r.by = th THEN 0 ELSE Unwritten(r)
  BY <1>1, CallMoved
<1>7. \A u \in Threads : Waiting(u)' = Waiting(u) /\ call'[u].stamp = call[u].stamp
  BY <1>1, <1>6 DEF Waiting
<1>8. CallInv'
  <2>1. CacheOK'
    BY <1>3, <1>7 DEF CallInv, CacheOK, Waiting
  <2>2. back' \in Seq(On(back')) /\ \A x \in On(back') : BackOK(x)
    BY <1>3, <1>4 DEF On
  <2> QED BY <1>5, <1>6, <2>1, <2>2 DEF CallInv, CallOK, SentOK, BackOK, On
<1>9. UNCHANGED <<Open, From>>
  <2>1. Open[th] = (IF Holds(c) THEN {c.stamp} ELSE {}) /\ From[th] = c.ans.by
    BY <1>1 DEF Open, From, Waiting, Holds
  <2>2. Open = [u \in Threads |-> Open[u]] /\ From = [u \in Threads |-> From[u]]
    BY DEF Open, From
  <2> QED BY <1>6, <2>1, <2>2
<1>10. \A r \in Requests : Unwritten(r) = IF Same(m, r) THEN 1 ELSE IF r.by = th THEN 0 ELSE Unwritten(r)
  BY <1>1, <1>2 DEF Same, Unwritten
<1>11. CASE up
  <2>1. \A r \in Requests : Count(sent', r) = Count(sent, r) + (IF Same(m, r) THEN 1 ELSE 0)
    BY <1>3, <1>4, <1>11, Appended
  <2>2. \A r \in Requests : Same(m, r) => r.by = th
    BY <1>2 DEF Same
  <2>3. \A r \in Requests : Flight'[r] = Flight[r]
    BY <1>3, <1>6, <1>8, <1>10, <2>1, <2>2, FlightType, FlightNext
  <2> QED BY <1>8, <1>9, <2>3, FlightStays DEF AbsStep, Stutter
<1>12. CASE ~up
  <2>1. \A r \in Requests : Flight'[r] <= Flight[r]
    BY <1>3, <1>6, <1>8, <1>12, FlightType, FlightNext
  <2> QED BY <1>8, <1>9, <2>1, Lost1 DEF AbsStep, Abstract!Next
<1> QED BY <1>11, <1>12

\* A step of the channel: requests and answers are lost, or counted elsewhere.
LEMMA ChannelStep ==
  ASSUME CallInv, CallInv', UNCHANGED call,
         \A r \in Requests : Count(sent', r) + Count(back', r) <= Count(sent, r) + Count(back, r)
  PROVE  AbsStep
<1>1. UNCHANGED <<Open, From>> /\ \A r : Unwritten(r)' = Unwritten(r)
  BY StayOpen
<1>2. \A r \in Requests : Flight'[r] <= Flight[r]
  BY <1>1, FlightType, FlightNext
<1> QED BY <1>1, <1>2, Lost1 DEF AbsStep, Abstract!Next

LEMMA PostStep ==
  ASSUME CallInv, NEW th \in Threads, NEW arg, Post(th, 205, arg)
  PROVE  CallInv' /\ AbsStep
<1> DEFINE m == [by |-> th, stamp |-> NoStamp, code |-> 205, arg |-> arg]
<1>1. SentOK(m) /\ \A r \in Requests : ~Same(m, r)
  BY Basics DEF SentOK, Same, Requests
<1>2. sent' = (IF up THEN Append(sent, m) ELSE sent) /\ UNCHANGED <<call, cache, back, loop>>
  BY DEF Post, Written
<1> HIDE DEF m
<1>3. /\ sent \in Seq(On(sent)) /\ \A x \in On(sent) : SentOK(x)
      /\ back \in Seq(On(back)) /\ \A x \in On(back) : BackOK(x)
  BY DEF CallInv
<1>4. /\ sent' \in Seq(On(sent')) /\ \A x \in On(sent') : SentOK(x)
      /\ \A r \in Requests : Count(sent', r) = Count(sent, r) /\ Count(sent, r) \in Nat
  <2>1. /\ Append(sent, m) \in Seq(On(Append(sent, m)))
        /\ On(Append(sent, m)) = On(sent) \cup {m}
        /\ \A r \in Requests : Count(Append(sent, m), r) = Count(sent, r)
                               /\ Count(sent, r) \in Nat
    BY <1>1, <1>3, Appended
  <2> QED BY <1>1, <1>2, <1>3, <2>1
<1>5. CallInv'
  BY <1>2, <1>3, <1>4, SameCalls
<1>6. \A r \in Requests : Count(back, r) \in Nat
  BY FlightType
<1> QED BY <1>2, <1>4, <1>5, <1>6, ChannelStep

LEMMA UnansweredStep ==
  ASSUME CallInv, Unanswered
  PROVE  CallInv' /\ AbsStep
<1>1. /\ sent # <<>> /\ sent' = Tail(sent) /\ UNCHANGED <<call, cache, back, loop>>
      /\ sent \in Seq(On(sent)) /\ \A x \in On(sent) : SentOK(x)
      /\ back \in Seq(On(back)) /\ \A x \in On(back) : BackOK(x)
  BY DEF CallInv, Unanswered
<1>2. /\ sent' \in Seq(On(sent')) /\ \A x \in On(sent') : SentOK(x)
      /\ \A r \in Requests : Count(sent', r) <= Count(sent, r) /\ Count(sent', r) \in Nat
                             /\ Count(sent, r) \in Nat
  BY <1>1, Removed
<1>3. CallInv'
  BY <1>1, <1>2, SameCalls
<1>4. \A r \in Requests : Count(back, r) \in Nat
  BY FlightType
<1> QED BY <1>1, <1>2, <1>3, <1>4, ChannelStep

LEMMA RepliedStep ==
  ASSUME CallInv, NEW ans, sent # <<>> => Head(sent).code \in Codes /\ Head(sent).stamp \in Stamps,
         Replied(Head(sent), ans)
  PROVE  CallInv' /\ AbsStep
<1> DEFINE m == Head(sent)
           a == [by |-> m.by, stamp |-> m.stamp, code |-> m.code, ans |-> ans]
<1>1. /\ sent # <<>> /\ sent' = Tail(sent) /\ UNCHANGED <<call, cache, loop>>
      /\ sent \in Seq(On(sent)) /\ \A x \in On(sent) : SentOK(x)
      /\ back \in Seq(On(back)) /\ \A x \in On(back) : BackOK(x)
      /\ back' = Append(back, a) \/ back' = back
  BY DEF CallInv, Replied, Reply
<1>2. /\ sent' \in Seq(On(sent')) /\ \A x \in On(sent') : SentOK(x)
      /\ m \in On(sent)
      /\ \A r \in Requests : /\ Count(sent, r) = Count(sent', r) + (IF Same(m, r) THEN 1 ELSE 0)
                             /\ Count(sent', r) \in Nat
  BY <1>1, Removed
<1>3. BackOK(a) /\ \A r : Same(a, r) = Same(m, r)
  BY <1>1, <1>2 DEF SentOK, BackOK, Same
<1> HIDE DEF m, a
<1>4. /\ back' \in Seq(On(back')) /\ \A x \in On(back') : BackOK(x)
      /\ \A r \in Requests : /\ Count(back', r) <= Count(back, r) + (IF Same(m, r) THEN 1 ELSE 0)
                             /\ Count(back, r) \in Nat /\ Count(back', r) \in Nat
  <2>1. \A r \in Requests : Count(back, r) \in Nat
    BY FlightType
  <2>2. CASE back' = back
    BY <1>1, <2>1, <2>2
  <2>3. CASE back' = Append(back, a)
    BY <1>1, <1>3, <2>1, <2>3, Appended
  <2> QED BY <1>1, <2>2, <2>3
<1>5. CallInv'
  BY <1>1, <1>2, <1>4, SameCalls
<1>6. \A r \in Requests : Count(sent', r) + Count(back', r) <= Count(sent, r) + Count(back, r)
  BY <1>2, <1>4
<1> QED BY <1>1, <1>5, <1>6, ChannelStep

LEMMA CloseStep ==
  ASSUME CallInv, Close
  PROVE  CallInv' /\ AbsStep
<1>1. sent' = <<>> /\ back' = <<>> /\ UNCHANGED <<call, cache, loop>>
  BY DEF Close
<1>2. On(<<>>) = {} /\ <<>> \in Seq({}) /\ \A r : Count(<<>>, r) = 0
  <2>1. \A r : {i \in DOMAIN <<>> : Same(<<>>[i], r)} = {}
    OBVIOUS
  <2> QED BY <2>1, FS_EmptySet DEF On, Count
<1>3. CallInv'
  BY <1>1, <1>2, SameCalls
<1> QED BY <1>1, <1>2, <1>3, FlightType, ChannelStep

LEMMA InvalidateStep ==
  ASSUME CallInv, Invalidate
  PROVE  CallInv' /\ AbsStep
<1>1. /\ loop # NoStamp /\ loop' = NoStamp /\ cache' = [cache EXCEPT ![loop] = Nobody]
      /\ UNCHANGED <<call, sent, back>>
  BY DEF Invalidate, wire
<1>2. CacheOK'
  BY <1>1, Basics DEF CallInv, CacheOK, Waiting
<1>3. CallInv'
  BY <1>1, <1>2 DEF CallInv, CallOK, SentOK, BackOK, On
<1>4. \A r \in Requests : Count(sent, r) \in Nat /\ Count(back, r) \in Nat
  BY FlightType
<1> QED BY <1>1, <1>3, <1>4, ChannelStep

\* The head of `back' goes to the thread in the cache, which is waiting with its stamp.
LEMMA AcknowledgeStep ==
  ASSUME CallInv, Acknowledge
  PROVE  CallInv' /\ AbsStep
<1> DEFINE m == Head(back)
           th == cache[m.stamp]
           r == [by |-> m.by, stamp |-> m.stamp, code |-> m.code]
<1>1. /\ back # <<>> /\ loop = NoStamp /\ back' = Tail(back) /\ UNCHANGED <<cache, sent>>
      /\ IF th = Nobody THEN UNCHANGED <<call, loop>>
         ELSE call' = [call EXCEPT ![th].ans = m] /\ loop' = m.stamp
  BY DEF Acknowledge, Waiter
<1>2. /\ sent \in Seq(On(sent)) /\ \A x \in On(sent) : SentOK(x)
      /\ back \in Seq(On(back)) /\ \A x \in On(back) : BackOK(x)
  BY DEF CallInv
<1>3. /\ back' \in Seq(On(back')) /\ \A x \in On(back') : BackOK(x)
      /\ BackOK(m)
      /\ \A x \in Requests : /\ Count(back, x) = Count(back', x) + (IF Same(m, x) THEN 1 ELSE 0)
                             /\ Count(back', x) \in Nat
  BY <1>1, <1>2, Removed
<1>4. /\ r \in Requests /\ r.stamp = m.stamp /\ r.by = m.by
      /\ \A x \in Requests : Same(m, x) <=> x = r
  BY <1>3 DEF Requests, BackOK, Same
<1> HIDE DEF m, r
<1>5. CASE th = Nobody
  <2>1. UNCHANGED <<call, cache, loop>>
    BY <1>1, <1>5
  <2>2. CallInv'
    <3>1. sent' \in Seq(On(sent')) /\ \A x \in On(sent') : SentOK(x)
      BY <1>1, <1>2 DEF On
    <3> QED BY <1>3, <2>1, <3>1, SameCalls
  <2>3. \A x \in Requests : Count(sent, x) \in Nat
    BY FlightType
  <2>4. \A x \in Requests : Count(sent', x) + Count(back', x) <= Count(sent, x) + Count(back, x)
    BY <1>1, <1>3, <2>3
  <2> QED BY <2>1, <2>2, <2>4, ChannelStep
<1>6. CASE th # Nobody
  <2>1. /\ th \in Threads /\ Waiting(th) /\ call[th].stamp = m.stamp
        /\ m.stamp \in Stamps /\ m.stamp # NoStamp /\ m.by \in Threads /\ m # Null
    <3>1. m.stamp \in Stamps /\ m.by \in Threads
      BY <1>3 DEF BackOK
    <3>2. th \in Threads
      BY <1>6, <3>1 DEF CallInv, CacheOK
    <3>3. Waiting(th) /\ call[th].stamp = m.stamp
      BY <1>1, <3>1, <3>2, Basics DEF CallInv, CacheOK
    <3> QED BY <3>1, <3>2, <3>3, Basics
  <2> DEFINE c == [call[th] EXCEPT !.ans = m]
  <2>2. /\ CallOK(call[th]) /\ call[th] # NoCall /\ call[th].ans = Null
    BY <2>1, Basics DEF CallInv, Waiting
  <2>3. /\ call' = [call EXCEPT ![th] = c]
        /\ c.pc = call[th].pc /\ c.stamp = call[th].stamp /\ c.code = call[th].code /\ c.ans = m
        /\ CallOK(c) /\ ~Holds(c)
    BY <1>1, <1>6, <2>1, <2>2 DEF CallOK, Holds
  <2> HIDE DEF c, th
  <2>4. /\ call' = [u \in Threads |-> call'[u]] /\ \A u \in Threads : CallOK(call'[u])
        /\ call'[th] = c /\ \A u \in Threads : u # th => call'[u] = call[u]
        /\ Open' = [Open EXCEPT ![th] = {}] /\ From' = [From EXCEPT ![th] = m.by]
        /\ \A x \in Requests : Unwritten(x)' = IF x.by = th
             THEN IF c.pc = "put" /\ c.stamp = x.stamp /\ c.code = x.code THEN 1 ELSE 0
             ELSE Unwritten(x)
    BY <2>1, <2>3, CallMoved
  <2>5. \A x \in Requests : Unwritten(x)' = Unwritten(x)
    BY <2>3, <2>4 DEF Unwritten
  <2>6. CacheOK'
    <3>1. cache' = cache /\ loop' = m.stamp /\ loop = NoStamp
      BY <1>1, <1>6 DEF th
    <3>2. \A x \in Stamps : cache[x] = th => x = m.stamp
      BY <2>1, <3>1, Basics DEF CallInv, CacheOK
    <3>3. \A u \in Threads : u # th => Waiting(u)' = Waiting(u)
      BY <2>4 DEF Waiting
    <3> QED BY <2>1, <2>4, <3>1, <3>2, <3>3, Basics DEF CallInv, CacheOK, Waiting
  <2>7. CallInv'
    <3>1. sent' \in Seq(On(sent')) /\ \A x \in On(sent') : SentOK(x)
      BY <1>1, <1>2 DEF On
    <3> QED BY <1>3, <2>4, <2>6, <3>1 DEF CallInv, CallOK, SentOK, BackOK, On
  <2>8. \A x \in Requests : Flight'[x] = IF x = r THEN Flight[x] - 1 ELSE Flight[x]
    <3>1. \A x \in Requests : Count(back', x) = Count(back, x) - (IF x = r THEN 1 ELSE 0)
      BY <1>3, <1>4
    <3>2. \A x \in Requests : Count(sent', x) = Count(sent, x)
      BY <1>1
    <3>3. \A x \in Requests : Flight[x] = Unwritten(x) + Count(sent, x) + Count(back, x)
                              /\ Unwritten(x) \in 0 .. 1 /\ Count(sent, x) \in Nat
                              /\ Count(back, x) \in Nat
      BY FlightType
    <3>4. \A x \in Requests : Flight'[x] = Unwritten(x)' + Count(sent', x) + Count(back', x)
      BY <2>7, FlightNext
    <3> QED BY <2>5, <3>1, <3>2, <3>3, <3>4
  <2>9. Flight' \in [Requests -> Nat] /\ Flight \in [Requests -> Nat]
    BY <2>7, FlightType, FlightTypeNext
  <2>10. Flight' = [Flight EXCEPT ![r] = @ - 1] /\ Flight[r] > 0
    BY <1>4, <2>8, <2>9
  <2>11. r.stamp \in Open[th]
    BY <1>4, <2>1 DEF Open
  <2>12. Abstract!Answer(th, r)
    BY <1>4, <2>4, <2>10, <2>11 DEF Abstract!Answer, Abstract!UnderWay, Abstract!Requests, Requests
  <2>13. r \in Abstract!UnderWay
    BY <2>12 DEF Abstract!Answer
  <2> QED BY <2>1, <2>7, <2>12, <2>13 DEF AbsStep, Abstract!Next
<1> QED BY <1>5, <1>6

\* A call ends, with null or with its answer in hand.
LEMMA EndStep ==
  ASSUME CallInv, NEW th \in Threads, call[th].pc = "sent",
         call' = [call EXCEPT ![th] = NoCall], CacheOK', UNCHANGED wire
  PROVE  /\ CallInv' /\ UNCHANGED Flight
         /\ Open' = [Open EXCEPT ![th] = {}] /\ From' = [From EXCEPT ![th] = Nobody]
<1>1. CallOK(NoCall) /\ NoCall.pc = "none" /\ NoCall.ans.by = Nobody /\ ~Holds(NoCall)
  BY Basics DEF Holds
<1>2. /\ call' = [u \in Threads |-> call'[u]] /\ \A u \in Threads : CallOK(call'[u])
      /\ Open' = [Open EXCEPT ![th] = {}] /\ From' = [From EXCEPT ![th] = Nobody]
      /\ \A x \in Requests : Unwritten(x)' = IF x.by = th THEN 0 ELSE Unwritten(x)
  BY <1>1, CallMoved
<1>3. CallInv'
  BY <1>2 DEF CallInv, CallOK, SentOK, BackOK, On, wire
<1>4. \A x \in Requests : Unwritten(x)' = Unwritten(x)
  BY <1>2 DEF Unwritten
<1>5. \A x \in Requests : Flight'[x] = Flight[x]
  BY <1>3, <1>4, FlightType, FlightNext DEF wire
<1> QED BY <1>2, <1>3, <1>5, FlightStays

LEMMA ExpireStep ==
  ASSUME CallInv, NEW th \in Threads, call[th].pc = "sent", call[th].ans = Null, Expire(th)
  PROVE  CallInv' /\ AbsStep
<1>1. /\ call' = [call EXCEPT ![th] = NoCall] /\ UNCHANGED wire /\ loop' = loop
      /\ cache' = [cache EXCEPT ![call[th].stamp] = IF @ = th THEN Nobody ELSE @]
      /\ Waiting(th) /\ call[th].stamp \in Stamps
  BY Basics DEF Expire, Waiting, CallInv, CallOK
<1>2. CacheOK'
  <2>1. \A u \in Threads : u # th => Waiting(u)' = Waiting(u) /\ call'[u] = call[u]
    BY <1>1 DEF Waiting, CallInv
  <2>2. \A x \in Stamps : /\ cache'[x] \in {cache[x], Nobody}
                          /\ cache'[x] = th => loop = x
    BY <1>1, Basics DEF CallInv, CacheOK
  <2> QED BY <1>1, <2>1, <2>2, Basics DEF CallInv, CacheOK, Waiting
<1>3. /\ CallInv' /\ UNCHANGED Flight
      /\ Open' = [Open EXCEPT ![th] = {}] /\ From' = [From EXCEPT ![th] = Nobody]
  BY <1>1, <1>2, EndStep
<1>4. UNCHANGED From /\ Open[th] # {}
  BY <1>1, <1>3, Basics DEF From, Open
<1> QED BY <1>3, <1>4 DEF AbsStep, Abstract!Next, Abstract!GiveUp

LEMMA ReturnStep ==
  ASSUME CallInv, NEW th \in Threads, Answered(th), Return(th)
  PROVE  CallInv' /\ AbsStep
<1>1. /\ call' = [call EXCEPT ![th] = NoCall] /\ UNCHANGED <<cache, wire, loop>>
      /\ call[th].pc = "sent" /\ ~Waiting(th)
  BY DEF Return, Answered, Waiting
<1>2. CacheOK'
  <2>1. \A u \in Threads : u # th => Waiting(u)' = Waiting(u) /\ call'[u] = call[u]
    BY <1>1 DEF Waiting, CallInv
  <2> QED BY <1>1, <2>1 DEF CallInv, CacheOK, Waiting
<1>3. /\ CallInv' /\ UNCHANGED Flight
      /\ Open' = [Open EXCEPT ![th] = {}] /\ From' = [From EXCEPT ![th] = Nobody]
  BY <1>1, <1>2, EndStep
<1>4. UNCHANGED Open
  BY <1>1, <1>3 DEF Open
<1> QED BY <1>3, <1>4 DEF AbsStep, Abstract!Next, Abstract!Take

----------------------------------------------------------------------------
(* The steps of the client *)

JobRec(j) == j = [pc |-> j.pc, name |-> j.name, flag |-> j.flag, key |-> j.key, idx |-> j.idx,
                  todo |-> j.todo]

WaitPcs == {"asked", "filing", "proving", "fetching"}

\* A thread has a call at the places of its upload or download where it waits, and at no other.
JobInv ==
  /\ job = [th \in Threads |-> job[th]]
  /\ \A th \in Threads : JobRec(job[th]) /\ (job[th].pc \notin WaitPcs => call[th] = NoCall)

Inv == CallInv /\ JobInv

LEMMA JobMoved ==
  ASSUME Inv, NEW th \in Threads, NEW j, JobRec(j), Become(th, j),
         \A u \in Threads : u # th => call'[u] = call[u],
         j.pc \notin WaitPcs => call'[th] = NoCall
  PROVE  JobInv'
BY DEF Inv, JobInv, Become, JobRec

LEMMA JobStays ==
  ASSUME Inv, UNCHANGED job, \A u \in Threads : call'[u] = call[u] \/ job[u].pc \in WaitPcs
  PROVE  JobInv'
BY DEF Inv, JobInv, JobRec

LEMMA IdleRec ==
  ASSUME Inv, NEW th \in Threads
  PROVE  /\ JobRec(Idle) /\ Idle.pc \notin WaitPcs
         /\ JobRec(job[th])
         /\ \A pc : JobRec([job[th] EXCEPT !.pc = pc]) /\ [job[th] EXCEPT !.pc = pc].pc = pc
<1>1. JobRec(Idle) /\ Idle.pc \notin WaitPcs
  BY DEF Idle, JobRec, WaitPcs
<1>2. JobRec(job[th])
  BY DEF Inv, JobInv
<1>3. \A pc : JobRec([job[th] EXCEPT !.pc = pc]) /\ [job[th] EXCEPT !.pc = pc].pc = pc
  BY <1>2 DEF JobRec
<1> QED BY <1>1, <1>2, <1>3

\* The records that an upload or download goes on with.
JobOf(pc, name, flag, key, idx, todo) ==
  [pc |-> pc, name |-> name, flag |-> flag, key |-> key, idx |-> idx, todo |-> todo]

LEMMA JobFields ==
  ASSUME NEW p, NEW n, NEW f, NEW k, NEW i, NEW l
  PROVE  /\ JobRec(JobOf(p, n, f, k, i, l))
         /\ JobOf(p, n, f, k, i, l).pc = p /\ JobOf(p, n, f, k, i, l).name = n
         /\ JobOf(p, n, f, k, i, l).flag = f /\ JobOf(p, n, f, k, i, l).key = k
         /\ JobOf(p, n, f, k, i, l).idx = i /\ JobOf(p, n, f, k, i, l).todo = l
BY DEF JobRec, JobOf

Shows(j, pc, name, flag, key, idx, todo) ==
  /\ JobRec(j) /\ j.pc = pc /\ j.name = name /\ j.flag = flag /\ j.key = key
  /\ j.idx = idx /\ j.todo = todo

LEMMA Moved ==
  ASSUME NEW j, JobRec(j), NEW x
  PROVE  Shows([j EXCEPT !.pc = x], x, j.name, j.flag, j.key, j.idx, j.todo)
<1> DEFINE j1 == [j EXCEPT !.pc = x]
<1>1. [j EXCEPT !.pc = x] = j1
  OBVIOUS
<1>2. j1 = JobOf(x, j.name, j.flag, j.key, j.idx, j.todo)
  BY DEF JobRec, JobOf
<1> HIDE DEF j1
<1> QED BY <1>1, <1>2, JobFields DEF Shows

LEMMA MovedName ==
  ASSUME NEW j, JobRec(j), NEW x, NEW y
  PROVE  Shows([j EXCEPT !.pc = x, !.name = y], x, y, j.flag, j.key, j.idx, j.todo)
<1> DEFINE j1 == [j EXCEPT !.pc = x]
           j2 == [j1 EXCEPT !.name = y]
<1>1. [j EXCEPT !.pc = x, !.name = y] = j2
  OBVIOUS
<1>2. j1 = JobOf(x, j.name, j.flag, j.key, j.idx, j.todo)
  BY DEF JobRec, JobOf
<1> HIDE DEF j1
<1>3. j2 = JobOf(x, y, j.flag, j.key, j.idx, j.todo)
  BY <1>2 DEF JobOf
<1> HIDE DEF j2
<1> QED BY <1>1, <1>3, JobFields DEF Shows

LEMMA MovedKey ==
  ASSUME NEW j, JobRec(j), NEW x, NEW y
  PROVE  Shows([j EXCEPT !.pc = x, !.key = y], x, j.name, j.flag, y, j.idx, j.todo)
<1> DEFINE j1 == [j EXCEPT !.pc = x]
           j2 == [j1 EXCEPT !.key = y]
<1>1. [j EXCEPT !.pc = x, !.key = y] = j2
  OBVIOUS
<1>2. j1 = JobOf(x, j.name, j.flag, j.key, j.idx, j.todo)
  BY DEF JobRec, JobOf
<1> HIDE DEF j1
<1>3. j2 = JobOf(x, j.name, j.flag, y, j.idx, j.todo)
  BY <1>2 DEF JobOf
<1> HIDE DEF j2
<1> QED BY <1>1, <1>3, JobFields DEF Shows

LEMMA MovedIdx ==
  ASSUME NEW j, JobRec(j), NEW x, NEW y
  PROVE  Shows([j EXCEPT !.pc = x, !.idx = y], x, j.name, j.flag, j.key, y, j.todo)
<1> DEFINE j1 == [j EXCEPT !.pc = x]
           j2 == [j1 EXCEPT !.idx = y]
<1>1. [j EXCEPT !.pc = x, !.idx = y] = j2
  OBVIOUS
<1>2. j1 = JobOf(x, j.name, j.flag, j.key, j.idx, j.todo)
  BY DEF JobRec, JobOf
<1> HIDE DEF j1
<1>3. j2 = JobOf(x, j.name, j.flag, j.key, y, j.todo)
  BY <1>2 DEF JobOf
<1> HIDE DEF j2
<1> QED BY <1>1, <1>3, JobFields DEF Shows

LEMMA MovedList ==
  ASSUME NEW j, JobRec(j), NEW x, NEW y, NEW z
  PROVE  Shows([j EXCEPT !.pc = x, !.idx = y, !.todo = z], x, j.name, j.flag, j.key, y, z)
<1> DEFINE j1 == [j EXCEPT !.pc = x]
           j2 == [j1 EXCEPT !.idx = y]
           j3 == [j2 EXCEPT !.todo = z]
<1>1. [j EXCEPT !.pc = x, !.idx = y, !.todo = z] = j3
  OBVIOUS
<1>2. j1 = JobOf(x, j.name, j.flag, j.key, j.idx, j.todo)
  BY DEF JobRec, JobOf
<1> HIDE DEF j1
<1>3. j2 = JobOf(x, j.name, j.flag, j.key, y, j.todo)
  BY <1>2 DEF JobOf
<1> HIDE DEF j2
<1>4. j3 = JobOf(x, j.name, j.flag, j.key, y, z)
  BY <1>3 DEF JobOf
<1> HIDE DEF j3
<1> QED BY <1>1, <1>4, JobFields DEF Shows

LEMMA MovedRecord ==
  ASSUME NEW j, JobRec(j), NEW x, NEW y, NEW z, NEW w
  PROVE  Shows([j EXCEPT !.pc = x, !.name = y, !.flag = z, !.key = w], x, y, z, w, j.idx, j.todo)
<1> DEFINE j1 == [j EXCEPT !.pc = x]
           j2 == [j1 EXCEPT !.name = y]
           j3 == [j2 EXCEPT !.flag = z]
           j4 == [j3 EXCEPT !.key = w]
<1>1. [j EXCEPT !.pc = x, !.name = y, !.flag = z, !.key = w] = j4
  OBVIOUS
<1>2. j1 = JobOf(x, j.name, j.flag, j.key, j.idx, j.todo)
  BY DEF JobRec, JobOf
<1> HIDE DEF j1
<1>3. j2 = JobOf(x, y, j.flag, j.key, j.idx, j.todo)
  BY <1>2 DEF JobOf
<1> HIDE DEF j2
<1>4. j3 = JobOf(x, y, z, j.key, j.idx, j.todo)
  BY <1>3 DEF JobOf
<1> HIDE DEF j3
<1>5. j4 = JobOf(x, y, z, w, j.idx, j.todo)
  BY <1>4 DEF JobOf
<1> HIDE DEF j4
<1> QED BY <1>1, <1>5, JobFields DEF Shows

\* A call is made where there is none.
LEMMA AskStep ==
  ASSUME Inv, NEW th \in Threads, NEW code \in Codes, NEW arg, NEW pc \in WaitPcs,
         job[th].pc \notin WaitPcs, Ask(th, code, arg, pc)
  PROVE  Inv' /\ AbsStep
<1>1. PICK s \in Stamps : Place(th, code, arg, s)
  BY DEF Ask
<1>2. call[th] = NoCall
  BY DEF Inv, JobInv
<1>3. CallInv' /\ AbsStep
  BY <1>1, <1>2, Basics, PlaceStep DEF Inv, Waiting
<1>4. JobInv'
  <2>1. Become(th, [job[th] EXCEPT !.pc = pc])
    BY DEF Ask, Goto
  <2>2. \A u \in Threads : u # th => call'[u] = call[u]
    BY <1>1 DEF Place, Inv, CallInv
  <2> QED BY <2>1, <2>2, IdleRec, JobMoved
<1> QED BY <1>3, <1>4 DEF Inv

\* The upload or download goes on, without a call before or after.
LEMMA LocalStep ==
  ASSUME Inv, NEW th \in Threads, NEW j, JobRec(j), j.pc \notin WaitPcs, Become(th, j),
         job[th].pc \notin WaitPcs, UNCHANGED <<call, cache, wire, loop>>
  PROVE  Inv' /\ AbsStep
<1>1. CallInv'
  BY DEF Inv, CallInv, CallOK, CacheOK, Waiting, SentOK, BackOK, On, wire
<1>2. JobInv'
  <2>1. call'[th] = NoCall
    BY DEF Inv, JobInv
  <2> QED BY <2>1, JobMoved
<1>3. Stutter
  BY DEF Stutter, Open, From, Flight, Waiting, Unwritten, Count, wire
<1> QED BY <1>1, <1>2, <1>3 DEF Inv, AbsStep

\* The answer is taken, and the upload or download goes on.
LEMMA TakeStep ==
  ASSUME Inv, NEW th \in Threads, NEW j, JobRec(j), Become(th, j), Answered(th), Return(th)
  PROVE  Inv' /\ AbsStep
<1>1. CallInv' /\ AbsStep
  BY ReturnStep DEF Inv
<1>2. JobInv'
  <2>1. call'[th] = NoCall /\ \A u \in Threads : u # th => call'[u] = call[u]
    BY DEF Return, Inv, CallInv
  <2> QED BY <2>1, JobMoved
<1> QED BY <1>1, <1>2 DEF Inv

LEMMA GiveUpStep ==
  ASSUME Inv, NEW th \in Threads, call[th].pc = "sent", call[th].ans = Null, Expire(th), Fail(th)
  PROVE  Inv' /\ AbsStep
<1>1. CallInv' /\ AbsStep
  BY ExpireStep DEF Inv
<1>2. JobInv'
  <2>1. call'[th] = NoCall /\ \A u \in Threads : u # th => call'[u] = call[u]
    BY DEF Expire, Inv, CallInv
  <2> QED BY <2>1, IdleRec, JobMoved DEF Fail
<1> QED BY <1>1, <1>2 DEF Inv

LEMMA UploadStep ==
  ASSUME Inv, NEW th \in Threads,
         \/ StartUpload(th) \/ SetKey(th) \/ SetFlag(th) \/ IsExist(th) \/ GotExist(th)
         \/ Encrypt(th) \/ LoopException(th) \/ SendMeta(th)
         \/ Verify(th) \/ ListTooShort(th) \/ GotMeta(th)
  PROVE  Inv' /\ AbsStep
<1> USE IdleRec
<1>1. CASE StartUpload(th)
  <2>1. PICK f \in Files : Become(th, [Idle EXCEPT !.pc = "setKey", !.name = f])
    BY <1>1 DEF StartUpload
  <2> DEFINE j == [Idle EXCEPT !.pc = "setKey", !.name = f]
  <2>2. JobRec(j) /\ j.pc = "setKey"
    <3>1. Shows(j, "setKey", f, Idle.flag, Idle.key, Idle.idx, Idle.todo)
      BY MovedName
    <3> QED BY <3>1 DEF Shows
  <2>3. UNCHANGED <<call, cache, wire, loop>> /\ job[th].pc \notin WaitPcs
    BY <1>1 DEF StartUpload, callVars, At, WaitPcs
  <2> HIDE DEF j
  <2> QED BY <2>1, <2>2, <2>3, LocalStep DEF WaitPcs, j
<1>2. CASE SetKey(th) \/ SetFlag(th)
  <2>1. /\ \E pc \in {"setFlag", "exist"} : Become(th, [job[th] EXCEPT !.pc = pc])
        /\ UNCHANGED <<call, cache, wire, loop>> /\ job[th].pc \notin WaitPcs
    BY <1>2 DEF SetKey, SetFlag, Goto, At, callVars, WaitPcs
  <2> QED BY <2>1, LocalStep DEF WaitPcs
<1>3. CASE IsExist(th)
  BY <1>3, AskStep DEF IsExist, At, Codes, WaitPcs
<1>4. CASE GotExist(th)
  <2>1. Answered(th) /\ Return(th)
    BY <1>4 DEF GotExist
  <2>2. CASE Become(th, [job[th] EXCEPT !.pc = "block"])
    BY <2>1, <2>2, TakeStep
  <2>3. ASSUME NEW k, NEW todo,
               Become(th, [job[th] EXCEPT !.pc = "prove", !.idx = k, !.todo = todo])
        PROVE  Inv' /\ AbsStep
    <3> DEFINE j == [job[th] EXCEPT !.pc = "prove", !.idx = k, !.todo = todo]
    <3>1. JobRec(j)
      BY MovedList DEF Shows
    <3> HIDE DEF j
    <3> QED BY <2>1, <2>3, <3>1, TakeStep DEF j
  <2>4. \/ Become(th, [job[th] EXCEPT !.pc = "block"])
        \/ \E k \in 0 .. Blocks[job[th].name] :
             Become(th, [job[th] EXCEPT !.pc = "prove", !.idx = k, !.todo = call[th].ans.ans.todo])
    BY <1>4 DEF GotExist
  <2> QED BY <2>2, <2>3, <2>4
<1>5. CASE Encrypt(th)
  <2> DEFINE j == [job[th] EXCEPT !.pc = "post", !.key = sk]
  <2>1. JobRec(j) /\ j.pc = "post"
    <3>1. Shows(j, "post", job[th].name, job[th].flag, sk, job[th].idx, job[th].todo)
      BY MovedKey
    <3> QED BY <3>1 DEF Shows
  <2>2. /\ Become(th, j) /\ job[th].pc \notin WaitPcs
        /\ UNCHANGED <<call, cache, wire, loop>>
    BY <1>5 DEF Encrypt, At, callVars, WaitPcs
  <2> HIDE DEF j
  <2> QED BY <2>1, <2>2, LocalStep DEF WaitPcs
<1>6. CASE LoopException(th)
  <2>1. /\ Become(th, [job[th] EXCEPT !.pc = "meta"]) /\ job[th].pc \notin WaitPcs
        /\ UNCHANGED <<call, cache, wire, loop>>
    BY <1>6 DEF LoopException, Goto, At, WaitPcs
  <2> QED BY <2>1, LocalStep DEF WaitPcs
<1>7. CASE SendMeta(th)
  BY <1>7, AskStep DEF SendMeta, At, Codes, WaitPcs
<1>8. CASE Verify(th)
  BY <1>8, AskStep DEF Verify, At, Codes, WaitPcs
<1>9. CASE ListTooShort(th)
  <2>1. /\ Become(th, Idle) /\ job[th].pc \notin WaitPcs
        /\ UNCHANGED <<call, cache, wire, loop>>
    BY <1>9 DEF ListTooShort, Fail, At, callVars, WaitPcs
  <2> QED BY <2>1, LocalStep
<1>10. CASE GotMeta(th)
  BY <1>10, TakeStep DEF GotMeta
<1> QED BY <1>1, <1>2, <1>3, <1>4, <1>5, <1>6, <1>7, <1>8, <1>9, <1>10

LEMMA SendStep ==
  ASSUME Inv, NEW th \in Threads,
         Write(th) \/ PostBlock(th) \/ GotProof(th) \/ GiveUp(th) \/ GiveUpLate(th)
  PROVE  Inv' /\ AbsStep
<1>1. CASE Write(th)
  <2>1. CallInv' /\ AbsStep
    BY <1>1, WriteStep DEF Write, Inv
  <2>2. \A u \in Threads : call'[u] = call[u] \/ job[u].pc \in WaitPcs
    BY <1>1, Basics DEF Write, WriteOut, Inv, CallInv, JobInv
  <2> QED BY <1>1, <2>1, <2>2, JobStays DEF Write, Inv
<1>2. CASE PostBlock(th)
  <2> DEFINE j == [job[th] EXCEPT !.pc = "block", !.idx = job[th].idx + 1]
  <2>1. /\ \E arg : Post(th, 205, arg)
        /\ Become(th, j) /\ job[th].pc \notin WaitPcs
    BY <1>2 DEF PostBlock, At, WaitPcs
  <2>2. JobRec(j) /\ j.pc = "block"
    <3>1. Shows(j, "block", job[th].name, job[th].flag, job[th].key, job[th].idx + 1, job[th].todo)
      BY IdleRec, MovedIdx
    <3> QED BY <3>1 DEF Shows
  <2> HIDE DEF j
  <2>3. CallInv' /\ AbsStep
    BY <2>1, PostStep DEF Inv
  <2>4. UNCHANGED call /\ call[th] = NoCall
    BY <2>1 DEF Post, Inv, JobInv
  <2> QED BY <2>1, <2>2, <2>3, <2>4, JobMoved DEF Inv
<1>3. CASE GotProof(th)
  <2>1. CASE Return(th) /\ Become(th, Idle)
    BY <1>3, <2>1, IdleRec, TakeStep DEF GotProof
  <2>2. ASSUME Place(th, 207, [flag |-> t], call[th].stamp), Goto(th, "filing")
        PROVE  Inv' /\ AbsStep
    <3>1. call[th].pc = "sent" /\ ~Waiting(th) /\ call[th].stamp \in Stamps /\ 207 \in Codes
      BY <1>3, Basics DEF GotProof, Answered, Waiting, Inv, CallInv, CallOK, Codes
    <3>2. CallInv' /\ AbsStep
      BY <2>2, <3>1, PlaceStep DEF Inv
    <3>3. \A u \in Threads : u # th => call'[u] = call[u]
      BY <2>2 DEF Place, Inv, CallInv
    <3>4. JobInv'
      BY <2>2, <3>3, IdleRec, JobMoved DEF Goto, WaitPcs
    <3> QED BY <3>2, <3>4 DEF Inv
  <2> QED BY <1>3, <2>1, <2>2 DEF GotProof
<1>4. CASE GiveUp(th) \/ GiveUpLate(th)
  BY <1>4, GiveUpStep DEF GiveUp, GiveUpLate, TimedOut, TooLate
<1> QED BY <1>1, <1>2, <1>3, <1>4

LEMMA DownloadStep ==
  ASSUME Inv, NEW th \in Threads, StartDownload(th) \/ Fetch(th) \/ GotBlock(th)
  PROVE  Inv' /\ AbsStep
<1>1. CASE StartDownload(th)
  <2>1. PICK x, y, z : Become(th, [Idle EXCEPT !.pc = "fetch", !.name = x, !.flag = y, !.key = z])
    BY <1>1 DEF StartDownload
  <2> DEFINE j == [Idle EXCEPT !.pc = "fetch", !.name = x, !.flag = y, !.key = z]
  <2>2. JobRec(j) /\ j.pc = "fetch"
    <3>1. Shows(j, "fetch", x, y, z, Idle.idx, Idle.todo)
      BY IdleRec, MovedRecord
    <3> QED BY <3>1 DEF Shows
  <2>3. UNCHANGED <<call, cache, wire, loop>> /\ job[th].pc \notin WaitPcs
    BY <1>1 DEF StartDownload, callVars, At, WaitPcs
  <2>4. Become(th, j)
    BY <2>1
  <2> HIDE DEF j
  <2> QED BY <2>2, <2>3, <2>4, LocalStep DEF WaitPcs
<1>2. CASE Fetch(th)
  BY <1>2, AskStep DEF Fetch, At, Codes, WaitPcs
<1>3. CASE GotBlock(th)
  <2> DEFINE j == [job[th] EXCEPT !.pc = "fetch", !.idx = NextBlock(th)]
  <2>1. Answered(th) /\ Return(th) /\ (Become(th, Idle) \/ Become(th, j))
    BY <1>3 DEF GotBlock
  <2>2. JobRec(j) /\ JobRec(Idle)
    BY IdleRec, MovedIdx DEF Shows
  <2> HIDE DEF j
  <2> QED BY <2>1, <2>2, TakeStep
<1> QED BY <1>1, <1>2, <1>3

\* The server answers with the stamp of the request, or not at all.
LEMMA ServeStep ==
  ASSUME Inv, Serve
  PROVE  Inv' /\ AbsStep
<1> DEFINE m == Head(sent)
<1>1. sent # <<>> /\ SentOK(m) /\ UNCHANGED job
  BY Removed DEF Serve, Inv, CallInv
<1>2. \/ Unanswered
      \/ m.code \in Codes /\ \E ans : Replied(m, ans)
  <2>1. \/ m.code = 200 /\ Exists(m)
        \/ m.code = 205 /\ Store(m)
        \/ m.code = 207 /\ Enrol(m)
        \/ m.code = 220 /\ CheckOwner(m)
        \/ m.code = 900 /\ Give(m)
    BY DEF Serve
  <2> HIDE DEF m
  <2>2. Exists(m) => Unanswered \/ \E ans : Replied(m, ans)
    BY DEF Exists
  <2>3. Store(m) => Unanswered
    BY DEF Store
  <2>4. Enrol(m) => \E ans : Replied(m, ans)
    BY DEF Enrol
  <2>5. CheckOwner(m) => Unanswered \/ \E ans : Replied(m, ans)
    BY DEF CheckOwner
  <2>6. Give(m) => Unanswered \/ \E ans : Replied(m, ans)
    BY DEF Give
  <2> QED BY <2>1, <2>2, <2>3, <2>4, <2>5, <2>6 DEF Codes
<1>3. UNCHANGED call
  BY <1>2 DEF Unanswered, Replied
<1>4. CallInv' /\ AbsStep
  <2>1. CASE Unanswered
    BY <2>1, UnansweredStep DEF Inv
  <2>2. CASE m.code \in Codes /\ \E ans : Replied(m, ans)
    <3>1. m.stamp \in Stamps
      BY <1>1, <2>2 DEF SentOK, Codes
    <3> QED BY <2>2, <3>1, RepliedStep DEF Inv
  <2> QED BY <1>2, <2>1, <2>2
<1>5. JobInv'
  BY <1>1, <1>3, JobStays
<1> QED BY <1>4, <1>5 DEF Inv

LEMMA LoopStep ==
  ASSUME Inv, EventLoop \/ Lost
  PROVE  Inv' /\ AbsStep
<1>1. CallInv' /\ AbsStep
  BY AcknowledgeStep, InvalidateStep, CloseStep DEF EventLoop, Lost, Inv
<1>2. UNCHANGED job
  BY DEF EventLoop, Lost
<1>3. \A u \in Threads : call'[u] = call[u] \/ job[u].pc \in WaitPcs
  <2>1. CASE Acknowledge
    <3> DEFINE th == cache[Head(back).stamp]
    <3>1. CASE th = Nobody
      BY <2>1, <3>1 DEF Acknowledge, Waiter
    <3>2. CASE th # Nobody
      <4>1. call' = [call EXCEPT ![th].ans = Head(back)] /\ loop = NoStamp
            /\ Head(back).stamp \in Stamps
        BY <2>1, <3>2, Removed DEF Acknowledge, Waiter, Inv, CallInv, BackOK
      <4>2. th \in Threads /\ Waiting(th)
        BY <3>2, <4>1, Basics DEF Inv, CallInv, CacheOK
      <4>3. job[th].pc \in WaitPcs
        BY <4>2, Basics DEF Waiting, Inv, JobInv
      <4> HIDE DEF th
      <4>4. \A u \in Threads : u # th => call'[u] = call[u]
        BY <4>1 DEF Inv, CallInv
      <4> QED BY <4>3, <4>4
    <3> QED BY <3>1, <3>2
  <2>2. CASE ~Acknowledge
    BY <2>2 DEF EventLoop, Invalidate, Lost, Close
  <2> QED BY <2>1, <2>2
<1> QED BY <1>1, <1>2, <1>3, JobStays DEF Inv

LEMMA EveryStep ==
  ASSUME Inv, [Next]_vars
  PROVE  Inv' /\ [Abstract!Next]_(Abstract!vars)
<1>1. Inv' /\ AbsStep
  <2>1. CASE UNCHANGED vars
    BY <2>1 DEF vars, callVars, wire, Inv, CallInv, CallOK, CacheOK, Waiting, SentOK, BackOK, On,
                JobInv, JobRec, AbsStep, Stutter, Open, From, Flight, Unwritten, Count
  <2>2. CASE Next
    BY <2>2, UploadStep, SendStep, DownloadStep, ServeStep, LoopStep DEF Next, Step
  <2> QED BY <2>1, <2>2
<1>2. AbsStep => [Abstract!Next]_(Abstract!vars)
  BY DEF AbsStep, Stutter, Abstract!vars
<1> QED BY <1>1, <1>2

LEMMA AtFirst ==
  ASSUME Init
  PROVE  Inv /\ Abstract!Init
<1>1. /\ call = [th \in Threads |-> NoCall] /\ cache = [s \in Stamps |-> Nobody]
      /\ sent = <<>> /\ back = <<>> /\ loop = NoStamp /\ job = [th \in Threads |-> Idle]
  BY DEF Init, CallInit
<1>2. On(<<>>) = {} /\ <<>> \in Seq({}) /\ \A r : Count(<<>>, r) = 0
  <2>1. \A r : {i \in DOMAIN <<>> : Same(<<>>[i], r)} = {}
    OBVIOUS
  <2> QED BY <2>1, FS_EmptySet DEF On, Count
<1>3. CallInv
  <2>1. CacheOK
    BY <1>1, Basics DEF CacheOK
  <2> QED BY <1>1, <1>2, <2>1, Basics DEF CallInv
<1>4. JobInv
  <2>1. JobRec(Idle)
    BY DEF Idle, JobRec
  <2> QED BY <1>1, <2>1 DEF JobInv
<1>5. Open = [th \in Threads |-> {}] /\ From = [th \in Threads |-> Nobody]
  BY <1>1, Basics DEF Open, From, Waiting
<1>6. Flight = [r \in Requests |-> 0]
  <2>1. \A r \in Requests : Unwritten(r) = 0
    BY <1>1, Basics DEF Unwritten, Requests
  <2> QED BY <1>1, <1>2, <2>1 DEF Flight
<1> QED BY <1>3, <1>4, <1>5, <1>6 DEF Inv, Abstract!Init, Abstract!Requests, Requests

----------------------------------------------------------------------------
(* Uploads that have sk, t and their name to themselves *)

UploadPcs == {"setKey", "setFlag", "exist", "asked", "block", "post", "meta", "filing",
              "prove", "proving"}
Name(th) == job[th].name

Of(x, f) == x = f \/ {x, f} \subseteq mixed

JobOK(th) ==
  LET j == job[th] IN
    Uploading(th) =>
      /\ j.pc \in UploadPcs /\ j.name \in Files /\ j.idx \in 0 .. Blocks[j.name]
      /\ j.pc \in {"setKey", "setFlag", "exist", "asked"} => j.idx = 0
      /\ j.pc = "post" => j.idx < Blocks[j.name] /\ Of(j.key, j.name)
      /\ j.pc = "meta" => j.name \in cut
      /\ j.pc # "setKey" => Of(sk, j.name)
      /\ j.pc \notin {"setKey", "setFlag"} => Of(t, j.name)

Alone == \A th, u \in Threads : Uploading(th) /\ Uploading(u) /\ th # u => Name(th) \in mixed

ChannelOK == faults \in Nat /\ up \in BOOLEAN /\ (~up => sent = <<>> /\ back = <<>>)

MixInv == ChannelOK /\ Alone /\ \A th \in Threads : JobOK(th)

LEMMA BlockNumbers == \A f \in Files : Blocks[f] \in Nat /\ Blocks[f] >= 1
BY ClientAssumption

LEMMA JobsMoved ==
  ASSUME Inv, NEW th \in Threads, NEW j, Become(th, j)
  PROVE  job'[th] = j /\ \A u \in Threads : u # th => job'[u] = job[u]
BY DEF Inv, JobInv, Become

LEMMA OtherJob ==
  ASSUME NEW u \in Threads, JobOK(u), job'[u] = job[u], mixed \subseteq mixed', cut \subseteq cut',
         Uploading(u) => sk' = sk \/ {sk', Name(u)} \subseteq mixed',
         Uploading(u) => t' = t \/ {t', Name(u)} \subseteq mixed'
  PROVE  JobOK(u)'
BY DEF JobOK, Of, Uploading, Downloading, At, Name

LEMMA JobMix ==
  ASSUME Inv, MixInv, NEW th \in Threads, NEW j, Become(th, j), ChannelOK',
         mixed \subseteq mixed', cut \subseteq cut', JobOK(th)',
         Uploading(th)' => Uploading(th) /\ j.name = Name(th),
         UNCHANGED sk \/ (Uploading(th) /\ sk' = Name(th)),
         UNCHANGED t \/ (At(th, "setFlag") /\ t' = sk)
  PROVE  MixInv'
<1>1. job'[th] = j /\ \A u \in Threads : u # th => job'[u] = job[u]
  BY JobsMoved
<1>2. \A u \in Threads : u # th => (Uploading(u)' <=> Uploading(u)) /\ Name(u)' = Name(u)
  BY <1>1 DEF Uploading, Downloading, At, Name
<1>3. Alone'
  BY <1>1, <1>2 DEF Alone, MixInv, Name
<1>4. ASSUME NEW u \in Threads, u # th, Uploading(u), Uploading(th)
      PROVE  Name(u) \in mixed /\ Name(th) \in mixed
  BY <1>4 DEF MixInv, Alone
<1>5. ASSUME NEW u \in Threads, u # th PROVE JobOK(u)'
  <2>1. At(th, "setFlag") => Uploading(th) /\ Of(sk, Name(th))
    BY DEF At, Uploading, Downloading, DownloadPcs, MixInv, JobOK, Name
  <2>2. Uploading(u) => sk' = sk \/ {sk', Name(u)} \subseteq mixed'
    BY <1>4, <1>5
  <2>3. Uploading(u) => t' = t \/ {t', Name(u)} \subseteq mixed'
    BY <1>4, <1>5, <2>1 DEF Of
  <2> QED BY <1>1, <1>5, <2>2, <2>3, OtherJob DEF MixInv
<1> QED BY <1>3, <1>5 DEF MixInv

LEMMA AskMix ==
  ASSUME Inv, MixInv, NEW th \in Threads, NEW code, NEW arg, NEW pc, pc # "setKey",
         Ask(th, code, arg, pc),
         Uploading(th) => job[th].pc \in {"exist", "block", "meta", "prove"} /\ pc \in UploadPcs,
         Uploading(th) /\ pc \in {"setFlag", "exist", "asked"} => job[th].idx = 0,
         Uploading(th) => pc \notin {"post", "meta"},
         ~Uploading(th) => pc \in DownloadPcs
  PROVE  MixInv'
<1> DEFINE j == [job[th] EXCEPT !.pc = pc]
<1>1. j.pc = pc /\ j.name = Name(th) /\ j.idx = job[th].idx /\ j.key = job[th].key
  BY IdleRec, Moved DEF Name, Shows
<1>2. /\ Become(th, j) /\ UNCHANGED <<sk, t, cut>> /\ mixed \subseteq mixed'
      /\ wire' = wire /\ faults' \in {faults, faults + 1}
  BY DEF Ask, Goto, param, Place, Now, Fault
<1> HIDE DEF j
<1>3. ChannelOK'
  BY <1>2 DEF MixInv, ChannelOK, wire
<1>4. job'[th] = j
  BY <1>2, JobsMoved
<1>5. Uploading(th)' => Uploading(th)
  BY <1>1, <1>4 DEF Uploading, Downloading, At
<1>6. JobOK(th)'
  <2>1. Uploading(th) => JobOK(th)
    BY DEF MixInv
  <2> QED BY <1>1, <1>2, <1>4, <1>5, <2>1 DEF JobOK, Of, Uploading, Downloading, At, Name, DownloadPcs, UploadPcs
<1> QED BY <1>1, <1>2, <1>3, <1>5, <1>6, JobMix

LEMMA StartMix ==
  ASSUME Inv, MixInv, NEW th \in Threads, StartUpload(th)
  PROVE  MixInv'
<1> DEFINE others == {u \in Threads : Uploading(u)}
<1>1. PICK f \in Files :
        /\ Become(th, [Idle EXCEPT !.pc = "setKey", !.name = f])
        /\ mixed' = IF others = {} THEN mixed ELSE mixed \cup NamesIn(others) \cup {f}
  BY DEF StartUpload
<1> DEFINE j == [Idle EXCEPT !.pc = "setKey", !.name = f]
<1>2. j.pc = "setKey" /\ j.name = f /\ j.idx = 0 /\ Become(th, j)
  <2>1. Idle.idx = 0
    BY DEF Idle
  <2>2. Shows(j, "setKey", f, Idle.flag, Idle.key, Idle.idx, Idle.todo)
    BY IdleRec, MovedName
  <2> HIDE DEF j
  <2> QED BY <1>1, <2>1, <2>2 DEF Shows, j
<1>3. /\ UNCHANGED <<sk, t, cut, up, sent, back, faults>> /\ At(th, "idle")
      /\ mixed \subseteq mixed'
  BY <1>1 DEF StartUpload, callVars, wire, param
<1> HIDE DEF j
<1>4. job'[th] = j /\ \A u \in Threads : u # th => job'[u] = job[u]
  BY <1>2, JobsMoved
<1>5. ChannelOK'
  BY <1>3 DEF MixInv, ChannelOK
<1>6. \A u \in Threads : u # th => (Uploading(u)' <=> Uploading(u)) /\ Name(u)' = Name(u)
  BY <1>4 DEF Uploading, Downloading, At, Name
<1>7. Name(th)' = f /\ ~Uploading(th)
  BY <1>2, <1>3, <1>4 DEF Name, Uploading
<1>8. ASSUME NEW u \in Threads, u # th, Uploading(u) PROVE {Name(u), f} \subseteq mixed'
  <2>1. u \in others
    BY <1>8
  <2>2. Name(u) \in NamesIn(others)
    BY <2>1 DEF NamesIn, Name
  <2> QED BY <1>1, <2>1, <2>2
<1>9. Alone'
  BY <1>3, <1>6, <1>7, <1>8 DEF Alone, MixInv
<1>10. JobOK(th)'
  BY <1>2, <1>4, BlockNumbers DEF JobOK, UploadPcs
<1>11. \A u \in Threads : u # th => JobOK(u)'
  BY <1>3, <1>4, OtherJob DEF MixInv
<1> QED BY <1>5, <1>9, <1>10, <1>11 DEF MixInv

LEMMA SharedMix ==
  ASSUME Inv, MixInv, NEW th \in Threads, SetKey(th) \/ SetFlag(th)
  PROVE  MixInv'
<1> DEFINE pc == IF At(th, "setKey") THEN "setFlag" ELSE "exist"
           j == [job[th] EXCEPT !.pc = pc]
<1>1. JobOK(th) /\ Uploading(th) /\ j.pc = pc /\ j.name = Name(th) /\ j.idx = job[th].idx
  <2>1. JobOK(th) /\ Uploading(th)
    BY DEF MixInv, SetKey, SetFlag, At, Uploading, Downloading, DownloadPcs
  <2> HIDE DEF pc
  <2> QED BY <2>1, IdleRec, Moved DEF Name, Shows
<1>2. /\ Become(th, j) /\ UNCHANGED <<mixed, cut, up, sent, back, faults>>
      /\ \/ At(th, "setKey") /\ sk' = Name(th) /\ UNCHANGED t
         \/ At(th, "setFlag") /\ t' = sk /\ UNCHANGED sk
  BY DEF SetKey, SetFlag, At, Goto, ghost, callVars, wire, Name
<1> HIDE DEF j
<1>3. job'[th] = j
  BY <1>2, JobsMoved
<1>4. ChannelOK'
  BY <1>2 DEF MixInv, ChannelOK
<1>5. JobOK(th)'
  BY <1>1, <1>2, <1>3 DEF JobOK, Of, At, Uploading, Name, UploadPcs
<1> QED BY <1>1, <1>2, <1>4, <1>5, JobMix

LEMMA BlockMix ==
  ASSUME Inv, MixInv, NEW th \in Threads, Encrypt(th) \/ PostBlock(th) \/ LoopException(th)
  PROVE  MixInv'
<1>1. JobOK(th) /\ Uploading(th) /\ (At(th, "block") \/ At(th, "post")) /\ JobRec(job[th])
  BY IdleRec DEF MixInv, Encrypt, PostBlock, LoopException, At, Uploading, Downloading, DownloadPcs
<1>2. Blocks[Name(th)] \in Nat /\ job[th].idx \in Nat
  BY <1>1, BlockNumbers DEF JobOK, Name
<1>3. CASE Encrypt(th)
  <2> DEFINE j == [job[th] EXCEPT !.pc = "post", !.key = sk]
  <2>0. Shows(j, "post", Name(th), job[th].flag, sk, job[th].idx, job[th].todo)
    BY <1>1, MovedKey DEF Name
  <2>1. j.pc = "post" /\ j.name = Name(th) /\ j.idx = job[th].idx /\ j.key = sk
    BY <2>0 DEF Shows
  <2>2. /\ Become(th, j) /\ UNCHANGED <<mixed, cut, up, sent, back, faults, sk, t>>
        /\ job[th].idx < Blocks[Name(th)]
    BY <1>3 DEF Encrypt, ghost, callVars, wire, param, MoreBlocks, Name
  <2> HIDE DEF j
  <2>3. job'[th] = j
    BY <2>2, JobsMoved
  <2>4. JobOK(th)'
    BY <1>1, <2>1, <2>2, <2>3 DEF JobOK, Of, At, Name, UploadPcs
  <2>5. ChannelOK'
    BY <2>2 DEF MixInv, ChannelOK
  <2> QED BY <1>1, <2>1, <2>2, <2>4, <2>5, JobMix
<1>4. CASE PostBlock(th)
  <2> DEFINE j == [job[th] EXCEPT !.pc = "block", !.idx = job[th].idx + 1]
  <2>0. Shows(j, "block", Name(th), job[th].flag, job[th].key, job[th].idx + 1, job[th].todo)
    BY <1>1, MovedIdx DEF Name
  <2>1. j.pc = "block" /\ j.name = Name(th) /\ j.idx = job[th].idx + 1
    BY <2>0 DEF Shows
  <2>2. /\ Become(th, j) /\ UNCHANGED <<mixed, cut, up, back, faults, sk, t>> /\ At(th, "post")
        /\ ~up => sent' = sent
    BY <1>4 DEF PostBlock, ghost, param, Post, Written
  <2> HIDE DEF j
  <2>3. job'[th] = j
    BY <2>2, JobsMoved
  <2>4. JobOK(th)'
    BY <1>1, <1>2, <2>1, <2>2, <2>3 DEF JobOK, Of, At, Name, UploadPcs
  <2>5. ChannelOK'
    BY <2>2 DEF MixInv, ChannelOK
  <2> QED BY <1>1, <2>1, <2>2, <2>4, <2>5, JobMix
<1>5. CASE LoopException(th)
  <2> DEFINE j == [job[th] EXCEPT !.pc = "meta"]
  <2>1. j.pc = "meta" /\ j.name = Name(th) /\ j.idx = job[th].idx
    BY <1>1, Moved DEF Name, Shows
  <2>2. /\ Become(th, j) /\ UNCHANGED <<mixed, up, sent, back, sk, t>>
        /\ cut' = cut \cup {Name(th)} /\ faults' = faults + 1
    BY <1>5 DEF LoopException, Goto, wire, param, Fault, Name
  <2> HIDE DEF j
  <2>3. job'[th] = j
    BY <2>2, JobsMoved
  <2>4. JobOK(th)'
    BY <1>1, <2>1, <2>2, <2>3 DEF JobOK, Of, At, Name, UploadPcs
  <2>5. ChannelOK'
    BY <2>2 DEF MixInv, ChannelOK
  <2> QED BY <1>1, <2>1, <2>2, <2>4, <2>5, JobMix
<1> QED BY <1>3, <1>4, <1>5

LEMMA ExistMix ==
  ASSUME Inv, MixInv, NEW th \in Threads, GotExist(th)
  PROVE  MixInv'
<1>1. JobOK(th) /\ Uploading(th) /\ At(th, "asked") /\ JobRec(job[th])
  BY IdleRec DEF MixInv, GotExist, At, Uploading, Downloading, DownloadPcs
<1>2. /\ UNCHANGED <<sk, t, mixed, up, sent, back>> /\ faults' \in {faults, faults + 1}
      /\ cut \subseteq cut'
  <2>1. UNCHANGED <<sk, t, mixed, up, sent, back>>
    BY DEF GotExist, Return, wire, param
  <2>2. \/ UNCHANGED <<faults, cut>>
        \/ Fault("local") /\ cut' = cut \cup {job[th].name}
    BY DEF GotExist
  <2> QED BY <2>1, <2>2 DEF Fault
<1>3. ChannelOK'
  BY <1>2 DEF MixInv, ChannelOK
<1>4. CASE Become(th, [job[th] EXCEPT !.pc = "block"])
  <2> DEFINE j == [job[th] EXCEPT !.pc = "block"]
  <2>1. Shows(j, "block", Name(th), job[th].flag, job[th].key, job[th].idx, job[th].todo)
    BY <1>1, Moved DEF Name
  <2> HIDE DEF j
  <2>2. Become(th, j) /\ job'[th] = j
    BY <1>4, JobsMoved DEF j
  <2>3. JobOK(th)'
    BY <1>1, <1>2, <2>1, <2>2 DEF JobOK, Of, At, Name, UploadPcs, Shows
  <2> QED BY <1>1, <1>2, <1>3, <2>1, <2>2, <2>3, JobMix DEF Shows
<1>5. ASSUME NEW k \in 0 .. Blocks[Name(th)], NEW todo,
             Become(th, [job[th] EXCEPT !.pc = "prove", !.idx = k, !.todo = todo])
      PROVE  MixInv'
  <2> DEFINE j == [job[th] EXCEPT !.pc = "prove", !.idx = k, !.todo = todo]
  <2>1. Shows(j, "prove", Name(th), job[th].flag, job[th].key, k, todo)
    BY <1>1, MovedList DEF Name
  <2> HIDE DEF j
  <2>2. Become(th, j) /\ job'[th] = j
    BY <1>5, JobsMoved DEF j
  <2>3. JobOK(th)'
    BY <1>1, <1>2, <2>1, <2>2 DEF JobOK, Of, At, Name, UploadPcs, Shows
  <2> QED BY <1>1, <1>2, <1>3, <2>1, <2>2, <2>3, JobMix DEF Shows
<1>6. \/ Become(th, [job[th] EXCEPT !.pc = "block"])
      \/ \E k \in 0 .. Blocks[Name(th)] :
           Become(th, [job[th] EXCEPT !.pc = "prove", !.idx = k, !.todo = call[th].ans.ans.todo])
  BY DEF GotExist, Name
<1> QED BY <1>4, <1>5, <1>6

\* An upload or download ends, or a download begins or goes on.
LEMMA EndMix ==
  ASSUME Inv, MixInv, NEW th \in Threads, NEW j, j.pc \in {"idle"} \cup DownloadPcs, Become(th, j),
         UNCHANGED <<sk, t, mixed, cut, wire>>, faults' \in {faults, faults + 1}
  PROVE  MixInv'
<1>1. job'[th] = j
  BY JobsMoved
<1>2. ~Uploading(th)'
  BY <1>1 DEF Uploading, Downloading, At
<1>3. JobOK(th)' /\ ChannelOK'
  BY <1>2 DEF JobOK, MixInv, ChannelOK, wire
<1> QED BY <1>2, <1>3, JobMix

LEMMA StayMix ==
  ASSUME MixInv, UNCHANGED <<sk, t, mixed, cut, job>>, ChannelOK'
  PROVE  MixInv'
BY DEF MixInv, Alone, JobOK, Of, Uploading, Downloading, At, Name

LEMMA EndsMix ==
  ASSUME Inv, MixInv, NEW th \in Threads,
         \/ GiveUp(th) \/ GiveUpLate(th) \/ ListTooShort(th) \/ GotProof(th) \/ GotMeta(th)
         \/ StartDownload(th) \/ GotBlock(th)
  PROVE  MixInv'
<1>1. Idle.pc = "idle"
  BY DEF Idle
<1>2. CASE GiveUp(th) \/ GiveUpLate(th) \/ ListTooShort(th) \/ GotMeta(th)
  <2>1. /\ Become(th, Idle) /\ UNCHANGED <<sk, t, mixed, cut, wire>>
        /\ faults' \in {faults, faults + 1}
    BY <1>2 DEF GiveUp, GiveUpLate, ListTooShort, GotMeta, Fail, Expire, Return, Fault, param,
                callVars, ghost
  <2> QED BY <1>1, <2>1, EndMix
<1>3. CASE GotProof(th)
  <2>1. UNCHANGED <<sk, t, mixed, cut, wire, faults>>
    BY <1>3 DEF GotProof, Return, Place, param, ghost
  <2>2. CASE Become(th, Idle)
    BY <1>1, <2>1, <2>2, EndMix
  <2>3. CASE Goto(th, "filing")
    <3> DEFINE j == [job[th] EXCEPT !.pc = "filing"]
    <3>1. JobOK(th) /\ Uploading(th) /\ At(th, "proving") /\ JobRec(job[th])
      BY <1>3, IdleRec DEF MixInv, GotProof, At, Uploading, Downloading, DownloadPcs
    <3>2. Shows(j, "filing", Name(th), job[th].flag, job[th].key, job[th].idx, job[th].todo)
      BY <3>1, Moved DEF Name
    <3> HIDE DEF j
    <3>3. Become(th, j) /\ job'[th] = j
      BY <2>3, JobsMoved DEF j, Goto
    <3>4. JobOK(th)'
      BY <2>1, <3>1, <3>2, <3>3 DEF JobOK, Of, At, Name, UploadPcs, Shows
    <3>5. ChannelOK'
      BY <2>1 DEF MixInv, ChannelOK, wire
    <3> QED BY <2>1, <3>1, <3>2, <3>3, <3>4, <3>5, JobMix DEF Shows
  <2> QED BY <1>3, <2>2, <2>3 DEF GotProof
<1>4. CASE StartDownload(th)
  <2>1. PICK x, y, z : Become(th, [Idle EXCEPT !.pc = "fetch", !.name = x, !.flag = y, !.key = z])
    BY <1>4 DEF StartDownload
  <2> DEFINE j == [Idle EXCEPT !.pc = "fetch", !.name = x, !.flag = y, !.key = z]
  <2>2. Shows(j, "fetch", x, y, z, Idle.idx, Idle.todo)
    BY IdleRec, MovedRecord
  <2>3. Become(th, j) /\ UNCHANGED <<sk, t, mixed, cut, wire, faults>>
    BY <1>4, <2>1 DEF StartDownload, param, callVars
  <2> HIDE DEF j
  <2> QED BY <2>2, <2>3, EndMix DEF Shows, DownloadPcs
<1>5. CASE GotBlock(th)
  <2> DEFINE j == [job[th] EXCEPT !.pc = "fetch", !.idx = NextBlock(th)]
  <2>1. Shows(j, "fetch", job[th].name, job[th].flag, job[th].key, NextBlock(th), job[th].todo)
    BY IdleRec, MovedIdx
  <2>2. /\ Become(th, Idle) \/ Become(th, j)
        /\ UNCHANGED <<sk, t, mixed, cut, wire, faults>>
    BY <1>5 DEF GotBlock, param, Return
  <2> HIDE DEF j
  <2> QED BY <1>1, <2>1, <2>2, EndMix DEF Shows, DownloadPcs
<1> QED BY <1>2, <1>3, <1>4, <1>5

LEMMA Served ==
  ASSUME Serve
  PROVE  sent # <<>> /\ (Unanswered \/ \E ans : Replied(Head(sent), ans))
<1> DEFINE m == Head(sent)
<1>1. /\ sent # <<>>
      /\ \/ m.code = 200 /\ Exists(m)
         \/ m.code = 205 /\ Store(m)
         \/ m.code = 207 /\ Enrol(m)
         \/ m.code = 220 /\ CheckOwner(m)
         \/ m.code = 900 /\ Give(m)
  BY DEF Serve
<1> HIDE DEF m
<1>2. Exists(m) => Unanswered \/ \E ans : Replied(m, ans)
  BY DEF Exists
<1>3. Store(m) => Unanswered
  BY DEF Store
<1>4. Enrol(m) => \E ans : Replied(m, ans)
  BY DEF Enrol
<1>5. CheckOwner(m) => Unanswered \/ \E ans : Replied(m, ans)
  BY DEF CheckOwner
<1>6. Give(m) => Unanswered \/ \E ans : Replied(m, ans)
  BY DEF Give
<1> QED BY <1>1, <1>2, <1>3, <1>4, <1>5, <1>6 DEF m

LEMMA ChannelMix ==
  ASSUME Inv, MixInv, (\E th \in Threads : Write(th)) \/ Serve \/ EventLoop \/ Lost
  PROVE  MixInv'
<1>1. UNCHANGED <<sk, t, mixed, cut, job>>
  BY DEF Write, Serve, EventLoop, Lost, param, ghost
<1>2. CASE \E th \in Threads : Write(th)
  BY <1>1, <1>2, StayMix DEF Write, WriteOut, Written, MixInv, ChannelOK
<1>3. CASE Serve
  <2>1. sent # <<>> /\ (Unanswered \/ \E ans : Replied(Head(sent), ans))
    BY <1>3, Served
  <2>2. up /\ up' = up /\ faults' \in {faults, faults + 1}
    BY <2>1 DEF MixInv, ChannelOK, Unanswered, Replied, Fault
  <2> QED BY <1>1, <2>2, StayMix DEF MixInv, ChannelOK
<1>4. CASE EventLoop
  <2>1. /\ up' = up /\ faults' = faults /\ sent' = sent
        /\ back = <<>> => back' = back
    BY <1>4 DEF EventLoop, Acknowledge, Invalidate, wire
  <2> QED BY <1>1, <2>1, StayMix DEF MixInv, ChannelOK
<1>5. CASE Lost
  <2>1. ChannelOK'
    <3>1. faults' = faults + 1 /\ up' = FALSE /\ sent' = <<>> /\ back' = <<>>
      BY <1>5 DEF Lost, Close, Fault
    <3>2. faults \in Nat
      BY DEF MixInv, ChannelOK
    <3>3. faults' \in Nat
      BY <3>1, <3>2
    <3>4. up' \in BOOLEAN
      BY <3>1, Zenon
    <3> QED BY <3>1, <3>3, <3>4, Zenon DEF ChannelOK
  <2> QED BY <1>1, <2>1, StayMix
<1> QED BY <1>2, <1>3, <1>4, <1>5

LEMMA MixStep ==
  ASSUME Inv, MixInv, [Next]_vars
  PROVE  MixInv'
<1>1. CASE UNCHANGED vars
  BY <1>1, StayMix DEF vars, callVars, wire, param, ghost, MixInv, ChannelOK
<1>2. ASSUME NEW th \in Threads, IsExist(th) \/ SendMeta(th) \/ Verify(th) \/ Fetch(th)
      PROVE  MixInv'
  <2>1. JobOK(th)
    BY DEF MixInv
  <2>2. CASE IsExist(th)
    BY <2>1, <2>2, AskMix DEF IsExist, JobOK, At, Uploading, Downloading, DownloadPcs, UploadPcs
  <2>3. CASE SendMeta(th)
    BY <2>3, AskMix DEF SendMeta, At, Uploading, Downloading, DownloadPcs, UploadPcs
  <2>4. CASE Verify(th)
    BY <2>4, AskMix DEF Verify, At, Uploading, Downloading, DownloadPcs, UploadPcs
  <2>5. CASE Fetch(th)
    BY <2>5, AskMix DEF Fetch, At, Uploading, Downloading, DownloadPcs, UploadPcs
  <2> QED BY <1>2, <2>2, <2>3, <2>4, <2>5
<1>3. ASSUME NEW th \in Threads, Step(th) \/ GiveUpLate(th) \/ LoopException(th)
      PROVE  MixInv'
  BY <1>2, <1>3, SharedMix, BlockMix, ExistMix, EndsMix, ChannelMix DEF Step
<1> QED BY <1>1, <1>3, StartMix, EndsMix, ChannelMix DEF Next

----------------------------------------------------------------------------
(* Requests and answers by their stamp *)

Has(q, s) == \E m \in On(q) : m.stamp = s
AtMostOne(q, s) == \A i, j \in DOMAIN q : q[i].stamp = s /\ q[j].stamp = s => i = j

LEMMA OneAppended ==
  ASSUME NEW q, q \in Seq(On(q)), NEW m, NEW s
  PROVE  /\ Has(Append(q, m), s) <=> Has(q, s) \/ m.stamp = s
         /\ AtMostOne(q, s) /\ (m.stamp = s => ~Has(q, s)) => AtMostOne(Append(q, m), s)
<1> DEFINE p == Append(q, m)
           n == Len(q) + 1
<1>1. /\ DOMAIN q = 1 .. Len(q) /\ Len(q) \in Nat
      /\ DOMAIN p = 1 .. n /\ p[n] = m /\ \A i \in 1 .. Len(q) : p[i] = q[i]
  OBVIOUS
<1>2. On(p) = On(q) \cup {m}
  BY Appended
<1> HIDE DEF p
<1>3. ASSUME AtMostOne(q, s), m.stamp = s => ~Has(q, s) PROVE AtMostOne(p, s)
  <2> SUFFICES ASSUME NEW i \in DOMAIN p, NEW j \in DOMAIN p, p[i].stamp = s, p[j].stamp = s
               PROVE  i = j
    BY DEF AtMostOne
  <2>1. \A k \in 1 .. Len(q) : q[k] \in On(q)
    BY <1>1 DEF On
  <2>2. CASE m.stamp = s
    <3>1. \A k \in 1 .. Len(q) : p[k].stamp # s
      BY <1>1, <1>3, <2>1, <2>2 DEF Has
    <3> QED BY <1>1, <3>1
  <2>3. CASE m.stamp # s
    BY <1>1, <1>3, <2>3 DEF AtMostOne
  <2> QED BY <2>2, <2>3
<1> QED BY <1>2, <1>3 DEF Has, p

LEMMA OneRemoved ==
  ASSUME NEW q, q \in Seq(On(q)), q # <<>>, NEW s
  PROVE  /\ Has(Tail(q), s) => Has(q, s)
         /\ Head(q).stamp = s => Has(q, s)
         /\ AtMostOne(q, s) => AtMostOne(Tail(q), s) /\ (Head(q).stamp = s => ~Has(Tail(q), s))
<1> DEFINE p == Tail(q)
<1>1. /\ Len(q) \in Nat /\ Len(q) > 0 /\ DOMAIN q = 1 .. Len(q)
      /\ DOMAIN p = 1 .. Len(q) - 1 /\ Head(q) = q[1]
      /\ \A i \in 1 .. Len(q) - 1 : p[i] = q[i + 1]
  OBVIOUS
<1>2. On(p) \subseteq On(q) /\ Head(q) \in On(q)
  BY Removed
<1> HIDE DEF p
<1>3. ASSUME AtMostOne(q, s) PROVE AtMostOne(p, s) /\ (Head(q).stamp = s => ~Has(p, s))
  <2>1. AtMostOne(p, s)
    <3> SUFFICES ASSUME NEW i \in DOMAIN p, NEW j \in DOMAIN p, p[i].stamp = s, p[j].stamp = s
                 PROVE  i = j
      BY DEF AtMostOne
    <3>1. i + 1 \in DOMAIN q /\ j + 1 \in DOMAIN q /\ q[i + 1].stamp = s /\ q[j + 1].stamp = s
      BY <1>1
    <3>2. i + 1 = j + 1
      BY <1>3, <3>1 DEF AtMostOne
    <3> QED BY <1>1, <3>2
  <2>2. ASSUME Head(q).stamp = s, Has(p, s) PROVE FALSE
    <3>1. PICK i \in DOMAIN p : p[i].stamp = s
      BY <2>2 DEF Has, On
    <3>2. i + 1 \in DOMAIN q /\ q[i + 1].stamp = s /\ 1 \in DOMAIN q /\ q[1].stamp = s
      BY <1>1, <2>2, <3>1
    <3>3. i + 1 = 1
      BY <1>3, <3>2 DEF AtMostOne
    <3> QED BY <1>1, <3>1, <3>3
  <2> QED BY <2>1, <2>2
<1> QED BY <1>2, <1>3 DEF Has, p

CodeOf(pc) == IF pc = "asked" THEN 200 ELSE IF pc = "filing" THEN 207
              ELSE IF pc = "proving" THEN 220 ELSE 900

ProofCode(th, a) == At(th, "proving") => a.code \in {506, 516, 606}

ArgOf(th, arg) ==
  IF At(th, "fetching") THEN arg = [flag |-> job[th].flag, idx |-> job[th].idx]
  ELSE arg.flag = Name(th)

\* Whatever is under way with the stamp of the call is this call's, and once.
OwnCall(th) ==
  LET c == call[th] IN
    /\ c.code = CodeOf(job[th].pc) /\ ArgOf(th, c.arg)
    /\ \A u \in Threads : u # th => call[u].stamp # c.stamp
    /\ \A m \in On(sent) : m.stamp = c.stamp => m.code = c.code /\ m.arg = c.arg
    /\ AtMostOne(sent, c.stamp)
    /\ c.pc = "put" => ~Has(sent, c.stamp) /\ ~Has(back, c.stamp) /\ c.ans = Null
    /\ Has(back, c.stamp) \/ c.ans # Null => ~Has(sent, c.stamp)
    /\ \A m \in On(back) : m.stamp = c.stamp => ProofCode(th, m.ans)
    /\ c.ans # Null => ProofCode(th, c.ans.ans)

Calling(th) == job[th].pc \in WaitPcs

MatchInv ==
  \A th \in Threads : Calling(th) =>
    call[th] # NoCall /\ (Name(th) \notin mixed => OwnCall(th))

LEMMA OwnStays ==
  ASSUME NEW th \in Threads, OwnCall(th), job'[th] = job[th], call'[th] = call[th],
         \A u \in Threads : u # th => call'[u].stamp # call[th].stamp,
         \A m \in On(sent') : m.stamp = call[th].stamp => m \in On(sent),
         AtMostOne(sent', call[th].stamp),
         Has(back', call[th].stamp) => ~Has(sent', call[th].stamp) /\ call[th].pc # "put",
         \A m \in On(back') : m.stamp = call[th].stamp => ProofCode(th, m.ans)
  PROVE  OwnCall(th)'
<1>1. Has(sent', call[th].stamp) => Has(sent, call[th].stamp)
  BY DEF Has
<1>2. \A a : ProofCode(th, a)' = ProofCode(th, a)
  BY DEF ProofCode, At
<1>3. \A a : ArgOf(th, a)' = ArgOf(th, a)
  BY DEF ArgOf, At, Name
<1> QED BY <1>1, <1>2, <1>3 DEF OwnCall, Has, AtMostOne, On

LEMMA CallStamps ==
  ASSUME Inv, MatchInv, NEW th \in Threads, Calling(th)
  PROVE  call[th].stamp \in Stamps /\ call[th].pc \in {"put", "sent"} /\ call[th].stamp # NoStamp
BY Basics DEF Inv, CallInv, CallOK, MatchInv

\* A step of thread u that leaves the channel as it is.
LEMMA MatchFrame ==
  ASSUME Inv, MatchInv, NEW u \in Threads, mixed \subseteq mixed', UNCHANGED <<sent, back>>,
         \A th \in Threads : th # u => job'[th] = job[th] /\ call'[th] = call[th],
         \A th \in Threads : th # u /\ Calling(th) /\ Name(th) \notin mixed'
                               => call'[u].stamp # call[th].stamp,
         Calling(u)' => call'[u] # NoCall /\ (Name(u)' \notin mixed' => OwnCall(u)')
  PROVE  MatchInv'
<1> SUFFICES ASSUME NEW th \in Threads, th # u, Calling(th)'
             PROVE  call'[th] # NoCall /\ (Name(th)' \notin mixed' => OwnCall(th)')
  BY DEF MatchInv
<1>1. job'[th] = job[th] /\ call'[th] = call[th] /\ Calling(th) /\ Name(th)' = Name(th)
  BY DEF Calling, Name
<1>2. ASSUME Name(th) \notin mixed' PROVE OwnCall(th)'
  <2>1. OwnCall(th)
    BY <1>1, <1>2 DEF MatchInv
  <2>2. \A v \in Threads : v # th => call'[v].stamp # call[th].stamp
    BY <1>1, <1>2, <2>1 DEF OwnCall
  <2>3. /\ AtMostOne(sent', call[th].stamp)
        /\ \A m \in On(sent') : m.stamp = call[th].stamp => m \in On(sent)
        /\ Has(back', call[th].stamp) => ~Has(sent', call[th].stamp) /\ call[th].pc # "put"
        /\ \A m \in On(back') : m.stamp = call[th].stamp => ProofCode(th, m.ans)
    BY <2>1 DEF OwnCall, Has, On, AtMostOne
  <2> QED BY <1>1, <2>1, <2>2, <2>3, OwnStays
<1> QED BY <1>1, <1>2 DEF MatchInv

\* One that ends a call, or has none.
LEMMA MatchEnds ==
  ASSUME Inv, MatchInv, NEW u \in Threads, NEW j, j.pc \notin WaitPcs, Become(u, j),
         mixed \subseteq mixed', UNCHANGED <<sent, back>>,
         UNCHANGED call \/ call' = [call EXCEPT ![u] = NoCall]
  PROVE  MatchInv'
<1>1. job'[u] = j /\ \A th \in Threads : th # u => job'[th] = job[th]
  BY JobsMoved
<1>2. call'[u] \in {call[u], NoCall} /\ \A th \in Threads : th # u => call'[th] = call[th]
  BY DEF Inv, CallInv
<1>3. ~Calling(u)'
  BY <1>1 DEF Calling
<1>4. ASSUME NEW th \in Threads, th # u, Calling(th), Name(th) \notin mixed'
      PROVE  call'[u].stamp # call[th].stamp
  <2>1. OwnCall(th)
    BY <1>4 DEF MatchInv
  <2>2. call[u].stamp # call[th].stamp
    BY <1>4, <2>1 DEF OwnCall
  <2>3. call[th].stamp # NoStamp /\ NoCall.stamp = NoStamp
    BY <1>4, CallStamps DEF NoCall
  <2> QED BY <1>2, <2>2, <2>3
<1> QED BY <1>1, <1>2, <1>3, <1>4, MatchFrame

LEMMA AskMatch ==
  ASSUME Inv, MixInv, MatchInv, NEW th \in Threads, NEW code, NEW arg, NEW pc \in WaitPcs,
         ~At(th, "idle"), Ask(th, code, arg, pc), code = CodeOf(pc),
         Name(th) \notin mixed => IF pc = "fetching" THEN arg = [flag |-> job[th].flag, idx |-> job[th].idx]
                                  ELSE arg.flag = Name(th)
  PROVE  MatchInv'
<1> DEFINE j == [job[th] EXCEPT !.pc = pc]
           c(s) == [pc |-> "put", stamp |-> s, code |-> code, arg |-> arg, ans |-> Null]
           busy == {u \in Threads : ~At(u, "idle")}
<1>1. PICK s \in Stamps : Now(th, s) /\ Place(th, code, arg, s)
  BY DEF Ask
<1>2. /\ Become(th, j) /\ UNCHANGED <<sent, back>> /\ mixed \subseteq mixed'
      /\ mixed' = IF faults' = faults THEN mixed ELSE mixed \cup NamesIn(busy)
  BY <1>1 DEF Ask, Goto, Place, wire
<1>3. Shows(j, pc, job[th].name, job[th].flag, job[th].key, job[th].idx, job[th].todo)
  BY IdleRec, Moved
<1>4. job'[th] = j /\ \A u \in Threads : u # th => job'[u] = job[u]
  BY <1>2, JobsMoved
<1> HIDE DEF j
<1>5. call'[th] = c(s) /\ \A u \in Threads : u # th => call'[u] = call[u]
  BY <1>1 DEF Place, Inv, CallInv
<1>6. c(s).stamp = s /\ c(s).pc = "put" /\ c(s).code = code /\ c(s).arg = arg /\ c(s).ans = Null
  OBVIOUS
<1> HIDE DEF c
<1>7. ASSUME NEW u \in Threads, ~At(u, "idle"), Name(u) \notin mixed' PROVE faults' = faults
  <2>1. Name(u) \in NamesIn(busy)
    BY <1>7 DEF NamesIn, Name
  <2> QED BY <1>2, <1>7, <2>1
<1>8. faults' = faults => Fresh(s)
  <2>1. faults \in Nat
    BY DEF MixInv, ChannelOK
  <2> QED BY <1>1, <2>1 DEF Now, Fault
<1>9. Fresh(s) => /\ ~Has(sent, s) /\ ~Has(back, s) /\ \A u \in Threads : call[u].stamp # s
  BY Basics DEF Fresh, InUse, Pending, Has
<1>10. ASSUME NEW u \in Threads, u # th, Calling(u), Name(u) \notin mixed'
       PROVE  call'[th].stamp # call[u].stamp
  <2>1. ~At(u, "idle")
    BY <1>10 DEF Calling, At, WaitPcs
  <2> QED BY <1>5, <1>6, <1>7, <1>8, <1>9, <1>10, <2>1
<1>11. call'[th] # NoCall
  BY <1>1, <1>5, <1>6, Basics
<1>12. ASSUME Name(th)' \notin mixed' PROVE OwnCall(th)'
  <2>1. Name(th)' = Name(th) /\ Name(th) \notin mixed'
    BY <1>3, <1>4, <1>12 DEF Name, Shows
  <2>2. ~Has(sent, s) /\ ~Has(back, s) /\ \A u \in Threads : call[u].stamp # s
    BY <1>7, <1>8, <1>9, <2>1
  <2>3. ArgOf(th, arg)'
    BY <1>2, <1>3, <1>4, <2>1 DEF ArgOf, At, Shows
  <2>4. job'[th].pc = pc
    BY <1>3, <1>4 DEF Shows
  <2> QED BY <1>2, <1>5, <1>6, <2>2, <2>3, <2>4, Basics DEF OwnCall, Has, AtMostOne, On
<1> QED BY <1>2, <1>4, <1>5, <1>10, <1>11, <1>12, MatchFrame

\* A request goes to the end of `sent', or nowhere.
LEMMA OwnSent ==
  ASSUME Inv, NEW th \in Threads, OwnCall(th), job'[th] = job[th], call'[th] = call[th], back' = back,
         \A u \in Threads : call'[u].stamp = call[u].stamp,
         NEW m, m.stamp # call[th].stamp, sent' \in {sent, Append(sent, m)}
  PROVE  OwnCall(th)'
<1> DEFINE s == call[th].stamp
<1>1. /\ sent \in Seq(On(sent)) /\ AtMostOne(sent, s)
      /\ Has(sent, s) \/ ~Has(sent, s)
  BY DEF Inv, CallInv, OwnCall
<1>2. /\ On(sent') \subseteq On(sent) \cup {m} /\ (Has(sent', s) <=> Has(sent, s))
      /\ AtMostOne(sent', s)
  <2>1. CASE sent' = sent
    BY <1>1, <2>1
  <2>2. CASE sent' = Append(sent, m)
    <3>1. On(sent') = On(sent) \cup {m}
      BY <1>1, <2>2, Appended
    <3>2. Has(sent', s) <=> Has(sent, s)
      BY <1>1, <2>2, OneAppended
    <3>3. AtMostOne(sent', s)
      BY <1>1, <2>2, OneAppended
    <3> QED BY <3>1, <3>2, <3>3
  <2> QED BY <2>1, <2>2
<1>3. On(back') = On(back) /\ (Has(back', s) <=> Has(back, s))
  BY DEF On, Has
<1> QED BY <1>2, <1>3, OwnStays DEF OwnCall

LEMMA WriteMatch ==
  ASSUME Inv, MatchInv, NEW th \in Threads, Write(th)
  PROVE  MatchInv'
<1> DEFINE m == [by |-> th, stamp |-> call[th].stamp, code |-> call[th].code, arg |-> call[th].arg]
           s == call[th].stamp
<1>1. /\ call[th].pc = "put" /\ call' = [call EXCEPT ![th].pc = "sent"]
      /\ sent' = (IF up THEN Append(sent, m) ELSE sent) /\ UNCHANGED <<job, mixed, back>>
  BY DEF Write, WriteOut, Written, ghost
<1>2. /\ call'[th].stamp = s /\ call'[th].code = call[th].code /\ call'[th].arg = call[th].arg
      /\ call'[th].ans = call[th].ans /\ call'[th].pc = "sent"
      /\ \A u \in Threads : u # th => call'[u] = call[u]
  BY <1>1 DEF Inv, CallInv, CallOK
<1>3. m.stamp = s /\ m.code = call[th].code /\ m.arg = call[th].arg
  OBVIOUS
<1>4. sent' \in {sent, Append(sent, m)}
  BY <1>1
<1> HIDE DEF m
<1>5. Calling(th)
  BY <1>1, Basics DEF Inv, JobInv, Calling
<1>6. \A u \in Threads : call'[u].stamp = call[u].stamp /\ call'[u].code = call[u].code
  BY <1>2
<1>7. ASSUME NEW u \in Threads, u # th, Calling(u), Name(u) \notin mixed PROVE OwnCall(u)'
  <2>1. OwnCall(u) /\ m.stamp # call[u].stamp
    BY <1>3, <1>7 DEF MatchInv, OwnCall
  <2> QED BY <1>1, <1>2, <1>4, <1>6, <1>7, <2>1, OwnSent
<1>8. ASSUME Name(th) \notin mixed PROVE OwnCall(th)'
  <2>1. OwnCall(th) /\ ~Has(sent, s) /\ ~Has(back, s) /\ call[th].ans = Null
    BY <1>1, <1>5, <1>8 DEF MatchInv, OwnCall
  <2>2. sent \in Seq(On(sent))
    BY DEF Inv, CallInv
  <2>3. On(sent') \subseteq On(sent) \cup {m} /\ AtMostOne(sent', s)
    <3>1. CASE sent' = sent
      BY <2>1, <3>1 DEF OwnCall
    <3>2. CASE sent' = Append(sent, m)
      <4>1. AtMostOne(sent', s)
        BY <2>1, <2>2, <3>2, OneAppended DEF OwnCall
      <4> QED BY <2>2, <3>2, <4>1, Appended
    <3> QED BY <1>4, <3>1, <3>2
  <2>4. \A x \in On(sent') : x.stamp = s => x.code = call[th].code /\ x.arg = call[th].arg
    BY <1>3, <2>1, <2>3 DEF OwnCall
  <2>5. ~Has(back', s)
    BY <1>1, <2>1 DEF Has, On
  <2>6. ArgOf(th, call[th].arg)' /\ call[th].code = CodeOf(job'[th].pc)
    BY <1>1, <1>2, <2>1 DEF OwnCall, ArgOf, At, Name
  <2>7. \A u \in Threads : u # th => call'[u].stamp # s
    BY <1>2, <2>1 DEF OwnCall
  <2> QED BY <1>1, <1>2, <2>1, <2>3, <2>4, <2>5, <2>6, <2>7 DEF OwnCall, Has
<1>9. \A u \in Threads : Calling(u) => call'[u] # NoCall
  <2>1. call'[th] # NoCall
    BY <1>2, Basics
  <2> QED BY <1>2, <2>1 DEF MatchInv
<1> QED BY <1>1, <1>7, <1>8, <1>9 DEF MatchInv, Calling, Name

LEMMA PostMatch ==
  ASSUME Inv, MatchInv, NEW th \in Threads, PostBlock(th)
  PROVE  MatchInv'
<1> DEFINE j == [job[th] EXCEPT !.pc = "block", !.idx = job[th].idx + 1]
           m == [by |-> th, stamp |-> NoStamp, code |-> 205,
                 arg |-> [flag |-> t, row |-> Row(job[th].name, job[th].idx, job[th].key)]]
<1>1. /\ Become(th, j) /\ UNCHANGED <<call, back, mixed>>
      /\ sent' \in {sent, Append(sent, m)}
  BY DEF PostBlock, Post, Written, ghost
<1>2. Shows(j, "block", job[th].name, job[th].flag, job[th].key, job[th].idx + 1, job[th].todo)
  BY IdleRec, MovedIdx
<1>3. m.stamp = NoStamp
  OBVIOUS
<1> HIDE DEF j, m
<1>4. job'[th] = j /\ \A u \in Threads : u # th => job'[u] = job[u]
  BY <1>1, JobsMoved
<1>5. ~Calling(th)'
  BY <1>2, <1>4 DEF Calling, WaitPcs, Shows
<1>6. ASSUME NEW u \in Threads, u # th, Calling(u), Name(u) \notin mixed PROVE OwnCall(u)'
  <2>1. OwnCall(u) /\ m.stamp # call[u].stamp
    BY <1>3, <1>6, CallStamps DEF MatchInv
  <2> QED BY <1>1, <1>4, <1>6, <2>1, OwnSent
<1>7. \A u \in Threads : u # th => (Calling(u)' <=> Calling(u)) /\ Name(u)' = Name(u)
  BY <1>4 DEF Calling, Name
<1> QED BY <1>1, <1>5, <1>6, <1>7 DEF MatchInv

\* With an answer to 220 in hand, an upload alone with its stamp goes no further.
LEMMA ProofMatch ==
  ASSUME Inv, MatchInv, NEW th \in Threads, GotProof(th)
  PROVE  MatchInv'
<1>1. At(th, "proving") /\ Calling(th) /\ Answered(th) /\ UNCHANGED <<sent, back, mixed>>
  BY DEF GotProof, At, Calling, WaitPcs, ghost, Return, Place, wire
<1>2. CASE Return(th) /\ Become(th, Idle)
  BY <1>1, <1>2, IdleRec, MatchEnds DEF Return
<1>3. ASSUME call[th].ans.ans.code \notin {506, 516, 606},
             Place(th, 207, [flag |-> t], call[th].stamp), Goto(th, "filing")
      PROVE  MatchInv'
  <2>1. Name(th) \in mixed
    BY <1>1, <1>3 DEF MatchInv, OwnCall, ProofCode, Answered
  <2> DEFINE j == [job[th] EXCEPT !.pc = "filing"]
             c == [pc |-> "put", stamp |-> call[th].stamp, code |-> 207, arg |-> [flag |-> t],
                   ans |-> Null]
  <2>2. Shows(j, "filing", job[th].name, job[th].flag, job[th].key, job[th].idx, job[th].todo)
    BY IdleRec, Moved
  <2>3. c.pc = "put" /\ c.stamp = call[th].stamp /\ call' = [call EXCEPT ![th] = c]
    BY <1>3 DEF Place
  <2> HIDE DEF c, j
  <2>4. job'[th] = j /\ \A u \in Threads : u # th => job'[u] = job[u]
    BY <1>3, JobsMoved DEF Goto, j
  <2>5. call'[th] = c /\ \A u \in Threads : u # th => call'[u] = call[u]
    BY <2>3 DEF Inv, CallInv
  <2>6. call'[th] # NoCall
    BY <2>3, <2>5, Basics
  <2>7. \A u \in Threads : u # th /\ Calling(u) /\ Name(u) \notin mixed => call'[th].stamp # call[u].stamp
    BY <2>3, <2>5 DEF MatchInv, OwnCall
  <2>8. Name(th)' \in mixed'
    BY <1>1, <2>1, <2>2, <2>4 DEF Shows, Name
  <2> QED BY <1>1, <2>4, <2>5, <2>6, <2>7, <2>8, MatchFrame
<1> QED BY <1>2, <1>3 DEF GotProof

LEMMA LocalMatch ==
  ASSUME Inv, MatchInv, NEW th \in Threads,
         \/ StartUpload(th) \/ SetKey(th) \/ SetFlag(th) \/ GotExist(th) \/ Encrypt(th)
         \/ LoopException(th) \/ ListTooShort(th) \/ GotMeta(th) \/ GiveUp(th) \/ GiveUpLate(th)
         \/ StartDownload(th) \/ GotBlock(th)
  PROVE  MatchInv'
<1>1. /\ UNCHANGED <<sent, back>> /\ mixed \subseteq mixed'
      /\ UNCHANGED call \/ call' = [call EXCEPT ![th] = NoCall]
  <2>1. UNCHANGED <<sent, back>> /\ (UNCHANGED call \/ call' = [call EXCEPT ![th] = NoCall])
    BY DEF StartUpload, SetKey, SetFlag, GotExist, Encrypt, LoopException, ListTooShort, GotMeta,
           GiveUp, GiveUpLate, StartDownload, GotBlock, callVars, wire, Return, Expire
  <2>2. mixed \subseteq mixed'
    BY DEF StartUpload, SetKey, SetFlag, GotExist, Encrypt, LoopException, ListTooShort, GotMeta,
           GiveUp, GiveUpLate, StartDownload, GotBlock, Fail, ghost
  <2> QED BY <2>1, <2>2
<1>2. ASSUME NEW j, NEW pc, NEW f, NEW flag, NEW key, NEW i, NEW todo,
             Shows(j, pc, f, flag, key, i, todo), pc \notin WaitPcs, Become(th, j)
      PROVE  MatchInv'
  BY <1>1, <1>2, MatchEnds DEF Shows
<1>3. JobRec(job[th]) /\ JobRec(Idle) /\ Idle.pc \notin WaitPcs
  BY IdleRec
<1>4. CASE StartUpload(th)
  <2>1. PICK f \in Files : Become(th, [Idle EXCEPT !.pc = "setKey", !.name = f])
    BY <1>4 DEF StartUpload
  <2>2. Shows([Idle EXCEPT !.pc = "setKey", !.name = f], "setKey", f, Idle.flag, Idle.key, Idle.idx, Idle.todo)
    BY <1>3, MovedName
  <2> QED BY <1>2, <2>1, <2>2 DEF WaitPcs
<1>5. CASE SetKey(th) \/ SetFlag(th) \/ LoopException(th)
  <2>1. PICK pc \in {"setFlag", "exist", "meta"} : Become(th, [job[th] EXCEPT !.pc = pc])
    BY <1>5 DEF SetKey, SetFlag, LoopException, Goto
  <2>2. Shows([job[th] EXCEPT !.pc = pc], pc, job[th].name, job[th].flag, job[th].key, job[th].idx, job[th].todo)
    BY <1>3, Moved
  <2> QED BY <1>2, <2>1, <2>2 DEF WaitPcs
<1>6. CASE GotExist(th)
  <2>1. CASE Become(th, [job[th] EXCEPT !.pc = "block"])
    <3>1. Shows([job[th] EXCEPT !.pc = "block"], "block", job[th].name, job[th].flag, job[th].key, job[th].idx, job[th].todo)
      BY <1>3, Moved
    <3> QED BY <1>2, <2>1, <3>1 DEF WaitPcs
  <2>2. ASSUME NEW k, NEW todo,
               Become(th, [job[th] EXCEPT !.pc = "prove", !.idx = k, !.todo = todo])
        PROVE  MatchInv'
    <3>1. Shows([job[th] EXCEPT !.pc = "prove", !.idx = k, !.todo = todo], "prove", job[th].name, job[th].flag,
                job[th].key, k, todo)
      BY <1>3, MovedList
    <3> QED BY <1>2, <2>2, <3>1 DEF WaitPcs
  <2>3. \/ Become(th, [job[th] EXCEPT !.pc = "block"])
        \/ \E k \in 0 .. Blocks[job[th].name] :
             Become(th, [job[th] EXCEPT !.pc = "prove", !.idx = k, !.todo = call[th].ans.ans.todo])
    BY <1>6 DEF GotExist
  <2> QED BY <2>1, <2>2, <2>3
<1>7. CASE Encrypt(th)
  <2>1. Shows([job[th] EXCEPT !.pc = "post", !.key = sk], "post", job[th].name, job[th].flag, sk, job[th].idx, job[th].todo)
    BY <1>3, MovedKey
  <2> QED BY <1>2, <1>7, <2>1 DEF WaitPcs, Encrypt
<1>8. CASE ListTooShort(th) \/ GotMeta(th) \/ GiveUp(th) \/ GiveUpLate(th)
  BY <1>1, <1>3, <1>8, MatchEnds DEF ListTooShort, GotMeta, GiveUp, GiveUpLate, Fail
<1>9. CASE StartDownload(th)
  <2>1. PICK x, y, z : Become(th, [Idle EXCEPT !.pc = "fetch", !.name = x, !.flag = y, !.key = z])
    BY <1>9 DEF StartDownload
  <2>2. Shows([Idle EXCEPT !.pc = "fetch", !.name = x, !.flag = y, !.key = z], "fetch", x, y, z, Idle.idx, Idle.todo)
    BY <1>3, MovedRecord
  <2> QED BY <1>2, <2>1, <2>2 DEF WaitPcs
<1>10. CASE GotBlock(th)
  <2>1. Shows([job[th] EXCEPT !.pc = "fetch", !.idx = NextBlock(th)], "fetch", job[th].name, job[th].flag, job[th].key,
              NextBlock(th), job[th].todo)
    BY <1>3, MovedIdx
  <2>2. Become(th, Idle) \/ Become(th, [job[th] EXCEPT !.pc = "fetch", !.idx = NextBlock(th)])
    BY <1>10 DEF GotBlock
  <2>3. CASE Become(th, Idle)
    BY <1>1, <1>3, <2>3, MatchEnds
  <2> QED BY <1>2, <2>1, <2>2, <2>3 DEF WaitPcs
<1> QED BY <1>4, <1>5, <1>6, <1>7, <1>8, <1>9, <1>10

\* The head of `sent' is taken, and answered or not.
LEMMA ServeMatch ==
  ASSUME Inv, MatchInv, Serve
  PROVE  MatchInv'
<1> DEFINE m == Head(sent)
           a(ans) == [by |-> m.by, stamp |-> m.stamp, code |-> m.code, ans |-> ans]
<1>1. /\ sent # <<>> /\ sent' = Tail(sent) /\ UNCHANGED <<call, job, mixed>>
      /\ sent \in Seq(On(sent)) /\ back \in Seq(On(back))
  BY Served DEF Serve, Unanswered, Replied, Inv, CallInv, ghost
<1>2. back' = back \/ \E ans : /\ back' = Append(back, a(ans))
                               /\ m.code = 220 => ans.code \in {506, 516, 606}
  <2>1. /\ m.code = 220 => CheckOwner(m)
        /\ m.code # 220 => back' = back \/ \E ans : back' = Append(back, a(ans))
    <3>1. m.code = 220 => CheckOwner(m)
      BY DEF Serve
    <3>2. back' = back \/ \E ans : back' = Append(back, a(ans))
      BY Served DEF Unanswered, Replied, Reply
    <3> QED BY <3>1, <3>2
  <2>2. CASE CheckOwner(m)
    <3>1. Unanswered \/ \E code \in {506, 516, 606} : Replied(m, [code |-> code])
      BY <2>2 DEF CheckOwner
    <3>2. Unanswered => back' = back
      BY DEF Unanswered
    <3>3. ASSUME NEW code \in {506, 516, 606}, Replied(m, [code |-> code])
          PROVE  back' = back \/ back' = Append(back, a([code |-> code]))
      BY <3>3 DEF Replied, Reply
    <3>4. \A code : [code |-> code].code = code
      OBVIOUS
    <3> QED BY <3>1, <3>2, <3>3, <3>4
  <2> QED BY <2>1, <2>2
<1>3. \A ans : a(ans).stamp = m.stamp /\ a(ans).ans = ans
  OBVIOUS
<1> HIDE DEF a, m
<1>4. ASSUME NEW th \in Threads, Calling(th), Name(th) \notin mixed PROVE OwnCall(th)'
  <2> DEFINE s == call[th].stamp
  <2>1. OwnCall(th)
    BY <1>4 DEF MatchInv
  <2>2. /\ AtMostOne(sent', s) /\ On(sent') \subseteq On(sent) /\ m \in On(sent)
        /\ Has(sent', s) => Has(sent, s)
        /\ m.stamp = s => Has(sent, s) /\ ~Has(sent', s)
    BY <1>1, <2>1, Removed, OneRemoved DEF OwnCall, m
  <2>3. m.stamp = s => m.code = CodeOf(job[th].pc)
    BY <2>1, <2>2 DEF OwnCall
  <2>4. CASE back' = back
    <3>1. Has(back', s) = Has(back, s) /\ On(back') = On(back)
      BY <2>4 DEF Has, On
    <3> QED BY <1>1, <2>1, <2>2, <3>1, OwnStays DEF OwnCall
  <2>5. ASSUME NEW ans, back' = Append(back, a(ans)), m.code = 220 => ans.code \in {506, 516, 606}
        PROVE  OwnCall(th)'
    <3>1. /\ On(back') = On(back) \cup {a(ans)}
          /\ Has(back', s) <=> Has(back, s) \/ m.stamp = s
      BY <1>1, <1>3, <2>5, Appended, OneAppended
    <3>2. m.stamp = s => ProofCode(th, ans)
      BY <2>3, <2>5 DEF ProofCode, At, CodeOf
    <3>3. \A x \in On(back') : x.stamp = s => ProofCode(th, x.ans)
      BY <1>3, <2>1, <3>1, <3>2 DEF OwnCall
    <3>4. Has(back', s) => ~Has(sent', s) /\ call[th].pc # "put"
      BY <2>1, <2>2, <3>1 DEF OwnCall
    <3> QED BY <1>1, <2>1, <2>2, <3>3, <3>4, OwnStays DEF OwnCall
  <2> QED BY <1>2, <2>4, <2>5
<1> QED BY <1>1, <1>4 DEF MatchInv, Calling, Name

LEMMA LoopMatch ==
  ASSUME Inv, MatchInv, EventLoop \/ Lost
  PROVE  MatchInv'
<1>1. UNCHANGED <<job, mixed>> /\ sent \in Seq(On(sent)) /\ back \in Seq(On(back))
  BY DEF EventLoop, Lost, ghost, Inv, CallInv
<1>2. ASSUME call' = call, sent' = sent \/ sent' = <<>>, back' = back \/ back' = <<>> \/ (back # <<>> /\ back' = Tail(back))
      PROVE  MatchInv'
  <2>1. ASSUME NEW th \in Threads, Calling(th), Name(th) \notin mixed PROVE OwnCall(th)'
    <3> DEFINE s == call[th].stamp
    <3>1. OwnCall(th)
      BY <2>1 DEF MatchInv
    <3>2. /\ On(sent') \subseteq On(sent) /\ AtMostOne(sent', s) /\ (Has(sent', s) => Has(sent, s))
      BY <1>2, <3>1 DEF On, AtMostOne, Has, OwnCall
    <3>3. On(back') \subseteq On(back) /\ (Has(back', s) => Has(back, s))
      <4>1. CASE back' = back \/ back' = <<>>
        BY <4>1 DEF On, Has
      <4>2. CASE back # <<>> /\ back' = Tail(back)
        BY <1>1, <4>2, Removed DEF Has
      <4> QED BY <1>2, <4>1, <4>2
    <3> QED BY <1>1, <1>2, <3>1, <3>2, <3>3, OwnStays DEF OwnCall
  <2> QED BY <1>1, <1>2, <2>1 DEF MatchInv, Calling, Name
<1>3. CASE Acknowledge /\ Waiter(Head(back).stamp) # Nobody
  <2>1. PICK m : m = Head(back)
    OBVIOUS
  <2>2. back # <<>> /\ back' = Tail(back) /\ UNCHANGED sent /\ loop = NoStamp
    BY <1>3 DEF Acknowledge
  <2>3. /\ m \in On(back) /\ BackOK(m) /\ On(back') \subseteq On(back)
    BY <1>1, <2>1, <2>2, Removed DEF Inv, CallInv
  <2>4. PICK w \in Threads : w = cache[m.stamp]
    <3>1. cache[m.stamp] \in Threads \cup {Nobody} /\ cache[m.stamp] # Nobody
      BY <1>3, <2>1, <2>3 DEF Waiter, BackOK, Inv, CallInv, CacheOK
    <3> QED BY <3>1
  <2> DEFINE c == [call[w] EXCEPT !.ans = m]
  <2>5. /\ back # <<>> /\ back' = Tail(back) /\ UNCHANGED sent /\ loop = NoStamp
        /\ call' = [call EXCEPT ![w] = c]
    BY <1>3, <2>1, <2>4 DEF Acknowledge, Waiter
  <2>6. Waiting(w) /\ call[w].stamp = m.stamp
    BY <2>5, <2>3, <2>4, Basics DEF Inv, CallInv, CacheOK, BackOK
  <2>7. /\ c.pc = call[w].pc /\ c.stamp = call[w].stamp /\ c.code = call[w].code
        /\ c.arg = call[w].arg /\ c.ans = m /\ call[w] # NoCall
    BY <2>6, Basics DEF Inv, CallInv, CallOK, Waiting
  <2> HIDE DEF c
  <2>8. call'[w] = c /\ \A u \in Threads : u # w => call'[u] = call[u]
    BY <2>5 DEF Inv, CallInv
  <2>9. ASSUME NEW th \in Threads, th # w, Calling(th), Name(th) \notin mixed PROVE OwnCall(th)'
    <3> DEFINE s == call[th].stamp
    <3>1. OwnCall(th)
      BY <2>9 DEF MatchInv
    <3>2. \A u \in Threads : u # th => call'[u].stamp # s
      BY <2>7, <2>8, <3>1 DEF OwnCall
    <3>3. Has(back', s) => Has(back, s)
      BY <2>3 DEF Has
    <3> QED BY <1>1, <2>5, <2>3, <2>8, <2>9, <3>1, <3>2, <3>3, OwnStays DEF OwnCall
  <2>10. ASSUME Calling(w), Name(w) \notin mixed PROVE OwnCall(w)'
    <3> DEFINE s == call[w].stamp
    <3>1. OwnCall(w)
      BY <2>6, <2>10 DEF MatchInv
    <3>2. Has(back, s) /\ ~Has(sent, s) /\ call[w].pc # "put" /\ ProofCode(w, m.ans)
      BY <2>3, <2>6, <3>1 DEF OwnCall, Has
    <3>3. ~Has(sent', s) /\ AtMostOne(sent', s) /\ On(sent') = On(sent)
      BY <2>5, <3>1, <3>2 DEF Has, On, AtMostOne, OwnCall
    <3>4. ArgOf(w, call[w].arg)' /\ \A a : ProofCode(w, a)' = ProofCode(w, a)
      <4>1. \A a : ProofCode(w, a)' = ProofCode(w, a)
        BY <1>1 DEF ProofCode, At
      <4>2. \A a : ArgOf(w, a)' = ArgOf(w, a)
        BY <1>1 DEF ArgOf, At, Name
      <4>3. call'[w].arg = call[w].arg
        BY <2>7, <2>8
      <4> QED BY <3>1, <4>1, <4>2, <4>3 DEF OwnCall
    <3>5. \A u \in Threads : u # w => call'[u].stamp # s
      BY <2>8, <3>1 DEF OwnCall
    <3> QED BY <1>1, <2>3, <2>7, <2>8, <3>1, <3>2, <3>3, <3>4, <3>5 DEF OwnCall, Has
  <2>11. \A th \in Threads : Calling(th) => call'[th] # NoCall
    <3>1. c # NoCall
      BY <2>6, <2>7, Basics DEF Waiting
    <3> QED BY <2>6, <2>8, <3>1 DEF MatchInv
  <2> QED BY <1>1, <2>6, <2>9, <2>10, <2>11 DEF MatchInv, Calling, Name
<1>4. CASE Acknowledge /\ Waiter(Head(back).stamp) = Nobody
  BY <1>2, <1>4 DEF Acknowledge
<1>5. CASE Invalidate \/ Close
  BY <1>2, <1>5 DEF Invalidate, Close, wire
<1> QED BY <1>3, <1>4, <1>5 DEF EventLoop, Lost

LEMMA MatchStep ==
  ASSUME Inv, MixInv, MatchInv, [Next]_vars
  PROVE  MatchInv'
<1>1. CASE UNCHANGED vars
  BY <1>1 DEF vars, callVars, wire, ghost, MatchInv, OwnCall, Calling, Name, ProofCode, ArgOf, At, Has, On, AtMostOne
<1>2. ASSUME NEW th \in Threads, IsExist(th) \/ SendMeta(th) \/ Verify(th) \/ Fetch(th)
      PROVE  MatchInv'
  <2>1. JobOK(th)
    BY DEF MixInv
  <2>2. CASE IsExist(th) \/ SendMeta(th) \/ Verify(th)
    <3>1. Name(th) \notin mixed => t = Name(th)
      BY <2>1, <2>2 DEF IsExist, SendMeta, Verify, JobOK, Of, At, Uploading, Downloading, DownloadPcs, Name
    <3>2. CASE IsExist(th)
      BY <3>1, <3>2, AskMatch DEF IsExist, At, CodeOf, WaitPcs
    <3>3. CASE SendMeta(th)
      BY <3>1, <3>3, AskMatch DEF SendMeta, At, CodeOf, WaitPcs
    <3>4. CASE Verify(th)
      BY <3>1, <3>4, AskMatch DEF Verify, At, CodeOf, WaitPcs
    <3> QED BY <2>2, <3>2, <3>3, <3>4
  <2>3. CASE Fetch(th)
    BY <2>3, AskMatch DEF Fetch, At, CodeOf, WaitPcs
  <2> QED BY <1>2, <2>2, <2>3
<1>3. ASSUME NEW th \in Threads, Step(th) \/ GiveUpLate(th) \/ LoopException(th)
      PROVE  MatchInv'
  BY <1>2, <1>3, LocalMatch, PostMatch, ProofMatch, WriteMatch DEF Step
<1> QED BY <1>1, <1>3, LocalMatch, ServeMatch, LoopMatch DEF Next

\* Who is handed an answer has asked for it by its stamp.
LEMMA Handed ==
  ASSUME Inv, EventLoop
  PROVE  /\ On(back') \subseteq On(back)
         /\ \A th \in Threads : /\ call'[th].stamp = call[th].stamp /\ call'[th].pc = call[th].pc
                                /\ \/ call'[th].ans = call[th].ans
                                   \/ call'[th].ans \in On(back) /\ call'[th].ans.stamp = call[th].stamp
<1>1. back \in Seq(On(back)) /\ call = [th \in Threads |-> call[th]] /\ \A th \in Threads : CallOK(call[th])
  BY DEF Inv, CallInv
<1>2. CASE call' = call /\ (back' = back \/ (back # <<>> /\ back' = Tail(back)))
  BY <1>1, <1>2, Removed
<1>3. CASE Acknowledge /\ call' = [call EXCEPT ![Waiter(Head(back).stamp)].ans = Head(back)]
  <2>1. PICK m, w : m = Head(back) /\ w = Waiter(Head(back).stamp)
    OBVIOUS
  <2>2. /\ m \in On(back) /\ On(back') \subseteq On(back) /\ loop = NoStamp /\ m.stamp \in Stamps
    BY <1>1, <1>3, <2>1, Removed DEF Acknowledge, Inv, CallInv, BackOK
  <2>3. \A th \in Threads : /\ call'[th].stamp = call[th].stamp /\ call'[th].pc = call[th].pc
                            /\ call'[th].ans = IF th = w THEN m ELSE call[th].ans
    <3>1. call' = [call EXCEPT ![w].ans = m]
      BY <1>3, <2>1
    <3> QED BY <1>1, <3>1 DEF CallOK
  <2>4. w \in Threads => call[w].stamp = m.stamp
    <3>1. cache[m.stamp] = w
      BY <2>1 DEF Waiter
    <3> QED BY <2>2, <3>1, Basics DEF Inv, CallInv, CacheOK
  <2> QED BY <2>2, <2>3, <2>4
<1> QED BY <1>2, <1>3 DEF EventLoop, Acknowledge, Invalidate, wire

----------------------------------------------------------------------------
(* The blocks on the channel *)

IsBlock(m, f) == m.code = 205 /\ m.arg.flag = f
Index(m) == m.arg.row.idx
Blocks205(q, f) == {p \in DOMAIN q : IsBlock(q[p], f)}
Indices(q, f) == {Index(q[p]) : p \in Blocks205(q, f)}
Rising(q, f) == \A i, j \in Blocks205(q, f) : i < j => Index(q[i]) < Index(q[j])
Followed(q, f, s) == \A p \in Blocks205(q, f) : \E k \in DOMAIN q : k > p /\ q[k].stamp = s

LEMMA BlocksAppended ==
  ASSUME NEW q, q \in Seq(On(q)), NEW m, NEW f
  PROVE  /\ ~IsBlock(m, f) => /\ Blocks205(Append(q, m), f) = Blocks205(q, f)
                              /\ Indices(Append(q, m), f) = Indices(q, f)
                              /\ Rising(q, f) => Rising(Append(q, m), f)
                              /\ \A s : Followed(q, f, s) \/ m.stamp = s => Followed(Append(q, m), f, s)
         /\ IsBlock(m, f) => /\ Indices(Append(q, m), f) = Indices(q, f) \cup {Index(m)}
                             /\ Rising(q, f) /\ (\A i \in Indices(q, f) : i < Index(m))
                                  => Rising(Append(q, m), f)
<1> DEFINE p == Append(q, m)
           n == Len(q) + 1
<1>1. /\ DOMAIN q = 1 .. Len(q) /\ Len(q) \in Nat
      /\ DOMAIN p = 1 .. n /\ p[n] = m /\ \A i \in 1 .. Len(q) : p[i] = q[i]
  OBVIOUS
<1> HIDE DEF p
<1>2. Blocks205(p, f) = Blocks205(q, f) \cup (IF IsBlock(m, f) THEN {n} ELSE {})
  BY <1>1 DEF Blocks205
<1>3. \A i \in Blocks205(q, f) : i \in 1 .. Len(q) /\ p[i] = q[i]
  BY <1>1 DEF Blocks205
<1>4. CASE ~IsBlock(m, f)
  <2>1. Blocks205(p, f) = Blocks205(q, f)
    BY <1>2, <1>4
  <2>2. Indices(p, f) = Indices(q, f)
    BY <1>3, <2>1 DEF Indices
  <2>3. Rising(q, f) => Rising(p, f)
    BY <1>3, <2>1 DEF Rising
  <2>4. ASSUME NEW s, Followed(q, f, s) PROVE Followed(p, f, s)
    BY <1>1, <2>1, <2>4 DEF Followed
  <2>5. ASSUME NEW s, m.stamp = s PROVE Followed(p, f, s)
    BY <1>1, <1>3, <2>1, <2>5 DEF Followed
  <2> QED BY <1>4, <2>1, <2>2, <2>3, <2>4, <2>5 DEF p
<1>5. CASE IsBlock(m, f)
  <2>1. Blocks205(p, f) = Blocks205(q, f) \cup {n}
    BY <1>2, <1>5
  <2>2. Indices(p, f) = Indices(q, f) \cup {Index(m)}
    BY <1>1, <1>3, <2>1 DEF Indices
  <2>3. ASSUME Rising(q, f), \A i \in Indices(q, f) : i < Index(m) PROVE Rising(p, f)
    <3> SUFFICES ASSUME NEW i \in Blocks205(p, f), NEW j \in Blocks205(p, f), i < j
                 PROVE  Index(p[i]) < Index(p[j])
      BY DEF Rising
    <3>1. i \in Blocks205(q, f)
      BY <1>1, <1>3, <2>1
    <3>2. CASE j \in Blocks205(q, f)
      BY <1>3, <2>3, <3>1, <3>2 DEF Rising
    <3>3. CASE j = n
      BY <1>1, <1>3, <2>3, <3>1, <3>3 DEF Indices
    <3> QED BY <2>1, <3>2, <3>3
  <2> QED BY <1>5, <2>2, <2>3 DEF p
<1> QED BY <1>4, <1>5

LEMMA BlocksRemoved ==
  ASSUME NEW q, q \in Seq(On(q)), q # <<>>, NEW f,
         \A m \in On(q) : IsBlock(m, f) => Index(m) \in Nat
  PROVE  /\ ~IsBlock(Head(q), f) => Indices(Tail(q), f) = Indices(q, f)
         /\ IsBlock(Head(q), f) /\ Rising(q, f) =>
              /\ Indices(q, f) = Indices(Tail(q), f) \cup {Index(Head(q))}
              /\ \A i \in Indices(Tail(q), f) : Index(Head(q)) < i
         /\ Rising(q, f) => Rising(Tail(q), f)
         /\ Blocks205(q, f) = {} => Blocks205(Tail(q), f) = {} /\ ~IsBlock(Head(q), f)
         /\ \A s : Followed(q, f, s) /\ Head(q).stamp # s => Followed(Tail(q), f, s)
         /\ \A s : Followed(q, f, s) /\ Head(q).stamp = s /\ AtMostOne(q, s) => Blocks205(q, f) = {}
<1> DEFINE p == Tail(q)
<1>1. /\ Len(q) \in Nat /\ Len(q) > 0 /\ DOMAIN q = 1 .. Len(q)
      /\ DOMAIN p = 1 .. Len(q) - 1 /\ Head(q) = q[1]
      /\ \A i \in 1 .. Len(q) - 1 : p[i] = q[i + 1]
  OBVIOUS
<1> HIDE DEF p
<1>2. /\ \A i \in Blocks205(p, f) : i \in Nat /\ i + 1 \in Blocks205(q, f) /\ p[i] = q[i + 1] /\ i + 1 > 1
      /\ \A i \in Blocks205(q, f) : i \in Nat /\ (i = 1 \/ (i - 1 \in Blocks205(p, f) /\ p[i - 1] = q[i]))
      /\ 1 \in Blocks205(q, f) <=> IsBlock(Head(q), f)
  <2>1. \A i \in Blocks205(p, f) : i \in Nat /\ i + 1 \in Blocks205(q, f) /\ p[i] = q[i + 1] /\ i + 1 > 1
    BY <1>1 DEF Blocks205
  <2>2. ASSUME NEW i \in Blocks205(q, f), i # 1 PROVE i - 1 \in Blocks205(p, f) /\ p[i - 1] = q[i]
    <3>1. i \in 1 .. Len(q) /\ i - 1 \in 1 .. Len(q) - 1 /\ (i - 1) + 1 = i
      BY <1>1, <2>2 DEF Blocks205
    <3>2. p[i - 1] = q[i]
      BY <1>1, <3>1
    <3> QED BY <1>1, <3>1, <3>2 DEF Blocks205
  <2>3. 1 \in Blocks205(q, f) <=> IsBlock(Head(q), f)
    BY <1>1 DEF Blocks205
  <2>4. \A i \in Blocks205(q, f) : i \in Nat
    BY <1>1 DEF Blocks205
  <2> QED BY <2>1, <2>2, <2>3, <2>4
<1>3. Indices(q, f) = Indices(p, f) \cup (IF IsBlock(Head(q), f) THEN {Index(Head(q))} ELSE {})
  <2>1. ASSUME NEW x \in Indices(p, f) PROVE x \in Indices(q, f)
    BY <1>2, <2>1 DEF Indices
  <2>2. ASSUME NEW x \in Indices(q, f) PROVE x \in Indices(p, f) \/ (IsBlock(Head(q), f) /\ x = Index(Head(q)))
    <3>1. PICK i \in Blocks205(q, f) : x = Index(q[i])
      BY DEF Indices
    <3>2. CASE i = 1
      BY <1>1, <1>2, <3>1, <3>2
    <3>3. CASE i # 1
      BY <1>2, <3>1, <3>3 DEF Indices
    <3> QED BY <3>2, <3>3
  <2>3. IsBlock(Head(q), f) => Index(Head(q)) \in Indices(q, f)
    BY <1>1, <1>2 DEF Indices
  <2> QED BY <2>1, <2>2, <2>3
<1>4. ASSUME IsBlock(Head(q), f), Rising(q, f), NEW x \in Indices(p, f) PROVE Index(Head(q)) < x
  <2>1. PICK i \in Blocks205(p, f) : x = Index(p[i])
    BY DEF Indices
  <2>2. 1 \in Blocks205(q, f) /\ i + 1 \in Blocks205(q, f) /\ 1 < i + 1 /\ p[i] = q[i + 1]
    BY <1>2, <1>4
  <2> QED BY <1>1, <1>4, <2>1, <2>2 DEF Rising
<1>5. ASSUME Rising(q, f) PROVE Rising(p, f)
  <2> SUFFICES ASSUME NEW i \in Blocks205(p, f), NEW j \in Blocks205(p, f), i < j
               PROVE  Index(p[i]) < Index(p[j])
    BY DEF Rising
  <2>1. i + 1 \in Blocks205(q, f) /\ j + 1 \in Blocks205(q, f) /\ i + 1 < j + 1 /\ p[i] = q[i + 1] /\ p[j] = q[j + 1]
    BY <1>2
  <2> QED BY <1>5, <2>1 DEF Rising
<1>6. Blocks205(q, f) = {} => Blocks205(p, f) = {} /\ ~IsBlock(Head(q), f)
  BY <1>2
<1>7. ASSUME NEW s, Followed(q, f, s), Head(q).stamp # s PROVE Followed(p, f, s)
  <2> SUFFICES ASSUME NEW i \in Blocks205(p, f)
               PROVE  \E k \in DOMAIN p : k > i /\ p[k].stamp = s
    BY DEF Followed
  <2>1. i \in Nat /\ i + 1 \in Blocks205(q, f)
    BY <1>2
  <2>2. PICK k \in DOMAIN q : k > i + 1 /\ q[k].stamp = s
    BY <1>7, <2>1 DEF Followed
  <2>3. k - 1 \in DOMAIN p /\ k - 1 > i /\ (k - 1) + 1 = k
    BY <1>1, <2>1, <2>2
  <2>4. p[k - 1] = q[k]
    BY <1>1, <2>3
  <2> QED BY <2>2, <2>3, <2>4
<1>8. ASSUME NEW s, Followed(q, f, s), Head(q).stamp = s, AtMostOne(q, s) PROVE Blocks205(q, f) = {}
  <2> SUFFICES ASSUME NEW i \in Blocks205(q, f) PROVE FALSE
    OBVIOUS
  <2>1. PICK k \in DOMAIN q : k > i /\ q[k].stamp = s
    BY <1>8 DEF Followed
  <2>2. i \in 1 .. Len(q) /\ 1 \in DOMAIN q /\ q[1].stamp = s
    BY <1>1, <1>8 DEF Blocks205
  <2>3. k = 1
    BY <1>8, <2>1, <2>2 DEF AtMostOne
  <2> QED BY <1>1, <2>1, <2>2, <2>3
<1> QED BY <1>3, <1>4, <1>5, <1>6, <1>7, <1>8 DEF p

----------------------------------------------------------------------------
(* Records of whole files *)

Recorded == {r.name : r \in recs}
Over(f) == f \in cut \/ Len(rows[f]) = Blocks[f]
Clean(th) == Uploading(th) /\ Name(th) \notin mixed

\* What the answer that an upload gets says of the rows of its file.
Told(th, a) ==
  LET f == Name(th) IN
    /\ Blocks205(sent, f) = {}
    /\ At(th, "asked") => \/ a.code = 300 /\ rows[f] # <<>>
                          \/ a.code = 400 /\ rows[f] = <<>> /\ f \in filed \ Recorded
    /\ At(th, "filing") => Over(f)
    /\ At(th, "proving") => Over(f)

AnswersTrue(th) ==
  Clean(th) /\ Calling(th) =>
    /\ \A m \in On(back) : m.stamp = call[th].stamp => Told(th, m.ans)
    /\ call[th].ans # Null => Told(th, call[th].ans.ans)

\* The request of an upload comes after the blocks of its file.
Behind(th) ==
  Clean(th) /\ Calling(th) /\ call[th].pc = "sent" /\ up =>
    Followed(sent, Name(th), call[th].stamp)

JobWhole(th) ==
  LET pc == job[th].pc
      f == Name(th)
  IN Clean(th) =>
       /\ pc \in {"block", "post", "meta", "filing"} => f \in filed
       /\ pc \in {"block", "post", "meta"} => f \notin Recorded
       /\ pc \in {"prove", "proving"} => rows[f] # <<>>

\* Of file f, n blocks have been posted: in rows, or still on the channel.
Posted(f, n) ==
  /\ Len(rows[f]) <= n
  /\ Indices(sent, f) = Len(rows[f]) .. n - 1
  /\ Rising(sent, f)

Posting(th, f) == Name(th) = f /\ job[th].pc \in {"block", "post"}

Reach(f, n) ==
  /\ \A th \in Threads : Posting(th, f) => n = job[th].idx
  /\ \A th \in Threads : Name(th) = f /\ At(th, "filing") => f \in cut \/ n = Blocks[f]
  /\ n = 0 \/ f \in cut \/ n = Blocks[f] \/ \E th \in Threads : Posting(th, f)

FileOK(f) ==
  /\ rows[f] \in Seq({Row(f, i, f) : i \in Nat}) /\ InOrder(f)
  /\ rows[f] # <<>> => f \in filed
  /\ \A m \in On(sent) : IsBlock(m, f) =>
       f \in filed /\ Index(m) \in Nat /\ m.arg.row = Row(f, Index(m), f)
  /\ f \in Recorded => f \in filed /\ Blocks205(sent, f) = {} /\ Over(f)
  /\ \A r \in recs : r.name = f => r.flag = f /\ r.key = f
  /\ up => \E n \in Nat : Posted(f, n) /\ Reach(f, n)

WholeInv ==
  /\ rows = [f \in Files |-> rows[f]] /\ Recorded \subseteq Files
  /\ \A th \in Threads : JobWhole(th) /\ AnswersTrue(th) /\ Behind(th)
  /\ \A f \in Files \ mixed : FileOK(f)

LEMMA CleanAlone ==
  ASSUME MixInv, NEW th \in Threads, Clean(th)
  PROVE  /\ \A u \in Threads : Uploading(u) => u = th
         /\ Name(th) \in Files \ mixed /\ JobOK(th)
         /\ job[th].pc # "setKey" => sk = Name(th)
         /\ job[th].pc \notin {"setKey", "setFlag"} => t = Name(th)
         /\ At(th, "post") => job[th].key = Name(th)
BY DEF MixInv, Alone, JobOK, Of, Clean, Name, At

\* What a thread keeps of the invariant while another one takes a step.
LEMMA OtherWhole ==
  ASSUME NEW th \in Threads, JobWhole(th), AnswersTrue(th), Behind(th),
         job'[th] = job[th], call'[th] = call[th], mixed \subseteq mixed', cut \subseteq cut',
         UNCHANGED <<sent, back, rows, filed, recs, up>>
  PROVE  (JobWhole(th) /\ AnswersTrue(th) /\ Behind(th))'
<1>1. /\ Name(th)' = Name(th) /\ (Calling(th)' <=> Calling(th)) /\ (Clean(th)' => Clean(th))
      /\ Recorded' = Recorded
  BY DEF Name, Calling, Clean, Uploading, Downloading, At, Recorded
<1>2. \A a : Told(th, a) => Told(th, a)'
  BY <1>1 DEF Told, At, Over, Blocks205
<1>3. JobWhole(th)'
  BY <1>1 DEF JobWhole
<1>4. AnswersTrue(th)'
  BY <1>1, <1>2 DEF AnswersTrue, On
<1>5. Behind(th)'
  BY <1>1 DEF Behind, Followed, Blocks205
<1> QED BY <1>3, <1>4, <1>5

LEMMA SameFile ==
  ASSUME NEW f, FileOK(f), cut \subseteq cut', UNCHANGED <<sent, rows, filed, recs, up>>,
         \A n \in Nat : Posted(f, n) /\ Reach(f, n) => Reach(f, n)'
  PROVE  FileOK(f)'
<1>1. (rows[f] \in Seq({Row(f, i, f) : i \in Nat}) /\ InOrder(f))' /\ (rows[f] # <<>> => f \in filed)'
  BY DEF FileOK, InOrder
<1>2. (\A m \in On(sent) : IsBlock(m, f) =>
         f \in filed /\ Index(m) \in Nat /\ m.arg.row = Row(f, Index(m), f))'
  BY DEF FileOK, On
<1>3. (f \in Recorded => f \in filed /\ Blocks205(sent, f) = {} /\ Over(f))'
  BY DEF FileOK, Recorded, Over, Blocks205
<1>4. (\A r \in recs : r.name = f => r.flag = f /\ r.key = f)'
  BY DEF FileOK
<1>5. (up => \E n \in Nat : Posted(f, n) /\ Reach(f, n))'
  <2>1. \A n : Posted(f, n)' <=> Posted(f, n)
    BY DEF Posted, Indices, Rising, Blocks205
  <2> QED BY <2>1 DEF FileOK
<1> QED BY <1>1, <1>2, <1>3, <1>4, <1>5 DEF FileOK

\* A step of thread u that leaves the channel and the server as they are.
LEMMA WholeFrame ==
  ASSUME WholeInv, NEW u \in Threads, mixed \subseteq mixed', cut \subseteq cut',
         UNCHANGED <<sent, back, rows, filed, recs, up>>,
         \A th \in Threads : th # u => job'[th] = job[th] /\ call'[th] = call[th],
         (JobWhole(u) /\ AnswersTrue(u) /\ Behind(u))',
         \A f \in Files \ mixed', n \in Nat : Posted(f, n) /\ Reach(f, n) => Reach(f, n)'
  PROVE  WholeInv'
<1>1. \A th \in Threads : (JobWhole(th) /\ AnswersTrue(th) /\ Behind(th))'
  BY OtherWhole DEF WholeInv
<1>2. \A f \in Files \ mixed' : FileOK(f)'
  BY SameFile DEF WholeInv
<1>3. (rows = [f \in Files |-> rows[f]] /\ Recorded \subseteq Files)'
  BY DEF WholeInv, Recorded
<1> QED BY <1>1, <1>2, <1>3 DEF WholeInv

\* One that neither begins nor ends the posting of blocks.
LEMMA ReachQuiet ==
  ASSUME NEW u \in Threads, \A th \in Threads : th # u => job'[th] = job[th], cut \subseteq cut',
         job[u].pc \notin {"block", "post"}, job'[u].pc \notin {"block", "post", "filing"}
  PROVE  \A f, n : Reach(f, n) => Reach(f, n)'
<1>1. \A f : \A th \in Threads : Posting(th, f)' <=> Posting(th, f)
  BY DEF Posting, Name
<1>2. \A th \in Threads : At(th, "filing")' => At(th, "filing") /\ th # u
  BY DEF At
<1>3. \A th \in Threads : th # u => Name(th)' = Name(th)
  BY DEF Name
<1>4. \A f : ~Posting(u, f)
  BY DEF Posting
<1>5. SUFFICES ASSUME NEW f, NEW n, Reach(f, n) PROVE Reach(f, n)'
  OBVIOUS
<1>6. ASSUME NEW th \in Threads
      PROVE  /\ Posting(th, f)' => n = job'[th].idx
             /\ Name(th)' = f /\ At(th, "filing")' => f \in cut' \/ n = Blocks[f]
  <2>1. CASE th = u
    BY <1>1, <1>2, <1>4, <2>1
  <2>2. CASE th # u
    <3>1. job'[th] = job[th] /\ Name(th)' = Name(th) /\ (At(th, "filing")' => At(th, "filing"))
      BY <1>2, <1>3, <2>2
    <3>2. Posting(th, f)' => Posting(th, f)
      BY <1>1
    <3>3. Posting(th, f) => n = job[th].idx
      BY <1>5 DEF Reach
    <3>4. Name(th) = f /\ At(th, "filing") => f \in cut \/ n = Blocks[f]
      BY <1>5 DEF Reach
    <3> QED BY <3>1, <3>2, <3>3, <3>4
  <2> QED BY <2>1, <2>2
<1>7. n = 0 \/ f \in cut' \/ n = Blocks[f] \/ \E th \in Threads : Posting(th, f)'
  BY <1>1, <1>5 DEF Reach
<1> QED BY <1>6, <1>7 DEF Reach

LEMMA LocalWhole ==
  ASSUME Inv, WholeInv, NEW u \in Threads, NEW j, Become(u, j), j.pc \notin WaitPcs,
         mixed \subseteq mixed', cut \subseteq cut', UNCHANGED <<sent, back, rows, filed, recs, up>>,
         UNCHANGED call \/ call' = [call EXCEPT ![u] = NoCall],
         JobWhole(u)',
         \A f \in Files \ mixed', n \in Nat : Posted(f, n) /\ Reach(f, n) => Reach(f, n)'
  PROVE  WholeInv'
<1>1. job'[u] = j /\ \A th \in Threads : th # u => job'[th] = job[th]
  BY JobsMoved
<1>2. \A th \in Threads : th # u => call'[th] = call[th]
  BY DEF Inv, CallInv
<1>3. (AnswersTrue(u) /\ Behind(u))'
  BY <1>1 DEF AnswersTrue, Behind, Calling
<1> QED BY <1>1, <1>2, <1>3, WholeFrame

QuietPcs == {"idle", "fetch", "setKey", "setFlag", "exist"}

LEMMA QuietWhole ==
  ASSUME Inv, WholeInv, NEW u \in Threads, NEW j, Become(u, j), j.pc \in QuietPcs,
         job[u].pc \notin {"block", "post"},
         mixed \subseteq mixed', cut \subseteq cut', UNCHANGED <<sent, back, rows, filed, recs, up>>,
         UNCHANGED call \/ call' = [call EXCEPT ![u] = NoCall]
  PROVE  WholeInv'
<1>1. job'[u] = j /\ \A th \in Threads : th # u => job'[th] = job[th]
  BY JobsMoved
<1>2. JobWhole(u)'
  BY <1>1 DEF JobWhole, QuietPcs
<1>3. \A f, n : Reach(f, n) => Reach(f, n)'
  BY <1>1, ReachQuiet DEF QuietPcs
<1>4. j.pc \notin WaitPcs
  BY DEF QuietPcs, WaitPcs
<1> QED BY <1>2, <1>3, <1>4, LocalWhole

LEMMA QuietSteps ==
  ASSUME Inv, WholeInv, NEW u \in Threads,
         \/ StartUpload(u) \/ SetKey(u) \/ SetFlag(u) \/ ListTooShort(u) \/ GiveUp(u)
         \/ GiveUpLate(u) \/ StartDownload(u) \/ GotBlock(u)
  PROVE  WholeInv'
<1>1. /\ UNCHANGED <<sent, back, rows, filed, recs, up, cut>> /\ mixed \subseteq mixed'
      /\ UNCHANGED call \/ call' = [call EXCEPT ![u] = NoCall]
  <2>1. /\ UNCHANGED <<sent, back, up>>
        /\ UNCHANGED call \/ call' = [call EXCEPT ![u] = NoCall]
    BY DEF StartUpload, SetKey, SetFlag, ListTooShort, GiveUp, GiveUpLate, StartDownload, GotBlock,
           callVars, wire, Return, Expire
  <2>2. mixed \subseteq mixed' /\ UNCHANGED <<rows, filed, recs, cut>>
    BY DEF StartUpload, SetKey, SetFlag, ListTooShort, GiveUp, GiveUpLate, StartDownload, GotBlock,
           Fail, ghost, server
  <2> QED BY <2>1, <2>2
<1>2. job[u].pc \notin {"block", "post"}
  <2>1. CASE StartUpload(u) \/ SetKey(u) \/ SetFlag(u) \/ ListTooShort(u) \/ StartDownload(u) \/ GotBlock(u)
    BY <2>1 DEF StartUpload, SetKey, SetFlag, ListTooShort, StartDownload, GotBlock, At
  <2>2. CASE GiveUp(u) \/ GiveUpLate(u)
    <3>1. call[u].pc = "sent"
      BY <2>2 DEF GiveUp, GiveUpLate, TimedOut, TooLate
    <3> QED BY <3>1, Basics DEF Inv, JobInv, WaitPcs
  <2> QED BY <2>1, <2>2
<1>3. ASSUME NEW j, NEW pc, NEW f, NEW flag, NEW key, NEW i, NEW todo,
             Shows(j, pc, f, flag, key, i, todo), pc \in QuietPcs, Become(u, j)
      PROVE  WholeInv'
  BY <1>1, <1>2, <1>3, QuietWhole DEF Shows
<1>4. JobRec(job[u]) /\ JobRec(Idle) /\ Idle.pc \in QuietPcs
  BY IdleRec DEF Idle, QuietPcs
<1>5. CASE StartUpload(u)
  <2>1. PICK f \in Files : Become(u, [Idle EXCEPT !.pc = "setKey", !.name = f])
    BY <1>5 DEF StartUpload
  <2>2. Shows([Idle EXCEPT !.pc = "setKey", !.name = f], "setKey", f, Idle.flag, Idle.key, Idle.idx, Idle.todo)
    BY <1>4, MovedName
  <2> QED BY <1>3, <2>1, <2>2 DEF QuietPcs
<1>6. CASE SetKey(u) \/ SetFlag(u)
  <2>1. PICK pc \in {"setFlag", "exist"} : Become(u, [job[u] EXCEPT !.pc = pc])
    BY <1>6 DEF SetKey, SetFlag, Goto
  <2>2. Shows([job[u] EXCEPT !.pc = pc], pc, job[u].name, job[u].flag, job[u].key, job[u].idx, job[u].todo)
    BY <1>4, Moved
  <2> QED BY <1>3, <2>1, <2>2 DEF QuietPcs
<1>7. CASE Become(u, Idle)
  BY <1>1, <1>2, <1>4, <1>7, QuietWhole
<1>8. CASE StartDownload(u)
  <2>1. PICK x, y, z : Become(u, [Idle EXCEPT !.pc = "fetch", !.name = x, !.flag = y, !.key = z])
    BY <1>8 DEF StartDownload
  <2>2. Shows([Idle EXCEPT !.pc = "fetch", !.name = x, !.flag = y, !.key = z], "fetch", x, y, z, Idle.idx, Idle.todo)
    BY <1>4, MovedRecord
  <2> QED BY <1>3, <2>1, <2>2 DEF QuietPcs
<1>9. CASE Become(u, [job[u] EXCEPT !.pc = "fetch", !.idx = NextBlock(u)])
  <2>1. Shows([job[u] EXCEPT !.pc = "fetch", !.idx = NextBlock(u)], "fetch", job[u].name, job[u].flag, job[u].key,
              NextBlock(u), job[u].todo)
    BY <1>4, MovedIdx
  <2> QED BY <1>3, <1>9, <2>1 DEF QuietPcs
<1>10. CASE GotBlock(u)
  BY <1>7, <1>9, <1>10 DEF GotBlock
<1> QED BY <1>5, <1>6, <1>7, <1>8, <1>10 DEF ListTooShort, GiveUp, GiveUpLate, Fail

\* The answer to 200: 400 begins the posting of blocks, 300 a proof.
LEMMA ExistWhole ==
  ASSUME Inv, MixInv, WholeInv, NEW u \in Threads, GotExist(u)
  PROVE  WholeInv'
<1>1. /\ At(u, "asked") /\ Answered(u) /\ call' = [call EXCEPT ![u] = NoCall]
      /\ UNCHANGED <<sent, back, rows, filed, recs, up, mixed>> /\ cut \subseteq cut'
  <2>1. /\ At(u, "asked") /\ Answered(u) /\ call' = [call EXCEPT ![u] = NoCall]
        /\ UNCHANGED <<sent, back, rows, filed, recs, up, mixed>>
    BY DEF GotExist, Return, wire, server
  <2>2. UNCHANGED cut \/ cut' = cut \cup {job[u].name}
    BY DEF GotExist
  <2> QED BY <2>1, <2>2
<1>2. JobRec(job[u]) /\ JobOK(u) /\ Uploading(u) /\ Calling(u)
  BY <1>1, IdleRec DEF MixInv, At, Uploading, Downloading, DownloadPcs, Calling, WaitPcs
<1> DEFINE a == call[u].ans.ans
           f == Name(u)
<1>3. Clean(u) => Told(u, a)
  BY <1>1, <1>2 DEF WholeInv, AnswersTrue, Answered
<1>4. CASE a.code # 300
  <2> DEFINE j == [job[u] EXCEPT !.pc = "block"]
  <2>1. Become(u, j)
    BY <1>4 DEF GotExist
  <2>2. Shows(j, "block", f, job[u].flag, job[u].key, job[u].idx, job[u].todo)
    BY <1>2, Moved DEF Name
  <2> HIDE DEF j
  <2>3. job'[u] = j /\ \A th \in Threads : th # u => job'[th] = job[th]
    BY <2>1, JobsMoved
  <2>4. /\ Name(u)' = f /\ (Clean(u)' => Clean(u)) /\ job[u].idx = 0 /\ job'[u].idx = 0
        /\ job'[u].pc = "block"
    BY <1>1, <1>2, <2>2, <2>3 DEF Name, Clean, Shows, JobOK, At
  <2>5. Clean(u) => rows[f] = <<>> /\ Blocks205(sent, f) = {} /\ f \in filed \ Recorded
    BY <1>1, <1>3, <1>4 DEF Told
  <2>6. JobWhole(u)'
    <3>1. Recorded' = Recorded
      BY <1>1 DEF Recorded
    <3> QED BY <1>1, <2>4, <2>5, <3>1 DEF JobWhole
  <2>7. ASSUME NEW g \in Files \ mixed', NEW n \in Nat, Posted(g, n), Reach(g, n) PROVE Reach(g, n)'
    <3>1. CASE g # f
      <4>1. \A th \in Threads : Posting(th, g)' <=> Posting(th, g)
        BY <1>1, <2>3, <2>4, <3>1 DEF Posting, Name
      <4>2. \A th \in Threads : Name(th)' = g /\ At(th, "filing")' => Name(th) = g /\ At(th, "filing")
        BY <2>3, <2>4, <3>1 DEF Name, At
      <4>3. \A th \in Threads : Posting(th, g) => n = job'[th].idx
        BY <2>3, <2>4, <2>7 DEF Reach
      <4> QED BY <1>1, <2>7, <4>1, <4>2, <4>3 DEF Reach
    <3>2. CASE g = f
      <4>1. Clean(u)
        BY <1>1, <1>2, <3>2 DEF Clean
      <4>2. rows[f] = <<>> /\ Indices(sent, f) = {}
        BY <2>5, <4>1 DEF Indices
      <4>3. n = 0
        <5>1. 0 .. n - 1 = {}
          BY <2>7, <3>2, <4>2 DEF Posted
        <5> QED BY <5>1
      <4>4. \A th \in Threads : th # u => ~Uploading(th)
        BY <4>1, CleanAlone
      <4>5. \A th \in Threads : th # u => ~Posting(th, g)' /\ ~At(th, "filing")'
        BY <2>3, <4>4 DEF Uploading, Downloading, DownloadPcs, At, Posting
      <4>6. ~At(u, "filing")' /\ job'[u].idx = 0
        BY <2>4 DEF At
      <4> QED BY <3>2, <4>3, <4>5, <4>6 DEF Reach
    <3> QED BY <3>1, <3>2
  <2>8. j.pc \notin WaitPcs
    BY <2>2 DEF Shows, WaitPcs
  <2> QED BY <1>1, <2>1, <2>6, <2>7, <2>8, LocalWhole
<1>5. CASE a.code = 300
  <2>1. PICK k \in 0 .. Blocks[job[u].name] :
          Become(u, [job[u] EXCEPT !.pc = "prove", !.idx = k, !.todo = a.todo])
    <3>1. \E k \in 0 .. Blocks[job[u].name] :
            /\ Become(u, [job[u] EXCEPT !.pc = "prove", !.idx = k, !.todo = call[u].ans.ans.todo])
            /\ IF k = Blocks[job[u].name] THEN UNCHANGED <<faults, cut>>
               ELSE Fault("local") /\ cut' = cut \cup {job[u].name}
      BY <1>5 DEF GotExist
    <3> QED BY <3>1
  <2> DEFINE j == [job[u] EXCEPT !.pc = "prove", !.idx = k, !.todo = a.todo]
  <2>2. Shows(j, "prove", f, job[u].flag, job[u].key, k, a.todo)
    BY <1>2, MovedList DEF Name
  <2>3. Become(u, j)
    BY <2>1
  <2> HIDE DEF j
  <2>4. job'[u] = j /\ \A th \in Threads : th # u => job'[th] = job[th]
    BY <2>3, JobsMoved
  <2>5. Name(u)' = f /\ (Clean(u)' => Clean(u)) /\ job'[u].pc = "prove"
    BY <1>1, <1>2, <2>2, <2>4 DEF Name, Clean, Shows
  <2>6. JobWhole(u)'
    BY <1>1, <1>3, <1>5, <2>5 DEF JobWhole, Told
  <2>7. \A g, n : Reach(g, n) => Reach(g, n)'
    BY <1>1, <2>4, <2>5, ReachQuiet DEF At
  <2>8. j.pc \notin WaitPcs
    BY <2>2 DEF Shows, WaitPcs
  <2> QED BY <1>1, <2>3, <2>6, <2>7, <2>8, LocalWhole
<1> QED BY <1>4, <1>5

\* How the count of the posted blocks survives a step of thread u.
LEMMA ReachJob ==
  ASSUME NEW u \in Threads, \A th \in Threads : th # u => job'[th] = job[th], cut \subseteq cut',
         NEW f, NEW n, Reach(f, n),
         Posting(u, f)' => Posting(u, f) /\ job'[u].idx = job[u].idx,
         Posting(u, f) => Posting(u, f)' \/ f \in cut' \/ n = Blocks[f],
         Name(u)' = f /\ At(u, "filing")' => f \in cut' \/ n = Blocks[f]
  PROVE  Reach(f, n)'
<1>1. \A th \in Threads : th # u => Name(th)' = Name(th) /\ (At(th, "filing")' <=> At(th, "filing"))
                                    /\ (Posting(th, f)' <=> Posting(th, f))
  BY DEF Name, At, Posting
<1>2. \A th \in Threads : Posting(th, f)' => n = job'[th].idx
  BY <1>1 DEF Reach
<1>3. \A th \in Threads : Name(th)' = f /\ At(th, "filing")' => f \in cut' \/ n = Blocks[f]
  BY <1>1 DEF Reach
<1>4. n = 0 \/ f \in cut' \/ n = Blocks[f] \/ \E th \in Threads : Posting(th, f)'
  BY <1>1 DEF Reach
<1> QED BY <1>2, <1>3, <1>4 DEF Reach

LEMMA LoopWhole ==
  ASSUME Inv, MixInv, WholeInv, NEW u \in Threads, Encrypt(u) \/ LoopException(u)
  PROVE  WholeInv'
<1>1. /\ job[u].pc \in {"block", "post"} /\ UNCHANGED <<call, sent, back, rows, filed, recs, up, mixed>>
      /\ cut \subseteq cut' /\ (LoopException(u) => Name(u) \in cut')
  BY DEF Encrypt, LoopException, At, callVars, wire, server, ghost, Name
<1>2. JobRec(job[u]) /\ JobWhole(u) /\ Uploading(u)
  BY <1>1, IdleRec DEF WholeInv, Uploading, Downloading, DownloadPcs, At
<1>3. PICK j : Become(u, j) /\ j.name = Name(u) /\ j.idx = job[u].idx
               /\ \/ j.pc = "post" /\ Encrypt(u)
                  \/ j.pc = "meta" /\ LoopException(u)
  <2>1. CASE Encrypt(u)
    <3> DEFINE k == [job[u] EXCEPT !.pc = "post", !.key = sk]
    <3>1. Shows(k, "post", job[u].name, job[u].flag, sk, job[u].idx, job[u].todo)
      BY <1>2, MovedKey
    <3>2. Become(u, k)
      BY <2>1 DEF Encrypt
    <3> HIDE DEF k
    <3> QED BY <2>1, <3>1, <3>2 DEF Shows, Name
  <2>2. CASE LoopException(u)
    <3> DEFINE k == [job[u] EXCEPT !.pc = "meta"]
    <3>1. Shows(k, "meta", job[u].name, job[u].flag, job[u].key, job[u].idx, job[u].todo)
      BY <1>2, Moved
    <3>2. Become(u, k)
      BY <2>2 DEF LoopException, Goto
    <3> HIDE DEF k
    <3> QED BY <2>2, <3>1, <3>2 DEF Shows, Name
  <2> QED BY <2>1, <2>2
<1>4. job'[u] = j /\ \A th \in Threads : th # u => job'[th] = job[th]
  BY <1>3, JobsMoved
<1>5. Name(u)' = Name(u) /\ (Clean(u)' => Clean(u)) /\ Recorded' = Recorded
  BY <1>1, <1>2, <1>3, <1>4 DEF Name, Clean, Recorded
<1>6. JobWhole(u)'
  BY <1>1, <1>2, <1>3, <1>4, <1>5 DEF JobWhole
<1>7. ASSUME NEW f, NEW n, Reach(f, n) PROVE Reach(f, n)'
  <2>1. Posting(u, f)' => Posting(u, f) /\ job'[u].idx = job[u].idx
    BY <1>1, <1>3, <1>4, <1>5 DEF Posting
  <2>2. Posting(u, f) => Posting(u, f)' \/ f \in cut'
    BY <1>1, <1>3, <1>4, <1>5 DEF Posting
  <2>3. ~At(u, "filing")'
    BY <1>3, <1>4 DEF At
  <2> QED BY <1>1, <1>4, <1>7, <2>1, <2>2, <2>3, ReachJob
<1>8. j.pc \notin WaitPcs
  BY <1>3 DEF WaitPcs
<1> QED BY <1>1, <1>3, <1>6, <1>7, <1>8, LocalWhole

\* A request that is waited for: nothing has come back for it.
LEMMA PlaceWhole ==
  ASSUME Inv, MixInv, WholeInv, MatchInv', NEW u \in Threads, NEW code, NEW arg, NEW s,
         Place(u, code, arg, s), NEW pc \in WaitPcs, Goto(u, pc), ~At(u, "idle"),
         pc # "fetching" => Uploading(u),
         mixed \subseteq mixed', UNCHANGED <<cut, server, recs>>,
         \/ At(u, "exist") /\ pc = "asked"
         \/ At(u, "prove") /\ pc = "proving"
         \/ At(u, "fetch") /\ pc = "fetching"
         \/ At(u, "meta") /\ pc = "filing"
         \/ At(u, "block") /\ ~MoreBlocks(u) /\ pc = "filing"
         \/ At(u, "proving") /\ Name(u) \in mixed /\ pc = "filing"
  PROVE  WholeInv'
<1> DEFINE j == [job[u] EXCEPT !.pc = pc]
           c == [pc |-> "put", stamp |-> s, code |-> code, arg |-> arg, ans |-> Null]
<1>1. Shows(j, pc, job[u].name, job[u].flag, job[u].key, job[u].idx, job[u].todo) /\ Become(u, j)
  BY IdleRec, Moved DEF Goto
<1>2. c.pc = "put" /\ call' = [call EXCEPT ![u] = c] /\ UNCHANGED <<sent, back, up, rows, filed>>
  BY DEF Place, wire, server
<1> HIDE DEF j, c
<1>3. job'[u] = j /\ \A th \in Threads : th # u => job'[th] = job[th]
  BY <1>1, JobsMoved
<1>4. call'[u] = c /\ \A th \in Threads : th # u => call'[th] = call[th]
  BY <1>2 DEF Inv, CallInv
<1>5. /\ Name(u)' = Name(u) /\ job'[u].pc = pc /\ Recorded' = Recorded /\ JobWhole(u) /\ JobOK(u)
      /\ Calling(u)'
  BY <1>1, <1>3 DEF Name, Shows, Recorded, WholeInv, MixInv, Calling
<1>6. Clean(u)' => Clean(u)
  <2>1. Uploading(u)' => Uploading(u)
    <3>1. pc = "fetching" => ~Uploading(u)'
      BY <1>5 DEF Uploading, Downloading, DownloadPcs, At
    <3> QED BY <3>1
  <2> QED BY <1>5, <2>1 DEF Clean
<1>7. JobWhole(u)'
  BY <1>2, <1>5, <1>6 DEF JobWhole, At, Clean
<1>8. (AnswersTrue(u) /\ Behind(u))'
  <2>1. Clean(u)' => OwnCall(u)'
    BY <1>5 DEF MatchInv, Clean
  <2>2. Clean(u)' => ~Has(back', call'[u].stamp) /\ call'[u].ans = Null
    BY <1>2, <1>4, <2>1 DEF OwnCall
  <2>3. AnswersTrue(u)'
    BY <2>2 DEF AnswersTrue, Has
  <2>4. Behind(u)'
    BY <1>2, <1>4 DEF Behind
  <2> QED BY <2>3, <2>4
<1>9. ASSUME NEW f \in Files \ mixed', NEW n \in Nat, Posted(f, n), Reach(f, n) PROVE Reach(f, n)'
  <2>1. ~Posting(u, f)'
    BY <1>5 DEF Posting, WaitPcs
  <2>2. Posting(u, f) \/ (Name(u) = f /\ pc = "filing") => f \in cut' \/ n = Blocks[f]
    <3>1. CASE At(u, "meta") /\ Name(u) = f
      BY <1>5, <3>1 DEF JobOK, Name, At, Uploading, Downloading, DownloadPcs
    <3>2. CASE At(u, "block") /\ ~MoreBlocks(u) /\ Name(u) = f
      <4>1. n = job[u].idx
        BY <1>9, <3>2 DEF Reach, Posting, At
      <4>2. job[u].idx \in 0 .. Blocks[f] /\ ~(job[u].idx < Blocks[f])
        BY <1>5, <3>2 DEF JobOK, Name, At, Uploading, Downloading, DownloadPcs, MoreBlocks
      <4>3. Blocks[f] \in Nat
        BY BlockNumbers
      <4> QED BY <4>1, <4>2, <4>3
    <3> QED BY <1>9, <3>1, <3>2 DEF Posting, At
  <2>3. Name(u)' = f /\ At(u, "filing")' => f \in cut' \/ n = Blocks[f]
    BY <1>5, <2>2 DEF At
  <2> QED BY <1>3, <1>9, <2>1, <2>2, <2>3, ReachJob
<1> QED BY <1>2, <1>3, <1>4, <1>7, <1>8, <1>9, WholeFrame

LEMMA AskWhole ==
  ASSUME Inv, MixInv, WholeInv, MatchInv', NEW u \in Threads,
         IsExist(u) \/ SendMeta(u) \/ Verify(u) \/ Fetch(u)
  PROVE  WholeInv'
<1>1. ASSUME NEW code, NEW arg, NEW pc, Ask(u, code, arg, pc)
      PROVE  /\ \E s : Place(u, code, arg, s)
             /\ Goto(u, pc) /\ mixed \subseteq mixed' /\ UNCHANGED <<cut, server, recs>>
  <2>1. mixed \subseteq mixed'
    BY <1>1 DEF Ask
  <2>2. \E s : Place(u, code, arg, s)
    BY <1>1 DEF Ask
  <2> QED BY <1>1, <2>1, <2>2 DEF Ask
<1>2. CASE IsExist(u)
  <2>1. At(u, "exist") /\ Ask(u, 200, [flag |-> t], "asked")
    BY <1>2 DEF IsExist
  <2>2. PICK s : Place(u, 200, [flag |-> t], s)
    BY <1>1, <2>1
  <2>3. ~At(u, "idle") /\ Uploading(u) /\ "asked" \in WaitPcs
    BY <2>1 DEF At, Uploading, Downloading, DownloadPcs, WaitPcs
  <2> QED BY <1>1, <2>1, <2>2, <2>3, PlaceWhole
<1>3. CASE SendMeta(u)
  <2>1. (At(u, "meta") \/ (At(u, "block") /\ ~MoreBlocks(u))) /\ Ask(u, 207, [flag |-> t], "filing")
    BY <1>3 DEF SendMeta
  <2>2. PICK s : Place(u, 207, [flag |-> t], s)
    BY <1>1, <2>1
  <2>3. ~At(u, "idle") /\ Uploading(u) /\ "filing" \in WaitPcs
    BY <2>1 DEF At, Uploading, Downloading, DownloadPcs, WaitPcs
  <2> QED BY <1>1, <2>1, <2>2, <2>3, PlaceWhole
<1>4. CASE Verify(u)
  <2> DEFINE arg == [flag |-> t, of |-> job[u].name, todo |-> job[u].todo]
  <2>1. At(u, "prove") /\ Ask(u, 220, arg, "proving")
    BY <1>4 DEF Verify
  <2> HIDE DEF arg
  <2>2. PICK s : Place(u, 220, arg, s)
    BY <1>1, <2>1
  <2>3. ~At(u, "idle") /\ Uploading(u) /\ "proving" \in WaitPcs
    BY <2>1 DEF At, Uploading, Downloading, DownloadPcs, WaitPcs
  <2> QED BY <1>1, <2>1, <2>2, <2>3, PlaceWhole
<1>5. CASE Fetch(u)
  <2> DEFINE arg == [flag |-> job[u].flag, idx |-> job[u].idx]
  <2>1. At(u, "fetch") /\ Ask(u, 900, arg, "fetching")
    BY <1>5 DEF Fetch
  <2> HIDE DEF arg
  <2>2. PICK s : Place(u, 900, arg, s)
    BY <1>1, <2>1
  <2>3. ~At(u, "idle") /\ "fetching" \in WaitPcs
    BY <2>1 DEF At, WaitPcs
  <2> QED BY <1>1, <2>1, <2>2, <2>3, PlaceWhole
<1> QED BY <1>2, <1>3, <1>4, <1>5

\* The record that ends an upload.
LEMMA RecordWhole ==
  ASSUME Inv, MixInv, WholeInv, NEW u \in Threads, Uploading(u), Become(u, Idle), Record(u),
         job[u].pc \notin {"block", "post", "setKey", "setFlag"},
         UNCHANGED <<sent, back, rows, filed, up, mixed, cut>>, call' = [call EXCEPT ![u] = NoCall],
         Clean(u) => Blocks205(sent, Name(u)) = {} /\ Over(Name(u)) /\ Name(u) \in filed
  PROVE  WholeInv'
<1> DEFINE g == Name(u)
<1>1. job'[u] = Idle /\ \A th \in Threads : th # u => job'[th] = job[th]
  BY JobsMoved
<1>2. \A th \in Threads : th # u => call'[th] = call[th]
  BY DEF Inv, CallInv
<1>3. ~Uploading(u)' /\ ~Calling(u)'
  BY <1>1 DEF Uploading, At, Idle, Calling, WaitPcs
<1>4. Recorded' = Recorded \cup {g} /\ recs' = recs \cup {[name |-> g, flag |-> t, key |-> sk]}
  <2> DEFINE r == [name |-> g, flag |-> t, key |-> sk]
  <2>1. recs' = recs \cup {r} /\ r.name = g
    BY DEF Record, Name
  <2> HIDE DEF r, g
  <2>2. Recorded' = Recorded \cup {g}
    BY <2>1 DEF Recorded
  <2> QED BY <2>1, <2>2 DEF r
<1>5. ASSUME NEW th \in Threads PROVE (JobWhole(th) /\ AnswersTrue(th) /\ Behind(th))'
  <2>1. CASE th = u
    BY <1>3, <2>1 DEF JobWhole, AnswersTrue, Behind, Clean
  <2>2. CASE th # u
    <3>1. Clean(th)' => Clean(th) /\ Uploading(u) /\ th # u
      BY <1>1, <2>2 DEF Clean, Uploading, Downloading, At, Name
    <3>2. ~Clean(th)'
      BY <3>1, CleanAlone
    <3> QED BY <3>2 DEF JobWhole, AnswersTrue, Behind
  <2> QED BY <2>1, <2>2
<1>6. ASSUME NEW f \in Files \ mixed' PROVE FileOK(f)'
  <2>1. FileOK(f)
    BY <1>6 DEF WholeInv
  <2>2. (f \in Recorded => f \in filed /\ Blocks205(sent, f) = {} /\ Over(f))'
    <3>1. f = g => Clean(u)
      BY <1>6 DEF Clean
    <3> QED BY <1>4, <2>1, <3>1 DEF FileOK, Over, Blocks205
  <2>3. (\A r \in recs : r.name = f => r.flag = f /\ r.key = f)'
    <3>1. f = g => t = f /\ sk = f
      BY <1>6, CleanAlone DEF Clean
    <3> QED BY <1>4, <2>1, <3>1 DEF FileOK
  <2>4. \A n : Reach(f, n) => Reach(f, n)'
    <3>1. job[u].pc \notin {"block", "post"} /\ job'[u].pc \notin {"block", "post", "filing"}
      BY <1>1 DEF Idle
    <3> QED BY <1>1, <3>1, ReachQuiet
  <2>5. (up => \E n \in Nat : Posted(f, n) /\ Reach(f, n))'
    <3>1. \A n : Posted(f, n)' <=> Posted(f, n)
      BY DEF Posted, Indices, Rising, Blocks205
    <3> QED BY <2>1, <2>4, <3>1 DEF FileOK
  <2>6. (rows[f] \in Seq({Row(f, i, f) : i \in Nat}) /\ InOrder(f))' /\ (rows[f] # <<>> => f \in filed)'
    BY <2>1 DEF FileOK, InOrder
  <2>7. (\A m \in On(sent) : IsBlock(m, f) =>
           f \in filed /\ Index(m) \in Nat /\ m.arg.row = Row(f, Index(m), f))'
    BY <2>1 DEF FileOK, On
  <2> QED BY <2>2, <2>3, <2>5, <2>6, <2>7 DEF FileOK
<1>7. (rows = [f \in Files |-> rows[f]] /\ Recorded \subseteq Files)'
  <2>1. JobOK(u)
    BY DEF MixInv
  <2>2. g \in Files
    BY <2>1 DEF JobOK, Name
  <2> QED BY <1>4, <2>2 DEF WholeInv
<1> QED BY <1>5, <1>6, <1>7 DEF WholeInv

LEMMA GotWhole ==
  ASSUME Inv, MixInv, MatchInv, WholeInv, MatchInv', NEW u \in Threads, GotProof(u) \/ GotMeta(u)
  PROVE  WholeInv'
<1> DEFINE a == call[u].ans.ans
<1>1. /\ (GotProof(u) /\ At(u, "proving")) \/ (GotMeta(u) /\ At(u, "filing"))
      /\ Answered(u) /\ UNCHANGED <<server, mixed, cut, sent, back, rows, filed, up>>
  <2>1. UNCHANGED <<server, mixed, cut>> /\ Answered(u) /\ UNCHANGED <<sent, back, up>>
    BY DEF GotProof, GotMeta, ghost, Return, Place, wire
  <2> QED BY <2>1 DEF GotProof, GotMeta, server
<1>2. Uploading(u) /\ Calling(u) /\ JobWhole(u) /\ AnswersTrue(u)
  BY <1>1 DEF At, Uploading, Downloading, DownloadPcs, Calling, WaitPcs, WholeInv
<1>3. Clean(u) => Told(u, a)
  BY <1>1, <1>2 DEF AnswersTrue, Answered
<1>4. Clean(u) => Blocks205(sent, Name(u)) = {} /\ Over(Name(u))
  BY <1>1, <1>3 DEF Told
<1>5. Clean(u) => Name(u) \in filed
  <2>1. CASE At(u, "filing")
    BY <1>2, <2>1 DEF JobWhole, At
  <2>2. CASE At(u, "proving")
    <3>1. Clean(u) => rows[Name(u)] # <<>> /\ FileOK(Name(u))
      BY <1>2, <2>2, CleanAlone DEF JobWhole, At, WholeInv
    <3> QED BY <3>1 DEF FileOK
  <2> QED BY <1>1, <2>1, <2>2
<1>6. CASE Return(u) /\ Become(u, Idle) /\ Record(u)
  <2>1. job[u].pc \notin {"block", "post", "setKey", "setFlag"}
    BY <1>1 DEF At
  <2>2. call' = [call EXCEPT ![u] = NoCall]
    BY <1>6 DEF Return
  <2> QED BY <1>1, <1>2, <1>4, <1>5, <1>6, <2>1, <2>2, RecordWhole
<1>7. CASE Return(u) /\ Become(u, Idle) /\ UNCHANGED recs
  <2>1. job[u].pc \notin {"block", "post"} /\ Idle.pc \in QuietPcs
    BY <1>1 DEF At, Idle, QuietPcs
  <2>2. call' = [call EXCEPT ![u] = NoCall]
    BY <1>7 DEF Return
  <2> QED BY <1>1, <1>7, <2>1, <2>2, QuietWhole
<1>8. CASE /\ GotProof(u) /\ a.code \notin {506, 516, 606}
           /\ Place(u, 207, [flag |-> t], call[u].stamp) /\ Goto(u, "filing") /\ UNCHANGED recs
  <2>1. Name(u) \in mixed
    BY <1>1, <1>2, <1>8 DEF MatchInv, OwnCall, ProofCode, Answered, GotProof
  <2>2. At(u, "proving") /\ ~At(u, "idle") /\ "filing" \in WaitPcs
    BY <1>8 DEF GotProof, At, WaitPcs
  <2> QED BY <1>1, <1>2, <1>8, <2>1, <2>2, PlaceWhole
<1> QED BY <1>6, <1>7, <1>8 DEF GotProof, GotMeta

\* A step of the channel or the server: the jobs and the records stay.
LEMMA ChannelFrame ==
  ASSUME WholeInv, MixInv, UNCHANGED <<job, mixed, recs>>, rows' = [f \in Files |-> rows'[f]],
         filed \subseteq filed', \A f \in Files \ mixed : rows[f] # <<>> => rows'[f] # <<>>,
         \A th \in Threads : Clean(th) => AnswersTrue(th)' /\ Behind(th)',
         \A f \in Files \ mixed : FileOK(f)'
  PROVE  WholeInv'
<1>1. \A th \in Threads : (Clean(th)' <=> Clean(th)) /\ Name(th)' = Name(th)
  BY DEF Clean, Name, Uploading, Downloading, At
<1>2. Recorded' = Recorded /\ Recorded \subseteq Files
  BY DEF Recorded, WholeInv
<1>3. ASSUME NEW th \in Threads PROVE (JobWhole(th) /\ AnswersTrue(th) /\ Behind(th))'
  <2>1. CASE ~Clean(th)
    BY <1>1, <2>1 DEF JobWhole, AnswersTrue, Behind
  <2>2. CASE Clean(th)
    <3>1. Name(th) \in Files \ mixed /\ JobWhole(th)
      BY <2>2, CleanAlone DEF WholeInv
    <3> QED BY <1>1, <1>2, <2>2, <3>1 DEF JobWhole
  <2> QED BY <2>1, <2>2
<1> QED BY <1>2, <1>3 DEF WholeInv

LEMMA WriteWhole ==
  ASSUME Inv, MixInv, WholeInv, NEW u \in Threads, Write(u)
  PROVE  WholeInv'
<1> DEFINE m == [by |-> u, stamp |-> call[u].stamp, code |-> call[u].code, arg |-> call[u].arg]
<1>1. /\ call[u].pc = "put" /\ call' = [call EXCEPT ![u].pc = "sent"]
      /\ sent' = (IF up THEN Append(sent, m) ELSE sent)
      /\ UNCHANGED <<job, mixed, cut, back, recs, rows, filed, up>>
  BY DEF Write, WriteOut, Written, ghost, server
<1>2. m.stamp = call[u].stamp /\ m.code \in Codes
  BY <1>1, Basics DEF Inv, CallInv, CallOK
<1> HIDE DEF m
<1>3. /\ call'[u].stamp = call[u].stamp /\ call'[u].ans = call[u].ans
      /\ \A th \in Threads : th # u => call'[th] = call[th]
  BY <1>1 DEF Inv, CallInv, CallOK
<1>4. sent \in Seq(On(sent)) /\ \A f : ~IsBlock(m, f)
  BY <1>2 DEF Inv, CallInv, IsBlock, Codes
<1>5. \A f : /\ Blocks205(sent', f) = Blocks205(sent, f) /\ Indices(sent', f) = Indices(sent, f)
             /\ Rising(sent, f) => Rising(sent', f)
  <2>1. CASE sent' = sent
    BY <2>1
  <2>2. CASE sent' = Append(sent, m)
    BY <1>4, <2>2, BlocksAppended
  <2> QED BY <1>1, <2>1, <2>2
<1>6. On(sent') \subseteq On(sent) \cup {m}
  BY <1>1, <1>4, Appended
<1>7. \A th \in Threads : /\ (Clean(th)' <=> Clean(th)) /\ Name(th)' = Name(th)
                          /\ (Calling(th)' <=> Calling(th))
  BY <1>1 DEF Clean, Name, Uploading, Downloading, At, Calling
<1>8. Recorded' = Recorded
  BY <1>1 DEF Recorded
<1>9. ASSUME NEW th \in Threads, Clean(th) PROVE AnswersTrue(th)' /\ Behind(th)'
  <2>1. \A a : Told(th, a) => Told(th, a)'
    BY <1>1, <1>5, <1>7, <1>8 DEF Told, Over, At
  <2>2. AnswersTrue(th)'
    <3>1. AnswersTrue(th) /\ call'[th].stamp = call[th].stamp /\ call'[th].ans = call[th].ans
      BY <1>3 DEF WholeInv
    <3>2. On(back') = On(back)
      BY <1>1 DEF On
    <3> QED BY <1>7, <2>1, <3>1, <3>2 DEF AnswersTrue
  <2>3. Behind(th)'
    <3>1. CASE ~up
      BY <1>1, <3>1 DEF Behind
    <3>2. CASE up
      <4>1. sent' = Append(sent, m)
        BY <1>1, <3>2
      <4>2. th # u /\ Calling(th) /\ call[th].pc = "sent" => Followed(sent, Name(th), call[th].stamp)
        BY <1>9, <3>2 DEF WholeInv, Behind
      <4>3. \A s : Followed(sent, Name(th), s) \/ m.stamp = s => Followed(sent', Name(th), s)
        BY <1>4, <4>1, BlocksAppended
      <4> QED BY <1>2, <1>3, <1>7, <4>2, <4>3 DEF Behind
    <3> QED BY <3>1, <3>2
  <2> QED BY <2>2, <2>3
<1>10. ASSUME NEW f \in Files \ mixed PROVE FileOK(f)'
  <2>1. FileOK(f)
    BY <1>10 DEF WholeInv
  <2>2. \A n : Posted(f, n) /\ Reach(f, n) => Posted(f, n)' /\ Reach(f, n)'
    <3>1. \A n : Posted(f, n) => Posted(f, n)'
      BY <1>1, <1>5 DEF Posted
    <3>2. \A n : Reach(f, n) => Reach(f, n)'
      BY <1>1 DEF Reach, Posting, Name, At
    <3> QED BY <3>1, <3>2
  <2>3. (f \in Recorded => f \in filed /\ Blocks205(sent, f) = {} /\ Over(f))'
    BY <1>1, <1>5, <1>8, <2>1 DEF FileOK, Over
  <2>4. (\A x \in On(sent) : IsBlock(x, f) =>
           f \in filed /\ Index(x) \in Nat /\ x.arg.row = Row(f, Index(x), f))'
    BY <1>1, <1>4, <1>6, <2>1 DEF FileOK
  <2>5. (up => \E n \in Nat : Posted(f, n) /\ Reach(f, n))'
    BY <1>1, <2>1, <2>2 DEF FileOK
  <2>6. /\ (rows[f] \in Seq({Row(f, i, f) : i \in Nat}) /\ InOrder(f))' /\ (rows[f] # <<>> => f \in filed)'
        /\ (\A r \in recs : r.name = f => r.flag = f /\ r.key = f)'
    BY <1>1, <2>1 DEF FileOK, InOrder
  <2> QED BY <2>3, <2>4, <2>5, <2>6 DEF FileOK
<1>11. rows' = [f \in Files |-> rows'[f]]
  BY <1>1 DEF WholeInv
<1> QED BY <1>1, <1>9, <1>10, <1>11, ChannelFrame

\* One more block is on its way, if the channel is open.
LEMMA PostWhole ==
  ASSUME Inv, MixInv, WholeInv, NEW u \in Threads, PostBlock(u)
  PROVE  WholeInv'
<1> DEFINE j == [job[u] EXCEPT !.pc = "block", !.idx = job[u].idx + 1]
           row == Row(job[u].name, job[u].idx, job[u].key)
           m == [by |-> u, stamp |-> NoStamp, code |-> 205, arg |-> [flag |-> t, row |-> row]]
           g == Name(u)
<1>1. /\ At(u, "post") /\ Become(u, j) /\ sent' = (IF up THEN Append(sent, m) ELSE sent)
      /\ UNCHANGED <<call, back, recs, rows, filed, up, mixed, cut>>
  BY DEF PostBlock, Post, Written, ghost, server
<1>2. JobRec(job[u]) /\ Uploading(u) /\ JobOK(u) /\ JobWhole(u)
  BY <1>1, IdleRec DEF Uploading, Downloading, DownloadPcs, At, MixInv, WholeInv
<1>3. Shows(j, "block", g, job[u].flag, job[u].key, job[u].idx + 1, job[u].todo)
  BY <1>2, MovedIdx DEF Name
<1>4. m.code = 205 /\ m.arg.flag = t /\ m.arg.row = row /\ row = Row(g, job[u].idx, job[u].key)
      /\ Index(m) = job[u].idx /\ job[u].idx \in Nat
  <2>1. job[u].idx \in 0 .. Blocks[g] /\ Blocks[g] \in Nat
    BY <1>2, BlockNumbers DEF JobOK, Name
  <2> QED BY <2>1 DEF Index, Row, Name
<1> HIDE DEF m, row, j
<1>5. job'[u] = j /\ \A th \in Threads : th # u => job'[th] = job[th]
  BY <1>1, JobsMoved
<1>6. /\ Name(u)' = g /\ Clean(u)' = Clean(u) /\ Recorded' = Recorded /\ job'[u].pc = "block"
      /\ job'[u].idx = job[u].idx + 1 /\ ~Calling(u)'
  BY <1>1, <1>2, <1>3, <1>5 DEF Name, Clean, Uploading, Downloading, DownloadPcs, At, Recorded, Shows,
     Calling, WaitPcs
<1>7. ASSUME NEW th \in Threads, th # u PROVE ~Clean(th)'
  <2>1. Clean(th)' => Clean(th)
    BY <1>1, <1>5, <1>7 DEF Clean, Uploading, Downloading, At, Name
  <2> QED BY <1>2, <1>7, <2>1, CleanAlone
<1>8. ASSUME NEW th \in Threads PROVE (JobWhole(th) /\ AnswersTrue(th) /\ Behind(th))'
  <2>1. CASE th # u
    BY <1>7, <2>1 DEF JobWhole, AnswersTrue, Behind
  <2>2. CASE th = u
    BY <1>1, <1>2, <1>6, <2>2 DEF JobWhole, AnswersTrue, Behind, At
  <2> QED BY <2>1, <2>2
<1>9. ASSUME NEW f \in Files \ mixed PROVE FileOK(f)'
  <2>1. FileOK(f) /\ sent \in Seq(On(sent))
    BY <1>9 DEF WholeInv, Inv, CallInv
  <2>2. IsBlock(m, f) <=> t = f
    BY <1>4 DEF IsBlock
  <2>3. t = f <=> g = f
    <3>1. Of(t, g)
      BY <1>1, <1>2 DEF JobOK, At, Name
    <3> QED BY <1>9, <3>1 DEF Of
  <2>4. g = f => /\ Clean(u) /\ f \in filed /\ f \notin Recorded /\ m.arg.row = Row(f, Index(m), f)
    BY <1>1, <1>2, <1>4, <1>9, CleanAlone DEF Clean, JobWhole, At
  <2>5. On(sent') \subseteq On(sent) \cup {m}
    BY <1>1, <2>1, Appended
  <2>6. (\A x \in On(sent) : IsBlock(x, f) =>
           f \in filed /\ Index(x) \in Nat /\ x.arg.row = Row(f, Index(x), f))'
    BY <1>1, <1>4, <2>1, <2>2, <2>3, <2>4, <2>5 DEF FileOK
  <2>7. (f \in Recorded => f \in filed /\ Blocks205(sent, f) = {} /\ Over(f))'
    <3>1. g # f => Blocks205(sent', f) = Blocks205(sent, f)
      BY <1>1, <2>1, <2>2, <2>3, BlocksAppended
    <3> QED BY <1>1, <1>6, <2>1, <2>4, <3>1 DEF FileOK, Over
  <2>8. (up => \E n \in Nat : Posted(f, n) /\ Reach(f, n))'
    <3> SUFFICES ASSUME up PROVE (\E n \in Nat : Posted(f, n) /\ Reach(f, n))'
      BY <1>1
    <3>1. PICK n \in Nat : Posted(f, n) /\ Reach(f, n)
      BY <2>1 DEF FileOK
    <3>2. sent' = Append(sent, m)
      BY <1>1
    <3>3. CASE g # f
      <4>1. Indices(sent', f) = Indices(sent, f) /\ (Rising(sent, f) => Rising(sent', f))
        BY <2>1, <2>2, <2>3, <3>2, <3>3, BlocksAppended
      <4>2. Posted(f, n)'
        BY <1>1, <3>1, <4>1 DEF Posted
      <4>3. Reach(f, n)'
        BY <1>1, <1>5, <1>6, <3>1, <3>3, ReachJob DEF Posting
      <4> QED BY <4>2, <4>3
    <3>4. CASE g = f
      <4>1. n = job[u].idx
        BY <1>1, <3>1, <3>4 DEF Reach, Posting, At
      <4>2. /\ Len(rows[f]) \in Nat /\ Len(rows[f]) <= n /\ Indices(sent, f) = Len(rows[f]) .. n - 1
            /\ Rising(sent, f)
        BY <2>1, <3>1 DEF Posted, FileOK
      <4>3. \A i \in Indices(sent, f) : i < Index(m)
        BY <1>4, <4>1, <4>2
      <4>4. Indices(sent', f) = Indices(sent, f) \cup {Index(m)} /\ Rising(sent', f)
        BY <2>1, <2>2, <2>3, <3>2, <3>4, <4>2, <4>3, BlocksAppended
      <4>5. Posted(f, n + 1)'
        <5>1. Indices(sent', f) = Len(rows[f]) .. (n + 1) - 1
          BY <1>4, <4>1, <4>2, <4>4
        <5> QED BY <1>1, <4>2, <4>4, <5>1 DEF Posted
      <4>6. \A th \in Threads : th # u => ~Posting(th, f)' /\ ~At(th, "filing")'
        <5>1. \A th \in Threads : th # u => ~Uploading(th)
          BY <2>4, <3>4, CleanAlone
        <5> QED BY <1>5, <5>1 DEF Posting, At, Uploading, Downloading, DownloadPcs
      <4>7. Reach(f, n + 1)'
        BY <1>6, <3>4, <4>1, <4>6 DEF Reach, Posting, At
      <4> QED BY <3>1, <4>5, <4>7
    <3> QED BY <3>3, <3>4
  <2>9. /\ (rows[f] \in Seq({Row(f, i, f) : i \in Nat}) /\ InOrder(f))' /\ (rows[f] # <<>> => f \in filed)'
        /\ (\A r \in recs : r.name = f => r.flag = f /\ r.key = f)'
    BY <1>1, <2>1 DEF FileOK, InOrder
  <2> QED BY <2>6, <2>7, <2>8, <2>9 DEF FileOK
<1>10. rows' = [f \in Files |-> rows'[f]] /\ mixed' = mixed /\ Recorded' \subseteq Files
  BY <1>1, <1>6 DEF WholeInv
<1> QED BY <1>8, <1>9, <1>10 DEF WholeInv

\* What the answers may say, when the head of `sent' is taken for something else than a
\* block of the file.
LEMMA StillTold ==
  ASSUME Inv, WholeInv, MixInv, UNCHANGED <<job, mixed, cut, recs>>, sent # <<>>, sent' = Tail(sent),
         filed \subseteq filed', NEW th \in Threads, Clean(th), rows'[Name(th)] = rows[Name(th)]
  PROVE  \A a : Told(th, a) => Told(th, a)'
<1>1. Name(th)' = Name(th) /\ Recorded' = Recorded
  BY DEF Name, Recorded
<1>2. Blocks205(sent, Name(th)) = {} => Blocks205(sent', Name(th)) = {}
  <2>1. sent \in Seq(On(sent)) /\ \A m \in On(sent) : IsBlock(m, Name(th)) => Index(m) \in Nat
    BY CleanAlone DEF WholeInv, FileOK, Inv, CallInv
  <2> QED BY <2>1, BlocksRemoved
<1> QED BY <1>1, <1>2 DEF Told, At, Over

\* The head of `sent' is taken, and answered as the rows are.
LEMMA ServedThread ==
  ASSUME Inv, MixInv, MatchInv, WholeInv, UNCHANGED <<job, mixed, cut, recs, call, up>>, up,
         sent # <<>>, sent' = Tail(sent), filed \subseteq filed',
         NEW m, m = Head(sent), NEW th \in Threads, Clean(th),
         IsBlock(m, Name(th)) \/ rows'[Name(th)] = rows[Name(th)],
         \/ back' = back
         \/ \E b : /\ back' = Append(back, b) /\ b.stamp = m.stamp
                   /\ m.stamp = call[th].stamp /\ Calling(th) => Told(th, b.ans)'
  PROVE  AnswersTrue(th)' /\ Behind(th)'
<1> DEFINE f == Name(th)
           s == call[th].stamp
<1>1. /\ sent \in Seq(On(sent)) /\ back \in Seq(On(back)) /\ f \in Files \ mixed
      /\ Name(th)' = f /\ (Calling(th)' <=> Calling(th))
      /\ \A x \in On(sent) : IsBlock(x, f) => Index(x) \in Nat
  BY CleanAlone DEF Inv, CallInv, Name, Calling, WholeInv, FileOK
<1>2. \A a : Told(th, a) => Told(th, a)'
  <2>1. CASE IsBlock(m, f)
    <3>1. Blocks205(sent, f) # {}
      BY <1>1, <2>1, BlocksRemoved
    <3> QED BY <3>1 DEF Told
  <2>2. CASE rows'[f] = rows[f]
    BY <2>2, StillTold
  <2> QED BY <2>1, <2>2
<1>3. AnswersTrue(th) /\ Behind(th)
  BY DEF WholeInv
<1>4. AnswersTrue(th)'
  <2>1. CASE back' = back
    BY <1>1, <1>2, <1>3, <2>1 DEF AnswersTrue
  <2>2. ASSUME NEW b, back' = Append(back, b), b.stamp = m.stamp,
               m.stamp = s /\ Calling(th) => Told(th, b.ans)'
        PROVE  AnswersTrue(th)'
    <3>1. On(back') = On(back) \cup {b}
      BY <1>1, <2>2, Appended
    <3> QED BY <1>1, <1>2, <1>3, <2>2, <3>1 DEF AnswersTrue
  <2> QED BY <2>1, <2>2
<1>5. Behind(th)'
  <2> SUFFICES ASSUME Calling(th), call[th].pc = "sent" PROVE Followed(sent', f, s)
    BY <1>1 DEF Behind
  <2>1. Followed(sent, f, s) /\ AtMostOne(sent, s)
    BY <1>1, <1>3 DEF Behind, MatchInv, OwnCall
  <2>2. CASE m.stamp # s
    BY <1>1, <2>1, <2>2, BlocksRemoved
  <2>3. CASE m.stamp = s
    <3>1. Blocks205(sent, f) = {}
      BY <1>1, <2>1, <2>3, BlocksRemoved
    <3>2. Blocks205(sent', f) = {}
      BY <1>1, <3>1, BlocksRemoved
    <3> QED BY <3>2 DEF Followed
  <2> QED BY <2>2, <2>3
<1> QED BY <1>4, <1>5

\* A file of which no block is taken.
LEMMA ServedFile ==
  ASSUME Inv, MixInv, WholeInv, UNCHANGED <<job, mixed, cut, recs, up>>, up,
         sent # <<>>, sent' = Tail(sent), filed \subseteq filed',
         NEW f \in Files \ mixed, ~IsBlock(Head(sent), f), rows'[f] = rows[f]
  PROVE  FileOK(f)'
<1>1. FileOK(f) /\ Recorded' = Recorded /\ sent \in Seq(On(sent)) /\ On(sent') \subseteq On(sent)
  BY Removed DEF WholeInv, Recorded, Inv, CallInv
<1>2. /\ Indices(sent', f) = Indices(sent, f) /\ (Rising(sent, f) => Rising(sent', f))
      /\ Blocks205(sent, f) = {} => Blocks205(sent', f) = {}
  <2>1. \A x \in On(sent) : IsBlock(x, f) => Index(x) \in Nat
    BY <1>1 DEF FileOK
  <2> QED BY <1>1, <2>1, BlocksRemoved
<1>3. (up => \E n \in Nat : Posted(f, n) /\ Reach(f, n))'
  <2>1. \A n : Posted(f, n) => Posted(f, n)'
    BY <1>2 DEF Posted
  <2>2. \A n : Reach(f, n) => Reach(f, n)'
    BY DEF Reach, Posting, Name, At
  <2> QED BY <1>1, <2>1, <2>2 DEF FileOK
<1>4. (f \in Recorded => f \in filed /\ Blocks205(sent, f) = {} /\ Over(f))'
  BY <1>1, <1>2 DEF FileOK, Over
<1>5. (\A x \in On(sent) : IsBlock(x, f) =>
         f \in filed /\ Index(x) \in Nat /\ x.arg.row = Row(f, Index(x), f))'
  BY <1>1 DEF FileOK
<1>6. /\ (rows[f] \in Seq({Row(f, i, f) : i \in Nat}) /\ InOrder(f))' /\ (rows[f] # <<>> => f \in filed)'
      /\ (\A r \in recs : r.name = f => r.flag = f /\ r.key = f)'
  BY <1>1 DEF FileOK, InOrder
<1> QED BY <1>3, <1>4, <1>5, <1>6 DEF FileOK

\* Row is added to a file as the head of `sent' says.
LEMMA StoredFile ==
  ASSUME Inv, MixInv, WholeInv, UNCHANGED <<job, mixed, cut, recs, up>>, up,
         sent # <<>>, sent' = Tail(sent), UNCHANGED filed,
         NEW f \in Files \ mixed, NEW m, m = Head(sent), IsBlock(m, f),
         rows'[f] = Append(rows[f], m.arg.row)
  PROVE  FileOK(f)'
<1>1. FileOK(f) /\ Recorded' = Recorded /\ sent \in Seq(On(sent)) /\ On(sent') \subseteq On(sent) /\ m \in On(sent)
  BY Removed DEF WholeInv, Recorded, Inv, CallInv
<1> DEFINE k == Index(m)
           L == Len(rows[f])
           T == {Row(f, i, f) : i \in Nat}
<1>2. /\ m.arg.row = Row(f, k, f) /\ k \in Nat /\ f \in filed
      /\ \A x \in On(sent) : IsBlock(x, f) => Index(x) \in Nat
  BY <1>1 DEF FileOK
<1>3. PICK n \in Nat : Posted(f, n) /\ Reach(f, n)
  BY <1>1 DEF FileOK
<1>4. rows[f] \in Seq(T) /\ L \in Nat /\ L <= n /\ Indices(sent, f) = L .. n - 1 /\ Rising(sent, f)
  BY <1>1, <1>3 DEF FileOK, Posted
<1>5. /\ Indices(sent, f) = Indices(sent', f) \cup {k} /\ \A i \in Indices(sent', f) : k < i
      /\ Rising(sent', f)
  BY <1>1, <1>2, <1>4, BlocksRemoved
<1> HIDE DEF k
<1>6. k = L /\ L + 1 <= n
  <2>1. k \in L .. n - 1
    BY <1>4, <1>5
  <2>2. L \in L .. n - 1
    BY <1>4, <2>1
  <2>3. L = k \/ k < L
    BY <1>4, <1>5, <2>2
  <2> QED BY <1>2, <1>4, <2>1, <2>3
<1>7. Indices(sent', f) = L + 1 .. n - 1
  <2>1. \A i \in Indices(sent', f) : i \in L .. n - 1 /\ k < i
    BY <1>4, <1>5
  <2>2. \A i \in L + 1 .. n - 1 : i \in Indices(sent', f)
    <3> SUFFICES ASSUME NEW i \in L + 1 .. n - 1 PROVE i \in Indices(sent', f)
      OBVIOUS
    <3>1. i \in L .. n - 1 /\ i # k
      BY <1>4, <1>6
    <3> QED BY <1>4, <1>5, <3>1
  <2>3. \A i \in Indices(sent', f) : i \in L + 1 .. n - 1
    BY <1>4, <1>6, <2>1
  <2> QED BY <2>2, <2>3
<1>8. /\ rows'[f] = Append(rows[f], Row(f, k, f)) /\ rows'[f] \in Seq(T) /\ Len(rows'[f]) = L + 1
      /\ DOMAIN rows'[f] = 1 .. L + 1 /\ DOMAIN rows[f] = 1 .. L
      /\ \A i \in 1 .. L : rows'[f][i] = rows[f][i]
      /\ rows'[f][L + 1] = Row(f, k, f)
  <2>1. rows'[f] = Append(rows[f], Row(f, k, f)) /\ Row(f, k, f) \in T
    BY <1>2
  <2>2. T' = T
    BY DEF Row
  <2> HIDE DEF T
  <2> QED BY <1>4, <2>1, <2>2
<1>9. InOrder(f)'
  <2>1. InOrder(f)
    BY <1>1 DEF FileOK
  <2>2. ASSUME NEW i \in 1 .. L + 1 PROVE rows'[f][i] = Row(f, i - 1, f)
    <3>1. CASE i = L + 1
      BY <1>4, <1>6, <1>8, <3>1
    <3>2. CASE i # L + 1
      <4>1. i \in 1 .. L
        BY <1>4, <3>2
      <4> QED BY <1>8, <2>1, <4>1 DEF InOrder
    <3> QED BY <3>1, <3>2
  <2>3. \A i \in DOMAIN rows'[f] : rows'[f][i] = Row(f, i - 1, f)
    BY <1>8, <2>2
  <2> QED BY <2>3 DEF InOrder, Row
<1>10. (up => \E x \in Nat : Posted(f, x) /\ Reach(f, x))'
  <2>1. Posted(f, n)'
    BY <1>4, <1>5, <1>6, <1>7, <1>8 DEF Posted
  <2>2. Reach(f, n)'
    BY <1>3 DEF Reach, Posting, Name, At
  <2> QED BY <1>3, <2>1, <2>2
<1>11. f \notin Recorded
  <2>1. Blocks205(sent, f) # {}
    BY <1>1, <1>2, BlocksRemoved
  <2> QED BY <1>1, <2>1 DEF FileOK
<1>12. (\A x \in On(sent) : IsBlock(x, f) =>
          f \in filed /\ Index(x) \in Nat /\ x.arg.row = Row(f, Index(x), f))'
  BY <1>1 DEF FileOK
<1>13. (rows[f] \in Seq({Row(f, i, f) : i \in Nat}))' /\ (rows[f] # <<>> => f \in filed)'
       /\ (\A r \in recs : r.name = f => r.flag = f /\ r.key = f)'
  <2>1. rows'[f] \in Seq(T) /\ f \in filed'
    BY <1>2, <1>8
  <2>2. (\A r \in recs : r.name = f => r.flag = f /\ r.key = f)'
    BY <1>1 DEF FileOK
  <2> QED BY <2>1, <2>2 DEF Row
<1> QED BY <1>1, <1>9, <1>10, <1>11, <1>12, <1>13 DEF FileOK

\* What the rows are when a request has come to the head of `sent'.
LEMMA HeadSays ==
  ASSUME Inv, MixInv, MatchInv, WholeInv, up, sent # <<>>, NEW m, m = Head(sent),
         NEW th \in Threads, Clean(th), Calling(th), m.stamp = call[th].stamp
  PROVE  /\ m.code = CodeOf(job[th].pc) /\ m.arg.flag = Name(th)
         /\ Blocks205(sent, Name(th)) = {}
         /\ At(th, "filing") \/ At(th, "proving") => Over(Name(th))
<1> DEFINE f == Name(th)
           s == call[th].stamp
<1>1. /\ sent \in Seq(On(sent)) /\ m \in On(sent) /\ f \in Files \ mixed /\ FileOK(f)
      /\ \A x \in On(sent) : IsBlock(x, f) => Index(x) \in Nat
  BY CleanAlone, Removed DEF Inv, CallInv, WholeInv, FileOK
<1>2. OwnCall(th)
  BY <1>1 DEF MatchInv
<1>3. m.code = CodeOf(job[th].pc) /\ m.arg = call[th].arg /\ ArgOf(th, m.arg) /\ call[th].pc = "sent"
  BY <1>1, <1>2, CallStamps DEF OwnCall, Has
<1>4. m.arg.flag = f
  BY <1>3 DEF ArgOf, At, Clean, Uploading, Downloading, DownloadPcs
<1>5. Followed(sent, f, s) /\ AtMostOne(sent, s)
  BY <1>2, <1>3 DEF WholeInv, Behind, OwnCall
<1>6. Blocks205(sent, f) = {}
  BY <1>1, <1>5, BlocksRemoved
<1>7. ASSUME At(th, "filing") \/ At(th, "proving") PROVE Over(f)
  <2>1. PICK n \in Nat : Posted(f, n) /\ Reach(f, n)
    BY <1>1 DEF FileOK
  <2>2. Len(rows[f]) \in Nat /\ Len(rows[f]) <= n /\ Len(rows[f]) .. n - 1 = {}
    BY <1>1, <1>6, <2>1 DEF Posted, Indices, FileOK
  <2>3. Len(rows[f]) = n
    <3>1. ASSUME NEW k \in Nat, k <= n, k .. n - 1 = {} PROVE k = n
      <4>1. k < n => k \in k .. n - 1
        OBVIOUS
      <4>2. ~(k < n)
        BY <3>1, <4>1
      <4> QED BY <3>1, <4>2
    <3> QED BY <2>2, <3>1
  <2>4. CASE At(th, "filing")
    BY <2>1, <2>3, <2>4 DEF Reach, Over
  <2>5. CASE At(th, "proving")
    <3>1. rows[f] # <<>> /\ rows[f] \in Seq({Row(f, i, f) : i \in Nat})
      BY <1>1, <2>5 DEF WholeInv, JobWhole, At, FileOK
    <3>2. n # 0
      BY <2>3, <3>1
    <3>3. \A u \in Threads : ~Posting(u, f)
      <4>1. \A u \in Threads : Uploading(u) => u = th
        BY CleanAlone
      <4> QED BY <2>5, <4>1 DEF Posting, At, Uploading, Downloading, DownloadPcs
    <3> QED BY <2>1, <2>3, <3>2, <3>3 DEF Reach, Over
  <2> QED BY <1>7, <2>4, <2>5
<1> QED BY <1>3, <1>4, <1>6, <1>7

\* A request that is answered, or is not.
LEMMA AnswerWhole ==
  ASSUME Inv, MixInv, MatchInv, WholeInv, UNCHANGED <<job, mixed, cut, recs, call, up, rows>>, up,
         sent # <<>>, sent' = Tail(sent), filed \subseteq filed', NEW m, m = Head(sent), m.code # 205,
         \/ back' = back
         \/ \E b : /\ back' = Append(back, b) /\ b.stamp = m.stamp
                   /\ m.code = 200 =>
                        \/ b.ans.code = 300 /\ rows[m.arg.flag] # <<>>
                        \/ /\ b.ans.code = 400 /\ rows[m.arg.flag] = <<>>
                           /\ m.arg.flag \in filed' \ filed
  PROVE  WholeInv'
<1>1. \A f : ~IsBlock(m, f)
  BY DEF IsBlock
<1>2. ASSUME NEW th \in Threads, Clean(th) PROVE AnswersTrue(th)' /\ Behind(th)'
  <2> DEFINE f == Name(th)
  <2>1. ASSUME NEW b, m.stamp = call[th].stamp, Calling(th),
               m.code = 200 =>
                 \/ b.ans.code = 300 /\ rows[m.arg.flag] # <<>>
                 \/ b.ans.code = 400 /\ rows[m.arg.flag] = <<>> /\ m.arg.flag \in filed' \ filed
        PROVE  Told(th, b.ans)'
    <3>1. /\ m.code = CodeOf(job[th].pc) /\ m.arg.flag = f /\ Blocks205(sent, f) = {}
          /\ At(th, "filing") \/ At(th, "proving") => Over(f)
      BY <1>2, <2>1, HeadSays
    <3>2. FileOK(f) /\ sent \in Seq(On(sent))
      BY <1>2, CleanAlone DEF WholeInv, Inv, CallInv
    <3>3. Blocks205(sent', f) = {}
      BY <3>1, <3>2, BlocksRemoved DEF FileOK
    <3>4. At(th, "asked") => m.code = 200
      BY <3>1 DEF At, CodeOf
    <3>5. f \notin filed => f \notin Recorded
      BY <3>2 DEF FileOK
    <3>6. Name(th)' = f /\ Recorded' = Recorded
      BY DEF Name, Recorded
    <3> HIDE DEF f
    <3>7. (At(th, "filing") => Over(f))' /\ (At(th, "proving") => Over(f))'
      BY <3>1, <3>6 DEF At, Over, f
    <3>8. At(th, "asked")' => \/ b.ans.code = 300 /\ rows'[f] # <<>>
                              \/ b.ans.code = 400 /\ rows'[f] = <<>> /\ f \in filed' \ Recorded'
      BY <2>1, <3>1, <3>4, <3>5, <3>6 DEF At
    <3> QED BY <3>3, <3>6, <3>7, <3>8 DEF Told, f
  <2> HIDE DEF f
  <2>2. \/ back' = back
        \/ \E b : /\ back' = Append(back, b) /\ b.stamp = m.stamp
                  /\ m.stamp = call[th].stamp /\ Calling(th) => Told(th, b.ans)'
    BY <2>1
  <2> QED BY <1>2, <2>2, ServedThread
<1>3. \A f \in Files \ mixed : FileOK(f)'
  BY <1>1, ServedFile
<1>4. rows' = [f \in Files |-> rows'[f]]
  BY DEF WholeInv
<1> QED BY <1>2, <1>3, <1>4, ChannelFrame

LEMMA StoreWhole ==
  ASSUME Inv, MixInv, MatchInv, WholeInv, UNCHANGED <<job, mixed, cut, recs, call, up>>, up,
         sent # <<>>, NEW m, m = Head(sent), m.code = 205, Store(m)
  PROVE  WholeInv'
<1> DEFINE g == m.arg.flag
<1>1. /\ sent' = Tail(sent) /\ back' = back /\ filed' = filed
      /\ rows' = IF g \in filed THEN [rows EXCEPT ![g] = Append(@, m.arg.row)] ELSE rows
  BY DEF Store, Unanswered
<1>2. \A f : IsBlock(m, f) <=> f = g
  BY DEF IsBlock
<1>3. rows = [f \in Files |-> rows[f]] /\ m \in On(sent)
  BY Removed DEF WholeInv, Inv, CallInv
<1>4. rows' = [f \in Files |-> rows'[f]] /\ \A f \in Files : f # g => rows'[f] = rows[f]
  BY <1>1, <1>3
<1>5. ASSUME NEW f \in Files \ mixed PROVE /\ FileOK(f)'
                                           /\ rows[f] # <<>> => rows'[f] # <<>>
                                           /\ IsBlock(m, f) \/ rows'[f] = rows[f]
  <2>1. CASE f # g
    BY <1>1, <1>2, <1>4, <2>1, ServedFile
  <2>2. CASE f = g
    <3>1. FileOK(f) /\ IsBlock(m, f)
      BY <1>2, <2>2 DEF WholeInv
    <3>2. f \in filed /\ rows[f] \in Seq({Row(f, i, f) : i \in Nat}) /\ m.arg.row \in {Row(f, i, f) : i \in Nat}
      BY <1>3, <3>1 DEF FileOK
    <3>3. rows'[f] = Append(rows[f], m.arg.row)
      BY <1>1, <1>3, <2>2, <3>2
    <3>4. rows'[f] # <<>>
      BY <3>2, <3>3
    <3> QED BY <1>1, <3>1, <3>3, <3>4, StoredFile
  <2> QED BY <2>1, <2>2
<1>6. ASSUME NEW th \in Threads, Clean(th) PROVE AnswersTrue(th)' /\ Behind(th)'
  <2>1. Name(th) \in Files \ mixed
    BY <1>6, CleanAlone
  <2> QED BY <1>1, <1>5, <1>6, <2>1, ServedThread
<1> QED BY <1>1, <1>4, <1>5, <1>6, ChannelFrame

LEMMA ServeWhole ==
  ASSUME Inv, MixInv, MatchInv, WholeInv, Serve
  PROVE  WholeInv'
<1>1. PICK m : m = Head(sent)
  OBVIOUS
<1>2. /\ sent # <<>> /\ sent' = Tail(sent) /\ UNCHANGED <<job, mixed, cut, recs, call, up>> /\ up
  <2>1. sent # <<>> /\ sent' = Tail(sent) /\ UNCHANGED <<job, mixed, cut, recs, call, up>>
    BY Served DEF Serve, Unanswered, Replied, ghost
  <2>2. up \in BOOLEAN /\ (~up => sent = <<>>)
    BY DEF MixInv, ChannelOK
  <2>3. up
    BY <2>1, <2>2
  <2> QED BY <2>1, <2>3
<1>3. /\ \/ m.code = 200 /\ Exists(m)
         \/ m.code = 205 /\ Store(m)
         \/ m.code = 207 /\ Enrol(m)
         \/ m.code = 220 /\ CheckOwner(m)
         \/ m.code = 900 /\ Give(m)
      /\ Unanswered \/ \E ans : Replied(m, ans)
  BY <1>1, Served DEF Serve
<1>4. ASSUME NEW ans, Replied(m, ans)
      PROVE  \/ back' = back
             \/ \E b : back' = Append(back, b) /\ b.stamp = m.stamp /\ b.ans = ans
  <2> DEFINE b == [by |-> m.by, stamp |-> m.stamp, code |-> m.code, ans |-> ans]
  <2>1. (back' = back \/ back' = Append(back, b)) /\ b.stamp = m.stamp /\ b.ans = ans
    BY <1>4 DEF Replied, Reply
  <2> HIDE DEF b
  <2> QED BY <2>1
<1>5. CASE m.code = 205 /\ Store(m)
  BY <1>1, <1>2, <1>5, StoreWhole
<1>6. CASE m.code \in {207, 220, 900}
  <2>1. UNCHANGED <<rows, filed>>
    BY <1>3, <1>6 DEF Enrol, CheckOwner, Give, server
  <2>2. back' = back \/ \E b : back' = Append(back, b) /\ b.stamp = m.stamp
    BY <1>3, <1>4 DEF Unanswered
  <2> QED BY <1>1, <1>2, <1>6, <2>1, <2>2, AnswerWhole
<1>7. CASE m.code = 200 /\ Exists(m)
  <2> DEFINE f == m.arg.flag
  <2>1. UNCHANGED rows /\ filed \subseteq filed'
    BY <1>7 DEF Exists, server
  <2>2. CASE rows[f] # <<>> /\ \E S : Replied(m, [code |-> 300, todo |-> S])
    <3>1. PICK S : Replied(m, [code |-> 300, todo |-> S])
      BY <2>2
    <3>2. PICK ans : ans = [code |-> 300, todo |-> S]
      OBVIOUS
    <3>3. Replied(m, ans) /\ ans.code = 300
      BY <3>1, <3>2
    <3> QED BY <1>1, <1>2, <1>4, <1>7, <2>1, <2>2, <3>3, AnswerWhole
  <2>3. CASE rows[f] = <<>> /\ f \notin filed /\ filed' = filed \cup {f} /\ Replied(m, [code |-> 400])
    <3>1. PICK ans : ans = [code |-> 400]
      OBVIOUS
    <3>2. Replied(m, ans) /\ ans.code = 400
      BY <2>3, <3>1
    <3> QED BY <1>1, <1>2, <1>4, <1>7, <2>1, <2>3, <3>2, AnswerWhole
  <2>4. CASE Unanswered
    BY <1>1, <1>2, <1>7, <2>1, <2>4, AnswerWhole DEF Unanswered
  <2> QED BY <1>7, <2>2, <2>3, <2>4 DEF Exists
<1> QED BY <1>3, <1>5, <1>6, <1>7

\* An answer is handed over; the connection ends.
LEMMA LoopLostWhole ==
  ASSUME Inv, MixInv, WholeInv, EventLoop \/ Lost
  PROVE  WholeInv'
<1>1. /\ UNCHANGED <<job, mixed, cut, recs, rows, filed>> /\ rows' = [f \in Files |-> rows'[f]]
      /\ sent \in Seq(On(sent)) /\ back \in Seq(On(back))
  BY DEF EventLoop, Lost, ghost, server, WholeInv, Inv, CallInv
<1>2. \A th \in Threads : Name(th)' = Name(th) /\ (Calling(th)' <=> Calling(th))
  BY <1>1 DEF Name, Calling
<1>3. Recorded' = Recorded /\ \A f, n : Reach(f, n) => Reach(f, n)'
  BY <1>1 DEF Recorded, Reach, Posting, Name, At
<1>4. CASE EventLoop
  <2>1. UNCHANGED <<sent, up>>
    BY <1>4 DEF EventLoop, Acknowledge, Invalidate, wire
  <2>2. /\ On(back') \subseteq On(back)
        /\ \A th \in Threads : /\ call'[th].stamp = call[th].stamp /\ call'[th].pc = call[th].pc
                               /\ \/ call'[th].ans = call[th].ans
                                  \/ call'[th].ans \in On(back) /\ call'[th].ans.stamp = call[th].stamp
    BY <1>4, Handed
  <2>3. ASSUME NEW th \in Threads, Clean(th) PROVE AnswersTrue(th)' /\ Behind(th)'
    <3>1. \A a : Told(th, a) => Told(th, a)'
      BY <1>1, <1>2, <1>3, <2>1 DEF Told, Over, At
    <3>2. AnswersTrue(th) /\ Behind(th)
      BY DEF WholeInv
    <3>3. AnswersTrue(th)'
      BY <1>2, <2>2, <2>3, <3>1, <3>2 DEF AnswersTrue
    <3>4. Behind(th)'
      BY <1>2, <2>1, <2>2, <2>3, <3>2 DEF Behind
    <3> QED BY <3>3, <3>4
  <2>4. ASSUME NEW f \in Files \ mixed PROVE FileOK(f)'
    <3>1. FileOK(f)
      BY <2>4 DEF WholeInv
    <3> QED BY <1>1, <1>3, <2>1, <3>1, SameFile
  <2> QED BY <1>1, <2>3, <2>4, ChannelFrame
<1>5. CASE Lost
  <2>1. up' = FALSE /\ sent' = <<>> /\ back' = <<>> /\ call' = call
    BY <1>5 DEF Lost, Close
  <2>2. ~up' /\ On(sent') = {} /\ On(back') = {} /\ \A f : Blocks205(sent', f) = {}
    BY <2>1 DEF On, Blocks205
  <2>3. ASSUME NEW th \in Threads, Clean(th) PROVE AnswersTrue(th)' /\ Behind(th)'
    <3>1. \A a : Told(th, a) => Told(th, a)'
      BY <1>1, <1>2, <1>3, <2>2 DEF Told, Over, At
    <3>2. AnswersTrue(th)
      BY DEF WholeInv
    <3> QED BY <1>2, <2>1, <2>2, <2>3, <3>1, <3>2 DEF AnswersTrue, Behind
  <2>4. ASSUME NEW f \in Files \ mixed PROVE FileOK(f)'
    <3>1. FileOK(f)
      BY <2>4 DEF WholeInv
    <3> QED BY <1>1, <1>3, <2>2, <3>1 DEF FileOK, InOrder, Over
  <2> QED BY <1>1, <2>3, <2>4, ChannelFrame
<1> QED BY <1>4, <1>5

LEMMA WholeStep ==
  ASSUME Inv, MixInv, MatchInv, WholeInv, MatchInv', [Next]_vars
  PROVE  WholeInv'
<1>1. CASE UNCHANGED vars
  <2>1. UNCHANGED <<job, call, sent, back, rows, filed, recs, up, mixed, cut>>
    BY <1>1 DEF vars, callVars, wire, server, ghost
  <2>2. Recorded' = Recorded /\ \A f, n : Reach(f, n) => Reach(f, n)'
    BY <2>1 DEF Recorded, Reach, Posting, Name, At
  <2>3. \A th \in Threads : (JobWhole(th) /\ AnswersTrue(th) /\ Behind(th))'
    BY <2>1, OtherWhole DEF WholeInv
  <2>4. \A f \in Files \ mixed' : FileOK(f)'
    BY <2>1, <2>2, SameFile DEF WholeInv
  <2> QED BY <2>1, <2>2, <2>3, <2>4 DEF WholeInv
<1>2. ASSUME NEW th \in Threads, Step(th) \/ GiveUpLate(th) \/ LoopException(th) PROVE WholeInv'
  BY <1>2, QuietSteps, ExistWhole, LoopWhole, AskWhole, GotWhole, WriteWhole, PostWhole DEF Step
<1> QED BY <1>1, <1>2, QuietSteps, ServeWhole, LoopLostWhole DEF Next

LEMMA WholeAtFirst ==
  ASSUME Init
  PROVE  MixInv /\ MatchInv /\ WholeInv
<1>1. /\ call = [th \in Threads |-> NoCall] /\ job = [th \in Threads |-> Idle]
      /\ sent = <<>> /\ back = <<>> /\ filed = Stored /\ faults = 0 /\ up = TRUE
  BY DEF Init, CallInit
<1>2. \A th \in Threads : ~Uploading(th) /\ ~Calling(th) /\ At(th, "idle")
  BY <1>1 DEF Uploading, At, Idle, Calling, WaitPcs
<1>3. MixInv
  <2>1. up \in BOOLEAN
    BY <1>1, Zenon
  <2>2. ChannelOK
    BY <1>1, <2>1 DEF ChannelOK
  <2> QED BY <1>2, <2>2 DEF MixInv, Alone, JobOK
<1>4. MatchInv
  BY <1>2 DEF MatchInv
<1>5. On(sent) = {} /\ \A f : Blocks205(sent, f) = {}
  BY <1>1 DEF On, Blocks205
<1>6. Recorded = Stored /\ \A r \in recs : r.flag = r.name /\ r.key = r.name
  <2> DEFINE r(f) == [name |-> f, flag |-> f, key |-> f]
  <2>1. recs = {r(f) : f \in Stored}
    BY DEF Init
  <2>2. \A f : r(f).name = f /\ r(f).flag = f /\ r(f).key = f
    OBVIOUS
  <2> HIDE DEF r
  <2> QED BY <2>1, <2>2 DEF Recorded
<1>7. ASSUME NEW f \in Files PROVE FileOK(f)
  <2> DEFINE T == {Row(f, i, f) : i \in Nat}
             N == IF f \in Stored THEN Blocks[f] ELSE 0
  <2>1. N \in Nat /\ Blocks[f] \in Nat \ {0}
    BY ClientAssumption
  <2>2. \A i \in 1 .. N : Row(f, i - 1, f) \in T
    BY <2>1
  <2> HIDE DEF T
  <2>3. rows[f] = [n \in 1 .. N |-> Row(f, n - 1, f)]
    <3>1. rows[f] = IF f \in Stored THEN [n \in 1 .. Blocks[f] |-> Row(f, n - 1, f)] ELSE <<>>
      BY DEF Init
    <3>2. <<>> = [n \in 1 .. 0 |-> Row(f, n - 1, f)]
      OBVIOUS
    <3> QED BY <3>1, <3>2
  <2> HIDE DEF N
  <2>4. rows[f] \in Seq(T) /\ Len(rows[f]) = N /\ DOMAIN rows[f] = 1 .. N
    BY <2>1, <2>2, <2>3
  <2>5. InOrder(f)
    BY <2>3, <2>4 DEF InOrder
  <2>6. rows[f] # <<>> => f \in filed
    <3>1. f \notin Stored => N = 0
      BY DEF N
    <3> QED BY <1>1, <2>4, <3>1
  <2>7. f \in Recorded => f \in filed /\ Over(f)
    BY <1>1, <1>6, <2>4 DEF N, Over
  <2>8. Posted(f, N)
    <3>1. Indices(sent, f) = {} /\ Rising(sent, f)
      BY <1>5 DEF Indices, Rising
    <3>2. N .. N - 1 = {}
      BY <2>1
    <3> QED BY <2>1, <2>4, <3>1, <3>2 DEF Posted
  <2>9. Reach(f, N)
    BY <1>1 DEF Reach, Posting, At, Idle, N
  <2> QED BY <1>5, <1>6, <2>1, <2>4, <2>5, <2>6, <2>7, <2>8, <2>9 DEF FileOK, T
<1>8. rows = [f \in Files |-> rows[f]] /\ Recorded \subseteq Files
  BY <1>6, ClientAssumption DEF Init
<1>9. \A th \in Threads : JobWhole(th) /\ AnswersTrue(th) /\ Behind(th)
  BY <1>2 DEF JobWhole, AnswersTrue, Behind, Clean
<1> QED BY <1>3, <1>4, <1>7, <1>8, <1>9 DEF WholeInv

----------------------------------------------------------------------------
(* Downloads bring whole copies *)

Fetches(th, f) == Downloading(th) /\ Name(th) = f

\* What the server says of the block a download asks for.
BlockTold(th, a) ==
  LET f == Name(th)
      i == job[th].idx
  IN At(th, "fetching") =>
       \/ a.code = 909 /\ i = Blocks[f]
       \/ a.code = 901 /\ i < Blocks[f] /\ a.of = <<f, i>> /\ a.key = f

BlocksTrue(th) ==
  At(th, "fetching") =>
    /\ \A m \in On(back) : m.stamp = call[th].stamp => BlockTold(th, m.ans)
    /\ call[th].ans # Null => BlockTold(th, call[th].ans.ans)

FetchOK(th, f) ==
  /\ f \in Recorded /\ job[th].flag = f /\ job[th].key = f
  /\ job[th].idx \in 0 .. Blocks[f] /\ (Len(down[f]) - job[th].idx) % Blocks[f] = 0
  /\ BlocksTrue(th)

CopyOK(f) ==
  /\ down[f] \in Seq(On(down[f]))
  /\ \A n \in DOMAIN down[f] : down[f][n] = <<f, (n - 1) % Blocks[f]>>
  /\ \A th \in Threads : Fetches(th, f) =>
       FetchOK(th, f) /\ \A u \in Threads : Fetches(u, f) => u = th
  /\ (\A th \in Threads : ~Fetches(th, f)) => Len(down[f]) % Blocks[f] = 0

CopyInv ==
  /\ down = [f \in Files |-> down[f]]
  /\ \A f \in Files \ (mixed \cup cut \cup torn) : CopyOK(f)

\* What is left over of one number by another.
LEMMA Remainders ==
  ASSUME NEW b \in Nat \ {0}
  PROVE  /\ \A a \in Int, k \in 0 .. b - 1 : (a - k) % b = 0 => a % b = k
         /\ \A a \in Int : (a - b) % b = 0 => a % b = 0
         /\ 0 % b = 0
<1>1. ASSUME NEW a \in Int, NEW k \in Int, (a - k) % b = 0 PROVE \E q \in Int : a = b * q + k
  <2>1. ASSUME NEW c \in Int, c % b = 0 PROVE \E q \in Int : c = b * q
    BY <2>1, Z3
  <2>2. PICK c \in Int : c = a - k
    OBVIOUS
  <2>3. PICK q \in Int : c = b * q
    BY <1>1, <2>1, <2>2
  <2> QED BY <2>2, <2>3, Z3
<1>2. ASSUME NEW q \in Int, NEW k \in 0 .. b - 1 PROVE (b * q + k) % b = k
  BY Z3
<1>3. ASSUME NEW a \in Int, NEW k \in 0 .. b - 1, (a - k) % b = 0 PROVE a % b = k
  <2>1. \E q \in Int : a = b * q + k
    <3>1. k \in Int
      OBVIOUS
    <3> QED BY <1>1, <1>3, <3>1, Zenon
  <2> QED BY <1>2, <2>1
<1>4. ASSUME NEW a \in Int, (a - b) % b = 0 PROVE a % b = 0
  <2>1. PICK q \in Int : a = b * q + b
    BY <1>1, <1>4
  <2>2. q + 1 \in Int /\ a = b * (q + 1) + 0
    BY <2>1
  <2> QED BY <1>2, <2>2
<1>5. 0 % b = 0
  BY <1>2
<1> QED BY <1>3, <1>4, <1>5

\* A file of which the downloads stand still.
LEMMA CopyStays ==
  ASSUME NEW f, CopyOK(f), down'[f] = down[f], recs \subseteq recs',
         \A th \in Threads : Fetches(th, f)' <=> Fetches(th, f),
         \A th \in Threads : Fetches(th, f) =>
           /\ UNCHANGED <<job[th].flag, job[th].key, job[th].idx>>
           /\ BlocksTrue(th) => BlocksTrue(th)'
  PROVE  CopyOK(f)'
<1>1. Recorded \subseteq Recorded'
  BY DEF Recorded
<1>2. \A th \in Threads : Fetches(th, f) /\ FetchOK(th, f) => FetchOK(th, f)'
  BY <1>1 DEF FetchOK
<1>3. On(down'[f]) = On(down[f])
  BY DEF On
<1> QED BY <1>2, <1>3 DEF CopyOK

\* What one thread does says nothing of the blocks that another waits for.
LEMMA BlocksOther ==
  ASSUME NEW th \in Threads, job'[th] = job[th], UNCHANGED back,
         call'[th].stamp = call[th].stamp, call'[th].ans = call[th].ans
  PROVE  BlocksTrue(th) => BlocksTrue(th)'
<1>1. \A a : BlockTold(th, a) => BlockTold(th, a)'
  BY DEF BlockTold, At, Name
<1> QED BY <1>1 DEF BlocksTrue, At, On

\* A step of thread u that downloads nothing.
LEMMA CopyFrame ==
  ASSUME CopyInv, NEW u \in Threads, ~Downloading(u), ~Downloading(u)',
         UNCHANGED <<down, back>>, recs \subseteq recs',
         mixed \subseteq mixed', cut \subseteq cut', torn \subseteq torn',
         \A th \in Threads : th # u => job'[th] = job[th] /\ call'[th] = call[th]
  PROVE  CopyInv'
<1>1. ASSUME NEW f \in Files \ (mixed' \cup cut' \cup torn') PROVE CopyOK(f)'
  <2>1. CopyOK(f)
    BY <1>1 DEF CopyInv
  <2>2. \A th \in Threads : (Fetches(th, f)' <=> Fetches(th, f)) /\ (Fetches(th, f) => th # u)
    BY DEF Fetches, Downloading, Name
  <2>3. \A th \in Threads : Fetches(th, f) => /\ job'[th] = job[th]
                                              /\ BlocksTrue(th) => BlocksTrue(th)'
    BY <2>2, BlocksOther
  <2> QED BY <2>1, <2>2, <2>3, CopyStays
<1> QED BY <1>1 DEF CopyInv

LEMMA UploadCopy ==
  ASSUME Inv, MixInv, CopyInv, NEW u \in Threads, ~Downloading(u),
         \/ StartUpload(u) \/ SetKey(u) \/ SetFlag(u) \/ IsExist(u) \/ GotExist(u)
         \/ Encrypt(u) \/ PostBlock(u) \/ LoopException(u) \/ SendMeta(u) \/ Verify(u) \/ ListTooShort(u)
         \/ GotProof(u) \/ GotMeta(u) \/ GiveUp(u) \/ GiveUpLate(u)
  PROVE  CopyInv'
<1>1. UNCHANGED <<down, back>>
  BY DEF StartUpload, SetKey, SetFlag, IsExist, GotExist, Encrypt, PostBlock, LoopException, SendMeta,
     Verify, ListTooShort, GotProof, GotMeta, GiveUp, GiveUpLate, Ask, Fail, Return, Expire, Place, Post,
     callVars, wire
<1>2. recs \subseteq recs'
  BY DEF StartUpload, SetKey, SetFlag, IsExist, GotExist, Encrypt, PostBlock, LoopException, SendMeta,
     Verify, ListTooShort, GotProof, GotMeta, GiveUp, GiveUpLate, Ask, Fail, Record
<1>3. mixed \subseteq mixed' /\ cut \subseteq cut' /\ torn \subseteq torn'
  BY DEF StartUpload, SetKey, SetFlag, IsExist, GotExist, Encrypt, PostBlock, LoopException, SendMeta,
     Verify, ListTooShort, GotProof, GotMeta, GiveUp, GiveUpLate, Ask, Fail, ghost
<1>4. \A th \in Threads : th # u => call'[th] = call[th]
  <2>1. \/ UNCHANGED call \/ Return(u) \/ Expire(u) \/ \E code, arg, s : Place(u, code, arg, s)
    BY DEF StartUpload, SetKey, SetFlag, IsExist, GotExist, Encrypt, PostBlock, LoopException, SendMeta,
       Verify, ListTooShort, GotProof, GotMeta, GiveUp, GiveUpLate, Ask, Post, callVars
  <2> QED BY <2>1 DEF Return, Expire, Place, Inv, CallInv
<1>5. \E j : Become(u, j) /\ j.pc \notin DownloadPcs
  <2>1. JobRec(job[u]) /\ Idle.pc \notin DownloadPcs
    BY IdleRec DEF Idle, DownloadPcs
  <2>2. ASSUME NEW pc, Goto(u, pc), pc \notin DownloadPcs PROVE \E j : Become(u, j) /\ j.pc \notin DownloadPcs
    <3>1. [job[u] EXCEPT !.pc = pc].pc = pc
      BY IdleRec
    <3> QED BY <2>2, <3>1 DEF Goto
  <2>3. CASE StartUpload(u)
    <3>1. PICK f : Become(u, [Idle EXCEPT !.pc = "setKey", !.name = f])
      BY <2>3 DEF StartUpload
    <3>2. [Idle EXCEPT !.pc = "setKey", !.name = f].pc = "setKey"
      BY DEF Idle
    <3> QED BY <3>1, <3>2 DEF DownloadPcs
  <2>4. CASE GotExist(u)
    <3>1. \/ Goto(u, "block")
          \/ call[u].ans.ans.code = 300
      BY <2>4 DEF GotExist, Goto
    <3>2. CASE call[u].ans.ans.code = 300
      <4>1. \E k \in 0 .. Blocks[job[u].name] :
              /\ Become(u, [job[u] EXCEPT !.pc = "prove", !.idx = k, !.todo = call[u].ans.ans.todo])
              /\ IF k = Blocks[job[u].name] THEN UNCHANGED <<faults, cut>>
                 ELSE Fault("local") /\ cut' = cut \cup {job[u].name}
        BY <2>4, <3>2 DEF GotExist
      <4>2. PICK k, x : Become(u, [job[u] EXCEPT !.pc = "prove", !.idx = k, !.todo = x])
        BY <4>1
      <4>3. Shows([job[u] EXCEPT !.pc = "prove", !.idx = k, !.todo = x], "prove", job[u].name, job[u].flag,
                  job[u].key, k, x)
        BY <2>1, MovedList
      <4> QED BY <4>2, <4>3 DEF Shows, DownloadPcs
    <3> QED BY <2>2, <3>1, <3>2 DEF DownloadPcs
  <2>5. CASE Encrypt(u)
    <3>1. Shows([job[u] EXCEPT !.pc = "post", !.key = sk], "post", job[u].name, job[u].flag, sk, job[u].idx, job[u].todo)
      BY <2>1, MovedKey
    <3> QED BY <2>5, <3>1 DEF Encrypt, Shows, DownloadPcs
  <2>6. CASE PostBlock(u)
    <3>1. Shows([job[u] EXCEPT !.pc = "block", !.idx = job[u].idx + 1], "block", job[u].name, job[u].flag,
                job[u].key, job[u].idx + 1, job[u].todo)
      BY <2>1, MovedIdx
    <3>2. Become(u, [job[u] EXCEPT !.pc = "block", !.idx = job[u].idx + 1])
      BY <2>6 DEF PostBlock
    <3> QED BY <3>1, <3>2 DEF Shows, DownloadPcs
  <2>7. CASE SetKey(u) \/ SetFlag(u) \/ LoopException(u)
    BY <2>2, <2>7 DEF SetKey, SetFlag, LoopException, DownloadPcs
  <2>8. CASE IsExist(u) \/ SendMeta(u) \/ Verify(u)
    BY <2>2, <2>8 DEF IsExist, SendMeta, Verify, Ask, DownloadPcs
  <2>9. CASE GotProof(u) \/ GotMeta(u)
    BY <2>1, <2>2, <2>9 DEF GotProof, GotMeta, DownloadPcs
  <2>10. CASE ListTooShort(u) \/ GiveUp(u) \/ GiveUpLate(u)
    BY <2>1, <2>10 DEF ListTooShort, GiveUp, GiveUpLate, Fail
  <2> QED BY <2>3, <2>4, <2>5, <2>6, <2>7, <2>8, <2>9, <2>10
<1>6. ~Downloading(u)' /\ \A th \in Threads : th # u => job'[th] = job[th]
  BY <1>5, JobsMoved DEF Downloading
<1> QED BY <1>1, <1>2, <1>3, <1>4, <1>6, CopyFrame

\* A file that thread u neither downloads nor begins to.
LEMMA CopyAside ==
  ASSUME NEW f, CopyOK(f), NEW u \in Threads, ~Fetches(u, f), ~Fetches(u, f)',
         down'[f] = down[f], UNCHANGED <<back, recs>>,
         \A th \in Threads : th # u => job'[th] = job[th] /\ call'[th] = call[th]
  PROVE  CopyOK(f)'
<1>1. \A th \in Threads : (Fetches(th, f)' <=> Fetches(th, f)) /\ (Fetches(th, f) => th # u)
  BY DEF Fetches, Downloading, Name
<1>2. \A th \in Threads : Fetches(th, f) => /\ job'[th] = job[th]
                                            /\ BlocksTrue(th) => BlocksTrue(th)'
  BY <1>1, BlocksOther
<1> QED BY <1>1, <1>2, CopyStays

LEMMA StartCopy ==
  ASSUME Inv, WholeInv, CopyInv, NEW u \in Threads, StartDownload(u)
  PROVE  CopyInv'
<1>1. PICK r \in recs :
        /\ Become(u, [Idle EXCEPT !.pc = "fetch", !.name = r.name, !.flag = r.flag, !.key = r.key])
        /\ torn' = IF \E th \in Threads : Downloading(th) /\ job[th].name = r.name
                     THEN torn \cup {r.name} ELSE torn
  BY DEF StartDownload
<1>2. At(u, "idle") /\ UNCHANGED <<call, back, recs, down, mixed, cut>>
  BY DEF StartDownload, callVars, wire
<1> DEFINE j == [Idle EXCEPT !.pc = "fetch", !.name = r.name, !.flag = r.flag, !.key = r.key]
<1>3. j.pc = "fetch" /\ j.name = r.name /\ j.flag = r.flag /\ j.key = r.key /\ j.idx = 0
  BY DEF Idle
<1>4. Become(u, j)
  BY <1>1
<1> HIDE DEF j
<1>5. job'[u] = j /\ \A th \in Threads : th # u => job'[th] = job[th]
  BY <1>4, JobsMoved
<1>6. ASSUME NEW f \in Files \ (mixed' \cup cut' \cup torn') PROVE CopyOK(f)'
  <2>1. CopyOK(f) /\ FileOK(f) /\ ~Fetches(u, f)
    BY <1>1, <1>2, <1>6 DEF CopyInv, WholeInv, Fetches, Downloading, DownloadPcs, At
  <2>2. CASE f # r.name
    <3>1. ~Fetches(u, f)'
      BY <1>3, <1>5, <2>2 DEF Fetches, Name
    <3> QED BY <1>2, <1>5, <2>1, <3>1, CopyAside
  <2>3. CASE f = r.name
    <3>1. \A th \in Threads : ~Fetches(th, f)
      BY <1>1, <1>6, <2>3 DEF Fetches, Name
    <3>2. \A th \in Threads : Fetches(th, f)' => th = u
      BY <1>5, <3>1 DEF Fetches, Downloading, Name
    <3>3. Len(down[f]) \in Nat /\ Len(down[f]) % Blocks[f] = 0 /\ Blocks[f] \in Nat
      BY <2>1, <3>1, BlockNumbers DEF CopyOK
    <3>4. f \in Recorded /\ r.flag = f /\ r.key = f
      BY <2>1, <2>3 DEF FileOK, Recorded
    <3>5. Len(down[f]) - 0 = Len(down[f])
      BY <3>3
    <3>6. FetchOK(u, f)'
      BY <1>2, <1>3, <1>5, <3>3, <3>4, <3>5 DEF FetchOK, BlocksTrue, At, Recorded
    <3>7. Fetches(u, f)'
      BY <1>3, <1>5, <2>3 DEF Fetches, Downloading, DownloadPcs, Name
    <3>8. On(down'[f]) = On(down[f])
      BY <1>2
    <3> QED BY <1>2, <2>1, <3>2, <3>6, <3>7, <3>8 DEF CopyOK
  <2> QED BY <2>2, <2>3
<1> QED BY <1>2, <1>6 DEF CopyInv

LEMMA FetchCopy ==
  ASSUME Inv, CopyInv, MatchInv', NEW u \in Threads, Fetch(u)
  PROVE  CopyInv'
<1> DEFINE arg == [flag |-> job[u].flag, idx |-> job[u].idx]
           j == [job[u] EXCEPT !.pc = "fetching"]
<1>1. At(u, "fetch") /\ Ask(u, 900, arg, "fetching")
  BY DEF Fetch
<1> HIDE DEF arg
<1>2. PICK s : Place(u, 900, arg, s)
  BY <1>1 DEF Ask
<1>3. Become(u, j) /\ UNCHANGED <<down, back, recs, cut, torn>> /\ mixed \subseteq mixed'
  <2>1. mixed \subseteq mixed'
    BY <1>1 DEF Ask
  <2> QED BY <1>1, <1>2, <2>1 DEF Ask, Goto, Place, wire
<1>4. Shows(j, "fetching", job[u].name, job[u].flag, job[u].key, job[u].idx, job[u].todo)
  BY IdleRec, Moved
<1> HIDE DEF j
<1>5. job'[u] = j /\ \A th \in Threads : th # u => job'[th] = job[th]
  BY <1>3, JobsMoved
<1>6. /\ call'[u].pc = "put" /\ call'[u].ans = Null
      /\ \A th \in Threads : th # u => call'[th] = call[th]
  BY <1>2 DEF Place, Inv, CallInv
<1>7. \A f : Fetches(u, f)' <=> Fetches(u, f)
  BY <1>1, <1>4, <1>5 DEF Fetches, Downloading, DownloadPcs, Name, At, Shows
<1>8. ASSUME NEW f \in Files \ (mixed' \cup cut' \cup torn') PROVE CopyOK(f)'
  <2>1. CopyOK(f)
    BY <1>3, <1>8 DEF CopyInv
  <2>2. CASE ~Fetches(u, f)
    BY <1>3, <1>5, <1>6, <1>7, <2>1, <2>2, CopyAside
  <2>3. CASE Fetches(u, f)
    <3>1. OwnCall(u)'
      <4>1. Name(u)' = f /\ Calling(u)'
        BY <1>4, <1>5, <2>3 DEF Fetches, Name, Shows, Calling, WaitPcs
      <4> QED BY <1>8, <4>1 DEF MatchInv
    <3>2. BlocksTrue(u)'
      BY <1>6, <3>1 DEF OwnCall, BlocksTrue, Has
    <3>3. \A th \in Threads : Fetches(th, f) => th = u
      BY <2>1, <2>3 DEF CopyOK
    <3>4. \A th \in Threads : Fetches(th, f)' <=> Fetches(th, f)
      BY <1>5, <1>7 DEF Fetches, Downloading, Name
    <3>5. UNCHANGED <<job[u].flag, job[u].key, job[u].idx>>
      BY <1>4, <1>5 DEF Shows
    <3> QED BY <1>3, <2>1, <3>2, <3>3, <3>4, <3>5, CopyStays
  <2> QED BY <2>2, <2>3
<1> QED BY <1>3, <1>8 DEF CopyInv

\* A download ends in an error.
LEMMA FailCopy ==
  ASSUME Inv, CopyInv, NEW u \in Threads, Become(u, Idle), UNCHANGED <<down, back, recs, mixed, cut>>,
         torn' = torn \cup {Name(u)}, \A th \in Threads : th # u => call'[th] = call[th]
  PROVE  CopyInv'
<1>1. job'[u] = Idle /\ \A th \in Threads : th # u => job'[th] = job[th]
  BY JobsMoved
<1>2. ASSUME NEW f \in Files \ (mixed' \cup cut' \cup torn') PROVE CopyOK(f)'
  <2>1. CopyOK(f) /\ ~Fetches(u, f)
    BY <1>2 DEF CopyInv, Fetches
  <2>2. ~Fetches(u, f)'
    BY <1>1 DEF Fetches, Downloading, DownloadPcs, Idle
  <2> QED BY <1>1, <2>1, <2>2, CopyAside
<1> QED BY <1>2 DEF CopyInv

LEMMA GotCopy ==
  ASSUME Inv, CopyInv, NEW u \in Threads, GotBlock(u)
  PROVE  CopyInv'
<1> DEFINE a == call[u].ans.ans
           mine == a.code = 901 /\ a.key = job[u].key
           j == [job[u] EXCEPT !.pc = "fetch", !.idx = NextBlock(u)]
           g == Name(u)
<1>1. /\ At(u, "fetching") /\ Answered(u) /\ UNCHANGED <<back, recs, mixed, cut>>
      /\ call' = [call EXCEPT ![u] = NoCall]
  BY DEF GotBlock, Return, wire
<1>2. \A th \in Threads : th # u => call'[th] = call[th]
  BY <1>1 DEF Inv, CallInv
<1>3. \/ a.code = 909 /\ Become(u, Idle) /\ UNCHANGED <<down, torn>>
      \/ mine /\ down' = [down EXCEPT ![g] = Append(@, a.of)] /\ Become(u, j) /\ UNCHANGED torn
      \/ a.code # 909 /\ ~mine /\ Become(u, Idle) /\ torn' = torn \cup {g} /\ UNCHANGED down
  BY DEF GotBlock, Name
<1>4. Shows(j, "fetch", g, job[u].flag, job[u].key, job[u].idx + 1, job[u].todo)
  BY IdleRec, MovedIdx DEF NextBlock, Name
<1>5. down = [f \in Files |-> down[f]]
  BY DEF CopyInv
<1> HIDE DEF j
<1>6. CASE a.code # 909 /\ ~mine
  BY <1>1, <1>2, <1>3, <1>6, FailCopy
<1>7. CASE a.code = 909 \/ mine
  <2>1. /\ UNCHANGED torn /\ down' = [f \in Files |-> down'[f]]
        /\ \A f \in Files : f # g => down'[f] = down[f]
    BY <1>3, <1>5, <1>7
  <2>2. ASSUME NEW f \in Files \ (mixed \cup cut \cup torn), f # g PROVE CopyOK(f)'
    <3>1. CopyOK(f) /\ ~Fetches(u, f)
      BY <2>2 DEF CopyInv, Fetches
    <3>2. \A th \in Threads : th # u => job'[th] = job[th]
      BY <1>3, JobsMoved
    <3>3. ~Fetches(u, f)'
      <4>1. CASE Become(u, Idle)
        BY <4>1, JobsMoved DEF Fetches, Downloading, DownloadPcs, Idle
      <4>2. CASE Become(u, j)
        BY <1>4, <2>2, <4>2, JobsMoved DEF Fetches, Shows, Name
      <4> QED BY <1>3, <4>1, <4>2
    <3> QED BY <1>1, <1>2, <2>1, <2>2, <3>1, <3>2, <3>3, CopyAside
  <2>3. ASSUME NEW f, f = g, f \in Files \ (mixed \cup cut \cup torn) PROVE CopyOK(f)'
    <3> DEFINE B == Blocks[f]
               L == Len(down[f])
               i == job[u].idx
    <3>1. CopyOK(f) /\ Fetches(u, f) /\ B \in Nat \ {0}
      BY <1>1, <2>3, ClientAssumption DEF CopyInv, Fetches, At, Downloading, DownloadPcs
    <3>2. /\ FetchOK(u, f) /\ L \in Nat /\ i \in 0 .. B /\ (L - i) % B = 0
          /\ \A th \in Threads : Fetches(th, f) => th = u
          /\ \A n \in DOMAIN down[f] : down[f][n] = <<f, (n - 1) % B>>
      BY <3>1 DEF CopyOK, FetchOK
    <3>3. \/ a.code = 909 /\ i = B
          \/ a.code = 901 /\ i < B /\ a.of = <<f, i>> /\ a.key = f
      BY <1>1, <2>3, <3>2 DEF FetchOK, BlocksTrue, BlockTold, Answered, At
    <3>4. CASE a.code = 909
      <4>1. Become(u, Idle) /\ UNCHANGED down
        BY <1>3, <3>4
      <4>2. \A th \in Threads : ~Fetches(th, f)'
        <5>1. ~Fetches(u, f)'
          BY <4>1, JobsMoved DEF Fetches, Downloading, DownloadPcs, Idle
        <5>2. \A th \in Threads : th # u => (Fetches(th, f)' <=> Fetches(th, f))
          BY <4>1, JobsMoved DEF Fetches, Downloading, Name
        <5> QED BY <3>2, <5>1, <5>2
      <4>3. L % B = 0
        BY <3>1, <3>2, <3>3, <3>4, Remainders
      <4> QED BY <3>1, <4>1, <4>2, <4>3 DEF CopyOK, On
    <3>5. CASE mine
      <4>1. Become(u, j) /\ down' = [down EXCEPT ![g] = Append(@, a.of)] /\ a.of = <<f, i>> /\ i < B
        BY <1>3, <3>3, <3>5
      <4>2. down'[f] = Append(down[f], <<f, i>>)
        BY <1>5, <2>3, <4>1
      <4>3. /\ down[f] \in Seq(On(down[f]))
            /\ DOMAIN down[f] = 1 .. L /\ DOMAIN down'[f] = 1 .. L + 1 /\ Len(down'[f]) = L + 1
            /\ down'[f][L + 1] = <<f, i>> /\ \A n \in 1 .. L : down'[f][n] = down[f][n]
        BY <3>1, <4>2 DEF CopyOK
      <4>4. L % B = i
        BY <3>1, <3>2, <4>1, Remainders
      <4>5. \A n \in DOMAIN down'[f] : down'[f][n] = <<f, (n - 1) % B>>
        <5> SUFFICES ASSUME NEW n \in 1 .. L + 1 PROVE down'[f][n] = <<f, (n - 1) % B>>
          BY <4>3
        <5>1. CASE n = L + 1
          <6>1. n - 1 = L
            BY <3>2, <5>1
          <6> QED BY <4>3, <4>4, <5>1, <6>1
        <5>2. CASE n # L + 1
          <6>1. n \in 1 .. L
            BY <3>2, <5>2
          <6>2. n \in DOMAIN down[f] /\ down'[f][n] = down[f][n]
            BY <4>3, <6>1
          <6> QED BY <3>2, <6>2
        <5> QED BY <5>1, <5>2
      <4>6. job'[u] = j /\ \A th \in Threads : th # u => job'[th] = job[th]
        BY <4>1, JobsMoved
      <4>7. \A th \in Threads : Fetches(th, f)' => th = u
        BY <3>2, <4>6 DEF Fetches, Downloading, Name
      <4>8. Fetches(u, f)'
        BY <1>4, <2>3, <4>6 DEF Fetches, Downloading, DownloadPcs, Name, Shows
      <4>9. FetchOK(u, f)'
        <5>1. (L + 1) - (i + 1) = L - i /\ i + 1 \in 0 .. B
          <6>1. \A x \in Nat, y \in 0 .. B : y < B => (x + 1) - (y + 1) = x - y /\ y + 1 \in 0 .. B
            BY <3>1
          <6> HIDE DEF i, L, B
          <6> QED BY <3>2, <4>1, <6>1
        <5>2. job'[u].idx = i + 1 /\ job'[u].flag = job[u].flag /\ job'[u].key = job[u].key
              /\ job'[u].pc = "fetch"
          BY <1>4, <4>6 DEF Shows
        <5> HIDE DEF i, L
        <5>3. BlocksTrue(u)'
          BY <5>2 DEF BlocksTrue, At
        <5>4. (Len(down'[f]) - job'[u].idx) % B = 0
          BY <3>2, <4>3, <5>1, <5>2
        <5> QED BY <1>1, <3>2, <5>1, <5>2, <5>3, <5>4 DEF FetchOK, Recorded
      <4>10. down'[f] \in Seq(On(down'[f]))
        BY <4>2, <4>3, Appended
      <4> QED BY <4>5, <4>7, <4>8, <4>9, <4>10 DEF CopyOK
    <3> QED BY <1>7, <3>4, <3>5
  <2> QED BY <1>1, <2>1, <2>2, <2>3 DEF CopyInv
<1> QED BY <1>6, <1>7

\* A step of the channel or the server.
LEMMA CopyChannel ==
  ASSUME CopyInv, UNCHANGED <<job, down, recs, mixed, cut, torn>>,
         \A f \in Files \ (mixed \cup cut \cup torn) : \A th \in Threads :
           Fetches(th, f) /\ FetchOK(th, f) => BlocksTrue(th)'
  PROVE  CopyInv'
<1>1. ASSUME NEW f \in Files \ (mixed \cup cut \cup torn) PROVE CopyOK(f)'
  <2>1. CopyOK(f)
    BY <1>1 DEF CopyInv
  <2>2. \A th \in Threads : Fetches(th, f)' <=> Fetches(th, f)
    BY DEF Fetches, Downloading, Name
  <2>3. \A th \in Threads : Fetches(th, f) => BlocksTrue(th)'
    BY <1>1, <2>1 DEF CopyOK
  <2> QED BY <2>1, <2>2, <2>3, CopyStays
<1> QED BY <1>1 DEF CopyInv

LEMMA OneRow ==
  ASSUME NEW f, NEW i \in 0 .. Blocks[f], InOrder(f), NEW S, rows[f] \in Seq(S), Len(rows[f]) = Blocks[f],
         Blocks[f] \in Nat
  PROVE  /\ i = Blocks[f] => RowsAt(f, i) = {} /\ Cardinality(RowsAt(f, i)) = 0
         /\ i < Blocks[f] => /\ RowsAt(f, i) = {i + 1} /\ Cardinality(RowsAt(f, i)) = 1
                             /\ rows[f][i + 1] = Row(f, i, f)
<1>1. DOMAIN rows[f] = 1 .. Blocks[f]
  OBVIOUS
<1>2. \A n \in 1 .. Blocks[f] : rows[f][n] = Row(f, n - 1, f) /\ rows[f][n].idx = n - 1
  <2>1. \A n \in 1 .. Blocks[f] : rows[f][n] = Row(f, n - 1, f)
    BY <1>1 DEF InOrder
  <2>2. \A x : Row(f, x, f).idx = x
    BY DEF Row
  <2> QED BY <2>1, <2>2
<1>3. RowsAt(f, i) = {n \in 1 .. Blocks[f] : n - 1 = i}
  BY <1>1, <1>2 DEF RowsAt
<1>4. CASE i = Blocks[f]
  <2>1. RowsAt(f, i) = {}
    BY <1>3, <1>4
  <2> QED BY <1>4, <2>1, FS_EmptySet
<1>5. CASE i < Blocks[f]
  <2>1. RowsAt(f, i) = {i + 1} /\ i + 1 \in 1 .. Blocks[f] /\ (i + 1) - 1 = i
    BY <1>3, <1>5
  <2>2. Cardinality({i + 1}) = 1
    BY FS_Singleton
  <2>3. rows[f][i + 1] = Row(f, i, f)
    <3>1. \A n \in 1 .. Blocks[f] : \A k : n - 1 = k => rows[f][n] = Row(f, k, f)
      BY <1>2
    <3> QED BY <2>1, <3>1
  <2> QED BY <1>5, <2>1, <2>2, <2>3
<1> QED BY <1>4, <1>5

\* A file that is recorded is given block by block.
LEMMA GiveCopy ==
  ASSUME Inv, MatchInv, WholeInv, CopyInv, Serve
  PROVE  CopyInv'
<1> SUFFICES ASSUME NEW f \in Files \ (mixed \cup cut \cup torn), NEW th \in Threads,
                    Fetches(th, f), FetchOK(th, f), At(th, "fetching")
             PROVE  BlocksTrue(th)'
  <2>1. UNCHANGED <<job, down, recs, mixed, cut, torn>>
    BY DEF Serve, ghost
  <2>2. \A th \in Threads : ~At(th, "fetching") => BlocksTrue(th)'
    BY <2>1 DEF BlocksTrue, At
  <2> QED BY <2>1, <2>2, CopyChannel
<1>1. PICK m : m = Head(sent)
  OBVIOUS
<1>2. /\ sent # <<>> /\ UNCHANGED <<job, call>> /\ (Unanswered \/ \E ans : Replied(m, ans))
      /\ m.code = 900 => Give(m)
  BY <1>1, Served DEF Serve, Unanswered, Replied
<1>3. back \in Seq(On(back)) /\ m \in On(sent) /\ Name(th) = f
  BY <1>1, <1>2, Removed DEF Inv, CallInv, Fetches
<1>4. \A a : BlockTold(th, a) => BlockTold(th, a)'
  BY <1>2 DEF BlockTold, At, Name
<1>5. BlocksTrue(th)
  BY DEF FetchOK
<1>6. CASE back' = back
  BY <1>2, <1>4, <1>5, <1>6 DEF BlocksTrue
<1>7. ASSUME NEW ans, Replied(m, ans), back' # back, m.stamp = call[th].stamp => BlockTold(th, ans)
      PROVE  BlocksTrue(th)'
  <2> DEFINE b == [by |-> m.by, stamp |-> m.stamp, code |-> m.code, ans |-> ans]
  <2>1. back' = Append(back, b) /\ b.stamp = m.stamp /\ b.ans = ans
    BY <1>7 DEF Replied, Reply
  <2> HIDE DEF b
  <2>2. On(back') = On(back) \cup {b}
    BY <1>3, <2>1, Appended
  <2> QED BY <1>2, <1>4, <1>5, <1>7, <2>1, <2>2 DEF BlocksTrue, At
<1>8. CASE m.stamp # call[th].stamp
  BY <1>2, <1>6, <1>7, <1>8 DEF Unanswered
<1>9. CASE m.stamp = call[th].stamp
  <2> DEFINE i == job[th].idx
  <2>1. OwnCall(th)
    <3>1. Calling(th)
      BY DEF At, Calling, WaitPcs
    <3> QED BY <1>3, <3>1 DEF MatchInv
  <2>2. m.code = 900 /\ m.arg = [flag |-> job[th].flag, idx |-> i]
    BY <1>3, <1>9, <2>1 DEF OwnCall, CodeOf, ArgOf, At
  <2>3. m.arg.flag = f /\ m.arg.idx = i /\ i \in 0 .. Blocks[f] /\ Blocks[f] \in Nat
    BY <2>2, BlockNumbers DEF FetchOK
  <2>4. /\ rows[f] \in Seq({Row(f, k, f) : k \in Nat}) /\ InOrder(f) /\ Len(rows[f]) = Blocks[f]
    BY DEF FetchOK, WholeInv, FileOK, Over
  <2>5. /\ i = Blocks[f] => RowsAt(f, i) = {} /\ Cardinality(RowsAt(f, i)) = 0
        /\ i < Blocks[f] => /\ RowsAt(f, i) = {i + 1} /\ Cardinality(RowsAt(f, i)) = 1
                            /\ rows[f][i + 1] = Row(f, i, f)
    BY <2>3, <2>4, OneRow
  <2>6. i = Blocks[f] \/ i < Blocks[f]
    BY <2>3
  <2> HIDE DEF i
  <2>7. \/ RowsAt(f, i) = {} /\ Replied(m, [code |-> 909])
        \/ Cardinality(RowsAt(f, i)) > 1 /\ Unanswered
        \/ /\ Cardinality(RowsAt(f, i)) = 1
           /\ \E n \in RowsAt(f, i) : Replied(m, [code |-> 901, of |-> rows[f][n].of, key |-> rows[f][n].key])
    BY <1>2, <2>2, <2>3 DEF Give
  <2>8. CASE i = Blocks[f]
    <3>1. Replied(m, [code |-> 909])
      BY <2>5, <2>7, <2>8
    <3>2. BlockTold(th, [code |-> 909])
      BY <1>3, <2>8 DEF BlockTold, i
    <3> QED BY <1>6, <1>7, <3>1, <3>2
  <2>9. CASE i < Blocks[f]
    <3>1. PICK of, key : of = rows[f][i + 1].of /\ key = rows[f][i + 1].key
      OBVIOUS
    <3>2. of = <<f, i>> /\ key = f
      BY <2>5, <2>9, <3>1 DEF Row
    <3>3. Replied(m, [code |-> 901, of |-> of, key |-> key])
      <4>1. RowsAt(f, i) # {} /\ ~(Cardinality(RowsAt(f, i)) > 1)
        BY <2>5, <2>9
      <4>2. PICK n \in RowsAt(f, i) : Replied(m, [code |-> 901, of |-> rows[f][n].of, key |-> rows[f][n].key])
        BY <2>7, <4>1
      <4>3. n = i + 1
        BY <2>5, <2>9, <4>2
      <4> QED BY <3>1, <4>2, <4>3
    <3>4. BlockTold(th, [code |-> 901, of |-> of, key |-> key])
      BY <1>3, <2>9, <3>2 DEF BlockTold, i
    <3> QED BY <1>6, <1>7, <3>3, <3>4
  <2> QED BY <2>6, <2>8, <2>9
<1> QED BY <1>8, <1>9

LEMMA ChannelCopy ==
  ASSUME Inv, CopyInv, (\E u \in Threads : Write(u)) \/ EventLoop \/ Lost
  PROVE  CopyInv'
<1> SUFFICES ASSUME NEW f \in Files \ (mixed \cup cut \cup torn), NEW th \in Threads,
                    Fetches(th, f), FetchOK(th, f)
             PROVE  BlocksTrue(th)'
  <2>1. UNCHANGED <<job, down, recs, mixed, cut, torn>>
    BY DEF Write, EventLoop, Lost, ghost
  <2> QED BY <2>1, CopyChannel
<1>1. job' = job /\ BlocksTrue(th)
  BY DEF Write, EventLoop, Lost, FetchOK
<1>2. \A a : BlockTold(th, a) => BlockTold(th, a)'
  BY <1>1 DEF BlockTold, At, Name
<1>3. CASE EventLoop
  BY <1>1, <1>2, <1>3, Handed DEF BlocksTrue, At
<1>4. CASE Lost
  BY <1>1, <1>2, <1>4 DEF Lost, Close, BlocksTrue, At, On
<1>5. ASSUME NEW u \in Threads, Write(u) PROVE BlocksTrue(th)'
  <2>1. back' = back /\ call' = [call EXCEPT ![u].pc = "sent"]
    BY <1>5 DEF Write, WriteOut
  <2>2. call'[th].stamp = call[th].stamp /\ call'[th].ans = call[th].ans
    BY <2>1 DEF Inv, CallInv, CallOK
  <2> QED BY <1>1, <1>2, <2>1, <2>2 DEF BlocksTrue, At, On
<1> QED BY <1>3, <1>4, <1>5

LEMMA CopyStep ==
  ASSUME Inv, MixInv, MatchInv, WholeInv, CopyInv, MatchInv', [Next]_vars
  PROVE  CopyInv'
<1>1. CASE UNCHANGED vars
  <2>1. UNCHANGED <<job, call, back, down, recs, mixed, cut, torn>>
    BY <1>1 DEF vars, callVars, wire, ghost
  <2>2. \A th \in Threads : BlocksTrue(th) => BlocksTrue(th)'
    BY <2>1, BlocksOther
  <2> QED BY <2>1, <2>2, CopyChannel DEF FetchOK
<1>2. ASSUME NEW u \in Threads, GiveUp(u) \/ GiveUpLate(u), Downloading(u) PROVE CopyInv'
  <2>1. /\ Become(u, Idle) /\ torn' = torn \cup {Name(u)} /\ UNCHANGED <<down, recs, mixed, cut>>
    BY <1>2 DEF GiveUp, GiveUpLate, Fail, Name
  <2>2. back' = back /\ \A th \in Threads : th # u => call'[th] = call[th]
    BY <1>2 DEF GiveUp, GiveUpLate, Expire, wire, Inv, CallInv
  <2> QED BY <2>1, <2>2, FailCopy
<1>3. ASSUME NEW u \in Threads, Step(u) \/ GiveUpLate(u) \/ LoopException(u) \/ StartUpload(u)
      PROVE  CopyInv'
  <2>1. CASE Write(u) \/ Fetch(u) \/ GotBlock(u)
    BY <2>1, ChannelCopy, FetchCopy, GotCopy
  <2>2. CASE Downloading(u) /\ ~(Write(u) \/ Fetch(u) \/ GotBlock(u))
    <3>1. CASE GiveUp(u) \/ GiveUpLate(u)
      BY <1>2, <2>2, <3>1
    <3> QED BY <1>3, <2>2, <3>1 DEF Step, Downloading, DownloadPcs, At, StartUpload, SetKey, SetFlag, IsExist,
               GotExist, Encrypt, PostBlock, LoopException, SendMeta, Verify, ListTooShort, GotProof, GotMeta
  <2>3. CASE ~Downloading(u) /\ ~(Write(u) \/ Fetch(u) \/ GotBlock(u))
    BY <1>3, <2>3, UploadCopy DEF Step
  <2> QED BY <2>1, <2>2, <2>3
<1> QED BY <1>1, <1>3, StartCopy, GiveCopy, ChannelCopy DEF Next

LEMMA CopyAtFirst ==
  ASSUME Init
  PROVE  CopyInv
<1>1. down = [f \in Files |-> <<>>] /\ job = [th \in Threads |-> Idle]
  BY DEF Init
<1>2. \A th \in Threads : \A f : ~Fetches(th, f)
  BY <1>1 DEF Fetches, Downloading, DownloadPcs, Idle
<1>3. ASSUME NEW f \in Files PROVE CopyOK(f)
  <2>1. down[f] = <<>> /\ <<>> \in Seq(On(<<>>)) /\ DOMAIN <<>> = {} /\ Len(<<>>) = 0
    BY <1>1
  <2>2. 0 % Blocks[f] = 0
    BY ClientAssumption, Remainders
  <2> QED BY <1>2, <2>1, <2>2 DEF CopyOK
<1> QED BY <1>1, <1>3 DEF CopyInv

----------------------------------------------------------------------------
(* Theorems *)

\* Whatever is lost, late, stamped alike or never answered, a call of NettyClientService ends
\* with null or with the answer to a request of its stamp, and each request is answered once.
THEOREM ClientImplementsCalls == Spec => OnCalls
<1>1. Init => Inv /\ Abstract!Init
  BY AtFirst
<1>2. Inv /\ [Next]_vars => Inv' /\ [Abstract!Next]_(Abstract!vars)
  BY EveryStep
<1> QED BY <1>1, <1>2, PTL DEF Spec, OnCalls, Abstract!Spec

\* With no two calls in one millisecond, every thread gets the answers to its own requests.
THEOREM ClientOwnAnswer ==
  Spec /\ [][Abstract!NewStamps]_(Abstract!vars) => []Abstract!OwnAnswer
BY ClientImplementsCalls, Abstract!StampsSuffice, PTL DEF OnCalls

\* What the client has recorded of an upload that overlapped no other and whose calls had
\* their milliseconds to themselves, the server has: every block once, in order, under the
\* flag and the key of the record; and all of them, unless there was an exception in the
\* loop over the blocks.
THEOREM ClientRecordedWhole == Spec => []RecordedWhole
<1>1. Init => Inv /\ MixInv /\ MatchInv /\ WholeInv
  BY AtFirst, WholeAtFirst
<1>2. /\ Inv /\ MixInv /\ MatchInv /\ WholeInv /\ [Next]_vars
      => (Inv /\ MixInv /\ MatchInv /\ WholeInv)'
  BY EveryStep, MixStep, MatchStep, WholeStep
<1>3. WholeInv => RecordedWhole
  <2> SUFFICES ASSUME WholeInv, NEW r \in recs, r.name \notin mixed
               PROVE  /\ r.flag = r.name /\ r.key = r.name /\ InOrder(r.name)
                      /\ r.name \notin cut => Len(rows[r.name]) = Blocks[r.name]
    BY DEF RecordedWhole
  <2>1. r.name \in Recorded /\ r.name \in Files
    BY DEF Recorded, WholeInv
  <2>2. FileOK(r.name)
    BY <2>1 DEF WholeInv
  <2> QED BY <2>1, <2>2 DEF FileOK, Over
<1> QED BY <1>1, <1>2, <1>3, PTL DEF Spec

\* What is under download of such a file consists of whole copies, and of as much of another
\* as the download under way has brought.
THEOREM ClientWholeCopies == Spec => []WholeCopies
<1>1. Init => Inv /\ MixInv /\ MatchInv /\ WholeInv /\ CopyInv
  BY AtFirst, WholeAtFirst, CopyAtFirst
<1>2. /\ Inv /\ MixInv /\ MatchInv /\ WholeInv /\ CopyInv /\ [Next]_vars
      => (Inv /\ MixInv /\ MatchInv /\ WholeInv /\ CopyInv)'
  BY EveryStep, MixStep, MatchStep, WholeStep, CopyStep
<1>3. CopyInv => WholeCopies
  <2> SUFFICES ASSUME CopyInv, NEW f \in Files \ (mixed \cup cut \cup torn)
               PROVE  LET got == {job[th].idx : th \in {u \in Threads : Downloading(u) /\ job[u].name = f}} IN
                        /\ \A n \in DOMAIN down[f] : down[f][n] = <<f, (n - 1) % Blocks[f]>>
                        /\ IF got = {} THEN Len(down[f]) % Blocks[f] = 0
                           ELSE \A k \in got : (Len(down[f]) - k) % Blocks[f] = 0 /\ k <= Blocks[f]
    BY DEF WholeCopies
  <2> DEFINE got == {job[th].idx : th \in {u \in Threads : Downloading(u) /\ job[u].name = f}}
  <2>1. CopyOK(f) /\ Blocks[f] \in Nat
    BY BlockNumbers DEF CopyInv
  <2>2. \A k \in got : (Len(down[f]) - k) % Blocks[f] = 0 /\ k <= Blocks[f]
    <3> SUFFICES ASSUME NEW th \in Threads, Fetches(th, f)
                 PROVE  (Len(down[f]) - job[th].idx) % Blocks[f] = 0 /\ job[th].idx <= Blocks[f]
      BY DEF Fetches, Name
    <3> QED BY <2>1 DEF CopyOK, FetchOK
  <2>3. got = {} => \A th \in Threads : ~Fetches(th, f)
    BY DEF Fetches, Name
  <2> QED BY <2>1, <2>2, <2>3 DEF CopyOK
<1> QED BY <1>1, <1>2, <1>3, PTL DEF Spec
=============================================================================
