------------------------------- MODULE Calls -------------------------------
(***************************************************************************)
(* What a thread of the client may rely on when it sends a request and     *)
(* waits for its answer: a network that loses and reorders, where a call   *)
(* is matched with an answer by the stamp of its request and by nothing    *)
(* else.  SyncCall implements this specification.                          *)
(***************************************************************************)
EXTENDS Integers, TLAPS

CONSTANTS Threads, Stamps, Codes, Nobody

VARIABLES
  open,   \* open[th]: the stamp of the call that th waits in, in a set, or {}
  from,   \* from[th]: whose request the answer is to that th has got, Nobody for null
  flight  \* flight[m]: how many requests m, [by, stamp, code], are under way and not answered

vars == <<open, from, flight>>

Requests == [by : Threads, stamp : Stamps, code : Codes]
UnderWay == {m \in Requests : flight[m] > 0}

Init ==
  /\ open = [th \in Threads |-> {}]
  /\ from = [th \in Threads |-> Nobody]
  /\ flight = [m \in Requests |-> 0]

Ask(th, s, code) ==
  /\ open[th] = {}
  /\ open' = [open EXCEPT ![th] = {s}]
  /\ from' = [from EXCEPT ![th] = Nobody]
  /\ flight' = [flight EXCEPT ![[by |-> th, stamp |-> s, code |-> code]] = @ + 1]

\* The answer to a request ends one call at most, and one with the stamp of the request.
Answer(th, m) ==
  /\ m \in UnderWay /\ m.stamp \in open[th]
  /\ open' = [open EXCEPT ![th] = {}]
  /\ from' = [from EXCEPT ![th] = m.by]
  /\ flight' = [flight EXCEPT ![m] = @ - 1]

\* null.
GiveUp(th) ==
  /\ open[th] # {}
  /\ open' = [open EXCEPT ![th] = {}]
  /\ UNCHANGED <<from, flight>>

Take(th) ==
  /\ from' = [from EXCEPT ![th] = Nobody]
  /\ UNCHANGED <<open, flight>>

Lose ==
  /\ flight' \in [Requests -> Nat] /\ \A m \in Requests : flight'[m] <= flight[m]
  /\ UNCHANGED <<open, from>>

Next ==
  \/ \E th \in Threads :
       \/ \E s \in Stamps, code \in Codes : Ask(th, s, code)
       \/ \E m \in UnderWay : Answer(th, m)
       \/ GiveUp(th) \/ Take(th)
  \/ Lose

Spec == Init /\ [][Next]_vars

----------------------------------------------------------------------------
\* Who gets an answer gets the answer to its own request.
OwnAnswer == \A th \in Threads : from[th] \in {th, Nobody}

\* A stamp that no request under way and no waiting call has.
Unused(s) == (\A m \in UnderWay : m.stamp # s) /\ \A th \in Threads : s \notin open[th]

\* No request takes a stamp in use.
NewStamps == \A th \in Threads, s \in Stamps, code \in Codes : Ask(th, s, code) => Unused(s)

\* What unused stamps make sure of: a stamp is of one request, and of its call.
Matched ==
  /\ open \in [Threads -> {{}} \cup {{s} : s \in Stamps}]
  /\ from \in [Threads -> Threads \cup {Nobody}]
  /\ flight \in [Requests -> 0 .. 1]
  /\ \A m, n \in UnderWay : m.stamp = n.stamp => m = n
  /\ \A th \in Threads, m \in UnderWay : m.stamp \in open[th] => m.by = th
  /\ \A th, u \in Threads : \A s \in open[th] : s \in open[u] => u = th
  /\ OwnAnswer

LEMMA MatchedNext ==
  ASSUME Matched, [Next]_vars, NewStamps
  PROVE  Matched'
<1>1. ASSUME NEW th \in Threads, NEW s \in Stamps, NEW code \in Codes, Ask(th, s, code)
      PROVE Matched'
  <2> DEFINE r == [by |-> th, stamp |-> s, code |-> code]
  <2>1. Unused(s)
    BY <1>1 DEF NewStamps
  <2>2. r \in Requests /\ r.stamp = s /\ r.by = th
    BY DEF Requests
  <2>3. flight[r] = 0
    BY <2>1, <2>2 DEF Unused, UnderWay, Matched
  <2>4. flight' \in [Requests -> 0 .. 1] /\ UnderWay' = UnderWay \cup {r}
    BY <1>1, <2>2, <2>3 DEF Ask, Matched, UnderWay
  <2> HIDE DEF r
  <2>5. /\ open' \in [Threads -> {{}} \cup {{x} : x \in Stamps}]
        /\ \A u \in Threads : open'[u] = IF u = th THEN {s} ELSE open[u]
    BY <1>1 DEF Ask, Matched
  <2>6. from' \in [Threads -> Threads \cup {Nobody}] /\ OwnAnswer'
    BY <1>1 DEF Ask, Matched, OwnAnswer
  <2>7. \A m, n \in UnderWay' : m.stamp = n.stamp => m = n
    BY <2>1, <2>2, <2>4 DEF Matched, Unused
  <2>8. \A u \in Threads, m \in UnderWay' : m.stamp \in open'[u] => m.by = u
    BY <2>1, <2>2, <2>4, <2>5 DEF Matched, Unused
  <2>9. \A u, v \in Threads : \A x \in open'[u] : x \in open'[v] => v = u
    BY <2>1, <2>5 DEF Matched, Unused
  <2> QED BY <2>4, <2>5, <2>6, <2>7, <2>8, <2>9 DEF Matched
<1>2. ASSUME NEW th \in Threads, NEW m \in UnderWay, Answer(th, m) PROVE Matched'
  <2>1. flight' \in [Requests -> 0 .. 1] /\ UnderWay' \subseteq UnderWay
    BY <1>2 DEF Answer, Matched, UnderWay
  <2> QED BY <1>2, <2>1 DEF Matched, OwnAnswer, Answer
<1>3. ASSUME NEW th \in Threads, GiveUp(th) \/ Take(th) PROVE Matched'
  BY <1>3 DEF Matched, OwnAnswer, UnderWay, GiveUp, Take
<1>4. CASE Lose
  <2>1. flight' \in [Requests -> 0 .. 1] /\ UnderWay' \subseteq UnderWay
    BY <1>4 DEF Lose, Matched, UnderWay
  <2> QED BY <1>4, <2>1 DEF Matched, OwnAnswer, Lose
<1>5. CASE UNCHANGED vars
  BY <1>5 DEF Matched, OwnAnswer, UnderWay, vars
<1> QED BY <1>1, <1>2, <1>3, <1>4, <1>5 DEF Next

\* With no two requests in one millisecond every answer goes to the thread that asked for
\* it, whatever is lost, comes late or out of order.
THEOREM StampsSuffice ==
  Spec /\ [][NewStamps]_vars => []OwnAnswer
<1>1. Init => Matched
  BY DEF Init, Matched, OwnAnswer, UnderWay
<1>2. Matched /\ [Next]_vars
        /\ [NewStamps]_vars => Matched'
  <2>1. Matched /\ UNCHANGED vars => Matched'
    BY DEF Matched, OwnAnswer, UnderWay, vars
  <2> QED BY <2>1, MatchedNext
<1>3. Matched => OwnAnswer
  BY DEF Matched
<1> QED BY <1>1, <1>2, <1>3, PTL DEF Spec
=============================================================================
