------------------------- MODULE PrivateFollowProofs -------------------------
(* Proofs about PrivateFollow, for any number of feeds, requests, attempts   *)
(* and starts. HandedWithUrl is not inductive: that a claim in flight finds  *)
(* its URL rests on nobody ending the request meanwhile, which rests on      *)
(* which claims may still report on it (ClaimsBehind, InFlight).             *)
EXTENDS PrivateFollow, TLAPS

States == OpenStates \union EndedStates \union {"absent"}
Job == [feed : Feeds \union {"none"}, state : States, attempts : Nat, cancel : BOOLEAN,
        lapsed : BOOLEAN, acked : BOOLEAN, asked : Nat]

Shapes ==
    /\ jobs \in [Ids -> Job] /\ nextID \in Nat \ {0}
    /\ urls \subseteq Ids /\ ending \subseteq Ids
    /\ flow \in [op : {"none", "store", "look", "claim"}, id : Nat, attempt : Nat]
    /\ flow.op = "none" <=> flow = NoFlow
    /\ flow # NoFlow => flow.id \in Ids
    /\ claims \subseteq [id : Ids, attempt : Nat \ {0}, url : BOOLEAN]
    /\ pruning \in BOOLEAN /\ up \in BOOLEAN /\ boots \in Nat \ {0}

\* An id that is yet to be given out is nowhere.
IdsUnused ==
    /\ \A i \in Ids : i >= nextID => jobs[i].state = "absent"
    /\ \A i \in urls \union ending : i < nextID
    /\ \A c \in claims : c.id < nextID
    /\ flow.id < nextID

\* What is to be reported as ended is not open.
EndingEnded == \A i \in ending : ~Open(jobs[i])

\* A server that is down holds nothing in memory.
DownEmpty == ~up => urls = {} /\ flow = NoFlow /\ ending = {}

\* No claim is ahead of its job.
ClaimsBehind ==
    \A c \in claims : jobs[c.id].state # "absent" => c.attempt <= jobs[c.id].attempts

\* The claim being answered holds its URL, and no other claim can end its job.
InFlight ==
    flow.op = "claim" =>
        /\ flow.attempt > 0 /\ flow.id \in urls /\ flow.id \notin ending
        /\ jobs[flow.id].state # "absent" =>
              /\ jobs[flow.id].state = "claimed" /\ ~jobs[flow.id].lapsed
              /\ jobs[flow.id].attempts = flow.attempt
              /\ \A c \in claims : c.id = flow.id => c.attempt < flow.attempt

\* An open request made to this run of the server has its URL, or is about to.
AskedHeld ==
    \A i \in Ids :
        /\ jobs[i].asked <= boots
        /\ up /\ Open(jobs[i]) /\ jobs[i].asked = boots =>
              i \in urls \/ (flow.op = "store" /\ flow.id = i)

IInv == /\ Shapes /\ IdsUnused /\ EndingEnded /\ DownEmpty /\ ClaimsBehind
        /\ InFlight /\ AskedHeld /\ HandedWithUrl /\ SecretEndsWithRequest

LEMMA InitInv == Init => IInv
<1> SUFFICES ASSUME Init PROVE IInv
  OBVIOUS
<1>1. Absent \in Job /\ Absent.state = "absent" /\ Absent.asked = 0
  BY DEF Absent, Job, States
<1>2. /\ NoFlow.op = "none" /\ NoFlow.id = 0 /\ NoFlow.attempt = 0
      /\ NoFlow \in [op : {"none", "store", "look", "claim"}, id : Nat, attempt : Nat]
  BY DEF NoFlow
<1>3. \A i \in Ids : jobs[i] = Absent
  BY DEF Init
<1>4. Shapes
  <2>1. jobs \in [Ids -> Job]
    BY <1>1 DEF Init
  <2>2. pruning \in BOOLEAN /\ up \in BOOLEAN
    BY DEF Init
  <2>3. flow = NoFlow /\ nextID = 1 /\ boots = 1 /\ urls = {} /\ ending = {} /\ claims = {}
    BY DEF Init
  <2> QED
    BY <1>2, <2>1, <2>2, <2>3 DEF Shapes
<1>5. IdsUnused /\ EndingEnded /\ DownEmpty /\ ClaimsBehind /\ InFlight
  BY <1>1, <1>2, <1>3 DEF Init, IdsUnused, EndingEnded, DownEmpty, ClaimsBehind, InFlight
<1>6. AskedHeld /\ HandedWithUrl /\ SecretEndsWithRequest
  BY <1>1, <1>3 DEF Init, AskedHeld, Open, OpenStates, HandedWithUrl, SecretEndsWithRequest
<1> QED
  BY <1>4, <1>5, <1>6 DEF IInv

-----------------------------------------------------------------------------
(* Rows.                                                                    *)

SameRequest(j, k) == k.attempts = j.attempts /\ k.asked = j.asked

\* What a transaction makes of a row that it neither queues nor claims.
RowStep(j, k) ==
    /\ k \in Job /\ SameRequest(j, k)
    /\ ~Open(j) => k = j
    /\ Open(j) => k.state # "absent"

\* A job that has just been claimed is left to its Bridge.
Leased(j) == j.state = "claimed" /\ ~j.lapsed

\* A transaction's statements follow one another on a row.
LEMMA RowStepTwice ==
  ASSUME NEW j \in Job, NEW k, NEW l, RowStep(j, k), RowStep(k, l)
  PROVE  RowStep(j, l)
BY DEF RowStep, SameRequest

\* A row whose state is set.
LEMMA MarkedRow ==
  ASSUME NEW j \in Job, NEW st \in States
  PROVE  /\ [j EXCEPT !.state = st] \in Job
         /\ [j EXCEPT !.state = st].state = st
         /\ SameRequest(j, [j EXCEPT !.state = st])
BY DEF Job, SameRequest

\* A row whose lease is taken away.
LEMMA ReleasedRow ==
  ASSUME NEW j \in Job, NEW st \in States
  PROVE  /\ [j EXCEPT !.lapsed = FALSE, !.acked = FALSE, !.state = st] \in Job
         /\ [j EXCEPT !.lapsed = FALSE, !.acked = FALSE, !.state = st].state = st
         /\ SameRequest(j, [j EXCEPT !.lapsed = FALSE, !.acked = FALSE, !.state = st])
<1>1. [j EXCEPT !.lapsed = FALSE, !.acked = FALSE, !.state = st] \in Job
  BY DEF Job
<1>2. [j EXCEPT !.lapsed = FALSE, !.acked = FALSE, !.state = st].state = st
  BY DEF Job
<1>3. SameRequest(j, [j EXCEPT !.lapsed = FALSE, !.acked = FALSE, !.state = st])
  BY DEF Job, SameRequest
<1> QED
  BY <1>1, <1>2, <1>3

\* expireSQL: only a lapsed lease is touched, and none is "request_expired" by it.
LEMMA ExpireRowStep ==
  ASSUME NEW j \in Job
  PROVE  /\ RowStep(j, ExpireRow(j))
         /\ Leased(j) => ExpireRow(j) = j
         /\ ExpireRow(j).state = "expired" => j.state = "expired"
<1>1. CASE ~(j.state = "claimed" /\ j.lapsed)
  <2>1. ExpireRow(j) = j
    BY <1>1 DEF ExpireRow
  <2> QED
    BY <2>1 DEF RowStep, SameRequest, Open, OpenStates
<1>2. CASE j.state = "claimed" /\ j.lapsed
  <2>1. PICK st \in {"cancelled", "failed", "queued"} :
            ExpireRow(j) = [j EXCEPT !.lapsed = FALSE, !.acked = FALSE, !.state = st]
    BY <1>2 DEF ExpireRow
  <2>2. st \in States
    BY DEF States, OpenStates, EndedStates
  <2> QED
    BY <1>2, <2>1, <2>2, ReleasedRow DEF RowStep, Leased, Open, OpenStates
<1> QED
  BY <1>1, <1>2

LEMMA ExpiredRows ==
  ASSUME jobs \in [Ids -> Job]
  PROVE  /\ Expired \in [Ids -> Job]
         /\ \A i \in Ids : /\ RowStep(jobs[i], Expired[i])
                           /\ Leased(jobs[i]) => Expired[i] = jobs[i]
                           /\ Expired[i].state = "expired" => jobs[i].state = "expired"
<1>1. \A i \in Ids : Expired[i] = ExpireRow(jobs[i])
  BY DEF Expired
<1>2. \A i \in Ids : /\ RowStep(jobs[i], Expired[i])
                     /\ Leased(jobs[i]) => Expired[i] = jobs[i]
                     /\ Expired[i].state = "expired" => jobs[i].state = "expired"
  BY <1>1, ExpireRowStep
<1>3. Expired \in [Ids -> Job]
  BY <1>1, <1>2 DEF Expired, RowStep
<1> QED
  BY <1>2, <1>3

\* expirePrivateTx: only a queued request whose URL is not held.
LEMMA PrivateRows ==
  ASSUME NEW js \in [Ids -> Job]
  PROVE  /\ ExpirePrivate(js) \in [Ids -> Job]
         /\ \A i \in Ids :
               /\ RowStep(js[i], ExpirePrivate(js)[i])
               /\ js[i].state # "queued" \/ i \in urls => ExpirePrivate(js)[i] = js[i]
               /\ ExpirePrivate(js)[i].state = "queued" => i \in urls
<1>1. \A i \in Ids : ExpirePrivate(js)[i] =
          IF i \in Lost(js) THEN [js[i] EXCEPT !.state = "expired"] ELSE js[i]
  BY DEF ExpirePrivate
<1>2. ASSUME NEW i \in Ids
      PROVE  /\ RowStep(js[i], ExpirePrivate(js)[i])
             /\ js[i].state # "queued" \/ i \in urls => ExpirePrivate(js)[i] = js[i]
             /\ ExpirePrivate(js)[i].state = "queued" => i \in urls
  <2>1. CASE i \notin Lost(js)
    <3>1. ExpirePrivate(js)[i] = js[i]
      BY <1>1, <2>1
    <3> QED
      BY <2>1, <3>1 DEF RowStep, SameRequest, Open, OpenStates, Lost
  <2>2. CASE i \in Lost(js)
    <3>1. ExpirePrivate(js)[i] = [js[i] EXCEPT !.state = "expired"] /\ js[i] \in Job
      BY <1>1, <2>2
    <3>2. "expired" \in States
      BY DEF States, EndedStates
    <3> QED
      BY <2>2, <3>1, <3>2, MarkedRow DEF RowStep, Open, OpenStates, Lost
  <2> QED
    BY <2>1, <2>2
<1>3. ExpirePrivate(js) \in [Ids -> Job]
  BY <1>2 DEF ExpirePrivate, RowStep
<1> QED
  BY <1>2, <1>3

-----------------------------------------------------------------------------
(* Transactions.                                                            *)

\* What a commit ends is to be reported: no row leaves the open states
\* unnoticed, and none enters them but the one being queued.
LEMMA CommitEnds ==
  ASSUME IInv, NEW new \in [Ids -> Job], Commit(new),
         \A i \in Ids : /\ Open(jobs[i]) => new[i].state # "absent"
                        /\ ~Open(jobs[i]) /\ i # nextID => ~Open(new[i]),
         UNCHANGED <<urls, pruning>>,
         flow' = flow \/ flow.op # "look"
  PROVE  /\ ending' \subseteq Ids /\ EndingEnded' /\ SecretEndsWithRequest'
         /\ \A i \in ending' : i \in ending \/ (Open(jobs[i]) /\ Ended(new[i]))
<1>1. /\ jobs' = new /\ urls' = urls /\ pruning' = pruning
      /\ ending' = ending \union {i \in Ids : Open(jobs[i]) /\ Ended(new[i])}
  BY DEF Commit
<1>2. \A i \in Ids : Open(new[i]) \/ Ended(new[i]) \/ new[i].state = "absent"
  BY DEF Job, States, Open, Ended
<1>3. \A i \in Ids : ~(Open(new[i]) /\ Ended(new[i]))
  BY DEF Open, Ended, OpenStates, EndedStates
<1>4. ending' \subseteq Ids
  BY <1>1 DEF IInv, Shapes
<1>5. EndingEnded'
  <2>1. ASSUME NEW i \in ending PROVE ~Open(new[i])
    <3>1. i \in Ids /\ i # nextID /\ ~Open(jobs[i])
      BY DEF IInv, Shapes, IdsUnused, EndingEnded
    <3> QED
      BY <3>1
  <2> QED
    BY <1>1, <1>3, <2>1 DEF EndingEnded
<1>6. SecretEndsWithRequest'
  <2> SUFFICES ASSUME NEW i \in urls, ~Open(new[i]), i \notin ending', ~pruning
               PROVE  flow'.op = "look" /\ flow'.id = i
    BY <1>1 DEF SecretEndsWithRequest
  <2>1. i \in Ids
    BY DEF IInv, Shapes
  <2>2. ~Open(jobs[i]) /\ i \notin ending
    BY <1>1, <1>2, <2>1
  <2> QED
    BY <2>2 DEF IInv, SecretEndsWithRequest
<1>7. \A i \in ending' : i \in ending \/ (Open(jobs[i]) /\ Ended(new[i]))
  BY <1>1
<1> QED
  BY <1>4, <1>5, <1>6, <1>7

\* A transaction that neither queues nor claims nor releases.
LEMMA CommitInv ==
  ASSUME IInv, up, NEW new \in [Ids -> Job], Commit(new),
         \A i \in Ids : RowStep(jobs[i], new[i]),
         flow.op = "claim" /\ Leased(jobs[flow.id]) => Leased(new[flow.id]),
         UNCHANGED <<nextID, urls, flow, pruning, claims, up, boots>>
  PROVE  IInv'
<1>1. jobs' = new
  BY DEF Commit
<1>2. /\ ending' \subseteq Ids /\ EndingEnded' /\ SecretEndsWithRequest'
      /\ \A i \in ending' : i \in ending \/ (Open(jobs[i]) /\ Ended(new[i]))
  BY CommitEnds DEF RowStep
<1>3. /\ \A i \in Ids : jobs[i].state = "absent" => new[i] = jobs[i]
      /\ \A i \in Ids : new[i].state = "absent" => jobs[i].state = "absent"
      /\ \A i \in Ids : new[i].asked = jobs[i].asked /\ new[i].attempts = jobs[i].attempts
      /\ \A i \in Ids : Open(new[i]) => Open(jobs[i])
  BY DEF RowStep, SameRequest, Open, OpenStates
<1>4. Shapes'
  BY <1>1, <1>2 DEF IInv, Shapes
<1>5. IdsUnused'
  <2>1. \A i \in Ids : Open(jobs[i]) => i < nextID
    BY DEF IInv, Shapes, IdsUnused, Open, OpenStates, Ids
  <2>2. \A i \in ending' : i < nextID
    BY <1>2, <2>1 DEF IInv, IdsUnused
  <2> QED
    BY <1>1, <1>3, <2>2 DEF IInv, IdsUnused
<1>6. DownEmpty' /\ HandedWithUrl'
  BY DEF IInv, DownEmpty, HandedWithUrl
<1>7. ClaimsBehind'
  <2>1. \A c \in claims : c.id \in Ids
    BY DEF IInv, Shapes
  <2> QED
    BY <1>1, <1>3, <2>1 DEF IInv, ClaimsBehind
<1>8. InFlight'
  <2> SUFFICES ASSUME flow.op = "claim" PROVE InFlight'
    BY DEF InFlight
  <2>1. flow.id \in Ids
    BY DEF IInv, Shapes, NoFlow
  <2>2. CASE jobs[flow.id].state = "absent"
    <3>1. flow.id \notin ending'
      BY <1>2, <2>2 DEF IInv, InFlight, Open, OpenStates
    <3> QED
      BY <1>1, <1>3, <2>1, <2>2, <3>1 DEF IInv, InFlight
  <2>3. CASE jobs[flow.id].state # "absent"
    <3>1. Leased(new[flow.id])
      BY <2>3 DEF IInv, InFlight, Leased
    <3>2. flow.id \notin ending'
      BY <1>2, <3>1 DEF IInv, InFlight, Leased, Ended, EndedStates
    <3> QED
      BY <1>1, <1>3, <2>1, <2>3, <3>1, <3>2 DEF IInv, InFlight, Leased
  <2> QED
    BY <2>2, <2>3
<1>9. AskedHeld'
  BY <1>1, <1>3 DEF IInv, AskedHeld
<1> QED
  BY <1>2, <1>4, <1>5, <1>6, <1>7, <1>8, <1>9 DEF IInv

\* expireDue, and the sweep's.
LEMMA ExpiryInv ==
  ASSUME IInv, up, Commit(Expired),
         UNCHANGED <<nextID, urls, flow, pruning, claims, up, boots>>
  PROVE  IInv'
<1>1. jobs \in [Ids -> Job]
  BY DEF IInv, Shapes
<1>2. flow.op = "claim" => flow.id \in Ids
  BY DEF IInv, Shapes, NoFlow
<1> QED
  BY <1>1, <1>2, ExpiredRows, CommitInv

\* A row that the Bridge reports on.
LEMMA ReportedRow ==
  ASSUME NEW js \in [Ids -> Job], NEW i \in Ids, NEW st \in States
  PROVE  LET new == [js EXCEPT ![i].state = st, ![i].acked = (st = "claimed"), ![i].lapsed = FALSE]
         IN  /\ new \in [Ids -> Job] /\ \A h \in Ids \ {i} : new[h] = js[h]
             /\ new[i].state = st /\ SameRequest(js[i], new[i])
<1> DEFINE new == [js EXCEPT ![i].state = st, ![i].acked = (st = "claimed"), ![i].lapsed = FALSE]
<1>1. new[i] \in Job
  BY DEF Job
<1>2. new[i].state = st
  BY DEF Job
<1>3. SameRequest(js[i], new[i])
  BY DEF Job, SameRequest
<1>4. \A h \in Ids \ {i} : new[h] = js[h]
  OBVIOUS
<1>5. new \in [Ids -> Job]
  BY <1>1, <1>4
<1> QED
  BY <1>2, <1>3, <1>4, <1>5

\* UpdateHeld: a report names the attempt that holds the job, which is never the
\* one being answered.
LEMMA UpdateHeldInv ==
  ASSUME IInv, NEW c \in claims, NEW st \in {"claimed", "parked", "done", "cancelled"},
         UpdateHeld(c, st)
  PROVE  IInv'
<1> DEFINE new == [Expired EXCEPT ![c.id].state = st, ![c.id].acked = (st = "claimed"),
                                  ![c.id].lapsed = FALSE]
<1>1. jobs \in [Ids -> Job] /\ c.id \in Ids /\ st \in States
  BY DEF IInv, Shapes, States, OpenStates, EndedStates
<1>2. /\ Expired \in [Ids -> Job]
      /\ \A i \in Ids : RowStep(jobs[i], Expired[i])
      /\ \A i \in Ids : Leased(jobs[i]) => Expired[i] = jobs[i]
  BY <1>1, ExpiredRows
<1>3. /\ new \in [Ids -> Job] /\ \A h \in Ids \ {c.id} : new[h] = Expired[h]
      /\ new[c.id].state = st /\ SameRequest(Expired[c.id], new[c.id])
  BY <1>1, <1>2, ReportedRow
<1>4. /\ up /\ Commit(new) /\ UNCHANGED <<nextID, urls, flow, pruning, claims, up, boots>>
      /\ Open(Expired[c.id]) /\ Expired[c.id].attempts = c.attempt
  BY DEF UpdateHeld, Open, OpenStates
<1> HIDE DEF new
<1>5. RowStep(Expired[c.id], new[c.id])
  BY <1>1, <1>3, <1>4 DEF RowStep
<1>6. \A i \in Ids : RowStep(jobs[i], new[i])
  <2>1. RowStep(jobs[c.id], new[c.id])
    BY <1>1, <1>2, <1>5, RowStepTwice
  <2> QED
    BY <1>2, <1>3, <2>1
<1>7. flow.op = "claim" /\ Leased(jobs[flow.id]) => Leased(new[flow.id])
  <2> SUFFICES ASSUME flow.op = "claim", Leased(jobs[flow.id]) PROVE Leased(new[flow.id])
    OBVIOUS
  <2>1. flow.id \in Ids
    BY DEF IInv, Shapes, NoFlow
  <2>2. \A d \in claims : d.id = flow.id => d.attempt # jobs[flow.id].attempts
    <3>1. \A d \in claims : d.attempt \in Nat
      BY DEF IInv, Shapes
    <3> QED
      BY <3>1 DEF IInv, Shapes, InFlight, Leased
  <2>3. Expired[flow.id] = jobs[flow.id]
    BY <1>2, <2>1
  <2>4. flow.id # c.id
    BY <1>4, <2>2, <2>3
  <2> QED
    BY <1>3, <2>1, <2>3, <2>4
<1> QED
  BY <1>3, <1>4, <1>6, <1>7, CommitInv

\* Cancel: at once when no Bridge works on the job, so never the one being answered.
LEMMA CancelInv == ASSUME IInv, NEW i \in Ids, Cancel(i) PROVE IInv'
<1> DEFINE st == IF Expired[i].state = "claimed" THEN Expired[i].state ELSE "cancelled"
           row == [Expired[i] EXCEPT !.cancel = TRUE, !.state = st]
           new == [Expired EXCEPT ![i].cancel = TRUE,
                                  ![i].state = IF @ = "claimed" THEN @ ELSE "cancelled"]
<1>1. jobs \in [Ids -> Job]
  BY DEF IInv, Shapes
<1>2. /\ Expired \in [Ids -> Job]
      /\ \A h \in Ids : RowStep(jobs[h], Expired[h])
      /\ \A h \in Ids : Leased(jobs[h]) => Expired[h] = jobs[h]
  BY <1>1, ExpiredRows
<1>3. up /\ Commit(new) /\ UNCHANGED <<nextID, urls, flow, pruning, claims, up, boots>>
      /\ Open(Expired[i])
  BY DEF Cancel
<1>4. st \in States /\ st # "absent" /\ Expired[i] \in Job
  BY <1>2 DEF States, OpenStates, EndedStates, Job
<1>5. new[i] = row /\ \A h \in Ids \ {i} : new[h] = Expired[h]
  BY <1>2 DEF Job
<1> HIDE DEF st
<1>6. row \in Job /\ row.state = st /\ row.lapsed = Expired[i].lapsed
      /\ SameRequest(Expired[i], row)
  <2>1. row \in Job
    BY <1>4 DEF Job
  <2>2. row.state = st /\ row.lapsed = Expired[i].lapsed /\ SameRequest(Expired[i], row)
    BY <1>4 DEF Job, SameRequest
  <2> QED
    BY <2>1, <2>2
<1> HIDE DEF row
<1>7. new \in [Ids -> Job]
  BY <1>2, <1>5, <1>6
<1> HIDE DEF new
<1>8. RowStep(Expired[i], new[i]) /\ (Leased(Expired[i]) => Leased(new[i]))
  BY <1>3, <1>4, <1>5, <1>6 DEF RowStep, Leased, st
<1>9. \A h \in Ids : RowStep(jobs[h], new[h]) /\ (Leased(jobs[h]) => Leased(new[h]))
  <2>1. RowStep(jobs[i], new[i])
    BY <1>1, <1>2, <1>8, RowStepTwice
  <2> QED
    BY <1>2, <1>5, <1>8, <2>1
<1>10. flow.op = "claim" => flow.id \in Ids
  BY DEF IInv, Shapes, NoFlow
<1> QED
  BY <1>3, <1>7, <1>9, <1>10, CommitInv

\* A claim's transaction expires leases and lost requests first; what is still
\* queued then has its URL.
LEMMA ClaimRows ==
  ASSUME IInv
  PROVE  LET js == ExpirePrivate(Expired)
         IN  /\ js \in [Ids -> Job]
             /\ \A i \in Ids : RowStep(jobs[i], js[i])
             /\ \A i \in Ids : Leased(jobs[i]) => Leased(js[i])
             /\ \A i \in Ids : js[i].state = "queued" => i \in urls
<1> DEFINE js == ExpirePrivate(Expired)
<1>1. jobs \in [Ids -> Job]
  BY DEF IInv, Shapes
<1>2. /\ Expired \in [Ids -> Job]
      /\ \A h \in Ids : RowStep(jobs[h], Expired[h])
      /\ \A h \in Ids : Leased(jobs[h]) => Expired[h] = jobs[h]
  BY <1>1, ExpiredRows
<1>3. /\ js \in [Ids -> Job]
      /\ \A h \in Ids : RowStep(Expired[h], js[h])
      /\ \A h \in Ids : Expired[h].state # "queued" => js[h] = Expired[h]
      /\ \A h \in Ids : js[h].state = "queued" => h \in urls
  BY <1>2, PrivateRows
<1> HIDE DEF js
<1>4. \A h \in Ids : RowStep(jobs[h], js[h])
  BY <1>1, <1>2, <1>3, RowStepTwice
<1>5. \A h \in Ids : Leased(jobs[h]) => Leased(js[h])
  BY <1>2, <1>3 DEF Leased
<1> QED
  BY <1>3, <1>4, <1>5 DEF js

\* The row that a claim takes.
LEMMA ClaimedRow ==
  ASSUME NEW js \in [Ids -> Job], NEW i \in Ids
  PROVE  LET new == [js EXCEPT ![i].state = "claimed", ![i].attempts = @ + 1,
                               ![i].acked = FALSE, ![i].lapsed = FALSE]
         IN  /\ new \in [Ids -> Job] /\ \A h \in Ids \ {i} : new[h] = js[h]
             /\ Leased(new[i]) /\ new[i].attempts = js[i].attempts + 1
             /\ new[i].asked = js[i].asked
<1> DEFINE new == [js EXCEPT ![i].state = "claimed", ![i].attempts = @ + 1,
                             ![i].acked = FALSE, ![i].lapsed = FALSE]
<1>1. new[i] \in Job
  <2>1. "claimed" \in States /\ js[i].attempts + 1 \in Nat
    BY DEF Job, States, OpenStates
  <2> QED
    BY <2>1 DEF Job
<1>2. Leased(new[i])
  BY DEF Job, Leased
<1>3. new[i].attempts = js[i].attempts + 1 /\ new[i].asked = js[i].asked
  BY DEF Job
<1>4. \A h \in Ids \ {i} : new[h] = js[h]
  OBVIOUS
<1>5. new \in [Ids -> Job]
  BY <1>1, <1>4
<1> QED
  BY <1>2, <1>3, <1>4, <1>5

\* Claim: the URL of the job it takes is held and stays until it is read.
LEMMA ClaimInv == ASSUME IInv, Claim PROVE IInv'
<1> DEFINE js == ExpirePrivate(Expired)
           queued == {i \in Ids : js[i].state = "queued" /\ on}
<1>1. /\ js \in [Ids -> Job]
      /\ \A h \in Ids : RowStep(jobs[h], js[h])
      /\ \A h \in Ids : Leased(jobs[h]) => Leased(js[h])
      /\ \A h \in Ids : js[h].state = "queued" => h \in urls
  BY ClaimRows
<1>2. up /\ flow = NoFlow /\ UNCHANGED <<nextID, urls, pruning, claims, up, boots>>
  BY DEF Claim, MayClaim
<1>3. CASE queued = {} /\ Commit(js) /\ UNCHANGED flow
  <2> HIDE DEF js
  <2> QED
    BY <1>1, <1>2, <1>3, CommitInv DEF NoFlow
<1>4. ASSUME NEW i \in queued,
             Commit([js EXCEPT ![i].state = "claimed", ![i].attempts = @ + 1,
                               ![i].acked = FALSE, ![i].lapsed = FALSE]),
             flow' = [op |-> "claim", id |-> i, attempt |-> js[i].attempts + 1]
      PROVE  IInv'
  <2>1. i \in Ids /\ js[i].state = "queued"
    OBVIOUS
  <2> HIDE DEF queued, js
  <2> DEFINE new == [js EXCEPT ![i].state = "claimed", ![i].attempts = @ + 1,
                               ![i].acked = FALSE, ![i].lapsed = FALSE]
  <2>2. /\ new \in [Ids -> Job] /\ \A h \in Ids \ {i} : new[h] = js[h]
        /\ Leased(new[i]) /\ new[i].attempts = js[i].attempts + 1
        /\ new[i].asked = js[i].asked
    BY <1>1, <2>1, ClaimedRow
  <2>3. Commit(new)
    BY <1>4
  <2> HIDE DEF new
  <2>4. Open(jobs[i]) /\ i \in urls /\ i \notin ending /\ Open(new[i]) /\ ~Ended(new[i])
    <3>1. Open(jobs[i]) /\ Open(new[i]) /\ ~Ended(new[i])
      BY <1>1, <2>1, <2>2 DEF RowStep, Leased, Open, Ended, OpenStates, EndedStates
    <3> QED
      BY <1>1, <2>1, <3>1 DEF IInv, EndingEnded
  <2>5. /\ \A h \in Ids : Open(jobs[h]) => new[h].state # "absent"
        /\ \A h \in Ids : ~Open(jobs[h]) => ~Open(new[h])
        /\ \A h \in Ids : jobs[h].state = "absent" => new[h].state = "absent"
        /\ \A h \in Ids : new[h].state = "absent" => jobs[h].state = "absent"
        /\ \A h \in Ids : new[h].asked = jobs[h].asked
        /\ \A h \in Ids \ {i} : new[h].attempts = jobs[h].attempts
        /\ new[i].attempts = jobs[i].attempts + 1 /\ jobs[i].attempts \in Nat
    <3>1. \A h \in Ids \ {i} : RowStep(jobs[h], new[h])
      BY <1>1, <2>2
    <3>2. new[i].asked = jobs[i].asked /\ new[i].attempts = jobs[i].attempts + 1
      BY <1>1, <2>1, <2>2 DEF RowStep, SameRequest
    <3>3. jobs[i].attempts \in Nat
      BY <2>1 DEF IInv, Shapes, Job
    <3> QED
      BY <2>4, <3>1, <3>2, <3>3 DEF RowStep, SameRequest, Open, OpenStates
  <2>6. /\ ending' \subseteq Ids /\ EndingEnded' /\ SecretEndsWithRequest'
        /\ \A h \in ending' : h \in ending \/ (Open(jobs[h]) /\ Ended(new[h]))
    BY <1>2, <2>2, <2>3, <2>5, CommitEnds DEF NoFlow
  <2>7. jobs' = new /\ flow'.op = "claim" /\ flow'.id = i /\ flow'.attempt = new[i].attempts
    BY <1>4, <2>2, <2>3 DEF Commit
  <2>8. Shapes'
    <3>1. /\ flow'.id \in Ids
          /\ flow' \in [op : {"none", "store", "look", "claim"}, id : Nat, attempt : Nat]
      BY <1>4, <2>1, <2>2, <2>5, <2>7 DEF Ids
    <3>2. flow'.op # "none" /\ flow' # NoFlow
      BY <2>7 DEF NoFlow
    <3> QED
      BY <1>2, <2>2, <2>6, <2>7, <3>1, <3>2 DEF IInv, Shapes
  <2>9. IdsUnused'
    <3>1. \A h \in Ids : Open(jobs[h]) => h < nextID
      BY DEF IInv, Shapes, IdsUnused, Open, OpenStates, Ids
    <3> QED
      BY <1>2, <2>1, <2>4, <2>5, <2>6, <2>7, <3>1 DEF IInv, IdsUnused
  <2>10. DownEmpty' /\ HandedWithUrl'
    BY <1>2 DEF IInv, DownEmpty, HandedWithUrl
  <2>11. \A c \in claims : c.id \in Ids /\ c.attempt \in Nat
    BY DEF IInv, Shapes
  <2>12. \A c \in claims : c.id = i => c.attempt <= jobs[i].attempts
    BY <2>4 DEF IInv, ClaimsBehind, Open, OpenStates
  <2>13. ClaimsBehind'
    BY <1>2, <2>5, <2>7, <2>11, <2>12 DEF IInv, ClaimsBehind
  <2>14. InFlight'
    BY <1>2, <2>2, <2>4, <2>5, <2>6, <2>7, <2>11, <2>12 DEF InFlight, Leased
  <2>15. AskedHeld'
    BY <1>2, <2>5, <2>7 DEF IInv, AskedHeld, NoFlow
  <2> QED
    BY <2>6, <2>8, <2>9, <2>10, <2>13, <2>14, <2>15 DEF IInv
<1> QED
  BY <1>3, <1>4 DEF Claim

\* The row an adopted request becomes, and a new one's.
LEMMA AskedRow ==
  ASSUME NEW js \in [Ids -> Job], NEW i \in Ids, NEW f \in Feeds, boots \in Nat
  PROVE  /\ LET new == [js EXCEPT ![i].asked = boots]
            IN  /\ new \in [Ids -> Job] /\ \A h \in Ids \ {i} : new[h] = js[h]
                /\ new[i].asked = boots /\ new[i].state = js[i].state
                /\ new[i].attempts = js[i].attempts
         /\ LET new == [js EXCEPT ![i] =
                          [Absent EXCEPT !.feed = f, !.state = "queued", !.asked = boots]]
            IN  /\ new \in [Ids -> Job] /\ \A h \in Ids \ {i} : new[h] = js[h]
                /\ new[i].asked = boots /\ new[i].state = "queued"
<1>1. LET new == [js EXCEPT ![i].asked = boots]
      IN  /\ new \in [Ids -> Job] /\ \A h \in Ids \ {i} : new[h] = js[h]
          /\ new[i].asked = boots /\ new[i].state = js[i].state
          /\ new[i].attempts = js[i].attempts
  BY DEF Job
<1> DEFINE row == [Absent EXCEPT !.feed = f, !.state = "queued", !.asked = boots]
<1>2. "queued" \in States /\ "absent" \in States
  BY DEF States, OpenStates
<1>3. row \in Job /\ row.asked = boots /\ row.state = "queued"
  <2>1. row \in Job
    BY <1>2 DEF Job, Absent
  <2>2. row.asked = boots /\ row.state = "queued"
    BY DEF Absent
  <2> QED
    BY <2>1, <2>2
<1> HIDE DEF row
<1>4. LET new == [js EXCEPT ![i] = row]
      IN  /\ new \in [Ids -> Job] /\ \A h \in Ids \ {i} : new[h] = js[h]
          /\ new[i].asked = boots /\ new[i].state = "queued"
  BY <1>3
<1> QED
  BY <1>1, <1>4 DEF row

\* Enqueue's transaction made the request i: its URL is to be stored next, before
\* any claim can find the job without it.
LEMMA StoreNext ==
  ASSUME IInv, up, flow = NoFlow, NEW i \in Ids, NEW new \in [Ids -> Job], Commit(new),
         \A h \in Ids \ {i} : RowStep(jobs[h], new[h]),
         Open(new[i]), new[i].asked = boots,
         \/ /\ i = nextID /\ nextID' = nextID + 1
         \/ /\ Open(jobs[i]) /\ nextID' = nextID
            /\ new[i].attempts = jobs[i].attempts,
         flow' = [NoFlow EXCEPT !.op = "store", !.id = i],
         UNCHANGED <<urls, pruning, claims, up, boots>>
  PROVE  IInv'
<1>1. jobs' = new /\ flow'.op = "store" /\ flow'.id = i /\ flow'.attempt = 0
  BY DEF Commit, NoFlow
<1>2. nextID \in Nat /\ nextID' \in Nat /\ nextID' > 0 /\ nextID <= nextID' /\ i < nextID'
  BY DEF IInv, Shapes, IdsUnused, Open, OpenStates, Ids
<1>3. \A h \in Ids : /\ Open(jobs[h]) => new[h].state # "absent"
                     /\ ~Open(jobs[h]) /\ h # nextID => ~Open(new[h])
  BY DEF RowStep, Open, OpenStates
<1>4. /\ ending' \subseteq Ids /\ EndingEnded' /\ SecretEndsWithRequest'
      /\ \A h \in ending' : h \in ending \/ (Open(jobs[h]) /\ Ended(new[h]))
  BY <1>3, CommitEnds DEF NoFlow
<1>5. Shapes'
  <2>1. flow'.op # "none" /\ flow' # NoFlow
    BY <1>1 DEF NoFlow
  <2>2. flow' \in [op : {"none", "store", "look", "claim"}, id : Nat, attempt : Nat]
    <3>1. NoFlow \in [op : {"none", "store", "look", "claim"}, id : Nat, attempt : Nat]
      BY DEF NoFlow
    <3>2. i \in Nat
      BY DEF Ids
    <3> QED
      BY <3>1, <3>2
  <2> QED
    BY <1>1, <1>2, <1>4, <2>1, <2>2 DEF IInv, Shapes
<1>6. IdsUnused'
  <2>1. \A h \in Ids : Open(jobs[h]) => h < nextID
    BY DEF IInv, Shapes, IdsUnused, Open, OpenStates, Ids
  <2>2. ASSUME NEW h \in Ids, h >= nextID' PROVE new[h].state = "absent"
    <3>1. h # i /\ h >= nextID
      BY <1>2, <2>2 DEF Ids
    <3> QED
      BY <3>1 DEF IInv, IdsUnused, RowStep, Open, OpenStates
  <2>3. \A h \in urls' \union ending' : h < nextID'
    <3>1. \A h \in urls' \union ending' : h < nextID /\ h \in Ids
      BY <1>4, <2>1 DEF IInv, Shapes, IdsUnused
    <3> QED
      BY <1>2, <3>1 DEF Ids
  <2>4. \A c \in claims' : c.id < nextID'
    <3>1. \A c \in claims : c.id < nextID /\ c.id \in Ids
      BY DEF IInv, Shapes, IdsUnused
    <3> QED
      BY <1>2, <3>1 DEF Ids
  <2> QED
    BY <1>1, <1>2, <2>2, <2>3, <2>4 DEF IdsUnused
<1>7. DownEmpty' /\ HandedWithUrl' /\ InFlight'
  BY <1>1 DEF IInv, DownEmpty, HandedWithUrl, InFlight
<1>8. ClaimsBehind'
  <2> SUFFICES ASSUME NEW c \in claims, new[c.id].state # "absent"
               PROVE  c.attempt <= new[c.id].attempts
    BY <1>1 DEF ClaimsBehind
  <2>1. c.id \in Ids /\ c.id < nextID
    BY DEF IInv, Shapes, IdsUnused
  <2>2. jobs[c.id].state # "absent" /\ new[c.id].attempts = jobs[c.id].attempts
    <3>1. CASE c.id = i
      BY <1>2, <2>1, <3>1 DEF Ids, Open, OpenStates
    <3>2. CASE c.id # i
      BY <2>1, <3>2 DEF RowStep, SameRequest, Open, OpenStates
    <3> QED
      BY <3>1, <3>2
  <2> QED
    BY <2>2 DEF IInv, ClaimsBehind
<1>9. AskedHeld'
  <2> SUFFICES ASSUME NEW h \in Ids
               PROVE  /\ new[h].asked <= boots
                      /\ Open(new[h]) /\ new[h].asked = boots => h \in urls \/ h = i
    BY <1>1 DEF AskedHeld
  <2>1. CASE h = i
    BY <2>1 DEF IInv, Shapes
  <2>2. CASE h # i
    BY <2>2 DEF IInv, AskedHeld, RowStep, SameRequest, NoFlow
  <2> QED
    BY <2>1, <2>2
<1> QED
  BY <1>4, <1>5, <1>6, <1>7, <1>8, <1>9 DEF IInv

LEMMA SubscribeCommitInv == ASSUME IInv, NEW f \in Feeds, SubscribeCommit(f) PROVE IInv'
<1>1. jobs \in [Ids -> Job] /\ boots \in Nat /\ nextID \in Nat \ {0}
  BY DEF IInv, Shapes
<1>2. /\ Expired \in [Ids -> Job]
      /\ \A h \in Ids : RowStep(jobs[h], Expired[h])
  BY <1>1, ExpiredRows
<1>3. up /\ flow = NoFlow /\ UNCHANGED <<urls, pruning, claims, up, boots>>
  BY DEF SubscribeCommit
<1>4. ASSUME nextID <= MaxJobs,
             Commit([Expired EXCEPT ![nextID] =
                    [Absent EXCEPT !.feed = f, !.state = "queued", !.asked = boots]]),
             flow' = [NoFlow EXCEPT !.op = "store", !.id = nextID], nextID' = nextID + 1
      PROVE  IInv'
  <2> DEFINE new == [Expired EXCEPT ![nextID] =
                       [Absent EXCEPT !.feed = f, !.state = "queued", !.asked = boots]]
  <2>1. nextID \in Ids
    BY <1>1, <1>4, FollowAssumption DEF Ids
  <2>2. /\ new \in [Ids -> Job] /\ \A h \in Ids \ {nextID} : new[h] = Expired[h]
        /\ new[nextID].asked = boots /\ new[nextID].state = "queued"
    BY <1>1, <1>2, <2>1, AskedRow
  <2> HIDE DEF new
  <2>3. Commit(new) /\ Open(new[nextID])
    BY <1>4, <2>2 DEF new, Open, OpenStates
  <2> QED
    BY <1>2, <1>3, <1>4, <2>1, <2>2, <2>3, StoreNext
<1>5. ASSUME NEW i \in Ids, Open(Expired[i]),
             Commit([Expired EXCEPT ![i].asked = boots]),
             flow' = [NoFlow EXCEPT !.op = "store", !.id = i], UNCHANGED nextID
      PROVE  IInv'
  <2> DEFINE new == [Expired EXCEPT ![i].asked = boots]
  <2>2. /\ new \in [Ids -> Job] /\ \A h \in Ids \ {i} : new[h] = Expired[h]
        /\ new[i].asked = boots /\ new[i].state = Expired[i].state
        /\ new[i].attempts = Expired[i].attempts
    BY <1>1, <1>2, AskedRow
  <2> HIDE DEF new
  <2>3. Commit(new) /\ Open(new[i])
    BY <1>5, <2>2 DEF new, Open
  <2>4. Open(jobs[i]) /\ new[i].attempts = jobs[i].attempts
    BY <1>2, <1>5, <2>2 DEF RowStep, SameRequest
  <2> QED
    BY <1>2, <1>3, <1>5, <2>2, <2>3, <2>4, StoreNext
<1> QED
  BY <1>4, <1>5 DEF SubscribeCommit

\* ReleaseUnsentClaim: the attempt is given back with the claim that had it, so
\* no claim is left ahead of the job.
LEMMA ReleaseInv == ASSUME IInv, NEW c \in claims, ReleaseUnsentClaim(c) PROVE IInv'
<1> DEFINE j == jobs[c.id]
           st == IF j.cancel THEN "cancelled" ELSE "queued"
           row == [j EXCEPT !.state = st, !.attempts = @ - 1, !.lapsed = FALSE]
           new == [jobs EXCEPT ![c.id] = row]
<1>1. /\ up /\ j.state = "claimed" /\ j.attempts = c.attempt /\ Commit(new)
      /\ claims' = claims \ {c} /\ UNCHANGED <<nextID, urls, flow, pruning, up, boots>>
  BY DEF ReleaseUnsentClaim
<1>2. /\ jobs \in [Ids -> Job] /\ c.id \in Ids /\ j \in Job
      /\ c.attempt \in Nat /\ c.attempt > 0
  BY DEF IInv, Shapes
<1>3. st \in States /\ st # "absent"
  BY DEF States, OpenStates, EndedStates
<1> HIDE DEF st
<1>4. /\ row \in Job /\ row.state = st /\ row.attempts = j.attempts - 1 /\ row.asked = j.asked
  <2>1. j.attempts - 1 \in Nat
    BY <1>1, <1>2
  <2>2. row \in Job
    BY <1>2, <1>3, <2>1 DEF Job
  <2>3. row.state = st /\ row.attempts = j.attempts - 1 /\ row.asked = j.asked
    BY <1>2 DEF Job
  <2> QED
    BY <2>2, <2>3
<1>5. /\ new \in [Ids -> Job] /\ new[c.id] = row
      /\ \A h \in Ids \ {c.id} : new[h] = jobs[h]
  BY <1>2, <1>4
<1>6. Open(jobs[c.id]) /\ c.id \notin ending
  <2>1. Open(jobs[c.id])
    BY <1>1 DEF Open, OpenStates
  <2> QED
    BY <2>1 DEF IInv, EndingEnded
<1> HIDE DEF row, new
<1>7. \A h \in Ids : /\ Open(jobs[h]) => new[h].state # "absent"
                     /\ ~Open(jobs[h]) => ~Open(new[h])
                     /\ new[h].state = "absent" <=> jobs[h].state = "absent"
                     /\ new[h].asked = jobs[h].asked
                     /\ Open(new[h]) => Open(jobs[h])
  BY <1>3, <1>4, <1>5, <1>6 DEF Open, OpenStates
<1>8. /\ ending' \subseteq Ids /\ EndingEnded' /\ SecretEndsWithRequest'
      /\ \A h \in ending' : h \in ending \/ (Open(jobs[h]) /\ Ended(new[h]))
  BY <1>1, <1>5, <1>7, CommitEnds
<1>9. jobs' = new
  BY <1>1 DEF Commit
<1>10. Shapes'
  BY <1>1, <1>5, <1>8, <1>9 DEF IInv, Shapes
<1>11. IdsUnused'
  <2>1. \A h \in Ids : Open(jobs[h]) => h < nextID
    BY DEF IInv, Shapes, IdsUnused, Open, OpenStates, Ids
  <2>2. \A h \in ending' : h < nextID
    BY <1>8, <2>1 DEF IInv, IdsUnused
  <2> QED
    BY <1>1, <1>7, <1>9, <2>2 DEF IInv, IdsUnused
<1>12. DownEmpty' /\ HandedWithUrl' /\ AskedHeld'
  BY <1>1, <1>7, <1>9 DEF IInv, DownEmpty, HandedWithUrl, AskedHeld
<1>13. ClaimsBehind'
  <2> SUFFICES ASSUME NEW d \in claims, d # c, new[d.id].state # "absent"
               PROVE  d.attempt <= new[d.id].attempts
    BY <1>1, <1>9 DEF ClaimsBehind
  <2>1. /\ d \in [id : Ids, attempt : Nat \ {0}, url : BOOLEAN]
        /\ c \in [id : Ids, attempt : Nat \ {0}, url : BOOLEAN]
        /\ d.url = TRUE /\ c.url = TRUE
    BY DEF IInv, Shapes, HandedWithUrl
  <2>2. jobs[d.id].state # "absent" /\ d.attempt <= jobs[d.id].attempts
    BY <1>7, <2>1 DEF IInv, ClaimsBehind
  <2>3. CASE d.id = c.id
    <3>1. d.attempt # c.attempt
      BY <2>1, <2>3
    <3> QED
      BY <1>1, <1>2, <1>4, <1>5, <2>1, <2>2, <2>3, <3>1
  <2>4. CASE d.id # c.id
    BY <1>5, <2>1, <2>2, <2>4
  <2> QED
    BY <2>3, <2>4
<1>14. InFlight'
  <2> SUFFICES ASSUME flow.op = "claim" PROVE InFlight'
    BY <1>1 DEF InFlight
  <2>1. flow.id \in Ids
    BY DEF IInv, Shapes, NoFlow
  <2>2. flow.id # c.id
    BY <1>1, <1>2 DEF IInv, InFlight
  <2>3. new[flow.id] = jobs[flow.id]
    BY <1>5, <2>1, <2>2
  <2>4. flow.id \notin ending'
    BY <1>8, <2>3 DEF IInv, InFlight, Open, Ended, OpenStates, EndedStates
  <2> QED
    BY <1>1, <1>9, <2>3, <2>4 DEF IInv, InFlight
<1> QED
  BY <1>8, <1>10, <1>11, <1>12, <1>13, <1>14 DEF IInv

\* A lease that lapses is never that of the claim being answered.
LEMMA LapseInv == ASSUME IInv, NEW i \in Ids, Lapse(i) PROVE IInv'
<1> DEFINE new == [jobs EXCEPT ![i].lapsed = TRUE]
<1>1. /\ jobs' = new /\ ~(flow.op = "claim" /\ flow.id = i)
      /\ UNCHANGED <<nextID, urls, flow, ending, pruning, claims, up, boots>>
  BY DEF Lapse
<1>2. jobs \in [Ids -> Job]
  BY DEF IInv, Shapes
<1>3. /\ new \in [Ids -> Job] /\ \A h \in Ids \ {i} : new[h] = jobs[h]
      /\ new[i].state = jobs[i].state /\ SameRequest(jobs[i], new[i])
  BY <1>2 DEF Job, SameRequest
<1> HIDE DEF new
<1>4. \A h \in Ids : /\ new[h].state = jobs[h].state /\ new[h].asked = jobs[h].asked
                     /\ new[h].attempts = jobs[h].attempts
                     /\ Open(new[h]) <=> Open(jobs[h])
  BY <1>3 DEF SameRequest, Open
<1>5. Shapes' /\ IdsUnused' /\ DownEmpty' /\ HandedWithUrl'
  BY <1>1, <1>3, <1>4 DEF IInv, Shapes, IdsUnused, DownEmpty, HandedWithUrl
<1>6. urls \subseteq Ids /\ ending \subseteq Ids /\ \A c \in claims : c.id \in Ids
  BY DEF IInv, Shapes
<1>7. EndingEnded' /\ ClaimsBehind' /\ AskedHeld' /\ SecretEndsWithRequest'
  BY <1>1, <1>4, <1>6 DEF IInv, EndingEnded, ClaimsBehind, AskedHeld, SecretEndsWithRequest
<1>8. flow.op = "claim" => flow.id \in Ids
  BY DEF IInv, Shapes, NoFlow
<1>9. InFlight'
  BY <1>1, <1>3, <1>8 DEF IInv, InFlight
<1> QED
  BY <1>5, <1>7, <1>9 DEF IInv

-----------------------------------------------------------------------------
(* The steps that leave the rows alone.                                     *)

\* Subscribe stores the URL, then lets it go if the request ended meanwhile.
LEMMA StoreInv == ASSUME IInv, SubscribeStore \/ DropIfEnded PROVE IInv'
<1>1. flow # NoFlow /\ flow.id \in Ids /\ flow.id < nextID /\ up
  BY DEF SubscribeStore, DropIfEnded, IInv, Shapes, IdsUnused, DownEmpty, NoFlow
<1>2. UNCHANGED <<jobs, nextID, ending, pruning, claims, up, boots>>
  BY DEF SubscribeStore, DropIfEnded
<1>3. CASE SubscribeStore
  <2>1. /\ flow.op = "store" /\ urls' = urls \union {flow.id}
        /\ flow' = [flow EXCEPT !.op = "look"]
    BY <1>3 DEF SubscribeStore
  <2> QED
    BY <1>1, <1>2, <2>1
       DEF IInv, Shapes, IdsUnused, EndingEnded, DownEmpty, ClaimsBehind, InFlight,
           AskedHeld, HandedWithUrl, SecretEndsWithRequest, NoFlow
<1>4. CASE DropIfEnded
  BY <1>1, <1>2, <1>4
     DEF DropIfEnded, IInv, Shapes, IdsUnused, EndingEnded, DownEmpty, ClaimsBehind, InFlight,
         AskedHeld, HandedWithUrl, SecretEndsWithRequest, NoFlow
<1> QED
  BY <1>3, <1>4

\* ClaimRead: the claim goes out with the URL that the transaction relied on.
LEMMA ClaimReadInv == ASSUME IInv, ClaimRead PROVE IInv'
<1> DEFINE c == [id |-> flow.id, attempt |-> flow.attempt, url |-> flow.id \in urls]
<1>1. /\ flow.op = "claim" /\ claims' = claims \union {c} /\ flow' = NoFlow
      /\ UNCHANGED <<jobs, nextID, urls, ending, pruning, up, boots>>
  BY DEF ClaimRead
<1>2. /\ flow.id \in urls /\ flow.id \in Ids /\ flow.attempt \in Nat \ {0}
      /\ flow.id < nextID /\ up
  BY <1>1 DEF IInv, Shapes, InFlight, IdsUnused, DownEmpty, NoFlow
<1>3. /\ c \in [id : Ids, attempt : Nat \ {0}, url : BOOLEAN]
      /\ c.id = flow.id /\ c.attempt = flow.attempt /\ c.url
  BY <1>2
<1> HIDE DEF c
<1>4. NoFlow.op = "none" /\ NoFlow.id = 0 /\ NoFlow.attempt = 0
      /\ NoFlow \in [op : {"none", "store", "look", "claim"}, id : Nat, attempt : Nat]
  BY DEF NoFlow
<1>5. Shapes' /\ IdsUnused' /\ DownEmpty' /\ EndingEnded'
  <2>1. Shapes'
    BY <1>1, <1>3, <1>4 DEF IInv, Shapes
  <2>2. IdsUnused' /\ DownEmpty' /\ EndingEnded'
    BY <1>1, <1>2, <1>3, <1>4 DEF IInv, Shapes, IdsUnused, DownEmpty, EndingEnded
  <2> QED
    BY <2>1, <2>2
<1>6. ClaimsBehind' /\ InFlight' /\ HandedWithUrl'
  BY <1>1, <1>2, <1>3, <1>4 DEF IInv, ClaimsBehind, InFlight, HandedWithUrl
<1>7. AskedHeld' /\ SecretEndsWithRequest'
  BY <1>1, <1>4 DEF IInv, AskedHeld, SecretEndsWithRequest
<1> QED
  BY <1>5, <1>6, <1>7 DEF IInv

\* reportEnded lets go of a URL, PruneSecrets of those of jobs not open; neither
\* takes the one a claim is reading.
LEMMA EndInv == ASSUME IInv, (\E i \in Ids : ReportEnded(i)) \/ PruneSecrets PROVE IInv'
<1>1. ASSUME NEW i \in Ids, ReportEnded(i) PROVE IInv'
  <2>1. /\ i \in ending /\ ending' = ending \ {i} /\ urls' = urls \ {i}
        /\ UNCHANGED <<jobs, nextID, flow, pruning, claims, up, boots>>
    BY <1>1 DEF ReportEnded
  <2>2. ~Open(jobs[i]) /\ (flow.op = "claim" => flow.id # i)
    BY <2>1 DEF IInv, EndingEnded, InFlight
  <2>3. Shapes' /\ IdsUnused' /\ EndingEnded' /\ DownEmpty'
    BY <2>1 DEF IInv, Shapes, IdsUnused, EndingEnded, DownEmpty
  <2>4. ClaimsBehind' /\ HandedWithUrl' /\ InFlight'
    BY <2>1, <2>2 DEF IInv, ClaimsBehind, HandedWithUrl, InFlight
  <2>5. AskedHeld' /\ SecretEndsWithRequest'
    BY <2>1, <2>2 DEF IInv, AskedHeld, SecretEndsWithRequest
  <2> QED
    BY <2>3, <2>4, <2>5 DEF IInv
<1>2. CASE PruneSecrets
  <2>1. /\ flow = NoFlow /\ pruning' = FALSE /\ urls' = {i \in urls : Open(jobs[i])}
        /\ UNCHANGED <<jobs, nextID, flow, ending, claims, up, boots>>
    BY <1>2 DEF PruneSecrets
  <2>2. Shapes' /\ IdsUnused' /\ EndingEnded' /\ DownEmpty'
    BY <2>1 DEF IInv, Shapes, IdsUnused, EndingEnded, DownEmpty
  <2>3. ClaimsBehind' /\ HandedWithUrl' /\ InFlight'
    BY <2>1 DEF IInv, ClaimsBehind, HandedWithUrl, InFlight, NoFlow
  <2>4. AskedHeld' /\ SecretEndsWithRequest'
    BY <2>1 DEF IInv, AskedHeld, SecretEndsWithRequest
  <2> QED
    BY <2>2, <2>3, <2>4 DEF IInv
<1> QED
  BY <1>1, <1>2

\* The library goes: its ids are not given out again.
LEMMA DeleteInv == ASSUME IInv, DeleteLibrary PROVE IInv'
<1>1. /\ jobs' = [i \in Ids |-> Absent] /\ pruning' = TRUE
      /\ UNCHANGED <<nextID, urls, flow, ending, claims, up, boots>>
  BY DEF DeleteLibrary
<1>2. Absent \in Job /\ Absent.state = "absent" /\ Absent.asked = 0 /\ ~Open(Absent)
  BY DEF Absent, Job, States, Open, OpenStates
<1>3. jobs' \in [Ids -> Job] /\ \A i \in Ids : jobs'[i] = Absent
  BY <1>1, <1>2
<1>4. urls \subseteq Ids /\ ending \subseteq Ids /\ \A c \in claims : c.id \in Ids
  BY DEF IInv, Shapes
<1>5. flow.op = "claim" => flow.id \in Ids
  BY DEF IInv, Shapes, NoFlow
<1>6. Shapes' /\ IdsUnused' /\ DownEmpty' /\ HandedWithUrl'
  BY <1>1, <1>2, <1>3 DEF IInv, Shapes, IdsUnused, DownEmpty, HandedWithUrl
<1>7. EndingEnded' /\ ClaimsBehind' /\ InFlight'
  BY <1>1, <1>2, <1>3, <1>4, <1>5 DEF IInv, EndingEnded, ClaimsBehind, InFlight
<1>8. AskedHeld' /\ SecretEndsWithRequest'
  BY <1>1, <1>2, <1>3 DEF IInv, Shapes, AskedHeld, SecretEndsWithRequest
<1> QED
  BY <1>6, <1>7, <1>8 DEF IInv

\* The process dies with its URLs, and starts as another run of the server.
LEMMA ProcessInv == ASSUME IInv, Die \/ Start PROVE IInv'
<1>1. CASE Die
  <2>1. /\ up' = FALSE /\ urls' = {} /\ flow' = NoFlow /\ ending' = {} /\ pruning' = FALSE
        /\ UNCHANGED <<jobs, nextID, claims, boots>>
    BY <1>1 DEF Die
  <2>2. NoFlow.op = "none" /\ NoFlow.id = 0 /\ NoFlow.attempt = 0
        /\ NoFlow \in [op : {"none", "store", "look", "claim"}, id : Nat, attempt : Nat]
    BY DEF NoFlow
  <2>3. Shapes'
    BY <2>1, <2>2 DEF IInv, Shapes
  <2> QED
    BY <2>1, <2>2, <2>3
       DEF IInv, Shapes, IdsUnused, EndingEnded, DownEmpty, ClaimsBehind, InFlight,
           AskedHeld, HandedWithUrl, SecretEndsWithRequest
<1>2. CASE Start
  <2>1. /\ ~up /\ up' = TRUE /\ boots' = boots + 1 /\ jobs' \in {jobs, ExpirePrivate(jobs)}
        /\ UNCHANGED <<nextID, urls, flow, ending, pruning, claims>>
    BY <1>2 DEF Start
  <2>2. jobs \in [Ids -> Job] /\ urls = {} /\ ending = {} /\ flow = NoFlow /\ boots \in Nat
    BY <2>1 DEF IInv, Shapes, DownEmpty
  <2>3. jobs' \in [Ids -> Job] /\ \A i \in Ids : RowStep(jobs[i], jobs'[i])
    <3>1. \A i \in Ids : RowStep(jobs[i], jobs[i])
      BY <2>2 DEF RowStep, SameRequest, Open, OpenStates
    <3> QED
      BY <2>1, <2>2, <3>1, PrivateRows
  <2>4. \A i \in Ids : /\ jobs'[i].state = "absent" <=> jobs[i].state = "absent"
                       /\ jobs'[i].asked = jobs[i].asked
                       /\ jobs'[i].attempts = jobs[i].attempts
    BY <2>3 DEF RowStep, SameRequest, Open, OpenStates
  <2>5. Shapes' /\ IdsUnused' /\ EndingEnded' /\ DownEmpty' /\ HandedWithUrl'
    BY <2>1, <2>2, <2>3, <2>4 DEF IInv, Shapes, IdsUnused, EndingEnded, DownEmpty, HandedWithUrl
  <2>6. ClaimsBehind'
    <3>1. \A c \in claims : c.id \in Ids
      BY DEF IInv, Shapes
    <3> QED
      BY <2>1, <2>4, <3>1 DEF IInv, ClaimsBehind
  <2>7. InFlight' /\ SecretEndsWithRequest'
    BY <2>1, <2>2 DEF InFlight, SecretEndsWithRequest, NoFlow
  <2>8. AskedHeld'
    <3>1. \A i \in Ids : jobs[i].asked \in Nat /\ jobs[i].asked <= boots
      BY DEF IInv, Shapes, AskedHeld, Job
    <3> QED
      BY <2>1, <2>2, <2>4, <3>1 DEF AskedHeld
  <2> QED
    BY <2>5, <2>6, <2>7, <2>8 DEF IInv
<1> QED
  BY <1>1, <1>2

\* Folding, and doing nothing, touch none of it.
LEMMA ElsewhereInv ==
  ASSUME IInv, UNCHANGED <<jobs, nextID, urls, flow, ending, pruning, claims, up, boots>>
  PROVE  IInv'
BY DEF IInv, Shapes, IdsUnused, EndingEnded, DownEmpty, ClaimsBehind, InFlight,
       AskedHeld, HandedWithUrl, SecretEndsWithRequest

LEMMA NextInv == IInv /\ [Next]_vars => IInv'
<1> SUFFICES ASSUME IInv, [Next]_vars PROVE IInv'
  OBVIOUS
<1>1. ASSUME NEW f \in Feeds, SubscribeCommit(f) PROVE IInv'
  BY <1>1, SubscribeCommitInv
<1>2. CASE SubscribeStore \/ DropIfEnded
  BY <1>2, StoreInv
<1>3. CASE Claim
  BY <1>3, ClaimInv
<1>4. CASE ClaimRead
  BY <1>4, ClaimReadInv
<1>5. ASSUME NEW c \in claims, NEW st \in {"claimed", "parked", "done", "cancelled"},
             UpdateHeld(c, st)
      PROVE  IInv'
  BY <1>5, UpdateHeldInv
<1>6. ASSUME NEW c \in claims, ReleaseUnsentClaim(c) PROVE IInv'
  BY <1>6, ReleaseInv
<1>7. ASSUME NEW i \in Ids, Lapse(i) \/ Cancel(i) \/ ReportEnded(i) \/ Age(i) PROVE IInv'
  BY <1>7, LapseInv, CancelInv, EndInv, ElsewhereInv DEF Age
<1>8. CASE ExpireDue \/ SchedulerTick
  BY <1>8, ExpiryInv DEF ExpireDue, SchedulerTick
<1>9. ASSUME NEW i \in Ids, FoldPodcastJob(i) \/ FoldFails(i) PROVE IInv'
  BY <1>9, ElsewhereInv DEF FoldPodcastJob, FoldFails
<1>13. CASE SetModule
  BY <1>13, ElsewhereInv DEF SetModule
<1>10. CASE DeleteLibrary \/ PruneSecrets
  BY <1>10, DeleteInv, EndInv
<1>11. CASE Die \/ Start
  BY <1>11, ProcessInv
<1>12. CASE UNCHANGED vars
  BY <1>12, ElsewhereInv DEF vars
<1> QED
  BY <1>1, <1>2, <1>3, <1>4, <1>5, <1>6, <1>7, <1>8, <1>9, <1>10, <1>11, <1>12, <1>13 DEF Next

\* In every step, a request that expires for want of its URL was last asked for
\* before this start of the server.
LEMMA LostStep ==
  ASSUME IInv, [Next]_vars, NEW i \in Ids,
         jobs[i].state # "expired", jobs'[i].state = "expired"
  PROVE  jobs[i].asked < boots'
<1>1. /\ jobs \in [Ids -> Job] /\ boots \in Nat
      /\ jobs[i].asked \in Nat /\ jobs[i].asked <= boots
  BY DEF IInv, Shapes, AskedHeld, Job
<1>2. /\ Expired \in [Ids -> Job] /\ Expired[i].state # "expired"
      /\ RowStep(jobs[i], Expired[i])
  BY <1>1, ExpiredRows
<1>3. CASE Start
  BY <1>1, <1>3 DEF Start
<1>4. CASE Claim
  <2> DEFINE js == ExpirePrivate(Expired)
  <2>1. up /\ flow = NoFlow /\ boots' = boots
    BY <1>4 DEF Claim, MayClaim
  <2>2. /\ js \in [Ids -> Job]
        /\ \A h \in Ids : Expired[h].state # "queued" \/ h \in urls => js[h] = Expired[h]
    BY <1>2, PrivateRows
  <2> HIDE DEF js
  <2>3. js[i].state = "expired"
    <3>1. CASE jobs' = js
      BY <3>1
    <3>2. ASSUME NEW h \in Ids,
                 jobs' = [js EXCEPT ![h].state = "claimed", ![h].attempts = @ + 1,
                                    ![h].acked = FALSE, ![h].lapsed = FALSE]
          PROVE  js[i].state = "expired"
      <4> DEFINE new == [js EXCEPT ![h].state = "claimed", ![h].attempts = @ + 1,
                                   ![h].acked = FALSE, ![h].lapsed = FALSE]
      <4>1. Leased(new[h]) /\ \A o \in Ids \ {h} : new[o] = js[o]
        BY <2>2, ClaimedRow
      <4>2. jobs' = new
        BY <3>2
      <4> HIDE DEF new
      <4> QED
        BY <4>1, <4>2 DEF Leased
    <3> QED
      BY <1>4, <3>1, <3>2 DEF Claim, Commit, js
  <2>4. Expired[i].state = "queued" /\ i \notin urls
    BY <1>2, <2>2, <2>3
  <2>5. Open(jobs[i])
    BY <1>2, <2>4 DEF RowStep, Open, OpenStates
  <2> QED
    BY <1>1, <2>1, <2>4, <2>5 DEF IInv, AskedHeld, NoFlow
<1>5. ASSUME NEW f \in Feeds, SubscribeCommit(f) PROVE FALSE
  <2>1. CASE jobs' = [Expired EXCEPT ![nextID] =
                         [Absent EXCEPT !.feed = f, !.state = "queued", !.asked = boots]]
    BY <1>1, <1>2, <2>1, AskedRow
  <2>2. ASSUME NEW h \in Ids, jobs' = [Expired EXCEPT ![h].asked = boots] PROVE FALSE
    <3>1. jobs'[i].state = Expired[i].state
      BY <1>1, <1>2, <2>2 DEF Job
    <3> QED
      BY <1>2, <3>1
  <2> QED
    BY <1>5, <2>1, <2>2 DEF SubscribeCommit, Commit
<1>6. ASSUME NEW c \in claims, NEW st \in {"claimed", "parked", "done", "cancelled"},
             UpdateHeld(c, st)
      PROVE  FALSE
  <2>1. c.id \in Ids /\ st \in States /\ st # "expired"
    BY DEF IInv, Shapes, States, OpenStates, EndedStates
  <2> DEFINE new == [Expired EXCEPT ![c.id].state = st, ![c.id].acked = (st = "claimed"),
                                    ![c.id].lapsed = FALSE]
  <2>2. /\ new \in [Ids -> Job] /\ \A h \in Ids \ {c.id} : new[h] = Expired[h]
        /\ new[c.id].state = st /\ SameRequest(Expired[c.id], new[c.id])
    BY <1>2, <2>1, ReportedRow
  <2>3. jobs' = new
    BY <1>6 DEF UpdateHeld, Commit
  <2> HIDE DEF new
  <2> QED
    BY <1>2, <2>1, <2>2, <2>3
<1>7. ASSUME NEW c \in claims, ReleaseUnsentClaim(c) PROVE FALSE
  <2>1. c.id \in Ids
    BY DEF IInv, Shapes
  <2> QED
    BY <1>1, <1>7, <2>1 DEF ReleaseUnsentClaim, Commit, Job
<1>8. ASSUME NEW h \in Ids, Lapse(h) \/ Cancel(h) PROVE FALSE
  <2>1. CASE Lapse(h)
    BY <1>1, <2>1 DEF Lapse, Job
  <2>2. CASE Cancel(h)
    BY <1>2, <2>2 DEF Cancel, Commit, Job
  <2> QED
    BY <1>8, <2>1, <2>2
<1>9. CASE ExpireDue \/ SchedulerTick
  BY <1>2, <1>9 DEF ExpireDue, SchedulerTick, Commit
<1>10. CASE DeleteLibrary
  BY <1>10 DEF DeleteLibrary, Absent
<1> QED
  BY <1>3, <1>4, <1>5, <1>6, <1>7, <1>8, <1>9, <1>10
     DEF Next, vars, SubscribeStore, DropIfEnded, ClaimRead, ReportEnded, FoldPodcastJob,
         FoldFails, PruneSecrets, Die, SetModule, Age

-----------------------------------------------------------------------------

\* The queue, the URLs in memory and the claims handed out stay consistent
\* through every interleaving, lost reply, death and start.
THEOREM Inductive == Spec => []IInv
BY InitInv, NextInv, PTL DEF Spec

\* No claim goes out without its URL, for any number of requests and restarts
\* (claimStored, ExpirePrivateRequests).
THEOREM ClaimsCarryUrl == Spec => []HandedWithUrl
<1>1. IInv => HandedWithUrl
  BY DEF IInv
<1> QED
  BY <1>1, Inductive, PTL

\* A URL in memory belongs to an open request or is about to be dropped
\* (reportEnded, dropIfEnded, PruneSecrets).
THEOREM SecretsEnd == Spec => []SecretEndsWithRequest
<1>1. IInv => SecretEndsWithRequest
  BY DEF IInv
<1> QED
  BY <1>1, Inductive, PTL

\* Only a restart loses a request its URL: none made to this run of the server
\* expires for want of it (secretFlowMu through Subscribe and the claim).
THEOREM OnlyRestartsLose == Spec => LostOnlyByRestart
<1>1. IInv /\ [Next]_vars =>
        [\A i \in Ids : jobs[i].state # "expired" /\ jobs'[i].state = "expired" =>
            jobs[i].asked < boots']_vars
  BY LostStep
<1> QED
  BY <1>1, Inductive, PTL DEF Spec, LostOnlyByRestart
=============================================================================
