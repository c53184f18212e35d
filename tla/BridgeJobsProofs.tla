-------------------------- MODULE BridgeJobsProofs --------------------------
(***************************************************************************)
(* Proofs about the Bridge's job queue (BridgeJobs), for every set of      *)
(* kinds and paths, every number of attempts, jobs and seconds.            *)
(***************************************************************************)
EXTENDS BridgeJobs, TLAPS

\* What holds of one row, whatever the others are.
LeaseInv(j)  == IF j.state \in claimedStates THEN j.lease \in Nat ELSE j.lease = NoTime
QueuedInv(j) == j.state = "queued" =>
                   j.attempts < MaxAttempts /\ ~j.cancel /\ ~j.reported /\ j.error = "none"
ReasonInv(j) == j.error = "reason" =>
                   j.state = "cancelled" \/ (j.state \in claimedStates /\ j.cancel)
ToldInv(j)   == j.told = IF j.state \in {"done", "failed"} THEN 1 ELSE 0

RowInv(j) == LeaseInv(j) /\ QueuedInv(j) /\ ReasonInv(j) /\ ToldInv(j)

\* What an undelivered reply says of the job it hands out: the attempt is the
\* job's last or an older one, and while the lease is the reply's own nothing
\* was reported on the claim.
ReplyInv(r) ==
    LET j == jobs[r.id]
    IN  /\ r.id < nextID
        /\ j.state # "absent" => r.attempt <= j.attempts
        /\ j.state = "claimed" /\ j.attempts = r.attempt =>
              /\ r.lease <= j.lease
              /\ j.lease = r.lease => ~j.reported /\ (j.error = "none" \/ j.cancel)

\* An attempt number is on at most one reply.
RepliesDistinct ==
    \A r, q \in replies : r.id = q.id /\ r.attempt = q.attempt => r = q

\* What the Bridge has read, when it reads only whole replies: attempts the
\* jobs have spent, none of them on a reply under way.
BridgeInv ==
    EarlyReader \/
        /\ \A c \in bridge : /\ c.id < nextID
                             /\ jobs[c.id].state # "absent" => c.attempt <= jobs[c.id].attempts
        /\ \A r \in replies : ~r.read /\ [id |-> r.id, attempt |-> r.attempt] \notin bridge

\* The inductive invariant.
IInv ==
    /\ TypeOK
    /\ \A i \in JobIds : RowInv(jobs[i])
    /\ OneOpenPerKey
    /\ \A r \in replies : ReplyInv(r)
    /\ RepliesDistinct
    /\ BridgeInv

-----------------------------------------------------------------------------
(* What a step does to one row, when it hands no claim out and takes none  *)
(* back.                                                                   *)

\* Row j becomes row k.  A row keeps its attempts or is deleted, an ended one
\* keeps its outcome, a cancel stays asked for and out of the queue; a row
\* that is still claimed has a later lease, or nothing was reported on it.
RowStep(j, k) ==
    /\ k \in Job
    /\ RowInv(k)
    /\ k.state # "absent" => j.state # "absent" /\ k.attempts = j.attempts
    /\ k.state = "claimed" =>
          /\ j.state = "claimed"
          /\ \/ k.lease > j.lease
             \/ /\ k.lease = j.lease /\ k.reported = j.reported
                /\ k.error = j.error \/ k.cancel
                /\ j.cancel => k.cancel
    /\ j.cancel /\ k.state # "absent" => k.cancel /\ k.state # "queued"
    /\ j.state \in EndedStates /\ k.state # "absent" =>
          k.state = j.state /\ k.error = j.error

\* The row is open only if it was, for the same kind and book.
SameKey(j, k) ==
    Open(k) => Open(j) /\ k.kind = j.kind /\ k.path = j.path

\* What a row that is there before and after a step keeps.
Keeps(j, k) ==
    j.state # "absent" /\ k.state # "absent" =>
        /\ j.cancel => k.cancel /\ k.state # "queued" /\ k.attempts <= j.attempts
        /\ j.state \in EndedStates =>
              k.state = j.state /\ k.error = j.error /\ k.attempts = j.attempts

AllKeep  == \A i \in JobIds : Keeps(jobs[i], jobs'[i])
KeysStay == \A i \in JobIds : SameKey(jobs[i], jobs'[i])

\* The types of a row's fields.
Names(k)   == /\ k.kind \in Kinds \cup {"none"} /\ k.path \in Paths \cup {"none"}
              /\ k.state \in States /\ k.error \in Errors
Numbers(k) == k.attempts \in 0..MaxAttempts /\ k.lease \in Int /\ k.told \in Nat
Flags(k)   == k.issue \in BOOLEAN /\ k.cancel \in BOOLEAN /\ k.reported \in BOOLEAN

Fields(k) == Names(k) /\ Numbers(k) /\ Flags(k)

\* A row is the record of its fields.
Shape(k) ==
    k = [kind |-> k.kind, path |-> k.path, issue |-> k.issue, state |-> k.state,
         attempts |-> k.attempts, lease |-> k.lease, cancel |-> k.cancel,
         error |-> k.error, reported |-> k.reported, told |-> k.told]

\* A row has fields of these types, and a record with such fields is a row.
LEMMA JobFields == ASSUME NEW j \in Job PROVE Fields(j) /\ Shape(j)
BY DEF Job, Fields, Names, Numbers, Flags, Shape

\* A record with a row's fields, each of its type, is a row.
LEMMA ShapedRow == ASSUME NEW k, Shape(k), Fields(k) PROVE k \in Job
BY DEF Shape, Fields, Names, Numbers, Flags, Job

\* Doing nothing to a row is a row step.
LEMMA KeptRow ==
  ASSUME NEW j \in Job, RowInv(j)
  PROVE  RowStep(j, j) /\ SameKey(j, j)
<1>1. j.cancel => j.state # "queued"
  BY DEF RowInv, QueuedInv
<1>2. QED
  BY <1>1 DEF RowStep, SameKey

\* A row step keeps a cancel and an outcome.
LEMMA RowStepKeeps ==
  ASSUME NEW j \in Job, NEW k, RowStep(j, k)
  PROVE  Keeps(j, k)
<1>1. j.attempts \in Nat
  BY JobFields, BridgeJobsAssumption DEF Fields, Numbers
<1>2. k.state # "absent" => k.attempts = j.attempts /\ k.attempts <= j.attempts
  BY <1>1 DEF RowStep
<1>3. QED
  BY <1>2 DEF RowStep, Keeps

\* Row steps compose: every transaction expires leases before it does its own.
LEMMA StepsCompose ==
  ASSUME NEW j \in Job, NEW k \in Job, NEW l \in Job,
         RowStep(j, k), RowStep(k, l)
  PROVE  RowStep(j, l)
<1>1. Fields(j) /\ Fields(k) /\ Fields(l)
  BY JobFields
<1>2. l.state # "absent" =>
         k.state # "absent" /\ j.state # "absent" /\ l.attempts = j.attempts
  BY DEF RowStep
<1>3. l.state = "claimed" => k.state = "claimed" /\ j.state = "claimed"
  BY DEF RowStep
<1>4. l.state = "claimed" =>
          \/ l.lease > j.lease
          \/ /\ l.lease = j.lease /\ l.reported = j.reported
             /\ l.error = j.error \/ l.cancel
             /\ j.cancel => l.cancel
  <2>1. j.lease \in Int /\ k.lease \in Int /\ l.lease \in Int
    BY <1>1 DEF Fields, Numbers
  <2>2. k.state = "claimed" => k.lease > j.lease \/ k.lease = j.lease
    BY DEF RowStep
  <2>3. l.state = "claimed" /\ l.lease > k.lease => l.lease > j.lease
    BY <2>1, <2>2, <1>3
  <2>4. l.state = "claimed" /\ ~(l.lease > k.lease) /\ k.lease > j.lease => l.lease > j.lease
    BY <2>1, <1>3 DEF RowStep
  <2>5. QED
    BY <1>3, <2>3, <2>4 DEF RowStep
<1>5. j.cancel /\ l.state # "absent" => l.cancel /\ l.state # "queued"
  BY <1>2 DEF RowStep
<1>6. j.state \in EndedStates /\ l.state # "absent" => l.state = j.state /\ l.error = j.error
  BY <1>2 DEF RowStep
<1>7. QED
  BY <1>2, <1>3, <1>4, <1>5, <1>6 DEF RowStep

\* The absent row has the row invariant, and any row may be deleted.
LEMMA AbsentRow ==
  ASSUME NEW j
  PROVE  Absent \in Job /\ RowInv(Absent) /\ RowStep(j, Absent) /\ SameKey(j, Absent)
<1>1. Absent \in Job
  BY BridgeJobsAssumption
  DEF Absent, Job, States, OpenStates, EndedStates, Errors, NoTime
<1>2. RowInv(Absent)
  BY DEF Absent, RowInv, LeaseInv, QueuedInv, ReasonInv, ToldInv, claimedStates
<1>3. Absent.state = "absent"
  BY DEF Absent
<1>4. QED
  BY <1>1, <1>2, <1>3 DEF RowStep, SameKey, Open, OpenStates

\* A new row has the row invariant.
LEMMA NewRow ==
  ASSUME NEW k \in Kinds, NEW p \in Paths, NEW issue \in BOOLEAN
  PROVE  NewJob(k, p, issue) \in Job /\ RowInv(NewJob(k, p, issue))
<1>1. PICK j : j = NewJob(k, p, issue)
  OBVIOUS
<1>2. /\ Shape(j)
      /\ j.state = "queued" /\ j.lease = NoTime /\ j.told = 0 /\ j.attempts = 0
      /\ j.kind = k /\ j.path = p /\ j.error = "none"
  BY <1>1 DEF NewJob, Shape
<1>3. Names(j)
  BY <1>2 DEF Names, States, OpenStates, Errors
<1>4. Numbers(j)
  BY <1>2, BridgeJobsAssumption DEF Numbers, NoTime
<1>5. Flags(j) /\ ~j.cancel /\ ~j.reported
  BY <1>1 DEF Flags, NewJob
<1>6. j.attempts < MaxAttempts
  BY <1>2, BridgeJobsAssumption
<1>7. RowInv(j)
  BY <1>2, <1>5, <1>6 DEF RowInv, LeaseInv, QueuedInv, ReasonInv, ToldInv, claimedStates
<1>8. QED
  BY <1>1, <1>2, <1>3, <1>4, <1>5, <1>7, ShapedRow DEF Fields

\* Expiry is a row step, and a row that is still leased is untouched.
LEMMA ExpireRowStep ==
  ASSUME NEW j \in Job, RowInv(j), now \in Nat
  PROVE  RowStep(j, ExpireRow(j)) /\ SameKey(j, ExpireRow(j))
<1>0. Names(j) /\ Numbers(j) /\ Flags(j)
  BY JobFields DEF Fields
<1>1. CASE ~Lapsed(j)
  BY <1>1, KeptRow DEF ExpireRow
<1>2. CASE Lapsed(j) /\ j.cancel
  <2>1. PICK k : k = [j EXCEPT !.state = "cancelled", !.lease = NoTime]
    OBVIOUS
  <2>2. ExpireRow(j) = k
    BY <1>2, <2>1 DEF ExpireRow
  <2>3. /\ Shape(k)
        /\ k.state = "cancelled" /\ k.lease = NoTime /\ k.told = j.told
        /\ k.kind = j.kind /\ k.path = j.path /\ k.issue = j.issue
        /\ k.attempts = j.attempts /\ k.cancel = j.cancel
        /\ k.error = j.error /\ k.reported = j.reported
    BY <2>1 DEF Job, Shape
  <2>4. Names(k)
    BY <1>0, <2>3 DEF Names, States, EndedStates
  <2>5. Numbers(k)
    BY <1>0, <2>3 DEF Numbers, NoTime
  <2>6. Flags(k)
    BY <1>0, <2>3, Zenon DEF Flags
  <2>7. RowInv(k)
    BY <1>2, <2>3 DEF RowInv, LeaseInv, QueuedInv, ReasonInv, ToldInv, Lapsed, claimedStates
  <2>8. QED
    BY <1>2, <2>2, <2>3, <2>4, <2>5, <2>6, <2>7, ShapedRow
    DEF Fields, RowStep, SameKey, Lapsed, Open, OpenStates, EndedStates, claimedStates
<1>3. CASE Lapsed(j) /\ ~j.cancel /\ j.attempts >= MaxAttempts
  <2>1. PICK k : k = [j EXCEPT !.state = "failed", !.lease = NoTime, !.error = "lost",
                               !.told = j.told + 1]
    OBVIOUS
  <2>2. ExpireRow(j) = k
    BY <1>3, <2>1 DEF ExpireRow
  <2>3. /\ Shape(k)
        /\ k.state = "failed" /\ k.lease = NoTime /\ k.told = j.told + 1
        /\ k.kind = j.kind /\ k.path = j.path /\ k.issue = j.issue
        /\ k.attempts = j.attempts /\ k.cancel = j.cancel
        /\ k.error = "lost" /\ k.reported = j.reported
    BY <2>1 DEF Job, Shape
  <2>4. Names(k)
    BY <1>0, <2>3 DEF Names, States, EndedStates, Errors
  <2>5. Numbers(k)
    BY <1>0, <2>3 DEF Numbers, NoTime
  <2>6. Flags(k)
    BY <1>0, <2>3, Zenon DEF Flags
  <2>7. j.state \in claimedStates
    BY <1>3 DEF Lapsed
  <2>8. ToldInv(k)
    BY <2>3, <2>7 DEF RowInv, ToldInv, claimedStates
  <2>9. RowInv(k)
    BY <2>3, <2>8 DEF RowInv, LeaseInv, QueuedInv, ReasonInv, claimedStates
  <2>10. QED
    BY <2>2, <2>3, <2>4, <2>5, <2>6, <2>7, <2>9, ShapedRow
    DEF Fields, RowStep, SameKey, Open, OpenStates, EndedStates, claimedStates
<1>4. CASE Lapsed(j) /\ ~j.cancel /\ ~(j.attempts >= MaxAttempts)
  <2>1. PICK k : k = [j EXCEPT !.state = "queued", !.lease = NoTime, !.error = "none",
                               !.reported = FALSE]
    OBVIOUS
  <2>2. ExpireRow(j) = k
    BY <1>4, <2>1 DEF ExpireRow
  <2>3. /\ Shape(k)
        /\ k.state = "queued" /\ k.lease = NoTime /\ k.told = j.told
        /\ k.kind = j.kind /\ k.path = j.path /\ k.issue = j.issue
        /\ k.attempts = j.attempts /\ k.cancel = j.cancel
        /\ k.error = "none"
    BY <2>1 DEF Job, Shape
  <2>4. Names(k)
    BY <1>0, <2>3 DEF Names, States, OpenStates, Errors
  <2>5. Numbers(k)
    BY <1>0, <2>3 DEF Numbers, NoTime
  <2>6. Flags(k) /\ ~k.reported
    BY <1>0, <2>1 DEF Flags, Job
  <2>7. k.attempts < MaxAttempts
    <3>1. ~(j.attempts >= MaxAttempts)
      BY <1>4
    <3>2. QED
      BY <1>0, <2>3, <3>1, BridgeJobsAssumption DEF Numbers
  <2>8. j.state \in claimedStates /\ ~j.cancel
    BY <1>4 DEF Lapsed
  <2>9. RowInv(k)
    BY <2>3, <2>6, <2>7, <2>8
    DEF RowInv, LeaseInv, QueuedInv, ReasonInv, ToldInv, claimedStates
  <2>10. QED
    BY <2>2, <2>3, <2>4, <2>5, <2>6, <2>8, <2>9, ShapedRow
    DEF Fields, RowStep, SameKey, Open, OpenStates, EndedStates, claimedStates
<1>5. QED
  BY <1>1, <1>2, <1>3, <1>4

\* A cancel by another job is a row step.
LEMMA CancelRowStep ==
  ASSUME NEW j \in Job, RowInv(j)
  PROVE  RowStep(j, CancelRow(j)) /\ SameKey(j, CancelRow(j))
<1>0. Names(j) /\ Numbers(j) /\ Flags(j)
  BY JobFields DEF Fields
<1>1. CASE j.state \in {"queued", "needs_attention"}
  <2>1. PICK k : k = [j EXCEPT !.state = "cancelled", !.cancel = TRUE, !.lease = NoTime,
                               !.error = "reason"]
    OBVIOUS
  <2>2. CancelRow(j) = k
    BY <1>1, <2>1 DEF CancelRow
  <2>3. /\ Shape(k)
        /\ k.state = "cancelled" /\ k.lease = NoTime /\ k.told = j.told
        /\ k.kind = j.kind /\ k.path = j.path /\ k.issue = j.issue
        /\ k.attempts = j.attempts /\ k.error = "reason" /\ k.reported = j.reported
    BY <2>1 DEF Job, Shape
  <2>4. Flags(k) /\ k.cancel
    BY <1>0, <2>1 DEF Flags, Job
  <2>5. Names(k)
    BY <1>0, <2>3 DEF Names, States, EndedStates, Errors
  <2>6. Numbers(k)
    BY <1>0, <2>3 DEF Numbers, NoTime
  <2>7. RowInv(k)
    BY <1>1, <2>3 DEF RowInv, LeaseInv, QueuedInv, ReasonInv, ToldInv, claimedStates
  <2>8. QED
    BY <1>1, <2>2, <2>3, <2>4, <2>5, <2>6, <2>7, ShapedRow
    DEF Fields, RowStep, SameKey, Open, OpenStates, EndedStates
<1>2. CASE j.state \in claimedStates
  <2>1. PICK err : err = IF j.cancel THEN j.error ELSE "reason"
    OBVIOUS
  <2>2. err \in Errors
    BY <1>0, <2>1 DEF Names, Errors
  <2>3. PICK k : k = [j EXCEPT !.error = err, !.cancel = TRUE]
    OBVIOUS
  <2>4. CancelRow(j) = k
    BY <1>2, <2>1, <2>3 DEF CancelRow, claimedStates
  <2>5. /\ Shape(k)
        /\ k.state = j.state /\ k.lease = j.lease /\ k.told = j.told
        /\ k.kind = j.kind /\ k.path = j.path /\ k.issue = j.issue
        /\ k.attempts = j.attempts /\ k.error = err /\ k.reported = j.reported
    BY <2>3 DEF Job, Shape
  <2>6. Flags(k) /\ k.cancel
    BY <1>0, <2>3 DEF Flags, Job
  <2>7. Names(k)
    BY <1>0, <2>2, <2>5 DEF Names
  <2>8. Numbers(k)
    BY <1>0, <2>5 DEF Numbers
  <2>9. RowInv(k)
    BY <1>2, <2>5, <2>6 DEF RowInv, LeaseInv, QueuedInv, ReasonInv, ToldInv, claimedStates
  <2>10. QED
    BY <1>2, <2>4, <2>5, <2>6, <2>7, <2>8, <2>9, ShapedRow
    DEF Fields, RowStep, SameKey, Open, OpenStates, EndedStates, claimedStates
<1>3. CASE j.state \notin {"queued", "needs_attention"} /\ j.state \notin claimedStates
  BY <1>3, KeptRow DEF CancelRow
<1>4. QED
  BY <1>1, <1>2, <1>3

\* The row an admin's Cancel leaves.
CancelledByAdmin(j) ==
    IF j.state \in {"queued", "needs_attention"}
    THEN [j EXCEPT !.state = "cancelled", !.cancel = TRUE, !.lease = NoTime]
    ELSE [j EXCEPT !.cancel = TRUE]

\* An admin's cancel of an open job is a row step.
LEMMA AdminCancelStep ==
  ASSUME NEW j \in Job, RowInv(j), Open(j)
  PROVE  RowStep(j, CancelledByAdmin(j)) /\ SameKey(j, CancelledByAdmin(j))
<1>0. Names(j) /\ Numbers(j) /\ Flags(j)
  BY JobFields DEF Fields
<1>1. CASE j.state \in {"queued", "needs_attention"}
  <2>1. PICK k : k = [j EXCEPT !.state = "cancelled", !.cancel = TRUE, !.lease = NoTime]
    OBVIOUS
  <2>2. CancelledByAdmin(j) = k
    BY <1>1, <2>1 DEF CancelledByAdmin
  <2>3. /\ Shape(k)
        /\ k.state = "cancelled" /\ k.lease = NoTime /\ k.told = j.told
        /\ k.kind = j.kind /\ k.path = j.path /\ k.issue = j.issue
        /\ k.attempts = j.attempts /\ k.error = j.error /\ k.reported = j.reported
    BY <2>1 DEF Job, Shape
  <2>4. Flags(k) /\ k.cancel
    BY <1>0, <2>1 DEF Flags, Job
  <2>5. Names(k)
    BY <1>0, <2>3 DEF Names, States, EndedStates
  <2>6. Numbers(k)
    BY <1>0, <2>3 DEF Numbers, NoTime
  <2>7. RowInv(k)
    BY <1>1, <2>3 DEF RowInv, LeaseInv, QueuedInv, ReasonInv, ToldInv, claimedStates
  <2>8. QED
    BY <1>1, <2>2, <2>3, <2>4, <2>5, <2>6, <2>7, ShapedRow
    DEF Fields, RowStep, SameKey, Open, OpenStates, EndedStates
<1>2. CASE j.state \notin {"queued", "needs_attention"}
  <2>1. PICK k : k = [j EXCEPT !.cancel = TRUE]
    OBVIOUS
  <2>2. CancelledByAdmin(j) = k
    BY <1>2, <2>1 DEF CancelledByAdmin
  <2>3. /\ Shape(k)
        /\ k.state = j.state /\ k.lease = j.lease /\ k.told = j.told
        /\ k.kind = j.kind /\ k.path = j.path /\ k.issue = j.issue
        /\ k.attempts = j.attempts /\ k.error = j.error /\ k.reported = j.reported
    BY <2>1 DEF Job, Shape
  <2>4. Flags(k) /\ k.cancel
    BY <1>0, <2>1 DEF Flags, Job
  <2>5. Names(k)
    BY <1>0, <2>3 DEF Names
  <2>6. Numbers(k)
    BY <1>0, <2>3 DEF Numbers
  <2>7. RowInv(k)
    BY <1>2, <2>3, <2>4 DEF RowInv, LeaseInv, QueuedInv, ReasonInv, ToldInv, claimedStates
  <2>8. QED
    BY <1>2, <2>2, <2>3, <2>4, <2>5, <2>6, <2>7, ShapedRow
    DEF Fields, RowStep, SameKey, Open, OpenStates, EndedStates
<1>3. QED
  BY <1>1, <1>2

\* The row a report leaves.
Reported(j, st, e, p) ==
    [j EXCEPT !.state = st,
              !.lease = IF st \in claimedStates THEN RenewedLease(j, st) ELSE NoTime,
              !.error = ReportedError(j, st, e),
              !.reported = j.reported \/ p,
              !.told = IF st \in {"done", "failed"} THEN j.told + 1 ELSE j.told]

\* A report on a held job is a row step: one that leaves it claimed moves its
\* lease, and the server's reason is only kept while it is being cancelled.
LEMMA ReportStep ==
  ASSUME NEW j \in Job, RowInv(j), j.state \in heldStates, now \in Nat,
         NEW st, st \in reportable \/ st = j.state,
         NEW e \in {"keep", "bridge"}, NEW p \in BOOLEAN
  PROVE  RowStep(j, Reported(j, st, e, p)) /\ SameKey(j, Reported(j, st, e, p))
<1>0. Names(j) /\ Numbers(j) /\ Flags(j)
  BY JobFields DEF Fields
<1>1. PICK lse : lse = IF st \in claimedStates THEN RenewedLease(j, st) ELSE NoTime
  OBVIOUS
<1>2. PICK err : err = ReportedError(j, st, e)
  OBVIOUS
<1>3. PICK told : told = IF st \in {"done", "failed"} THEN j.told + 1 ELSE j.told
  OBVIOUS
<1>4. PICK k : k = [j EXCEPT !.state = st, !.lease = lse, !.error = err,
                             !.reported = j.reported \/ p, !.told = told]
  OBVIOUS
<1>5. Reported(j, st, e, p) = k
  BY <1>1, <1>2, <1>3, <1>4 DEF Reported
<1>6. /\ Shape(k)
      /\ k.state = st /\ k.lease = lse /\ k.error = err /\ k.told = told
      /\ k.kind = j.kind /\ k.path = j.path /\ k.issue = j.issue
      /\ k.attempts = j.attempts /\ k.cancel = j.cancel
  BY <1>4 DEF Job, Shape
<1>7. Flags(k)
  <2>1. (j.reported \/ p) \in BOOLEAN
    OBVIOUS
  <2>2. k.reported \in BOOLEAN
    BY <1>4, <2>1 DEF Job
  <2>3. QED
    BY <1>0, <1>6, <2>2, Zenon DEF Flags
<1>8. st \in States /\ st # "queued" /\ st # "absent" /\ (st = "claimed" => j.state = "claimed")
  BY <1>0 DEF heldStates, reportable, States, OpenStates, EndedStates, Names
<1>9. err \in Errors
  <2>1. err \in {"none", "keep", "bridge", j.error} /\ err # "keep"
    BY <1>0, <1>2 DEF ReportedError, Names, Errors
  <2>2. QED
    BY <1>0, <2>1 DEF Names, Errors
<1>10. Names(k)
  BY <1>0, <1>6, <1>8, <1>9 DEF Names
<1>11. j.told = 0
  BY DEF RowInv, ToldInv, heldStates
<1>12. Numbers(k)
  <2>1. j.state = "claimed" => j.lease \in Nat
    BY DEF RowInv, LeaseInv, claimedStates
  <2>2. lse \in Int
    BY <1>0, <1>1, BridgeJobsAssumption DEF RenewedLease, NoTime, Numbers
  <2>3. told \in Nat
    BY <1>3, <1>11
  <2>4. QED
    BY <1>0, <1>6, <2>2, <2>3 DEF Numbers
<1>13. LeaseInv(k)
  <2>1. st = "claimed" => j.lease \in Nat
    BY <1>8 DEF RowInv, LeaseInv, claimedStates
  <2>2. st \in claimedStates => lse \in Nat
    BY <1>1, <2>1, BridgeJobsAssumption DEF RenewedLease
  <2>3. QED
    BY <1>1, <1>6, <2>2 DEF LeaseInv
<1>14. ToldInv(k)
  BY <1>3, <1>6, <1>11 DEF ToldInv
<1>15. ReasonInv(k)
  <2>1. err = "reason" => j.error = "reason" /\ (j.cancel => st \notin {"done", "failed", "needs_attention"})
    BY <1>2 DEF ReportedError
  <2>2. err = "reason" => j.state \in claimedStates /\ j.cancel
    BY <2>1 DEF RowInv, ReasonInv, heldStates
  <2>3. err = "reason" => st = "cancelled" \/ st \in claimedStates
    BY <2>1, <2>2 DEF reportable, claimedStates
  <2>4. QED
    BY <1>6, <2>2, <2>3 DEF ReasonInv
<1>16. RowInv(k)
  BY <1>6, <1>8, <1>13, <1>14, <1>15 DEF RowInv, QueuedInv
<1>17. k.state = "claimed" => k.lease > j.lease
  BY <1>0, <1>1, <1>6, BridgeJobsAssumption DEF RenewedLease, claimedStates, Numbers
<1>18. QED
  BY <1>5, <1>6, <1>7, <1>8, <1>10, <1>12, <1>16, <1>17, ShapedRow
  DEF Fields, RowStep, SameKey, Open, OpenStates, EndedStates, heldStates

\* The row a move leaves when another job is open at the new path, and the one
\* it leaves otherwise.
Displaced(j, new) ==
    [j EXCEPT !.state = "cancelled", !.error = "reason", !.lease = NoTime, !.path = new]
Followed(j, new) == [j EXCEPT !.path = new]

\* Both are row steps, and the first only closes.
LEMMA MoveStep ==
  ASSUME NEW j \in Job, RowInv(j), j.state # "absent", NEW new \in Paths
  PROVE  /\ Open(j) => RowStep(j, Displaced(j, new)) /\ ~Open(Displaced(j, new))
         /\ RowStep(j, Followed(j, new))
         /\ Followed(j, new).state = j.state
         /\ Followed(j, new).kind = j.kind
         /\ Followed(j, new).path = new
<1>0. Names(j) /\ Numbers(j) /\ Flags(j)
  BY JobFields DEF Fields
<1>1. ASSUME Open(j) PROVE RowStep(j, Displaced(j, new)) /\ ~Open(Displaced(j, new))
  <2>1. PICK k : k = Displaced(j, new)
    OBVIOUS
  <2>2. /\ Shape(k)
        /\ k.state = "cancelled" /\ k.lease = NoTime /\ k.told = j.told
        /\ k.kind = j.kind /\ k.path = new /\ k.issue = j.issue
        /\ k.attempts = j.attempts /\ k.error = "reason" /\ k.reported = j.reported
        /\ k.cancel = j.cancel
    BY <2>1 DEF Job, Shape, Displaced
  <2>3. Flags(k)
    BY <1>0, <2>2, Zenon DEF Flags
  <2>4. Names(k)
    BY <1>0, <2>2 DEF Names, States, EndedStates, Errors
  <2>5. Numbers(k)
    BY <1>0, <2>2 DEF Numbers, NoTime
  <2>6. RowInv(k)
    BY <1>1, <2>2
    DEF RowInv, LeaseInv, QueuedInv, ReasonInv, ToldInv, claimedStates, Open, OpenStates
  <2>7. QED
    BY <1>1, <2>1, <2>2, <2>3, <2>4, <2>5, <2>6, ShapedRow
    DEF Fields, RowStep, Open, OpenStates, EndedStates
<1>2. /\ RowStep(j, Followed(j, new)) /\ Followed(j, new).state = j.state
      /\ Followed(j, new).kind = j.kind /\ Followed(j, new).path = new
  <2>1. PICK k : k = Followed(j, new)
    OBVIOUS
  <2>2. /\ Shape(k)
        /\ k.state = j.state /\ k.lease = j.lease /\ k.told = j.told
        /\ k.kind = j.kind /\ k.path = new /\ k.issue = j.issue
        /\ k.attempts = j.attempts /\ k.error = j.error /\ k.reported = j.reported
        /\ k.cancel = j.cancel
    BY <2>1 DEF Job, Shape, Followed
  <2>3. Flags(k)
    BY <1>0, <2>2, Zenon DEF Flags
  <2>4. Names(k)
    BY <1>0, <2>2 DEF Names
  <2>5. Numbers(k)
    BY <1>0, <2>2 DEF Numbers
  <2>6. RowInv(k)
    BY <2>2 DEF RowInv, LeaseInv, QueuedInv, ReasonInv, ToldInv
  <2>7. k \in Job
    BY <2>2, <2>3, <2>4, <2>5, ShapedRow DEF Fields
  <2>8. j.cancel => j.state # "queued"
    BY DEF RowInv, QueuedInv
  <2>9. QED
    BY <2>1, <2>2, <2>6, <2>7, <2>8 DEF RowStep
<1>3. QED
  BY <1>1, <1>2

\* The row a release leaves.
Released(j) ==
    [j EXCEPT !.state = IF j.cancel THEN "cancelled" ELSE "queued",
              !.attempts = j.attempts - 1, !.lease = NoTime]

\* A claim of a queued job: the attempt is one of the job's allowance, and
\* nothing has been reported on it.
LEMMA ClaimStep ==
  ASSUME NEW j \in Job, RowInv(j), j.state = "queued", now \in Nat
  PROVE  LET k == Claimed(j)
         IN  /\ k \in Job /\ RowInv(k) /\ SameKey(j, k)
             /\ k.state = "claimed" /\ k.attempts = j.attempts + 1 /\ k.lease = now + Lease
             /\ ~k.reported /\ k.error = "none" /\ ~j.cancel
             /\ k.attempts \in 1..MaxAttempts
<1>0. Names(j) /\ Numbers(j) /\ Flags(j)
  BY JobFields DEF Fields
<1>1. PICK k : k = Claimed(j)
  OBVIOUS
<1>2. /\ Shape(k)
      /\ k.state = "claimed" /\ k.lease = now + Lease /\ k.told = j.told
      /\ k.kind = j.kind /\ k.path = j.path /\ k.issue = j.issue
      /\ k.attempts = j.attempts + 1 /\ k.error = j.error /\ k.reported = j.reported
      /\ k.cancel = j.cancel
  BY <1>1 DEF Job, Shape, Claimed
<1>3. Flags(k)
  BY <1>0, <1>2, Zenon DEF Flags
<1>4. Names(k)
  BY <1>0, <1>2 DEF Names, States, OpenStates
<1>5. j.attempts < MaxAttempts
  BY DEF RowInv, QueuedInv
<1>6. Numbers(k) /\ k.attempts \in 1..MaxAttempts /\ k.lease \in Nat
  BY <1>0, <1>2, <1>5, BridgeJobsAssumption DEF Numbers
<1>7. ~j.reported /\ ~j.cancel /\ j.error = "none"
  BY DEF RowInv, QueuedInv
<1>8. RowInv(k)
  BY <1>2, <1>6, <1>7 DEF RowInv, LeaseInv, QueuedInv, ReasonInv, ToldInv, claimedStates
<1>9. QED
  BY <1>1, <1>2, <1>3, <1>4, <1>6, <1>7, <1>8, ShapedRow DEF Fields, SameKey, Open, OpenStates

\* A release of a claim nobody reported on: the job is queued as new, with the
\* attempt given back, or cancelled.
LEMMA ReleaseStep ==
  ASSUME NEW j \in Job, RowInv(j), j.state = "claimed", j.attempts # 0,
         ~j.reported, j.error = "none" \/ j.cancel
  PROVE  LET k == Released(j)
         IN  /\ k \in Job /\ RowInv(k) /\ SameKey(j, k)
             /\ k.state \in {"queued", "cancelled"} /\ k.attempts = j.attempts - 1
             /\ j.cancel => k.cancel /\ k.state = "cancelled"
<1>0. Names(j) /\ Numbers(j) /\ Flags(j)
  BY JobFields DEF Fields
<1>1. PICK st : st = IF j.cancel THEN "cancelled" ELSE "queued"
  OBVIOUS
<1>2. PICK k : k = [j EXCEPT !.state = st, !.attempts = j.attempts - 1, !.lease = NoTime]
  OBVIOUS
<1>3. Released(j) = k
  BY <1>1, <1>2 DEF Released
<1>4. /\ Shape(k)
      /\ k.state = st /\ k.lease = NoTime /\ k.told = j.told
      /\ k.kind = j.kind /\ k.path = j.path /\ k.issue = j.issue
      /\ k.attempts = j.attempts - 1 /\ k.error = j.error /\ k.reported = j.reported
      /\ k.cancel = j.cancel
  BY <1>2 DEF Job, Shape
<1>5. Flags(k)
  BY <1>0, <1>4, Zenon DEF Flags
<1>6. st \in {"queued", "cancelled"} /\ (st = "queued" => ~j.cancel) /\ (j.cancel => st = "cancelled")
  BY <1>1
<1>7. Names(k)
  BY <1>0, <1>4, <1>6 DEF Names, States, OpenStates, EndedStates
<1>8. Numbers(k) /\ k.attempts < MaxAttempts
  BY <1>0, <1>4, BridgeJobsAssumption DEF Numbers, NoTime
<1>9. RowInv(k)
  BY <1>4, <1>6, <1>8 DEF RowInv, LeaseInv, QueuedInv, ReasonInv, ToldInv, claimedStates
<1>10. QED
  BY <1>3, <1>4, <1>5, <1>6, <1>7, <1>8, <1>9, ShapedRow
  DEF Fields, SameKey, Open, OpenStates

-----------------------------------------------------------------------------
(* Steps on the whole table.                                               *)

\* What the invariant says of each row.
LEMMA RowFacts ==
  ASSUME IInv, NEW i \in JobIds
  PROVE  jobs[i] \in Job /\ RowInv(jobs[i]) /\ now \in Nat
BY BridgeJobsAssumption DEF IInv, TypeOK

\* The table after expiry: each row took a row step.
LEMMA ExpiredTable ==
  ASSUME IInv
  PROVE  /\ Expired \in [JobIds -> Job]
         /\ \A i \in JobIds : /\ Expired[i] \in Job /\ RowInv(Expired[i])
                              /\ RowStep(jobs[i], Expired[i])
                              /\ SameKey(jobs[i], Expired[i])
<1>1. \A i \in JobIds : RowStep(jobs[i], ExpireRow(jobs[i])) /\ SameKey(jobs[i], ExpireRow(jobs[i]))
  BY RowFacts, ExpireRowStep
<1>2. \A i \in JobIds : ExpireRow(jobs[i]) \in Job /\ RowInv(ExpireRow(jobs[i]))
  BY <1>1 DEF RowStep
<1>3. QED
  BY <1>1, <1>2 DEF Expired

\* A row step on a reply's job keeps what is known of the reply.
LEMMA ReplyKept ==
  ASSUME IInv, nextID' \in Int, nextID' >= nextID, NEW r \in replies,
         RowStep(jobs[r.id], jobs'[r.id])
  PROVE  ReplyInv(r)'
<1>0. nextID \in Int /\ replies \subseteq Reply
  BY DEF IInv, TypeOK
<1>1. r.id \in JobIds /\ r.attempt \in 1..MaxAttempts /\ r.lease \in Int
  BY <1>0 DEF Reply
<1>2. ReplyInv(r)
  BY DEF IInv
<1>3. r.id < nextID /\ r.id < nextID'
  BY <1>0, <1>1, <1>2 DEF ReplyInv, JobIds
<1>5. jobs[r.id] \in Job /\ jobs'[r.id] \in Job
  BY <1>1,  RowFacts DEF RowStep
<1>6. jobs[r.id].lease \in Int /\ jobs'[r.id].lease \in Int
  BY <1>5, JobFields DEF Fields, Numbers
<1>7. jobs'[r.id].state # "absent" => r.attempt <= jobs'[r.id].attempts
  BY <1>2 DEF RowStep, ReplyInv
<1>8. ASSUME jobs'[r.id].state = "claimed", jobs'[r.id].attempts = r.attempt
      PROVE  /\ r.lease <= jobs'[r.id].lease
             /\ jobs'[r.id].lease = r.lease =>
                   ~jobs'[r.id].reported /\ (jobs'[r.id].error = "none" \/ jobs'[r.id].cancel)
  <2>1. jobs[r.id].state = "claimed" /\ jobs[r.id].attempts = r.attempt
    BY  <1>8 DEF RowStep
  <2>2. /\ r.lease <= jobs[r.id].lease
        /\ jobs[r.id].lease = r.lease =>
              ~jobs[r.id].reported /\ (jobs[r.id].error = "none" \/ jobs[r.id].cancel)
    BY <1>2, <2>1 DEF ReplyInv
  <2>3. CASE jobs'[r.id].lease > jobs[r.id].lease
    <3>1. r.lease < jobs'[r.id].lease
      <4>1. r.lease <= jobs[r.id].lease
        BY <2>2
      <4>2. QED
        BY <1>1, <1>6, <2>3, <4>1
    <3>2. r.lease <= jobs'[r.id].lease /\ jobs'[r.id].lease # r.lease
      BY <1>1, <1>6, <3>1
    <3>3. QED
      BY <3>2
  <2>4. CASE ~(jobs'[r.id].lease > jobs[r.id].lease)
    BY  <1>8, <2>1, <2>2, <2>4 DEF RowStep
  <2>5. QED
    BY <2>3, <2>4
<1>9. QED
  BY <1>3, <1>7, <1>8 DEF ReplyInv

\* Row steps keep what is known of the replies and of the Bridge's claims.
LEMMA RepliesKept ==
  ASSUME IInv, nextID' \in Int, nextID' >= nextID, replies' = replies, bridge' = bridge,
         \A i \in JobIds : i < nextID => RowStep(jobs[i], jobs'[i])
  PROVE  (\A r \in replies : ReplyInv(r))' /\ RepliesDistinct' /\ BridgeInv'
<1>0. nextID \in Int /\ replies \subseteq Reply /\ bridge \subseteq BridgeClaim
  BY DEF IInv, TypeOK
<1>1. ASSUME NEW r \in replies PROVE ReplyInv(r)'
  <2>1. r.id \in JobIds /\ r.id < nextID
    BY <1>0 DEF Reply, IInv, ReplyInv
  <2>2. RowStep(jobs[r.id], jobs'[r.id])
    BY <2>1
  <2>3. QED
    BY <2>2, ReplyKept
<1>2. RepliesDistinct'
  BY DEF IInv, RepliesDistinct
<1>3. BridgeInv'
  <2>1. CASE EarlyReader
    BY <2>1 DEF BridgeInv
  <2>2. CASE ~EarlyReader
    <3>1. ASSUME NEW c \in bridge
          PROVE  /\ c.id < nextID'
                 /\ jobs'[c.id].state # "absent" => c.attempt <= jobs'[c.id].attempts
      <4>1. c.id \in JobIds
        BY <1>0 DEF BridgeClaim
      <4>2. c.id < nextID /\ (jobs[c.id].state # "absent" => c.attempt <= jobs[c.id].attempts)
        BY <2>2 DEF IInv, BridgeInv
      <4>3. RowStep(jobs[c.id], jobs'[c.id])
        BY <4>1, <4>2
      <4>4. c.id < nextID'
        BY <1>0, <4>1, <4>2 DEF JobIds
      <4>5. QED
        BY <4>2, <4>3, <4>4 DEF RowStep
    <3>2. QED
      BY <2>2, <3>1 DEF IInv, BridgeInv
  <2>3. QED
    BY <2>1, <2>2
<1>4. QED
  BY <1>1, <1>2, <1>3

\* Rows that stay open only under their own key keep the keys distinct.
LEMMA KeysKept ==
  ASSUME OneOpenPerKey, \A i \in JobIds : SameKey(jobs[i], jobs'[i])
  PROVE  OneOpenPerKey'
BY DEF OneOpenPerKey, SameKey, DedupeKey

\* The type invariant follows from the rows'.
LEMMA TypeFromRows ==
  ASSUME jobs' \in [JobIds -> Job],
         \A i \in JobIds : RowInv(jobs'[i]) /\ (i >= nextID' => jobs'[i].state = "absent"),
         nextID' \in 1..(MaxJobs + 1), now' \in 0..MaxTime, moduleOn' \in BOOLEAN,
         replies' \subseteq Reply, bridge' \subseteq BridgeClaim
  PROVE  TypeOK' /\ (\A i \in JobIds : RowInv(jobs[i]))'
BY DEF TypeOK, RowInv, LeaseInv

\* A step that takes every row by a row step under its own key, and leaves the
\* replies and the Bridge alone, keeps the invariant.
LEMMA TableStep ==
  ASSUME IInv, jobs' \in [JobIds -> Job],
         \A i \in JobIds : RowStep(jobs[i], jobs'[i]) /\ SameKey(jobs[i], jobs'[i]),
         now' \in 0..MaxTime, moduleOn' \in BOOLEAN,
         UNCHANGED <<nextID, replies, bridge>>
  PROVE  IInv' /\ AllKeep /\ KeysStay
<1>1. nextID \in 1..(MaxJobs + 1) /\ replies \subseteq Reply /\ bridge \subseteq BridgeClaim
  BY DEF IInv, TypeOK
<1>2. \A i \in JobIds : RowInv(jobs'[i])
  BY DEF RowStep
<1>3. \A i \in JobIds : i >= nextID => jobs'[i].state = "absent"
  BY DEF IInv, TypeOK, RowStep
<1>4. TypeOK' /\ (\A i \in JobIds : RowInv(jobs[i]))'
  BY <1>1, <1>2, <1>3, TypeFromRows
<1>5. OneOpenPerKey'
  BY KeysKept DEF IInv
<1>6. (\A r \in replies : ReplyInv(r))' /\ RepliesDistinct' /\ BridgeInv'
  BY <1>1, RepliesKept
<1>7. AllKeep /\ KeysStay
  BY RowFacts, RowStepKeeps DEF AllKeep, KeysStay
<1>8. QED
  BY <1>4, <1>5, <1>6, <1>7 DEF IInv

-----------------------------------------------------------------------------
(* The invariant is kept by every action.                                  *)

\* A read path that only expires leases (expireDue) keeps the invariant.
LEMMA ExpireDueInv == ASSUME IInv, ExpireDue PROVE IInv' /\ AllKeep /\ KeysStay
<1>1. now \in 0..MaxTime /\ moduleOn \in BOOLEAN
  BY DEF IInv, TypeOK
<1>2. QED
  BY <1>1, ExpiredTable, TableStep DEF ExpireDue

\* Cancel keeps the invariant: a job is ended at once or marked, never queued.
LEMMA CancelInv == ASSUME IInv, NEW i \in JobIds, Cancel(i) PROVE IInv' /\ AllKeep /\ KeysStay
<1>1. now \in 0..MaxTime /\ moduleOn \in BOOLEAN
  BY DEF IInv, TypeOK
<1>2. jobs' = [Expired EXCEPT ![i] = CancelledByAdmin(Expired[i])]
  BY DEF Cancel, CancelledByAdmin
<1>3. RowStep(Expired[i], CancelledByAdmin(Expired[i])) /\ SameKey(Expired[i], CancelledByAdmin(Expired[i]))
  BY ExpiredTable, AdminCancelStep DEF Cancel
<1>4. CancelledByAdmin(Expired[i]) \in Job
  BY <1>3 DEF RowStep
<1>5. RowStep(jobs[i], CancelledByAdmin(Expired[i])) /\ SameKey(jobs[i], CancelledByAdmin(Expired[i]))
  BY <1>3, <1>4, RowFacts, ExpiredTable, StepsCompose DEF SameKey
<1>6. jobs' \in [JobIds -> Job]
  BY <1>2, <1>4, ExpiredTable
<1>7. \A h \in JobIds : jobs'[h] = IF h = i THEN CancelledByAdmin(Expired[i]) ELSE Expired[h]
  BY <1>2, ExpiredTable
<1>8. \A h \in JobIds : RowStep(jobs[h], jobs'[h]) /\ SameKey(jobs[h], jobs'[h])
  BY <1>5, <1>7, ExpiredTable
<1>9. UNCHANGED <<nextID, now, moduleOn, replies, bridge>>
  BY DEF Cancel
<1>10. QED
  BY <1>1, <1>6, <1>8, <1>9, TableStep

\* A report (UpdateHeld) keeps the invariant: its claim holds the job.
LEMMA UpdateHeldInv ==
  ASSUME IInv, NEW c \in bridge, NEW s \in reportable \cup {"same"},
         NEW e \in {"keep", "bridge"}, NEW p \in BOOLEAN, UpdateHeld(c, s, e, p)
  PROVE  IInv' /\ AllKeep /\ KeysStay
<1>1. now \in 0..MaxTime /\ moduleOn \in BOOLEAN /\ now \in Nat
  BY BridgeJobsAssumption DEF IInv, TypeOK
<1>2. c.id \in JobIds
  BY DEF IInv, TypeOK, BridgeClaim
<1>3. PICK st : st = IF s = "same" THEN Expired[c.id].state ELSE s
  OBVIOUS
<1>4. st \in reportable \/ st = Expired[c.id].state
  BY <1>3
<1>5. PICK k : k = Reported(Expired[c.id], st, e, p)
  OBVIOUS
<1>6. jobs' = [Expired EXCEPT ![c.id] = k]
  BY <1>3, <1>5 DEF UpdateHeld, Reported
<1>7. RowStep(Expired[c.id], k) /\ SameKey(Expired[c.id], k)
  BY <1>1, <1>2, <1>4, <1>5, ExpiredTable, ReportStep DEF UpdateHeld
<1>8. k \in Job
  BY <1>7 DEF RowStep
<1>9. RowStep(jobs[c.id], k) /\ SameKey(jobs[c.id], k)
  BY <1>2, <1>7, <1>8, RowFacts, ExpiredTable, StepsCompose DEF SameKey
<1>10. jobs' \in [JobIds -> Job]
  BY <1>6, <1>8, ExpiredTable
<1>11. \A h \in JobIds : jobs'[h] = IF h = c.id THEN k ELSE Expired[h]
  BY <1>6, ExpiredTable
<1>12. \A h \in JobIds : RowStep(jobs[h], jobs'[h]) /\ SameKey(jobs[h], jobs'[h])
  BY <1>9, <1>11, ExpiredTable
<1>13. UNCHANGED <<nextID, now, moduleOn, replies, bridge>>
  BY DEF UpdateHeld
<1>14. QED
  BY <1>1, <1>10, <1>12, <1>13, TableStep

\* Deleting the library takes every row and keeps the invariant.
LEMMA DeleteLibraryInv == ASSUME IInv, DeleteLibrary PROVE IInv' /\ AllKeep /\ KeysStay
<1>1. now \in 0..MaxTime /\ moduleOn \in BOOLEAN
  BY DEF IInv, TypeOK
<1>2. jobs' \in [JobIds -> Job] /\ \A i \in JobIds : jobs'[i] = Absent
  BY AbsentRow DEF DeleteLibrary
<1>3. \A i \in JobIds : RowStep(jobs[i], jobs'[i]) /\ SameKey(jobs[i], jobs'[i])
  BY <1>2, AbsentRow
<1>4. QED
  BY <1>1, <1>2, <1>3, TableStep DEF DeleteLibrary

\* A second passing and a module switched keep the invariant.
LEMMA ClockAndModuleInv == ASSUME IInv, SetModule \/ Tick PROVE IInv' /\ AllKeep /\ KeysStay
<1>1. now' \in 0..MaxTime /\ moduleOn' \in BOOLEAN
  <2>1. now \in 0..MaxTime /\ moduleOn \in BOOLEAN
    BY DEF IInv, TypeOK
  <2>2. CASE SetModule
    BY <2>1, <2>2 DEF SetModule
  <2>3. CASE Tick
    <3>1. now' \in 0..MaxTime
      <4>1. now < MaxTime /\ now' = now + 1
        BY <2>3 DEF Tick
      <4>2. QED
        BY <2>1, <4>1, BridgeJobsAssumption
    <3>2. moduleOn' = moduleOn
      BY <2>3 DEF Tick
    <3>3. QED
      BY <2>1, <3>1, <3>2
  <2>4. QED
    BY <2>2, <2>3
<1>2. UNCHANGED <<jobs, nextID, replies, bridge>>
  BY DEF SetModule, Tick
<1>3. jobs' \in [JobIds -> Job]
  BY <1>2 DEF IInv, TypeOK
<1>4. \A i \in JobIds : RowStep(jobs[i], jobs'[i]) /\ SameKey(jobs[i], jobs'[i])
  BY <1>2, RowFacts, KeptRow
<1>5. QED
  BY <1>1, <1>2, <1>3, <1>4, TableStep

\* A new job: no open job has its key, and those it cancels only close.
LEMMA EnqueueInv ==
  ASSUME IInv, NEW k \in Kinds, NEW p \in Paths, NEW issue \in BOOLEAN, Enqueue(k, p, issue)
  PROVE  IInv' /\ AllKeep
<1>1. /\ now \in 0..MaxTime /\ moduleOn \in BOOLEAN /\ MaxJobs \in Nat
      /\ nextID \in 1..(MaxJobs + 1) /\ nextID <= MaxJobs /\ nextID' = nextID + 1
      /\ UNCHANGED <<now, moduleOn, replies, bridge>>
      /\ replies \subseteq Reply /\ bridge \subseteq BridgeClaim
  BY BridgeJobsAssumption DEF IInv, TypeOK, Enqueue
<1>2. nextID \in JobIds /\ nextID' \in 1..(MaxJobs + 1) /\ nextID' >= nextID
  BY <1>1 DEF JobIds
<1>3. \A i \in JobIds : jobs'[i] =
         IF i = nextID THEN NewJob(k, p, issue)
         ELSE IF Expired[i].path = p /\ Expired[i].kind \in cancelsOpen(k)
              THEN CancelRow(Expired[i]) ELSE Expired[i]
  BY DEF Enqueue
<1>4. \A i \in JobIds : RowStep(Expired[i], CancelRow(Expired[i])) /\ SameKey(Expired[i], CancelRow(Expired[i]))
  BY ExpiredTable, CancelRowStep
<1>5. \A i \in JobIds : CancelRow(Expired[i]) \in Job
  BY <1>4 DEF RowStep
<1>6. \A i \in JobIds : RowStep(jobs[i], CancelRow(Expired[i]))
  BY <1>4, <1>5, RowFacts, ExpiredTable, StepsCompose
<1>7. \A i \in JobIds : i # nextID =>
         RowStep(jobs[i], jobs'[i]) /\ SameKey(Expired[i], jobs'[i])
  BY <1>3, <1>4, <1>6, ExpiredTable, KeptRow
<1>8. \A i \in JobIds : jobs'[i] \in Job /\ RowInv(jobs'[i])
  BY <1>2, <1>3, <1>7, NewRow DEF RowStep
<1>9. jobs' \in [JobIds -> Job]
  BY <1>8 DEF Enqueue
<1>10. \A i \in JobIds : i >= nextID' => jobs'[i].state = "absent"
  <2>1. SUFFICES ASSUME NEW i \in JobIds, i >= nextID' PROVE jobs'[i].state = "absent"
    OBVIOUS
  <2>2. i # nextID /\ i >= nextID
    BY <1>1, <2>1 DEF JobIds
  <2>3. jobs[i].state = "absent"
    BY <2>2 DEF IInv, TypeOK
  <2>4. QED
    BY <1>7, <2>2, <2>3 DEF RowStep
<1>11. TypeOK' /\ (\A i \in JobIds : RowInv(jobs[i]))'
  BY <1>1, <1>2, <1>8, <1>9, <1>10, TypeFromRows
<1>12. OneOpenPerKey'
  <2>1. \A i \in JobIds : i # nextID /\ Open(jobs'[i]) =>
           Open(jobs[i]) /\ DedupeKey(jobs'[i]) = DedupeKey(jobs[i])
    BY <1>7, ExpiredTable DEF SameKey, DedupeKey
  <2>2. \A i \in JobIds : i # nextID /\ Open(jobs'[i]) => DedupeKey(jobs'[i]) # <<k, p>>
    <3>1. \A i \in JobIds : ~(Open(Expired[i]) /\ DedupeKey(Expired[i]) = <<k, p>>)
      BY DEF Enqueue
    <3>2. QED
      BY <1>7, <3>1 DEF SameKey, DedupeKey
  <2>3. DedupeKey(jobs'[nextID]) = <<k, p>>
    BY <1>2, <1>3 DEF NewJob, DedupeKey
  <2>4. SUFFICES ASSUME NEW i \in JobIds, NEW h \in JobIds, Open(jobs'[i]), Open(jobs'[h]),
                        DedupeKey(jobs'[i]) = DedupeKey(jobs'[h])
                 PROVE  i = h
    BY DEF OneOpenPerKey
  <2>5. CASE i = nextID
    BY <2>2, <2>3, <2>4, <2>5
  <2>6. CASE h = nextID
    BY <2>2, <2>3, <2>4, <2>6
  <2>7. CASE i # nextID /\ h # nextID
    <3>1. /\ Open(jobs[i]) /\ Open(jobs[h]) /\ DedupeKey(jobs[i]) = DedupeKey(jobs[h])
      BY <2>1, <2>4, <2>7
    <3>2. QED
      BY <3>1 DEF IInv, OneOpenPerKey
  <2>8. QED
    BY <2>5, <2>6, <2>7
<1>13. \A i \in JobIds : i < nextID => RowStep(jobs[i], jobs'[i])
  BY <1>1, <1>7 DEF JobIds
<1>14. (\A r \in replies : ReplyInv(r))' /\ RepliesDistinct' /\ BridgeInv'
  BY <1>1, <1>2, <1>13, RepliesKept
<1>15. AllKeep
  <2>1. jobs[nextID].state = "absent"
    BY <1>1, <1>2 DEF IInv, TypeOK
  <2>2. QED
    BY <1>7, <2>1, RowFacts, RowStepKeeps DEF AllKeep, Keeps
<1>16. QED
  BY <1>11, <1>12, <1>14, <1>15 DEF IInv

\* A book moves: of two open jobs of a kind that would meet, the one that
\* arrives is closed.
LEMMA MoveJobsInv ==
  ASSUME IInv, NEW old \in Paths, NEW new \in Paths, MoveJobs(old, new)
  PROVE  IInv' /\ AllKeep
<1>1. /\ now \in 0..MaxTime /\ moduleOn \in BOOLEAN /\ nextID \in 1..(MaxJobs + 1)
      /\ replies \subseteq Reply /\ bridge \subseteq BridgeClaim
      /\ UNCHANGED <<nextID, now, moduleOn, replies, bridge>> /\ old # new
  BY DEF IInv, TypeOK, MoveJobs
<1> DEFINE Meets(i) == \E h \in JobIds : Open(jobs[h]) /\ DedupeKey(jobs[h]) = <<jobs[i].kind, new>>
                                         /\ Open(jobs[i])
<1>2. \A i \in JobIds : jobs'[i] =
         IF jobs[i].state = "absent" \/ jobs[i].path # old THEN jobs[i]
         ELSE IF Meets(i) THEN Displaced(jobs[i], new) ELSE Followed(jobs[i], new)
  BY DEF MoveJobs, Moved, Displaced, Followed
<1>3. \A i \in JobIds : Meets(i) => Open(jobs[i])
  OBVIOUS
<1>4. \A i \in JobIds : /\ RowStep(jobs[i], jobs'[i])
                        /\ Open(jobs'[i]) =>
                              /\ Open(jobs[i]) /\ jobs'[i].kind = jobs[i].kind
                              /\ \/ jobs[i].path # old /\ jobs'[i].path = jobs[i].path
                                 \/ ~Meets(i) /\ jobs'[i].path = new
  <2> HIDE DEF Meets
  <2>1. SUFFICES ASSUME NEW i \in JobIds
                 PROVE  /\ RowStep(jobs[i], jobs'[i])
                        /\ Open(jobs'[i]) =>
                              /\ Open(jobs[i]) /\ jobs'[i].kind = jobs[i].kind
                              /\ \/ jobs[i].path # old /\ jobs'[i].path = jobs[i].path
                                 \/ ~Meets(i) /\ jobs'[i].path = new
    OBVIOUS
  <2>2. jobs[i] \in Job /\ RowInv(jobs[i])
    BY RowFacts
  <2>3. CASE jobs[i].state = "absent" \/ jobs[i].path # old
    <3>1. jobs'[i] = jobs[i]
      BY <1>2, <2>3
    <3>2. QED
      BY <2>2, <2>3, <3>1, KeptRow DEF Open, OpenStates
  <2>4. CASE ~(jobs[i].state = "absent" \/ jobs[i].path # old) /\ Meets(i)
    BY <1>2, <1>3, <2>2, <2>4, MoveStep
  <2>5. CASE ~(jobs[i].state = "absent" \/ jobs[i].path # old) /\ ~Meets(i)
    <3>1. jobs'[i] = Followed(jobs[i], new)
      BY <1>2, <2>5
    <3>2. QED
      BY <2>2, <2>5, <3>1, MoveStep DEF Open
  <2>6. QED
    BY <2>3, <2>4, <2>5
<1>5. \A i \in JobIds : jobs'[i] \in Job /\ RowInv(jobs'[i])
  BY <1>4 DEF RowStep
<1>6. jobs' \in [JobIds -> Job]
  BY <1>5 DEF MoveJobs, Moved
<1>7. \A i \in JobIds : i >= nextID => jobs'[i].state = "absent"
  BY <1>4 DEF IInv, TypeOK, RowStep
<1>8. TypeOK' /\ (\A i \in JobIds : RowInv(jobs[i]))'
  BY <1>1, <1>5, <1>6, <1>7, TypeFromRows
<1>9. OneOpenPerKey'
  <2>1. SUFFICES ASSUME NEW i \in JobIds, NEW h \in JobIds, Open(jobs'[i]), Open(jobs'[h]),
                        jobs'[i].kind = jobs'[h].kind, jobs'[i].path = jobs'[h].path
                 PROVE  i = h
    BY DEF OneOpenPerKey, DedupeKey
  <2>2. Open(jobs[i]) /\ Open(jobs[h]) /\ jobs[i].kind = jobs[h].kind
    BY <1>4, <2>1
  <2>3. OneOpenPerKey
    BY DEF IInv
  <2>4. CASE jobs'[i].path = jobs[i].path /\ jobs'[h].path = jobs[h].path
    BY <2>1, <2>2, <2>3, <2>4 DEF OneOpenPerKey, DedupeKey
  <2>5. CASE ~Meets(i) /\ jobs'[i].path = new
    <3>1. jobs[h].path # new
      BY <2>2, <2>5 DEF DedupeKey
    <3>2. jobs'[h].path # jobs[h].path
      BY <2>1, <2>5, <3>1
    <3>3. jobs[h].path = old
      BY <1>2, <3>2
    <3>4. ~Meets(h)
      BY <1>4, <2>1, <3>2
    <3>5. jobs[i].path # new
      BY <2>2, <3>4 DEF DedupeKey
    <3>6. jobs[i].path = old
      BY <1>2, <2>5, <3>5
    <3>7. QED
      BY <2>2, <2>3, <3>3, <3>6 DEF OneOpenPerKey, DedupeKey
  <2>6. CASE ~Meets(h) /\ jobs'[h].path = new
    <3>1. jobs[i].path # new
      BY <2>2, <2>6 DEF DedupeKey
    <3>2. jobs'[i].path # jobs[i].path
      BY <2>1, <2>6, <3>1
    <3>3. ~Meets(i) /\ jobs'[i].path = new
      BY <1>4, <2>1, <3>2
    <3>4. QED
      BY <2>5, <3>3
  <2>7. QED
    BY <1>4, <2>1, <2>4, <2>5, <2>6
<1>10. (\A r \in replies : ReplyInv(r))' /\ RepliesDistinct' /\ BridgeInv'
  BY <1>1, <1>4, RepliesKept
<1>11. AllKeep
  BY <1>4, RowFacts, RowStepKeeps DEF AllKeep
<1>12. QED
  BY <1>8, <1>9, <1>10, <1>11 DEF IInv

\* A claim: its attempt is above every one handed out before.
LEMMA ClaimStoredInv ==
  ASSUME IInv, NEW kind \in Kinds, ClaimStored(kind)
  PROVE  IInv' /\ AllKeep /\ KeysStay
<1>1. /\ now \in 0..MaxTime /\ now \in Nat /\ moduleOn \in BOOLEAN /\ nextID \in 1..(MaxJobs + 1)
      /\ replies \subseteq Reply /\ bridge \subseteq BridgeClaim /\ MaxJobs \in Nat
      /\ UNCHANGED <<nextID, now, moduleOn, bridge>>
  BY BridgeJobsAssumption DEF IInv, TypeOK, ClaimStored
<1>2. PICK i \in Claimable(kind) :
         /\ jobs' = [Expired EXCEPT ![i] = Claimed(Expired[i])]
         /\ replies' = replies \cup
               {[id |-> i, attempt |-> Expired[i].attempts + 1, lease |-> now + Lease, read |-> FALSE]}
  BY DEF ClaimStored
<1>3. i \in JobIds /\ Expired[i].state = "queued"
  BY DEF Claimable
<1> DEFINE k == Claimed(Expired[i])
           r0 == [id |-> i, attempt |-> k.attempts, lease |-> k.lease, read |-> FALSE]
<1>4. /\ k \in Job /\ RowInv(k) /\ SameKey(Expired[i], k)
      /\ k.state = "claimed" /\ k.attempts = Expired[i].attempts + 1 /\ k.lease = now + Lease
      /\ ~k.reported /\ k.error = "none" /\ ~Expired[i].cancel
      /\ k.attempts \in 1..MaxAttempts
  BY <1>1, <1>3, ExpiredTable, ClaimStep
<1>5. replies' = replies \cup {r0}
  BY <1>2, <1>4
<1>6. /\ RowStep(jobs[i], Expired[i]) /\ SameKey(jobs[i], Expired[i])
      /\ jobs[i].state # "absent" /\ Expired[i].attempts = jobs[i].attempts
  BY <1>3, ExpiredTable DEF RowStep
<1>7. i < nextID
  BY <1>1, <1>3, <1>6 DEF IInv, TypeOK, JobIds
<1>8. \A h \in JobIds : jobs'[h] = IF h = i THEN k ELSE Expired[h]
  BY <1>2, ExpiredTable
<1>9. jobs' \in [JobIds -> Job]
  BY <1>2, <1>4, ExpiredTable
<1> HIDE DEF k
<1>10. jobs[i].attempts \in Nat /\ k.attempts = jobs[i].attempts + 1 /\ k.lease \in Int
  <2>1. jobs[i].attempts \in Nat
    BY <1>3, RowFacts, JobFields, BridgeJobsAssumption DEF Fields, Numbers
  <2>2. QED
    BY <1>1, <1>4, <1>6, <2>1, BridgeJobsAssumption
<1>11. TypeOK' /\ (\A h \in JobIds : RowInv(jobs[h]))'
  <2>1. \A h \in JobIds : RowInv(jobs'[h])
    BY <1>4, <1>8, ExpiredTable
  <2>2. \A h \in JobIds : h >= nextID' => jobs'[h].state = "absent"
    <3>1. SUFFICES ASSUME NEW h \in JobIds, h >= nextID PROVE jobs'[h].state = "absent"
      BY <1>1
    <3>2. h # i
      BY <1>1, <1>7, <3>1 DEF JobIds
    <3>3. jobs[h].state = "absent"
      BY <3>1 DEF IInv, TypeOK
    <3>4. QED
      BY <1>8, <3>2, <3>3, ExpiredTable DEF RowStep
  <2>3. r0 \in Reply
    BY <1>3, <1>4, <1>10 DEF Reply
  <2>4. QED
    BY <1>1, <1>5, <1>9, <2>1, <2>2, <2>3, TypeFromRows
<1>12. OneOpenPerKey' /\ KeysStay
  <2>1. \A h \in JobIds : SameKey(jobs[h], jobs'[h])
    BY <1>4, <1>6, <1>8, ExpiredTable DEF SameKey
  <2>2. QED
    BY <2>1, KeysKept DEF IInv, KeysStay
<1>13. \A r \in replies : r.id \in JobIds /\ r.attempt \in 1..MaxAttempts
  BY <1>1 DEF Reply
<1>14. \A r \in replies : r.id = i => r.attempt < k.attempts
  <2>1. SUFFICES ASSUME NEW r \in replies, r.id = i PROVE r.attempt < k.attempts
    OBVIOUS
  <2>2. r.attempt <= jobs[i].attempts
    BY <1>6, <2>1 DEF IInv, ReplyInv
  <2>3. QED
    BY <1>10, <1>13, <2>2
<1>15. (\A r \in replies : ReplyInv(r))'
  <2>1. SUFFICES ASSUME NEW r \in replies' PROVE ReplyInv(r)'
    OBVIOUS
  <2>2. CASE r = r0
    BY <1>1, <1>3, <1>4, <1>7, <1>8, <1>10, <2>2 DEF ReplyInv
  <2>3. CASE r \in replies /\ r.id # i
    BY <1>1, <1>8, <1>13, <2>3, ExpiredTable, ReplyKept
  <2>4. CASE r \in replies /\ r.id = i
    <3>1. r.attempt < k.attempts /\ r.attempt \in 1..MaxAttempts /\ k.attempts \in 1..MaxAttempts
      BY <1>4, <1>13, <1>14, <2>4
    <3>2. r.attempt <= k.attempts /\ r.attempt # k.attempts
      BY <3>1
    <3>3. QED
      BY <1>1, <1>3, <1>7, <1>8, <2>4, <3>2 DEF ReplyInv
  <2>5. QED
    BY <1>5, <2>2, <2>3, <2>4
<1>16. RepliesDistinct'
  <2>1. \A r \in replies : ~(r.id = i /\ r.attempt = k.attempts)
    BY <1>4, <1>13, <1>14
  <2>2. r0.id = i /\ r0.attempt = k.attempts
    OBVIOUS
  <2>3. \A r, q \in replies : r.id = q.id /\ r.attempt = q.attempt => r = q
    BY DEF IInv, RepliesDistinct
  <2> HIDE DEF r0
  <2>4. \A r, q \in replies \cup {r0} : r.id = q.id /\ r.attempt = q.attempt => r = q
    BY <2>1, <2>2, <2>3
  <2>5. QED
    BY <1>5, <2>4 DEF RepliesDistinct
<1>17. BridgeInv'
  <2>1. CASE EarlyReader
    BY <2>1 DEF BridgeInv
  <2>2. CASE ~EarlyReader
    <3>1. ASSUME NEW c \in bridge
          PROVE  /\ c.id < nextID
                 /\ jobs'[c.id].state # "absent" => c.attempt <= jobs'[c.id].attempts
                 /\ c.id = i => c.attempt # k.attempts
      <4>1. c.id \in JobIds /\ c.attempt \in 1..MaxAttempts
        BY <1>1 DEF BridgeClaim
      <4>2. c.id < nextID /\ (jobs[c.id].state # "absent" => c.attempt <= jobs[c.id].attempts)
        BY <2>2 DEF IInv, BridgeInv
      <4>3. CASE c.id = i
        <5>1. c.attempt <= jobs[i].attempts
          BY <1>6, <4>2, <4>3
        <5>2. c.attempt <= k.attempts /\ c.attempt # k.attempts
          BY <1>10, <4>1, <5>1
        <5>3. QED
          BY <1>3, <1>8, <4>2, <4>3, <5>2
      <4>4. CASE c.id # i
        BY <1>8, <4>1, <4>2, <4>4, ExpiredTable DEF RowStep
      <4>5. QED
        BY <4>3, <4>4
    <3>2. \A r \in replies : ~r.read /\ [id |-> r.id, attempt |-> r.attempt] \notin bridge
      BY <2>2 DEF IInv, BridgeInv
    <3>3. ~r0.read /\ r0.id = i /\ r0.attempt = k.attempts
      OBVIOUS
    <3>4. [id |-> r0.id, attempt |-> r0.attempt] \notin bridge
      BY <3>1, <3>3
    <3>5. QED
      BY <1>1, <1>5, <3>1, <3>2, <3>3, <3>4 DEF BridgeInv
  <2>3. QED
    BY <2>1, <2>2
<1>18. AllKeep
  <2>1. ~jobs[i].cancel /\ jobs[i].state \notin EndedStates
    BY <1>3, <1>6 DEF RowStep, EndedStates
  <2>2. Keeps(jobs[i], jobs'[i])
    BY <2>1 DEF Keeps
  <2>3. QED
    BY <1>8, <2>2, ExpiredTable, RowFacts, RowStepKeeps DEF AllKeep
<1>19. QED
  BY <1>11, <1>12, <1>15, <1>16, <1>17, <1>18 DEF IInv

\* A reply read before its handler returned: only with an early reader.
LEMMA ReadEarlyInv ==
  ASSUME IInv, NEW r \in replies, ReadEarly(r)
  PROVE  IInv' /\ AllKeep /\ KeysStay
<1>1. /\ EarlyReader /\ UNCHANGED <<jobs, nextID, now, moduleOn>>
      /\ replies \subseteq Reply /\ bridge \subseteq BridgeClaim
      /\ replies' = (replies \ {r}) \cup {[r EXCEPT !.read = TRUE]}
      /\ bridge' = bridge \cup {[id |-> r.id, attempt |-> r.attempt]}
  BY DEF IInv, TypeOK, ReadEarly
<1>2. PICK q : q = [r EXCEPT !.read = TRUE]
  OBVIOUS
<1>3. q \in Reply /\ q.id = r.id /\ q.attempt = r.attempt /\ q.lease = r.lease
  BY <1>1, <1>2 DEF Reply
<1>4. [id |-> r.id, attempt |-> r.attempt] \in BridgeClaim
  BY <1>1 DEF Reply, BridgeClaim
<1>5. TypeOK'
  BY <1>1, <1>2, <1>3, <1>4 DEF IInv, TypeOK
<1>6. ReplyInv(q)'
  BY <1>1, <1>3 DEF IInv, ReplyInv
<1>7. (\A x \in replies : ReplyInv(x))'
  BY <1>1, <1>2, <1>6 DEF IInv, ReplyInv
<1>8. RepliesDistinct'
  <2>1. \A x, y \in replies : x.id = y.id /\ x.attempt = y.attempt => x = y
    BY DEF IInv, RepliesDistinct
  <2>2. \A x \in replies \ {r} : ~(x.id = q.id /\ x.attempt = q.attempt)
    BY <1>3, <2>1
  <2>3. \A x, y \in (replies \ {r}) \cup {q} : x.id = y.id /\ x.attempt = y.attempt => x = y
    BY <2>1, <2>2
  <2>4. QED
    BY <1>1, <1>2, <2>3 DEF RepliesDistinct
<1>9. BridgeInv'
  BY <1>1 DEF BridgeInv
<1>10. (\A i \in JobIds : RowInv(jobs[i]))' /\ OneOpenPerKey'
  BY <1>1 DEF IInv, OneOpenPerKey
<1>11. AllKeep /\ KeysStay
  BY <1>1, RowFacts, KeptRow, RowStepKeeps DEF AllKeep, KeysStay
<1>12. QED
  BY <1>5, <1>7, <1>8, <1>9, <1>10, <1>11 DEF IInv

\* A handler that returns: the Bridge has the claim, or nobody has.
LEMMA HandlerReturnsInv ==
  ASSUME IInv, NEW r \in replies, Deliver(r) \/ LoseReply(r)
  PROVE  IInv' /\ AllKeep /\ KeysStay
<1> DEFINE c0 == [id |-> r.id, attempt |-> r.attempt]
<1>1. /\ UNCHANGED <<jobs, nextID, now, moduleOn>> /\ replies' = replies \ {r}
      /\ replies \subseteq Reply /\ bridge \subseteq BridgeClaim
      /\ bridge' \subseteq bridge \cup {c0}
  BY DEF IInv, TypeOK, Deliver, LoseReply
<1>2. c0 \in BridgeClaim
  BY <1>1 DEF Reply, BridgeClaim
<1>3. TypeOK'
  BY <1>1, <1>2 DEF IInv, TypeOK
<1>4. (\A x \in replies : ReplyInv(x))' /\ RepliesDistinct'
  BY <1>1 DEF IInv, ReplyInv, RepliesDistinct
<1>5. BridgeInv'
  <2>1. CASE EarlyReader
    BY <2>1 DEF BridgeInv
  <2>2. CASE ~EarlyReader
    <3>1. r.id < nextID /\ (jobs[r.id].state # "absent" => r.attempt <= jobs[r.id].attempts)
      BY DEF IInv, ReplyInv
    <3>2. \A x \in replies \ {r} : ~(x.id = r.id /\ x.attempt = r.attempt)
      BY DEF IInv, RepliesDistinct
    <3>3. \A x \in replies \ {r} : [id |-> x.id, attempt |-> x.attempt] # c0
      BY <3>2
    <3>4. \A x \in replies \ {r} : ~x.read /\ [id |-> x.id, attempt |-> x.attempt] \notin bridge
      BY <2>2 DEF IInv, BridgeInv
    <3>5. \A c \in bridge : c.id < nextID /\ (jobs[c.id].state # "absent" => c.attempt <= jobs[c.id].attempts)
      BY <2>2 DEF IInv, BridgeInv
    <3>6. c0.id = r.id /\ c0.attempt = r.attempt
      OBVIOUS
    <3> HIDE DEF c0
    <3>7. \A c \in bridge' : c.id < nextID /\ (jobs[c.id].state # "absent" => c.attempt <= jobs[c.id].attempts)
      BY <1>1, <3>1, <3>5, <3>6
    <3>8. \A x \in replies' : ~x.read /\ [id |-> x.id, attempt |-> x.attempt] \notin bridge'
      BY <1>1, <3>3, <3>4
    <3>9. QED
      BY <1>1, <3>7, <3>8 DEF BridgeInv
  <2>3. QED
    BY <2>1, <2>2
<1>6. (\A i \in JobIds : RowInv(jobs[i]))' /\ OneOpenPerKey'
  BY <1>1 DEF IInv, OneOpenPerKey
<1>7. AllKeep /\ KeysStay
  BY <1>1, RowFacts, KeptRow, RowStepKeeps DEF AllKeep, KeysStay
<1>8. QED
  BY <1>3, <1>4, <1>5, <1>6, <1>7 DEF IInv

\* A release: the attempt it gives back is on no other reply and was read by
\* no Bridge, and the claim it takes back was never reported on.
LEMMA ReleaseInv ==
  ASSUME IInv, NEW r \in replies, Release(r)
  PROVE  IInv' /\ AllKeep /\ KeysStay
<1> DEFINE j == jobs[r.id]
           k == Released(jobs[r.id])
<1>1. /\ UNCHANGED <<nextID, now, moduleOn, bridge>> /\ replies' = replies \ {r}
      /\ replies \subseteq Reply /\ bridge \subseteq BridgeClaim
      /\ j.state = "claimed" /\ j.attempts = r.attempt /\ j.lease = r.lease
      /\ jobs' = [jobs EXCEPT ![r.id] = k]
      /\ jobs \in [JobIds -> Job]
      /\ now \in 0..MaxTime /\ moduleOn \in BOOLEAN /\ nextID \in 1..(MaxJobs + 1)
  BY DEF IInv, TypeOK, Release, ReleaseUnsentClaim, Released
<1>2. r.id \in JobIds /\ r.attempt \in 1..MaxAttempts
  BY <1>1 DEF Reply
<1>3. j \in Job /\ RowInv(j)
  BY <1>2, RowFacts
<1>4. j.attempts # 0
  BY <1>1, <1>2
<1>5. ~j.reported /\ (j.error = "none" \/ j.cancel) /\ r.id < nextID
  BY <1>1 DEF IInv, ReplyInv
<1>6. /\ k \in Job /\ RowInv(k) /\ SameKey(j, k)
      /\ k.state \in {"queued", "cancelled"} /\ k.attempts = j.attempts - 1
      /\ j.cancel => k.cancel /\ k.state = "cancelled"
  BY <1>1, <1>3, <1>4, <1>5, ReleaseStep
<1>7. \A h \in JobIds : jobs'[h] = IF h = r.id THEN k ELSE jobs[h]
  BY <1>1
<1>8. jobs' \in [JobIds -> Job]
  BY <1>1, <1>6
<1>9. \A h \in JobIds : RowInv(jobs'[h])
  BY <1>6, <1>7, RowFacts
<1>10. \A h \in JobIds : h >= nextID' => jobs'[h].state = "absent"
  <2>1. SUFFICES ASSUME NEW h \in JobIds, h >= nextID PROVE jobs'[h].state = "absent"
    BY <1>1
  <2>2. h # r.id
    BY <1>1, <1>2, <1>5, <2>1 DEF JobIds
  <2>3. QED
    BY <1>7, <2>1, <2>2 DEF IInv, TypeOK
<1>11. TypeOK' /\ (\A h \in JobIds : RowInv(jobs[h]))'
  BY <1>1, <1>8, <1>9, <1>10, TypeFromRows
<1>12. OneOpenPerKey' /\ KeysStay
  <2>1. \A h \in JobIds : SameKey(jobs[h], jobs'[h])
    BY <1>6, <1>7 DEF SameKey
  <2>2. QED
    BY <2>1, KeysKept DEF IInv, KeysStay
<1> HIDE DEF k
<1>13. \A q \in replies' : q \in replies /\ (q.id = r.id => q.attempt <= k.attempts)
  <2>1. SUFFICES ASSUME NEW q \in replies', q.id = r.id PROVE q.attempt <= k.attempts
    BY <1>1
  <2>2. q \in replies /\ q # r /\ q.attempt \in 1..MaxAttempts
    BY <1>1 DEF Reply
  <2>3. q.attempt # r.attempt
    BY <2>1, <2>2 DEF IInv, RepliesDistinct
  <2>4. q.attempt <= j.attempts
    BY <1>1, <2>1, <2>2 DEF IInv, ReplyInv
  <2>5. QED
    BY <1>1, <1>2, <1>6, <2>2, <2>3, <2>4
<1>14. (\A q \in replies : ReplyInv(q))'
  <2>1. SUFFICES ASSUME NEW q \in replies' PROVE ReplyInv(q)'
    OBVIOUS
  <2>2. q \in replies /\ ReplyInv(q) /\ q.id \in JobIds
    BY <1>1, <2>1 DEF IInv, Reply
  <2>3. CASE q.id = r.id
    BY <1>1, <1>5, <1>6, <1>7, <1>13, <2>2, <2>3 DEF ReplyInv
  <2>4. CASE q.id # r.id
    BY <1>1, <1>7, <2>2, <2>4 DEF ReplyInv
  <2>5. QED
    BY <2>3, <2>4
<1>15. RepliesDistinct'
  BY <1>1 DEF IInv, RepliesDistinct
<1>16. BridgeInv'
  <2>1. CASE EarlyReader
    BY <2>1 DEF BridgeInv
  <2>2. CASE ~EarlyReader
    <3>1. ASSUME NEW c \in bridge
          PROVE  /\ c.id < nextID
                 /\ jobs'[c.id].state # "absent" => c.attempt <= jobs'[c.id].attempts
      <4>1. /\ c.id \in JobIds /\ c.attempt \in 1..MaxAttempts
            /\ c = [id |-> c.id, attempt |-> c.attempt]
        BY <1>1 DEF BridgeClaim
      <4>2. c.id < nextID /\ (jobs[c.id].state # "absent" => c.attempt <= jobs[c.id].attempts)
        BY <2>2 DEF IInv, BridgeInv
      <4>3. CASE c.id = r.id
        <5>1. [id |-> r.id, attempt |-> r.attempt] \notin bridge
          BY <2>2 DEF IInv, BridgeInv
        <5>2. c.attempt # r.attempt
          BY <4>1, <4>3, <5>1
        <5>3. c.attempt <= j.attempts
          BY <1>1, <4>2, <4>3
        <5>4. c.attempt <= k.attempts
          BY <1>1, <1>2, <1>6, <4>1, <5>2, <5>3
        <5>5. QED
          BY <1>7, <4>1, <4>2, <4>3, <5>4
      <4>4. CASE c.id # r.id
        BY <1>7, <4>1, <4>2, <4>4
      <4>5. QED
        BY <4>3, <4>4
    <3>2. QED
      BY <1>1, <2>2, <3>1 DEF IInv, BridgeInv
  <2>3. QED
    BY <2>1, <2>2
<1>17. AllKeep
  <2>1. k.attempts <= j.attempts
    BY <1>1, <1>2, <1>6
  <2>2. Keeps(jobs[r.id], k)
    BY <1>1, <1>6, <2>1 DEF Keeps, EndedStates
  <2>3. \A h \in JobIds : Keeps(jobs[h], jobs[h])
    BY RowFacts, KeptRow, RowStepKeeps
  <2>4. QED
    BY <1>7, <2>2, <2>3 DEF AllKeep
<1>18. QED
  BY <1>11, <1>12, <1>14, <1>15, <1>16, <1>17 DEF IInv

-----------------------------------------------------------------------------
(* Theorems.                                                               *)

\* The empty table satisfies the invariant.
LEMMA InitInv == Init => IInv
<1> SUFFICES ASSUME Init PROVE IInv
  OBVIOUS
<1>1. jobs \in [JobIds -> Job] /\ \A i \in JobIds : jobs[i] = Absent
  BY AbsentRow DEF Init
<1>2. \A i \in JobIds : RowInv(jobs[i]) /\ jobs[i].state = "absent"
  <2>1. Absent.state = "absent"
    BY DEF Absent
  <2>2. QED
    BY <1>1, <2>1, AbsentRow
<1>3. nextID \in 1..(MaxJobs + 1) /\ now \in 0..MaxTime
  BY BridgeJobsAssumption DEF Init
<1>4. moduleOn \in BOOLEAN /\ replies = {} /\ bridge = {}
  BY DEF Init
<1>5. TypeOK
  BY <1>1, <1>2, <1>3, <1>4 DEF TypeOK, RowInv, LeaseInv
<1>6. OneOpenPerKey
  BY <1>2 DEF OneOpenPerKey, Open, OpenStates
<1>7. QED
  BY <1>2, <1>4, <1>5, <1>6 DEF IInv, RepliesDistinct, BridgeInv

\* Every step of the queue keeps the invariant, and ended and cancelled rows as
\* they are.
LEMMA NextInv == IInv /\ [Next]_vars => IInv' /\ AllKeep
<1> SUFFICES ASSUME IInv, [Next]_vars PROVE IInv' /\ AllKeep
  OBVIOUS
<1>1. CASE ExpireDue
  BY <1>1, ExpireDueInv
<1>2. ASSUME NEW k \in Kinds, NEW p \in Paths, NEW issue \in BOOLEAN, Enqueue(k, p, issue)
      PROVE  IInv' /\ AllKeep
  BY <1>2, EnqueueInv
<1>3. ASSUME NEW k \in Kinds, ClaimStored(k) PROVE IInv' /\ AllKeep
  BY <1>3, ClaimStoredInv
<1>4. ASSUME NEW r \in replies, ReadEarly(r) PROVE IInv' /\ AllKeep
  BY <1>4, ReadEarlyInv
<1>5. ASSUME NEW r \in replies, Deliver(r) \/ LoseReply(r) PROVE IInv' /\ AllKeep
  BY <1>5, HandlerReturnsInv
<1>6. ASSUME NEW r \in replies, Release(r) PROVE IInv' /\ AllKeep
  BY <1>6, ReleaseInv
<1>7. ASSUME NEW c \in bridge, NEW s \in reportable \cup {"same"},
             NEW e \in ReportErrors, NEW p \in ReportResults, UpdateHeld(c, s, e, p)
      PROVE  IInv' /\ AllKeep
  BY <1>7, BridgeJobsAssumption, UpdateHeldInv
<1>8. ASSUME NEW i \in JobIds, Cancel(i) PROVE IInv' /\ AllKeep
  BY <1>8, CancelInv
<1>9. ASSUME NEW old \in Paths, NEW new \in Paths, MoveJobs(old, new) PROVE IInv' /\ AllKeep
  BY <1>9, MoveJobsInv
<1>10. CASE DeleteLibrary
  BY <1>10, DeleteLibraryInv
<1>11. CASE SetModule \/ Tick
  BY <1>11, ClockAndModuleInv
<1>12. CASE UNCHANGED vars
  <2>1. IInv'
    BY <1>12
    DEF vars, IInv, TypeOK, OneOpenPerKey, ReplyInv, RepliesDistinct, BridgeInv
  <2>2. AllKeep
    BY <1>12, RowFacts, KeptRow, RowStepKeeps DEF AllKeep, vars
  <2>3. QED
    BY <2>1, <2>2
<1>13. QED
  BY <1>1, <1>2, <1>3, <1>4, <1>5, <1>6, <1>7, <1>8, <1>9, <1>10, <1>11, <1>12 DEF Next

\* IInv is an invariant of the queue.
THEOREM Inductive == Spec => []IInv
<1>1. IInv /\ [Next]_vars => IInv'
  BY NextInv
<1>2. QED
  BY <1>1, InitInv, PTL DEF Spec

\* The rows have their types, and a row has a lease exactly while a Bridge
\* works on it (bridge_jobs).
THEOREM TypeCorrect == Spec => []TypeOK
<1>1. IInv => TypeOK
  BY DEF IInv
<1>2. QED
  BY <1>1, Inductive, PTL

\* No interleaving of requests, moves and expiries trips the unique index on
\* the open jobs (Enqueue, MoveJobs).
THEOREM KeysUnique == Spec => []OneOpenPerKey
<1>1. IInv => OneOpenPerKey
  BY DEF IInv
<1>2. QED
  BY <1>1, Inductive, PTL

\* What nextQueued hands out has attempts left and no cancel asked for.
THEOREM QueueClean == Spec => []QueuedIsClaimable
<1>1. IInv => QueuedIsClaimable
  BY DEF IInv, RowInv, QueuedInv, QueuedIsClaimable
<1>2. QED
  BY <1>1, Inductive, PTL

\* A waiting job shows nothing of an attempt that died or of a claim taken back
\* (expireSQL, ReleaseUnsentClaim), with a Bridge that reads early too.
THEOREM QueueFresh == Spec => []QueuedReadsFresh
<1>1. IInv => QueuedReadsFresh
  BY DEF IInv, RowInv, QueuedInv, QueuedReadsFresh
<1>2. QED
  BY <1>1, Inductive, PTL

\* Each ending is announced exactly once (settle, UpdateHeld), and the server's
\* reason for a cancel stays on no job that did not end by it.
THEOREM EndingsTold == Spec => [](ToldOnce /\ ReasonOnlyOnCancel)
<1>1. IInv => ToldOnce /\ ReasonOnlyOnCancel
  BY DEF IInv, RowInv, ToldInv, ReasonInv, ToldOnce, ReasonOnlyOnCancel
<1>2. QED
  BY <1>1, Inductive, PTL

\* Attempt numbers fence, although ReleaseUnsentClaim reuses them, as long as
\* the Bridge acts on whole replies only.
THEOREM AttemptsFence ==
  ASSUME ~EarlyReader
  PROVE  Spec => []FreshAttempt
<1>1. IInv => FreshAttempt
  BY DEF IInv, BridgeInv, FreshAttempt
<1>2. QED
  BY <1>1, Inductive, PTL

\* A cancel sticks and an ending is final, through expiry, release, reports and
\* moves.
THEOREM Endings == Spec => CancelSticks /\ EndedIsFinal
<1>1. IInv /\ [Next]_vars =>
        [\A i \in JobIds :
          jobs[i].state # "absent" /\ jobs[i].cancel /\ jobs'[i].state # "absent" =>
          /\ jobs'[i].cancel
          /\ jobs'[i].state # "queued"
          /\ jobs'[i].attempts <= jobs[i].attempts]_vars
  BY NextInv DEF AllKeep, Keeps
<1>2. IInv /\ [Next]_vars =>
        [\A i \in JobIds : jobs[i].state \in EndedStates /\ jobs'[i].state # "absent" =>
          /\ jobs'[i].state = jobs[i].state
          /\ jobs'[i].error = jobs[i].error
          /\ jobs'[i].attempts = jobs[i].attempts]_vars
  BY NextInv DEF AllKeep, Keeps, EndedStates
<1>3. QED
  BY <1>1, <1>2, Inductive, PTL DEF Spec, CancelSticks, EndedIsFinal

-----------------------------------------------------------------------------
(* Overlapping work.                                                       *)

\* A conflict is refused by the new job's kind, or the new job cancels the old.
LEMMA RefusedOrCancelled ==
  ASSUME NEW k \in BookKinds, NEW l, Conflict(k, l)
  PROVE  l \in refusedWhileOpen(k) \/ l \in cancelsOpen(k)
<1>1. l \in BookKinds
  BY DEF Conflict, refusedWhileOpen, BookKinds, KindSidecars, KindDescribe, KindDetectChapters,
         KindContribute, KindReadalong
<1>2. QED
  BY <1>1 DEF Conflict, refusedWhileOpen, cancelsOpen, BookKinds, KindSidecars, KindDescribe,
              KindDetectChapters, KindContribute, KindReadalong

\* Rows that keep their keys and their cancels do not begin to overlap.
LEMMA OverlapKept ==
  ASSUME NeverOverlap, AllKeep, KeysStay
  PROVE  NeverOverlap'
<1>1. \A i \in JobIds : Open(jobs'[i]) =>
         /\ Open(jobs[i]) /\ jobs'[i].kind = jobs[i].kind /\ jobs'[i].path = jobs[i].path
         /\ jobs[i].cancel => jobs'[i].cancel
  BY DEF AllKeep, Keeps, KeysStay, SameKey, Open, OpenStates
<1>2. SUFFICES ASSUME NEW i \in JobIds, NEW h \in JobIds, Open(jobs'[i]), Open(jobs'[h]),
                      jobs'[i].path = jobs'[h].path, Conflict(jobs'[i].kind, jobs'[h].kind)
               PROVE  jobs'[i].cancel \/ jobs'[h].cancel
  BY DEF NeverOverlap
<1>3. jobs[i].cancel \/ jobs[h].cancel
  BY <1>1, <1>2 DEF NeverOverlap
<1>4. QED
  BY <1>1, <1>2, <1>3

\* A row after a cancel is closed or being cancelled.
LEMMA CancelRowCloses ==
  ASSUME NEW j \in Job
  PROVE  /\ Open(CancelRow(j)) => CancelRow(j).cancel
         /\ Open(CancelRow(j)) => Open(j) /\ CancelRow(j).kind = j.kind /\ CancelRow(j).path = j.path
<1>1. CASE j.state \in {"queued", "needs_attention"}
  <2>1. CancelRow(j).state = "cancelled"
    BY <1>1 DEF CancelRow, Job
  <2>2. QED
    BY <2>1 DEF Open, OpenStates
<1>2. CASE j.state \in claimedStates
  <2>1. PICK err : err = IF j.cancel THEN j.error ELSE "reason"
    OBVIOUS
  <2>2. PICK k : k = [j EXCEPT !.error = err, !.cancel = TRUE]
    OBVIOUS
  <2>3. CancelRow(j) = k
    BY <1>2, <2>1, <2>2 DEF CancelRow, claimedStates
  <2>4. k.cancel /\ k.state = j.state /\ k.kind = j.kind /\ k.path = j.path
    BY <2>2 DEF Job
  <2>5. QED
    BY <1>2, <2>3, <2>4 DEF Open, OpenStates, claimedStates
<1>3. CASE j.state \notin {"queued", "needs_attention"} /\ j.state \notin claimedStates
  BY <1>3 DEF CancelRow, Open, OpenStates, claimedStates
<1>4. QED
  BY <1>1, <1>2, <1>3

\* A new job overlaps nothing: what it conflicts with refused it, is being
\* cancelled, or was cancelled by it.
LEMMA EnqueueOverlap ==
  ASSUME IInv, NeverOverlap, NEW k \in Kinds, NEW p \in Paths, NEW issue \in BOOLEAN,
         Enqueue(k, p, issue), AllKeep
  PROVE  NeverOverlap'
<1>1. nextID \in JobIds /\ jobs[nextID].state = "absent"
  BY BridgeJobsAssumption DEF IInv, TypeOK, Enqueue, JobIds
<1>2. \A i \in JobIds : jobs'[i] =
         IF i = nextID THEN NewJob(k, p, issue)
         ELSE IF Expired[i].path = p /\ Expired[i].kind \in cancelsOpen(k)
              THEN CancelRow(Expired[i]) ELSE Expired[i]
  BY DEF Enqueue
<1>3. \A i \in JobIds : Expired[i] \in Job /\ SameKey(jobs[i], Expired[i])
  BY ExpiredTable
<1>4. \A i \in JobIds : i # nextID /\ Open(jobs'[i]) =>
         /\ Open(Expired[i]) /\ jobs'[i].kind = Expired[i].kind /\ jobs'[i].path = Expired[i].path
         /\ Expired[i].path = p /\ Expired[i].kind \in cancelsOpen(k) => jobs'[i].cancel
  BY <1>2, <1>3, CancelRowCloses
<1>5. \A i \in JobIds : i # nextID /\ Open(jobs'[i]) =>
         /\ Open(jobs[i]) /\ jobs'[i].kind = jobs[i].kind /\ jobs'[i].path = jobs[i].path
         /\ jobs[i].cancel => jobs'[i].cancel
  BY <1>3, <1>4 DEF SameKey, AllKeep, Keeps, Open, OpenStates
<1>6. jobs'[nextID].kind = k /\ jobs'[nextID].path = p
  BY <1>1, <1>2 DEF NewJob
<1>7. ASSUME NEW i \in JobIds, i # nextID, Open(jobs'[i]), jobs'[i].path = p,
             Conflict(k, jobs'[i].kind)
      PROVE  jobs'[i].cancel
  <2>1. CASE Expired[i].kind \in cancelsOpen(k)
    BY <1>4, <1>7, <2>1
  <2>2. CASE Expired[i].kind \notin cancelsOpen(k)
    <3>1. k \in BookKinds
      BY BridgeJobsAssumption
    <3>2. Expired[i].kind \in refusedWhileOpen(k)
      BY <1>4, <1>7, <2>2, <3>1, RefusedOrCancelled
    <3>3. ~Blocked(Expired, k, p)
      BY DEF Enqueue
    <3>4. GivesWay(k, Expired[i])
      BY <1>4, <1>7, <3>2, <3>3 DEF Blocked
    <3>5. Expired[i].cancel
      BY <2>2, <3>4 DEF GivesWay
    <3>6. jobs'[i] = Expired[i]
      BY <1>2, <1>7, <2>2
    <3>7. QED
      BY <3>5, <3>6
  <2>3. QED
    BY <2>1, <2>2
<1>8. \A a, b : Conflict(a, b) => Conflict(b, a)
  BY DEF Conflict
<1>9. ~Conflict(k, k)
  <2>1. k \in BookKinds
    BY BridgeJobsAssumption
  <2>2. QED
    BY <2>1 DEF Conflict, refusedWhileOpen, BookKinds, KindSidecars, KindDescribe,
                KindDetectChapters, KindContribute, KindReadalong
<1>10. SUFFICES ASSUME NEW i \in JobIds, NEW h \in JobIds, Open(jobs'[i]), Open(jobs'[h]),
                       jobs'[i].path = jobs'[h].path, Conflict(jobs'[i].kind, jobs'[h].kind)
                PROVE  jobs'[i].cancel \/ jobs'[h].cancel
  BY DEF NeverOverlap
<1>11. CASE i # nextID /\ h # nextID
  <2>1. jobs[i].cancel \/ jobs[h].cancel
    BY <1>5, <1>10, <1>11 DEF NeverOverlap
  <2>2. QED
    BY <1>5, <1>10, <1>11, <2>1
<1>12. CASE i = nextID /\ h # nextID
  BY <1>6, <1>7, <1>10, <1>12
<1>13. CASE i # nextID /\ h = nextID
  BY <1>6, <1>7, <1>8, <1>10, <1>13
<1>14. CASE i = nextID /\ h = nextID
  BY <1>6, <1>9, <1>10, <1>14
<1>15. QED
  BY <1>11, <1>12, <1>13, <1>14

\* No step but a book's move makes conflicting kinds overlap.
LEMMA StepOverlap ==
  ASSUME IInv, NeverOverlap, [Next]_vars, [~Moves]_vars
  PROVE  NeverOverlap'
<1>1. AllKeep
  BY NextInv
<1>2. CASE ExpireDue
  BY <1>1, <1>2, ExpireDueInv, OverlapKept
<1>3. ASSUME NEW k \in Kinds, NEW p \in Paths, NEW issue \in BOOLEAN, Enqueue(k, p, issue)
      PROVE  NeverOverlap'
  BY <1>1, <1>3, EnqueueOverlap
<1>4. ASSUME NEW k \in Kinds, ClaimStored(k) PROVE NeverOverlap'
  BY <1>4, ClaimStoredInv, OverlapKept
<1>5. ASSUME NEW r \in replies, ReadEarly(r) PROVE NeverOverlap'
  BY <1>5, ReadEarlyInv, OverlapKept
<1>6. ASSUME NEW r \in replies, Deliver(r) \/ LoseReply(r) PROVE NeverOverlap'
  BY <1>6, HandlerReturnsInv, OverlapKept
<1>7. ASSUME NEW r \in replies, Release(r) PROVE NeverOverlap'
  BY <1>7, ReleaseInv, OverlapKept
<1>8. ASSUME NEW c \in bridge, NEW s \in reportable \cup {"same"},
             NEW e \in ReportErrors, NEW p \in ReportResults, UpdateHeld(c, s, e, p)
      PROVE  NeverOverlap'
  BY <1>8, BridgeJobsAssumption, UpdateHeldInv, OverlapKept
<1>9. ASSUME NEW i \in JobIds, Cancel(i) PROVE NeverOverlap'
  BY <1>9, CancelInv, OverlapKept
<1>10. CASE DeleteLibrary
  BY <1>10, DeleteLibraryInv, OverlapKept
<1>11. CASE SetModule \/ Tick
  BY <1>11, ClockAndModuleInv, OverlapKept
<1>12. CASE UNCHANGED vars
  BY <1>12 DEF vars, NeverOverlap
<1>13. ASSUME NEW old \in Paths, NEW new \in Paths, MoveJobs(old, new) PROVE NeverOverlap'
  <2>1. Moves
    BY <1>13 DEF Moves
  <2>2. UNCHANGED vars
    BY <2>1
  <2>3. QED
    BY <1>12, <2>2
<1>14. QED
  BY <1>2, <1>3, <1>4, <1>5, <1>6, <1>7, <1>8, <1>9, <1>10, <1>11, <1>12, <1>13 DEF Next

\* As long as no book moves onto another's path, kinds that conflict never have
\* open jobs for one book but for one being cancelled (kinds: "never overlap"):
\* refusals and cancels together cover every order of requests.
THEOREM NoOverlapWithoutMoves == Spec /\ [][~Moves]_vars => []NeverOverlap
<1>1. Init => NeverOverlap
  BY DEF Init, NeverOverlap, Absent, Open, OpenStates
<1>2. IInv /\ NeverOverlap /\ [Next]_vars /\ [~Moves]_vars => NeverOverlap'
  BY StepOverlap
<1>3. QED
  BY <1>1, <1>2, Inductive, PTL DEF Spec

\* From any reachable table without an overlap, one where an overlap that an
\* earlier move made is over included, only another move makes one (Enqueue's
\* refusals and cancels, MoveJobs).
THEOREM OverlapOnlyByMoves == Spec => OnlyMovesOverlap
<1>1. IInv /\ [Next]_vars => [NeverOverlap /\ ~NeverOverlap' => Moves]_vars
  BY StepOverlap
<1>2. QED
  BY <1>1, Inductive, PTL DEF Spec, OnlyMovesOverlap

=============================================================================
