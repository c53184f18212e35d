----------------------------- MODULE BridgeJobs -----------------------------
(***************************************************************************)
(* The Bridge's job queue (internal/bridge/jobs.go): the jobs an admin     *)
(* asks for about the books of one library, the claims that hand them to   *)
(* the Bridge under a lease, the Bridge's reports, cancels, lease expiry,  *)
(* the release of a claim whose reply was never sent, and the move of a    *)
(* book's jobs to its new path.                                            *)
(*                                                                         *)
(* Every action is one write transaction of the server (SQLite has one     *)
(* writer, so transactions do not overlap), with what the method does      *)
(* after the commit.  A refused request rolls its transaction back, the    *)
(* lease expiry it began with included, and changes nothing: it is a       *)
(* stuttering step and has no action.                                      *)
(*                                                                         *)
(* Times are whole seconds (bridge.ts), the precision the table stores.    *)
(***************************************************************************)
EXTENDS Integers

CONSTANTS
    Kinds,         \* the job kinds in play, of the source's book kinds
    Paths,         \* the books' paths in the library
    MaxAttempts,   \* how many times a job may be claimed
    Lease,         \* seconds a claim holds a job without a report
    MaxJobs,       \* bound: jobs ever queued
    MaxTime,       \* bound: the last second
    EarlyReader,   \* may the Bridge act on a reply before its last chunk?
    ReportErrors,  \* the errors a report may send: "keep" (none), "bridge" (a text)
    ReportResults  \* whether a report may carry progress or a result

VARIABLES
    jobs,      \* bridge_jobs, by id
    nextID,    \* the next id (AUTOINCREMENT: never reused)
    now,       \* the server's clock
    moduleOn,  \* whether the contributions module is on
    replies,   \* claims whose HTTP handler has not returned
    bridge     \* claims the Bridge has read, and may report on at any time

vars == <<jobs, nextID, now, moduleOn, replies, bridge>>

-----------------------------------------------------------------------------
(* The kinds and how they stand with each other (kinds, kindSpec).         *)

KindSidecars       == "sidecars.generate"
KindDescribe       == "sidecars.describe"
KindDetectChapters == "chapters.detect"
KindContribute     == "sidecars.contribute"
KindReadalong      == "readalong.align"

BookKinds == {KindSidecars, KindDescribe, KindDetectChapters,
              KindContribute, KindReadalong}

\* The kinds whose open job for the book refuses a new job of kind k.
refusedWhileOpen(k) ==
    CASE k = KindSidecars       -> {KindDetectChapters, KindContribute, KindReadalong}
      [] k = KindContribute     -> {KindSidecars}
      [] k = KindDescribe       -> {KindSidecars, KindDetectChapters}
      [] k = KindDetectChapters -> {KindSidecars, KindDescribe, KindReadalong}
      [] k = KindReadalong      -> {KindSidecars, KindDetectChapters}
      [] OTHER                  -> {}

\* The kinds whose open job for the book a new job of kind k cancels.
cancelsOpen(k) ==
    IF k = KindSidecars
    THEN {KindDescribe, KindDetectChapters, KindContribute, KindReadalong}
    ELSE {}

\* Whether a job needs the contributions module: a share always, a generate
\* job when its params ask for the results to be offered upstream.
NeedsModule(k, issue) == k = KindContribute \/ (k = KindSidecars /\ issue)

-----------------------------------------------------------------------------
(* Rows.                                                                   *)

OpenStates == {"queued", "claimed", "running", "needs_attention"}
claimedStates == {"claimed", "running"}
heldStates == {"claimed", "running", "needs_attention"}
reportable  == {"running", "done", "failed", "needs_attention", "cancelled"}
EndedStates == {"done", "failed", "cancelled"}
States      == OpenStates \cup EndedStates \cup {"absent"}

\* A job's error: none, the Bridge's own text, the server's reason for a
\* cancel it asked for (IsCancelReason), or its text for a job whose lease ran
\* out on the last attempt.
Errors == {"none", "bridge", "reason", "lost"}

JobIds == 1..MaxJobs
NoTime == -1     \* a NULL lease_until

Job == [kind : Kinds \cup {"none"}, path : Paths \cup {"none"}, issue : BOOLEAN, state : States,
        attempts : 0..MaxAttempts, lease : Int, cancel : BOOLEAN,
        error : Errors, reported : BOOLEAN, told : Nat]

Reply == [id : JobIds, attempt : 1..MaxAttempts, lease : Int, read : BOOLEAN]
BridgeClaim == [id : JobIds, attempt : 1..MaxAttempts]

Open(j) == j.state \in OpenStates

\* DedupeKey: the identity of a job among the open ones (one library).
DedupeKey(j) == <<j.kind, j.path>>

\* A row that is not there: not queued yet, or gone with its library.
Absent == [kind |-> "none", path |-> "none", issue |-> FALSE, state |-> "absent", attempts |-> 0,
           lease |-> NoTime, cancel |-> FALSE, error |-> "none", reported |-> FALSE, told |-> 0]

\* A row as Enqueue inserts it.
NewJob(k, p, issue) ==
    [kind |-> k, path |-> p, issue |-> issue, state |-> "queued", attempts |-> 0,
     lease |-> NoTime, cancel |-> FALSE, error |-> "none", reported |-> FALSE, told |-> 0]

\* held: no claim hands out a queued job whose module is off.
Held(j) == NeedsModule(j.kind, j.issue) /\ ~moduleOn

-----------------------------------------------------------------------------
(* Lease expiry (expireSQL, expireTx, settle).                             *)

Lapsed(j) == j.state \in claimedStates /\ j.lease < now

\* Mutant: the last attempt is put back in the queue too.
Bug_RequeueLast(j) ==
    IF ~Lapsed(j) THEN j
    ELSE IF j.cancel THEN [j EXCEPT !.state = "cancelled", !.lease = NoTime]
    ELSE IF j.attempts > MaxAttempts
         THEN [j EXCEPT !.state = "failed", !.lease = NoTime, !.error = "lost",
                        !.told = j.told + 1]
    ELSE [j EXCEPT !.state = "queued", !.lease = NoTime, !.error = "none", !.reported = FALSE]

\* Mutant: a requeued job gets its attempt back.
Bug_RefundAttempt(j) ==
    IF ~Lapsed(j) THEN j
    ELSE IF j.cancel THEN [j EXCEPT !.state = "cancelled", !.lease = NoTime]
    ELSE [j EXCEPT !.state = "queued", !.lease = NoTime, !.error = "none", !.reported = FALSE,
                   !.attempts = j.attempts - 1]

\* Mutant: a requeued job keeps the dead attempt's lease.
Bug_KeepLease(j) ==
    IF ~Lapsed(j) THEN j
    ELSE IF j.cancel THEN [j EXCEPT !.state = "cancelled", !.lease = NoTime]
    ELSE IF j.attempts >= MaxAttempts
         THEN [j EXCEPT !.state = "failed", !.lease = NoTime, !.error = "lost",
                        !.told = j.told + 1]
    ELSE [j EXCEPT !.state = "queued", !.error = "none", !.reported = FALSE]

\* One row of expireSQL: a lapsed lease ends the job when its cancel was asked
\* for or its attempts are spent, else queues it again with the dead attempt's
\* progress and error dropped.  told counts what settle then announces: a job
\* cancelled this way is no news (Notable), a failed one is.
ExpireRow(j) ==
    IF ~Lapsed(j) THEN j
    ELSE IF j.cancel THEN [j EXCEPT !.state = "cancelled", !.lease = NoTime]
    ELSE IF j.attempts >= MaxAttempts
         THEN [j EXCEPT !.state = "failed", !.lease = NoTime, !.error = "lost",
                        !.told = j.told + 1]
    ELSE [j EXCEPT !.state = "queued", !.lease = NoTime, !.error = "none", !.reported = FALSE]

\* The table after expireTx, which opens every transaction of the Service but
\* ReleaseUnsentClaim's.
Expired == [i \in JobIds |-> ExpireRow(jobs[i])]

\* The read paths (Job, List, Blocker, OpenJob), an Enqueue that finds its job
\* already open and a claim that finds none to hand out: they only expire.
ExpireDue ==
    /\ \E i \in JobIds : Lapsed(jobs[i])
    /\ jobs' = Expired
    /\ UNCHANGED <<nextID, now, moduleOn, replies, bridge>>

-----------------------------------------------------------------------------
(* Enqueue.                                                                *)

\* Mutant: a parked job gives way to any new job, cancelled by it or not.
Bug_ParkedGivesWay(k, j) ==
    \/ j.cancel
    \/ j.state = "needs_attention"
    \/ /\ j.kind \in cancelsOpen(k)
       /\ j.state = "queued" /\ Held(j)

\* givesWay: open job j does not refuse a new job of kind k while it is being
\* cancelled, or when the new job cancels it and no Bridge is working on it.
GivesWay(k, j) ==
    \/ j.cancel
    \/ /\ j.kind \in cancelsOpen(k)
       /\ \/ j.state = "needs_attention"
          \/ j.state = "queued" /\ Held(j)

\* blocker: an open job of another kind for the book refuses the new one.
Blocked(js, k, p) ==
    \E i \in JobIds : /\ Open(js[i])
                      /\ js[i].path = p
                      /\ js[i].kind \in refusedWhileOpen(k)
                      /\ ~GivesWay(k, js[i])

\* cancelOpenTx on one row: at once when queued or parked, else by asking the
\* Bridge; the reason is recorded unless an admin asked first.
CancelRow(j) ==
    IF j.state \in {"queued", "needs_attention"}
    THEN [j EXCEPT !.state = "cancelled", !.cancel = TRUE, !.lease = NoTime, !.error = "reason"]
    ELSE IF j.state \in claimedStates
    THEN [j EXCEPT !.error = IF j.cancel THEN j.error ELSE "reason", !.cancel = TRUE]
    ELSE j

\* Enqueue of a new job: the api answers 404 while the job's module is off; an
\* open job of the same key is returned instead (ExpireDue); what the last
\* heartbeat refuses (kind not run, library not writable, cannot contribute)
\* changes nothing.
Enqueue(k, p, issue) ==
    /\ nextID <= MaxJobs
    /\ NeedsModule(k, issue) => moduleOn
    /\ \A i \in JobIds : ~(Open(Expired[i]) /\ DedupeKey(Expired[i]) = <<k, p>>)
    /\ ~Blocked(Expired, k, p)
    /\ jobs' = [i \in JobIds |->
                  IF i = nextID THEN NewJob(k, p, issue)
                  ELSE IF Expired[i].path = p /\ Expired[i].kind \in cancelsOpen(k)
                       THEN CancelRow(Expired[i])
                       ELSE Expired[i]]
    /\ nextID' = nextID + 1
    /\ UNCHANGED <<now, moduleOn, replies, bridge>>

-----------------------------------------------------------------------------
(* Claims and their replies (claimStored, nextQueued, handleBridgeClaim).  *)

\* The queued jobs of kind k a claim may hand out.
Claimable(k) == {i \in JobIds : /\ Expired[i].state = "queued"
                                /\ Expired[i].kind = k
                                /\ ~Held(Expired[i])}

\* A row as a claim leaves it.
Claimed(j) ==
    [j EXCEPT !.state = "claimed", !.attempts = j.attempts + 1, !.lease = now + Lease]

\* A claim commits: the oldest claimable job (book jobs have one priority) of a
\* kind it asked for is leased, and its handler has a reply to write.  A claim
\* that asks for several kinds hands out the oldest of one of them.
ClaimStored(k) ==
    /\ \E i \in Claimable(k) :
          /\ \A h \in Claimable(k) : i <= h
          /\ jobs' = [Expired EXCEPT ![i] = Claimed(Expired[i])]
          /\ replies' = replies \cup
                {[id |-> i, attempt |-> Expired[i].attempts + 1,
                  lease |-> now + Lease, read |-> FALSE]}
    /\ UNCHANGED <<nextID, now, moduleOn, bridge>>

\* The Bridge decodes the flushed reply before the handler returned.
ReadEarly(r) ==
    /\ EarlyReader
    /\ ~r.read
    /\ replies' = (replies \ {r}) \cup {[r EXCEPT !.read = TRUE]}
    /\ bridge' = bridge \cup {[id |-> r.id, attempt |-> r.attempt]}
    /\ UNCHANGED <<jobs, nextID, now, moduleOn>>

\* The reply was flushed and the handler returns (delivered): the Bridge reads it.
Deliver(r) ==
    /\ replies' = replies \ {r}
    /\ bridge' = bridge \cup {[id |-> r.id, attempt |-> r.attempt]}
    /\ UNCHANGED <<jobs, nextID, now, moduleOn>>

\* The flushed reply is lost on its way, the server stops, or the release
\* itself fails: the claim's lease is left to run out.
LoseReply(r) ==
    /\ replies' = replies \ {r}
    /\ UNCHANGED <<jobs, nextID, now, moduleOn, bridge>>

\* Mutant: the release ignores a cancel asked for meanwhile.
Bug_ReleaseToQueue(r) ==
    LET j == jobs[r.id]
    IN  /\ j.state = "claimed" /\ j.attempts = r.attempt /\ j.lease = r.lease
        /\ jobs' = [jobs EXCEPT ![r.id] =
              [j EXCEPT !.state = "queued", !.attempts = j.attempts - 1, !.lease = NoTime]]

\* ReleaseUnsentClaim's update: only the claim as it was handed out, untouched
\* (state, attempt and lease; claimed_at is stamped with the lease), goes back.
ReleaseUnsentClaim(r) ==
    LET j == jobs[r.id]
    IN  /\ j.state = "claimed" /\ j.attempts = r.attempt /\ j.lease = r.lease
        /\ jobs' = [jobs EXCEPT ![r.id] =
              [j EXCEPT !.state = IF j.cancel THEN "cancelled" ELSE "queued",
                        !.attempts = j.attempts - 1, !.lease = NoTime]]

\* The Bridge left before the handler returned: the claim is released.
Release(r) ==
    /\ ReleaseUnsentClaim(r)
    /\ replies' = replies \ {r}
    /\ UNCHANGED <<nextID, now, moduleOn, bridge>>

-----------------------------------------------------------------------------
(* The Bridge's reports (UpdateHeld).                                      *)

\* Mutant: an acknowledgement in the claim's second does not move the lease.
Bug_SameSecondLease(j, st) == now + Lease

\* A report renews the lease; one that leaves the job claimed always moves it,
\* so an acknowledged claim never looks like an undelivered one.
RenewedLease(j, st) ==
    IF st = "claimed" /\ now + Lease <= j.lease THEN j.lease + 1 ELSE now + Lease

\* The job's error after a report that sends e ("keep": it sends none, "bridge": any text): the
\* server's reason for a cancel stays while the job works and when it ends
\* cancelled, and is dropped when it finishes, fails or parks anyway.
ReportedError(j, st, e) ==
    LET serverCancel == j.cancel /\ j.error = "reason"
    IN  IF serverCancel /\ st \in {"done", "failed", "needs_attention"}
        THEN IF e = "keep" THEN "none" ELSE e
        ELSE IF e # "keep" /\ ~serverCancel THEN e ELSE j.error

\* UpdateHeld: claim c reports state s ("same": it sends none), error e and,
\* when p, progress or a result.  It must hold the job, by its attempt.
UpdateHeld(c, s, e, p) ==
    LET j  == Expired[c.id]
        st == IF s = "same" THEN j.state ELSE s
    IN  /\ j.state \in heldStates
        /\ j.attempts = c.attempt
        /\ st \in claimedStates => RenewedLease(j, st) <= MaxTime + Lease
        /\ jobs' = [Expired EXCEPT ![c.id] =
              [j EXCEPT !.state = st,
                        !.lease = IF st \in claimedStates THEN RenewedLease(j, st) ELSE NoTime,
                        !.error = ReportedError(j, st, e),
                        !.reported = j.reported \/ p,
                        !.told = IF st \in {"done", "failed"} THEN j.told + 1 ELSE j.told]]
        /\ UNCHANGED <<nextID, now, moduleOn, replies, bridge>>

-----------------------------------------------------------------------------
(* Cancel, moves, the library's deletion, the module switch, time.         *)

\* An admin's Cancel: at once when no Bridge works on the job, else asked for.
Cancel(i) ==
    LET j == Expired[i]
    IN  /\ Open(j)
        /\ jobs' = [Expired EXCEPT ![i] =
              IF j.state \in {"queued", "needs_attention"}
              THEN [j EXCEPT !.state = "cancelled", !.cancel = TRUE, !.lease = NoTime]
              ELSE [j EXCEPT !.cancel = TRUE]]
        /\ UNCHANGED <<nextID, now, moduleOn, replies, bridge>>

\* Mutant: the job already open at the new path is not looked for.
Bug_MoveWithoutCancel(old, new) ==
    [i \in JobIds |-> IF jobs[i].state = "absent" \/ jobs[i].path # old THEN jobs[i]
                      ELSE [jobs[i] EXCEPT !.path = new]]

\* Mutant: the move expires lapsed leases, with nothing there to announce them.
Bug_MoveExpires(old, new) ==
    [i \in JobIds |->
        IF jobs[i].state = "absent" \/ jobs[i].path # old THEN jobs[i]
        ELSE IF \E h \in JobIds : Open(jobs[h]) /\ DedupeKey(jobs[h]) = <<jobs[i].kind, new>>
                                  /\ Open(jobs[i])
        THEN [jobs[i] EXCEPT !.state = "cancelled", !.error = "reason",
                             !.lease = NoTime, !.path = new]
        ELSE IF Lapsed(jobs[i]) /\ ~jobs[i].cancel /\ jobs[i].attempts >= MaxAttempts
        THEN [jobs[i] EXCEPT !.state = "failed", !.error = "lost", !.lease = NoTime, !.path = new]
        ELSE [jobs[i] EXCEPT !.path = new]]

\* The table after MoveJobs: an open job whose kind is already open at the new
\* path is cancelled (without cancel_requested), the rest follow the book,
\* finished ones too.  No lease expires here.
Moved(old, new) ==
    [i \in JobIds |->
        IF jobs[i].state = "absent" \/ jobs[i].path # old THEN jobs[i]
        ELSE IF \E h \in JobIds : Open(jobs[h]) /\ DedupeKey(jobs[h]) = <<jobs[i].kind, new>>
                                  /\ Open(jobs[i])
        THEN [jobs[i] EXCEPT !.state = "cancelled", !.error = "reason",
                             !.lease = NoTime, !.path = new]
        ELSE [jobs[i] EXCEPT !.path = new]]

MoveJobs(old, new) ==
    /\ old # new
    /\ jobs' = Moved(old, new)
    /\ UNCHANGED <<nextID, now, moduleOn, replies, bridge>>

\* The library is deleted and its jobs with it (ON DELETE CASCADE).
DeleteLibrary ==
    /\ jobs' = [i \in JobIds |-> Absent]
    /\ UNCHANGED <<nextID, now, moduleOn, replies, bridge>>

\* An admin turns the contributions module on or off.
SetModule ==
    /\ moduleOn' = ~moduleOn
    /\ UNCHANGED <<jobs, nextID, now, replies, bridge>>

Tick ==
    /\ now < MaxTime
    /\ now' = now + 1
    /\ UNCHANGED <<jobs, nextID, moduleOn, replies, bridge>>

-----------------------------------------------------------------------------

Init ==
    /\ jobs = [i \in JobIds |-> Absent]
    /\ nextID = 1
    /\ now = 0
    /\ moduleOn = TRUE
    /\ replies = {}
    /\ bridge = {}

Next ==
    \/ ExpireDue
    \/ \E k \in Kinds, p \in Paths, issue \in BOOLEAN :
          (issue => k = KindSidecars) /\ Enqueue(k, p, issue)
    \/ \E k \in Kinds : ClaimStored(k)
    \/ \E r \in replies : ReadEarly(r)
    \/ \E r \in replies : Deliver(r)
    \/ \E r \in replies : LoseReply(r)
    \/ \E r \in replies : Release(r)
    \/ \E c \in bridge, s \in reportable \cup {"same"},
          e \in ReportErrors, p \in ReportResults : UpdateHeld(c, s, e, p)
    \/ \E i \in JobIds : Cancel(i)
    \/ \E old \in Paths, new \in Paths : MoveJobs(old, new)
    \/ DeleteLibrary
    \/ SetModule
    \/ Tick

Spec == Init /\ [][Next]_vars

ASSUME BridgeJobsAssumption ==
    /\ Kinds \subseteq BookKinds /\ Kinds # {}
    /\ Paths # {}
    /\ MaxAttempts \in Nat \ {0}
    /\ Lease \in Nat
    /\ MaxJobs \in Nat
    /\ MaxTime \in Nat
    /\ EarlyReader \in BOOLEAN
    /\ ReportErrors \subseteq {"keep", "bridge"} /\ ReportResults \subseteq BOOLEAN

-----------------------------------------------------------------------------
(* Properties.                                                             *)

\* The rows, the clock, the replies under way and the Bridge's claims have
\* their types; a row holds a lease exactly while it is claimed or running, and
\* a row not yet queued is absent.
TypeOK ==
    /\ jobs \in [JobIds -> Job]
    /\ nextID \in 1..(MaxJobs + 1)
    /\ now \in 0..MaxTime
    /\ moduleOn \in BOOLEAN
    /\ replies \subseteq Reply
    /\ bridge \subseteq BridgeClaim
    /\ \A i \in JobIds :
          /\ IF jobs[i].state \in claimedStates THEN jobs[i].lease \in Nat
                                               ELSE jobs[i].lease = NoTime
          /\ i >= nextID => jobs[i].state = "absent"

\* A kind and a book have at most one open job, whatever requests, moves and
\* expiries interleave: the code never trips the partial unique index
\* idx_bridge_jobs_open, which would fail the move or the request.
OneOpenPerKey ==
    \A i, h \in JobIds :
        Open(jobs[i]) /\ Open(jobs[h]) /\ DedupeKey(jobs[i]) = DedupeKey(jobs[h]) => i = h

\* A job in the queue can still be claimed: its attempts are not spent and no
\* cancel was asked for.  nextQueued checks neither, so a claim relies on it.
QueuedIsClaimable ==
    \A i \in JobIds : jobs[i].state = "queued" =>
        jobs[i].attempts < MaxAttempts /\ ~jobs[i].cancel

\* A job waiting in the queue shows nothing of an attempt that died or of a
\* claim that was taken back (expireSQL: "so a waiting job doesn't read as
\* still under way").  The release clears nothing itself: it relies on a
\* report always moving the lease.
QueuedReadsFresh ==
    \A i \in JobIds : jobs[i].state = "queued" => ~jobs[i].reported /\ jobs[i].error = "none"

\* The attempt number fences: a claim on its way to the Bridge never carries an
\* attempt the Bridge has already read for that job, although a release gives
\* the number back.  So a late report of an older claim is refused.
FreshAttempt ==
    \A r \in replies : ~r.read => [id |-> r.id, attempt |-> r.attempt] \notin bridge

\* The server's reason for a cancel is never left on a job that finished,
\* failed or parked (UpdateHeld), only on one cancelled or being cancelled.
ReasonOnlyOnCancel ==
    \A i \in JobIds : jobs[i].error = "reason" =>
        \/ jobs[i].state = "cancelled"
        \/ jobs[i].state \in claimedStates /\ jobs[i].cancel

\* An admin hears about every job that finished or failed, by the Bridge's
\* report or by a lease that ran out on the last attempt, exactly once.
ToldOnce ==
    \A i \in JobIds : jobs[i].told = IF jobs[i].state \in {"done", "failed"} THEN 1 ELSE 0

Conflict(k, l) == l \in refusedWhileOpen(k) \/ k \in refusedWhileOpen(l)

\* Kinds that write the same files or transcribe the same audio never have
\* open jobs for one book, but for one being cancelled ("never overlap", the
\* comment on kinds): neither the refusals nor the cancels leave a gap.
NeverOverlap ==
    \A i, h \in JobIds :
        /\ Open(jobs[i]) /\ Open(jobs[h])
        /\ jobs[i].path = jobs[h].path
        /\ Conflict(jobs[i].kind, jobs[h].kind)
        => jobs[i].cancel \/ jobs[h].cancel

\* A book's jobs move to its new path.
Moves == \E old \in Paths, new \in Paths : MoveJobs(old, new)

\* Only a move makes kinds that conflict overlap ("never overlap", the comment
\* on kinds): from a table without an overlap, no request, refusal, cancel,
\* expiry, release or report leaves two open conflicting jobs for one book.
OnlyMovesOverlap == [][NeverOverlap /\ ~NeverOverlap' => Moves]_vars

\* A cancel sticks: a job whose cancel was asked for is never queued or handed
\* out again, by expiry, by a release or by a report.
CancelSticks ==
    [][\A i \in JobIds :
          jobs[i].state # "absent" /\ jobs[i].cancel /\ jobs'[i].state # "absent" =>
          /\ jobs'[i].cancel
          /\ jobs'[i].state # "queued"
          /\ jobs'[i].attempts <= jobs[i].attempts]_vars

\* An ended job stays as it ended (its path may follow the book): no late
\* report, release, expiry or second cancel reopens or rewrites it.
EndedIsFinal ==
    [][\A i \in JobIds : jobs[i].state \in EndedStates /\ jobs'[i].state # "absent" =>
          /\ jobs'[i].state = jobs[i].state
          /\ jobs'[i].error = jobs[i].error
          /\ jobs'[i].attempts = jobs[i].attempts]_vars

=============================================================================
