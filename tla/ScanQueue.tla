----------------------------- MODULE ScanQueue ------------------------------
(***************************************************************************)
(* The queue of library scans (internal/library/jobs.go), with the rows it *)
(* keeps in scan_runs (internal/catalog/scanruns.go) and the handlers that *)
(* ask for scans, change a library or delete one                           *)
(* (internal/api/handlers_admin.go).  What Scanner.mu guards is one step;  *)
(* the worker, the scheduler, the handlers and a crash interleave between. *)
(* A library waits at most once in the queue, so a job is named by its     *)
(* library; a Cancel of a job that is gone changes nothing and is left out.*)
(* A time is the number of the library's newest due slot at that time.     *)
(***************************************************************************)
EXTENDS Integers, Sequences

CONSTANTS
    Libs,        \* libraries
    MaxChanges,  \* bound: settings changes, of all libraries
    MaxSlots,    \* bound: due slots of a library's schedule
    MaxCrashes   \* bound: crashes

ASSUME ScanQueueAssumption ==
    MaxChanges \in Nat /\ MaxSlots \in Nat /\ MaxCrashes \in Nat

VARIABLES
    exists,     \* the library is in the catalog
    changes,    \* settings changes so far
    row,        \* the status of each library's newest scan_runs row
    last,       \* that row's started_at, 0 for none
    queued,     \* jobQueue.queued
    running,    \* jobQueue.running: a job, or NoJob
    wake,       \* the signals in jobQueue.wake (capacity 1)
    skipped,    \* jobQueue.skipped
    progress,   \* ScanProgress.Running of each library
    worker,     \* where work is
    recorded,   \* run has a scan_runs row (runID # 0)
    cancelled,  \* the running job's cancel was called
    asking,     \* callers about to call Enqueue: library and trigger
    deleting,   \* libraries deleted, CancelLibrary to come
    ticking,    \* queueDue: the libraries found due and yet to be queued
    slot,       \* now, for each library's schedule
    anchor,     \* when the scheduler started
    server,     \* "up", "stopping" (its context ended) or "down"
    crashes,
    owed,       \* history: a change that no scan has read yet
    served      \* history: the slot scanned, dropped or folded while no tick held it

catalogVars == <<exists, changes, row, last>>
queueVars   == <<queued, running, wake, skipped, progress>>
workVars    == <<worker, recorded, cancelled>>
callVars    == <<asking, deleting, ticking>>
timeVars    == <<slot, anchor, server, crashes>>
vars == <<catalogVars, queueVars, workVars, callVars, timeVars, owed, served>>

Triggers == {"manual", "change", "schedule", "startup"}
NoJob    == [lib |-> "none", trigger |-> "none"]
Ended    == {"ok", "unavailable", "interrupted", "cancelled", "failed"}

QueuedLibs == {queued[i].lib : i \in DOMAIN queued}
Up == server = "up"

\* The API serves once the startup scans are queued (launcher).
Serving == Up /\ \A a \in asking : a.trigger # "startup"

-----------------------------------------------------------------------------
(* Asking for a scan.                                                      *)

\* Mutant: a change made while the library is scanned is folded into that scan.
Bug_Folds(l, trigger) == running # NoJob /\ running.lib = l /\ trigger # "manual"
\* A schedule or a startup scan has nothing new for a second pass to see.
Folds(l, trigger) == running # NoJob /\ running.lib = l /\ trigger \in {"schedule", "startup"}

\* Mutant: the worker is not woken.
Bug_Woken == wake
\* The non-blocking send.
Woken == 1

\* Enqueue: the waiting job, the running one, or a new one.
Enqueue(l, trigger) ==
    IF l \in QueuedLibs
    THEN UNCHANGED <<queued, wake, skipped, served>>
    ELSE IF Folds(l, trigger)
    THEN /\ skipped' = IF trigger = "schedule" THEN [skipped EXCEPT ![l] = slot[l]] ELSE skipped
         /\ served' = IF trigger = "schedule" THEN [served EXCEPT ![l] = slot[l]] ELSE served
         /\ UNCHANGED <<queued, wake>>
    ELSE /\ queued' = Append(queued, [lib |-> l, trigger |-> trigger])
         /\ wake' = Woken
         /\ UNCHANGED <<skipped, served>>

\* A handler read the library and is about to queue a scan of it.
AskScan(l) ==
    /\ Serving /\ exists[l]
    /\ asking' = asking \cup {[lib |-> l, trigger |-> "manual"]}
    /\ UNCHANGED <<catalogVars, queueVars, workVars, deleting, ticking, timeVars, owed, served>>

\* UpdateLibrary or a folder override commits a change that needs a scan;
\* startScan comes next.
SaveChange(l) ==
    /\ Serving /\ exists[l] /\ changes < MaxChanges
    /\ changes' = changes + 1
    /\ owed' = [owed EXCEPT ![l] = TRUE]
    /\ asking' = asking \cup {[lib |-> l, trigger |-> "change"]}
    /\ UNCHANGED <<exists, row, last, queueVars, workVars, deleting, ticking, timeVars, served>>

\* startScan, and EnqueueAll for one library.
StartScan(a) ==
    /\ a \in asking
    /\ asking' = asking \ {a}
    /\ Enqueue(a.lib, a.trigger)
    /\ UNCHANGED <<catalogVars, running, progress, workVars, deleting, ticking, timeVars, owed>>

-----------------------------------------------------------------------------
(* Dropping a scan.                                                        *)

\* One job taken out of the queue.
DropAt(i) == SubSeq(queued, 1, i - 1) \o SubSeq(queued, i + 1, Len(queued))

\* A library's queued job removed.
Without(l) == IF l \in QueuedLibs THEN DropAt(CHOOSE i \in DOMAIN queued : queued[i].lib = l)
                                  ELSE queued

\* Mutant: a dropped scheduled scan does not skip its slot.
Bug_SkipDropped(j) == skipped
\* A dropped scheduled scan skips its slot.
SkipDropped(j) == IF j.trigger = "schedule" THEN [skipped EXCEPT ![j.lib] = slot[j.lib]] ELSE skipped

\* Cancel of a waiting job: the admin gives its change up.
CancelQueued(i) ==
    /\ Serving
    /\ LET j == queued[i]
       IN  /\ queued' = DropAt(i)
           /\ skipped' = SkipDropped(j)
           /\ served' = IF j.trigger = "schedule" /\ j.lib \notin ticking
                        THEN [served EXCEPT ![j.lib] = slot[j.lib]] ELSE served
           /\ owed' = [owed EXCEPT ![j.lib] = FALSE]
    /\ UNCHANGED <<catalogVars, running, wake, progress, workVars, callVars, timeVars>>

\* Cancel of the running job.
CancelRunning ==
    /\ Serving /\ running # NoJob /\ ~cancelled
    /\ cancelled' = TRUE
    /\ UNCHANGED <<catalogVars, queueVars, worker, recorded, callVars, timeVars, owed, served>>

\* DeleteLibrary commits; its scan_runs rows go with it.
DeleteLibrary(l) ==
    /\ Serving /\ exists[l]
    /\ exists' = [exists EXCEPT ![l] = FALSE]
    /\ row' = [row EXCEPT ![l] = "none"]
    /\ last' = [last EXCEPT ![l] = 0]
    /\ deleting' = deleting \cup {l}
    /\ UNCHANGED <<changes, queueVars, workVars, asking, ticking, timeVars, owed, served>>

\* CancelLibrary stops the library's running scan.
StopsScan(l) == cancelled \/ (running # NoJob /\ running.lib = l)

\* CancelLibrary.
CancelLibrary(l) ==
    /\ l \in deleting
    /\ deleting' = deleting \ {l}
    /\ queued' = Without(l)
    /\ cancelled' = StopsScan(l)
    /\ skipped' = [skipped EXCEPT ![l] = 0]
    /\ UNCHANGED <<catalogVars, running, wake, progress, worker, recorded, asking, ticking,
                   timeVars, owed, served>>

-----------------------------------------------------------------------------
(* The schedule.                                                           *)

\* A slot of the library's schedule comes due.
SlotComes(l) ==
    /\ Up /\ slot[l] < MaxSlots
    /\ slot' = [slot EXCEPT ![l] = @ + 1]
    /\ UNCHANGED <<catalogVars, queueVars, workVars, callVars, anchor, server, crashes, owed, served>>

\* NextScans: a slot is due when it came after the last scan started (or the
\* scheduler did) and after the last slot skipped.
Due(l) ==
    /\ slot[l] > IF last[l] = 0 THEN anchor[l] ELSE last[l]
    /\ slot[l] > skipped[l]

\* queueDue reads the catalog and the queue.
Tick ==
    /\ Up /\ ticking = {}
    /\ ticking' = {l \in Libs : exists[l] /\ Due(l)}
    /\ UNCHANGED <<catalogVars, queueVars, workVars, asking, deleting, timeVars, owed, served>>

\* queueDue queues one it found due.
QueueDue(l) ==
    /\ l \in ticking
    /\ ticking' = ticking \ {l}
    /\ Enqueue(l, "schedule")
    /\ UNCHANGED <<catalogVars, running, progress, workVars, asking, deleting, timeVars, owed>>

-----------------------------------------------------------------------------
(* The worker (work, run).                                                 *)

\* Nothing waits: unlock, and wait for a signal or the end.
WaitForWake ==
    /\ worker = "loop" /\ queued = <<>>
    /\ worker' = "select"
    /\ UNCHANGED <<catalogVars, queueVars, recorded, cancelled, callVars, timeVars, owed, served>>

Wake ==
    /\ worker = "select" /\ wake = 1
    /\ wake' = 0
    /\ worker' = "loop"
    /\ UNCHANGED <<catalogVars, queued, running, skipped, progress, recorded, cancelled, callVars,
                   timeVars, owed, served>>

\* The server's context ended.
WorkEnds ==
    /\ worker = "select" /\ server = "stopping"
    /\ worker' = "returned"
    /\ UNCHANGED <<catalogVars, queueVars, recorded, cancelled, callVars, timeVars, owed, served>>

\* The first job starts, and reads as running.
TakeJob ==
    /\ worker = "loop" /\ queued # <<>>
    /\ LET j == Head(queued)
       IN  /\ running' = j
           /\ progress' = [progress EXCEPT ![j.lib] = TRUE]
    /\ queued' = Tail(queued)
    /\ cancelled' = FALSE /\ recorded' = FALSE
    /\ worker' = "load"
    /\ UNCHANGED <<catalogVars, wake, skipped, callVars, timeVars, owed, served>>

\* GetLibrary, under the server's context.
LoadLibrary ==
    /\ worker = "load"
    /\ IF exists[running.lib] /\ server = "up"
       THEN /\ worker' = "record"
            /\ owed' = [owed EXCEPT ![running.lib] = FALSE]
            /\ UNCHANGED progress
       ELSE /\ worker' = "clear"
            /\ progress' = [progress EXCEPT ![running.lib] = FALSE]
            /\ UNCHANGED owed
    /\ UNCHANGED <<catalogVars, queued, running, wake, skipped, recorded, cancelled, callVars,
                   timeVars, served>>

\* StartScanRun: refused when the library was deleted meanwhile; the scan goes
\* on without a row.
StartScanRun ==
    /\ worker = "record"
    /\ LET l == running.lib
       IN  IF exists[l]
           THEN /\ row' = [row EXCEPT ![l] = "running"]
                /\ last' = [last EXCEPT ![l] = slot[l]]
                /\ recorded' = TRUE
                /\ served' = IF l \notin ticking THEN [served EXCEPT ![l] = slot[l]] ELSE served
           ELSE UNCHANGED <<row, last, recorded, served>>
    /\ worker' = "scan"
    /\ UNCHANGED <<exists, changes, queueVars, cancelled, callVars, timeVars, owed>>

\* Mutant: Scan clears Running itself when it returns.
Bug_RunningAfterScan == FALSE
\* A queue job reads as running until its run is recorded.
RunningAfterScan == running # NoJob

\* runStatus: how a scan may have ended.
runStatus ==
    {"ok", "unavailable"}
       \cup {IF server = "stopping" THEN "interrupted"
             ELSE IF cancelled THEN "cancelled" ELSE "failed"}

\* Scan returns, and its row waits for FinishScanRun with the status.
ScanEnds ==
    /\ worker = "scan"
    /\ progress' = [progress EXCEPT ![running.lib] = RunningAfterScan]
    /\ worker' \in runStatus
    /\ UNCHANGED <<catalogVars, queued, running, wake, skipped, recorded, cancelled, callVars,
                   timeVars, owed, served>>

\* FinishScanRun: a row whose library was deleted is gone.
FinishScanRun ==
    /\ worker \in Ended
    /\ row' = IF recorded /\ exists[running.lib]
              THEN [row EXCEPT ![running.lib] = worker] ELSE row
    /\ worker' = "clear"
    /\ UNCHANGED <<exists, changes, last, queueVars, recorded, cancelled, callVars, timeVars, owed, served>>

\* The job is over.
ClearRunning ==
    /\ worker = "clear"
    /\ progress' = [progress EXCEPT ![running.lib] = FALSE]
    /\ running' = NoJob
    /\ cancelled' = FALSE
    /\ worker' = "loop"
    /\ UNCHANGED <<catalogVars, queued, wake, skipped, recorded, callVars, timeVars, owed, served>>

-----------------------------------------------------------------------------
(* The process.                                                            *)

\* The server is asked to stop.
StopServer ==
    /\ Up
    /\ server' = "stopping"
    /\ UNCHANGED <<catalogVars, queueVars, workVars, callVars, slot, anchor, crashes, owed, served>>

\* The process ends, stopped or crashed: what is in memory is gone.
Exit ==
    /\ server # "down" /\ crashes < MaxCrashes
    /\ server' = "down"
    /\ crashes' = crashes + 1
    /\ queued' = <<>> /\ running' = NoJob /\ wake' = 0
    /\ skipped' = [l \in Libs |-> 0]
    /\ progress' = [l \in Libs |-> FALSE]
    /\ worker' = "none" /\ recorded' = FALSE /\ cancelled' = FALSE
    /\ asking' = {} /\ deleting' = {} /\ ticking' = {}
    /\ served' = [l \in Libs |-> 0]
    /\ UNCHANGED <<catalogVars, slot, anchor, owed>>

\* Mutant: the open rows are left as they are.
Bug_Interrupted(l) == row[l]
\* InterruptScanRuns: a run the last server left open.
Interrupted(l) == IF row[l] = "running" THEN "interrupted" ELSE row[l]

\* Start; the launcher then queues a startup scan of every library.
Start ==
    /\ server = "down"
    /\ server' = "up"
    /\ row' = [l \in Libs |-> Interrupted(l)]
    /\ anchor' = slot
    /\ worker' = "loop"
    /\ asking' = {[lib |-> l, trigger |-> "startup"] : l \in {k \in Libs : exists[k]}}
    /\ UNCHANGED <<exists, changes, last, queueVars, recorded, cancelled, deleting, ticking, slot,
                   crashes, owed, served>>

-----------------------------------------------------------------------------

Init ==
    /\ exists = [l \in Libs |-> TRUE]
    /\ changes = 0
    /\ row = [l \in Libs |-> "none"] /\ last = [l \in Libs |-> 0]
    /\ queued = <<>> /\ running = NoJob /\ wake = 0
    /\ skipped = [l \in Libs |-> 0] /\ progress = [l \in Libs |-> FALSE]
    /\ worker = "none" /\ recorded = FALSE /\ cancelled = FALSE
    /\ asking = {} /\ deleting = {} /\ ticking = {}
    /\ slot = [l \in Libs |-> 1] /\ anchor = [l \in Libs |-> 0]
    /\ server = "down" /\ crashes = 0
    /\ owed = [l \in Libs |-> FALSE] /\ served = [l \in Libs |-> 0]

Next ==
    \/ \E l \in Libs : AskScan(l)
    \/ \E l \in Libs : SaveChange(l)
    \/ \E a \in asking : StartScan(a)
    \/ \E i \in DOMAIN queued : CancelQueued(i)
    \/ CancelRunning
    \/ \E l \in Libs : DeleteLibrary(l)
    \/ \E l \in deleting : CancelLibrary(l)
    \/ \E l \in Libs : SlotComes(l)
    \/ Tick
    \/ \E l \in ticking : QueueDue(l)
    \/ WaitForWake
    \/ Wake
    \/ WorkEnds
    \/ TakeJob
    \/ LoadLibrary
    \/ StartScanRun
    \/ ScanEnds
    \/ FinishScanRun
    \/ ClearRunning
    \/ StopServer
    \/ Exit
    \/ Start

Spec == Init /\ [][Next]_vars

\* The worker goes on while its process lives (a scan ends: its reads are
\* bounded, and a requested one is stopped after scanTimeout), and a handler
\* that committed a change queues its scan.
Fairness ==
    /\ WF_vars(WaitForWake \/ Wake \/ TakeJob)
    /\ WF_vars(LoadLibrary \/ StartScanRun \/ ScanEnds \/ FinishScanRun \/ ClearRunning)
    /\ \A l \in Libs, t \in Triggers :
          WF_vars([lib |-> l, trigger |-> t] \in asking /\ StartScan([lib |-> l, trigger |-> t]))

FairSpec == Spec /\ Fairness

-----------------------------------------------------------------------------
(* Properties.                                                             *)

\* No job waits beside a worker that nothing will wake: between the worker's
\* look at the queue and its wait, a job may be queued (work, Enqueue).
NoLostWake == worker = "select" /\ queued # <<>> => wake = 1

\* A settings change is never left behind: until a scan read the library (or
\* an admin dropped the scan that waited, or deleted it) one waits, is about to
\* be queued or has yet to read it, the change made during a scan or just
\* before a crash included (Enqueue's coalescing, the startup scans).
ChangeGetsScanned ==
    \A l \in Libs :
        owed[l] /\ exists[l] /\ Up =>
            \/ l \in QueuedLibs
            \/ \E a \in asking : a.lib = l
            \/ worker = "load" /\ running.lib = l

\* A poll that sees a library's scan finished finds its history row finished
\* too, across crashes (Scan's deferred update, InterruptScanRuns).
IdleMeansRecorded ==
    \A l \in Libs : server # "down" /\ row[l] = "running" => progress[l]

\* A slot of the schedule that was scanned, dropped or folded into a scan is
\* not queued again by a later tick (jobQueue.skipped).  One already past its
\* reads may still queue it once: history served leaves that race out.
SlotOnce ==
    [][\A l \in Libs :
          (Len(queued') > Len(queued) /\ queued'[Len(queued')] = [lib |-> l, trigger |-> "schedule"])
              => served[l] < slot[l]]_vars

\* A change is read by a scan in the end, unless it is dropped or the server
\* stops.
ChangeApplied ==
    \A l \in Libs : owed[l] ~> (~owed[l] \/ ~exists[l] \/ ~Up)

=============================================================================
