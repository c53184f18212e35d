--------------------------- MODULE ScanQueueProofs ---------------------------
(***************************************************************************)
(* Proofs about ScanQueue, for any number of libraries, changes, slots and *)
(* crashes.  ChangeGetsScanned is not inductive: a startup scan may be     *)
(* folded into one that is running, so the invariant says which callers    *)
(* still count for a change (Covered).                                     *)
(***************************************************************************)
EXTENDS ScanQueue, TLAPS

Job == [lib : Libs, trigger : Triggers]
RunStates == {"load", "record", "scan", "clear"} \cup Ended
IdleStates == {"none", "loop", "select", "returned"}

Scanning(l) == running # NoJob /\ running.lib = l

\* A change of the library waits for a scan: one is queued, has yet to read the
\* library, or will be queued by a caller that no running scan stands in for.
Covered(l) ==
    \/ l \in QueuedLibs
    \/ worker = "load" /\ running.lib = l
    \/ \E a \in asking : a.lib = l /\ (a.trigger \in {"manual", "change"} \/ ~Scanning(l))

Shapes ==
    /\ exists \in [Libs -> BOOLEAN] /\ owed \in [Libs -> BOOLEAN]
    /\ progress \in [Libs -> BOOLEAN]
    /\ last \in [Libs -> Nat] /\ skipped \in [Libs -> Nat] /\ slot \in [Libs -> Nat]
    /\ anchor \in [Libs -> Nat] /\ served \in [Libs -> Nat]
    /\ row \in [Libs -> {"none", "running"} \cup Ended]
    /\ queued \in Seq(Job)
    /\ asking \subseteq [lib : Libs, trigger : Triggers \ {"schedule"}]
    /\ deleting \subseteq Libs /\ ticking \subseteq Libs
    /\ worker \in RunStates \cup IdleStates
    /\ server \in {"up", "stopping", "down"}

\* A library waits at most once in the queue.
OnePerLibrary == \A i, j \in DOMAIN queued : queued[i].lib = queued[j].lib => i = j

\* A job runs exactly while the worker is at one, and reads as running until it is
\* over; nothing runs in a server that is down.
RunInv ==
    /\ worker \in RunStates => running \in Job
    /\ worker \in IdleStates => running = NoJob
    /\ worker \in RunStates \ {"clear"} => progress[running.lib]
    /\ server = "down" => worker = "none"

\* A deleted library stays deleted.
DeletedInv == \A l \in deleting : ~exists[l]

CoverInv == \A l \in Libs : owed[l] /\ exists[l] /\ Up => Covered(l)

\* An open row is the running job's.
RowInv ==
    \A l \in Libs : server # "down" /\ row[l] = "running" =>
        worker \in {"scan"} \cup Ended /\ running.lib = l /\ recorded /\ exists[l]

\* A slot that was served is not due, and no tick under way holds it.
SlotInv ==
    \A l \in Libs :
        /\ served[l] <= slot[l]
        /\ exists[l] => served[l] <= last[l] \/ served[l] <= skipped[l]
        /\ l \in ticking => served[l] < slot[l]

IInv == /\ Shapes /\ OnePerLibrary /\ RunInv /\ DeletedInv /\ CoverInv
        /\ RowInv /\ SlotInv /\ NoLostWake

LEMMA InitInv == Init => IInv
<1> SUFFICES ASSUME Init PROVE IInv
  OBVIOUS
<1>1. Shapes
  BY DEF Init, Shapes, IdleStates
<1>2. RunInv
  BY DEF Init, RunInv, RunStates, IdleStates, Ended
<1>3. OnePerLibrary /\ DeletedInv /\ CoverInv /\ RowInv /\ SlotInv /\ NoLostWake
  BY DEF Init, OnePerLibrary, DeletedInv, CoverInv, RowInv, SlotInv, NoLostWake
<1> QED
  BY <1>1, <1>2, <1>3 DEF IInv

-----------------------------------------------------------------------------
(* The queue.                                                              *)

LEMMA NoJobIsNone == NoJob \notin Job
BY DEF NoJob, Job, Triggers

\* A job put at the end.
LEMMA Appended ==
  ASSUME queued \in Seq(Job), OnePerLibrary, NEW j \in Job, j.lib \notin QueuedLibs,
         queued' = Append(queued, j)
  PROVE  /\ queued' \in Seq(Job) /\ OnePerLibrary'
         /\ QueuedLibs' = QueuedLibs \cup {j.lib}
<1>1. queued' \in Seq(Job) /\ Len(queued') = Len(queued) + 1 /\ Len(queued) \in Nat
  OBVIOUS
<1>2. \A i \in DOMAIN queued : i \in DOMAIN queued' /\ queued'[i] = queued[i]
  OBVIOUS
<1>3. Len(queued') \in DOMAIN queued' /\ queued'[Len(queued')] = j
  OBVIOUS
<1>4. \A i \in DOMAIN queued' : i \in DOMAIN queued \/ i = Len(queued')
  BY <1>1
<1>5. QueuedLibs' = QueuedLibs \cup {j.lib}
  BY <1>2, <1>3, <1>4 DEF QueuedLibs
<1>6. OnePerLibrary'
  BY <1>2, <1>3, <1>4 DEF QueuedLibs, OnePerLibrary
<1> QED
  BY <1>1, <1>5, <1>6

\* One job taken out.
LEMMA Dropped ==
  ASSUME queued \in Seq(Job), OnePerLibrary, NEW i \in DOMAIN queued, queued' = DropAt(i)
  PROVE  /\ queued' \in Seq(Job) /\ OnePerLibrary'
         /\ QueuedLibs' = QueuedLibs \ {queued[i].lib}
         /\ queued # <<>> /\ Len(queued') < Len(queued)
<1> DEFINE at(k) == IF k < i THEN k ELSE k + 1
           front == SubSeq(queued, 1, i - 1)
           rest == SubSeq(queued, i + 1, Len(queued))
<1>1. i \in 1..Len(queued) /\ Len(queued) \in Nat
  OBVIOUS
<1>2. /\ front \in Seq(Job) /\ Len(front) = i - 1
      /\ \A k \in 1..(i - 1) : front[k] = queued[k]
  BY <1>1
<1>3. /\ rest \in Seq(Job) /\ Len(rest) = Len(queued) - i
      /\ \A k \in 1..(Len(queued) - i) : rest[k] = queued[k + i]
  BY <1>1
<1>4. queued' = front \o rest
  BY DEF DropAt
<1> HIDE DEF front, rest
<1>5. queued' \in Seq(Job) /\ Len(queued') = Len(queued) - 1
  BY <1>1, <1>2, <1>3, <1>4
<1>6. \A k \in DOMAIN queued' : at(k) \in DOMAIN queued \ {i} /\ queued'[k] = queued[at(k)]
  <2> SUFFICES ASSUME NEW k \in DOMAIN queued'
               PROVE  at(k) \in DOMAIN queued \ {i} /\ queued'[k] = queued[at(k)]
    OBVIOUS
  <2>1. k \in 1..(Len(queued) - 1)
    BY <1>1, <1>5
  <2>2. CASE k < i
    BY <1>1, <1>2, <1>3, <1>4, <2>1, <2>2
  <2>3. CASE ~(k < i)
    <3>1. queued'[k] = rest[k - (i - 1)]
      BY <1>1, <1>2, <1>3, <1>4, <2>1, <2>3
    <3>2. k - (i - 1) \in 1..(Len(queued) - i) /\ (k - (i - 1)) + i = k + 1
      BY <1>1, <2>1, <2>3
    <3> QED
      BY <1>1, <1>3, <2>1, <2>3, <3>1, <3>2
  <2> QED
    BY <2>2, <2>3
<1>7. \A n \in DOMAIN queued \ {i} : \E k \in DOMAIN queued' : at(k) = n
  <2> SUFFICES ASSUME NEW n \in DOMAIN queued \ {i} PROVE \E k \in DOMAIN queued' : at(k) = n
    OBVIOUS
  <2>1. DOMAIN queued' = 1..(Len(queued) - 1) /\ n \in 1..Len(queued)
    BY <1>5
  <2>2. CASE n < i
    BY <1>1, <2>1, <2>2
  <2>3. CASE n > i
    <3>1. n - 1 \in 1..(Len(queued) - 1) /\ at(n - 1) = n
      BY <1>1, <2>1, <2>3
    <3> QED
      BY <2>1, <3>1
  <2> QED
    BY <1>1, <2>1, <2>2, <2>3
<1>8. OnePerLibrary'
  <2> SUFFICES ASSUME NEW k \in DOMAIN queued', NEW n \in DOMAIN queued',
                      queued'[k].lib = queued'[n].lib
               PROVE  k = n
    BY DEF OnePerLibrary
  <2>1. at(k) = at(n)
    BY <1>6 DEF OnePerLibrary
  <2>2. k \in Int /\ n \in Int
    BY <1>5
  <2> QED
    BY <1>1, <2>1, <2>2
<1> HIDE DEF at
<1>9. QueuedLibs' \subseteq QueuedLibs \ {queued[i].lib}
  BY <1>6 DEF QueuedLibs, OnePerLibrary
<1>10. QueuedLibs \ {queued[i].lib} \subseteq QueuedLibs'
  BY <1>6, <1>7 DEF QueuedLibs
<1> QED
  BY <1>1, <1>5, <1>8, <1>9, <1>10

\* The library's one waiting job taken out, if there is one.
LEMMA WithoutOne ==
  ASSUME queued \in Seq(Job), OnePerLibrary, NEW l, queued' = Without(l)
  PROVE  /\ queued' \in Seq(Job) /\ OnePerLibrary'
         /\ QueuedLibs' = QueuedLibs \ {l}
         /\ queued' # <<>> => queued # <<>>
         /\ Len(queued') <= Len(queued)
<1>1. CASE l \in QueuedLibs
  <2>1. PICK i \in DOMAIN queued : queued[i].lib = l /\ queued' = DropAt(i)
    BY <1>1 DEF Without, QueuedLibs
  <2> QED
    BY <2>1, Dropped
<1>2. CASE l \notin QueuedLibs
  <2>1. queued' = queued
    BY <1>2 DEF Without
  <2> QED
    BY <1>2, <2>1 DEF OnePerLibrary, QueuedLibs
<1> QED
  BY <1>1, <1>2

\* The first job taken.
LEMMA HeadTaken ==
  ASSUME queued \in Seq(Job), OnePerLibrary, queued # <<>>, queued' = Tail(queued)
  PROVE  /\ queued' \in Seq(Job) /\ OnePerLibrary'
         /\ QueuedLibs' = QueuedLibs \ {Head(queued).lib}
         /\ Head(queued) \in Job /\ Len(queued') < Len(queued)
<1>1. /\ Len(queued) \in Nat \ {0} /\ Head(queued) = queued[1] /\ Head(queued) \in Job
      /\ queued' \in Seq(Job) /\ Len(queued') = Len(queued) - 1
      /\ \A k \in 1..(Len(queued) - 1) : queued'[k] = queued[k + 1]
  OBVIOUS
<1>2. \A k \in DOMAIN queued' : k + 1 \in DOMAIN queued /\ k + 1 # 1 /\ queued'[k] = queued[k + 1]
  BY <1>1
<1>3. \A n \in DOMAIN queued : n = 1 \/ (n - 1 \in DOMAIN queued' /\ queued'[n - 1] = queued[n])
  BY <1>1
<1>4. 1 \in DOMAIN queued
  BY <1>1
<1>5. QueuedLibs' = QueuedLibs \ {Head(queued).lib}
  BY <1>1, <1>2, <1>3, <1>4 DEF QueuedLibs, OnePerLibrary
<1>6. OnePerLibrary'
  <2> SUFFICES ASSUME NEW k \in DOMAIN queued', NEW n \in DOMAIN queued',
                      queued'[k].lib = queued'[n].lib
               PROVE  k = n
    BY DEF OnePerLibrary
  <2>1. k + 1 = n + 1
    BY <1>2 DEF OnePerLibrary
  <2>2. k \in Int /\ n \in Int
    BY <1>1
  <2> QED
    BY <2>1, <2>2
<1> QED
  BY <1>1, <1>5, <1>6

-----------------------------------------------------------------------------
(* A step that leaves alone what a part of the invariant reads preserves   *)
(* that part.                                                              *)

LEMMA Frames ==
  ASSUME IInv
  PROVE  /\ UNCHANGED queued => OnePerLibrary' /\ QueuedLibs' = QueuedLibs
         /\ UNCHANGED <<worker, running, progress, server>> => RunInv'
         /\ UNCHANGED <<deleting, exists>> => DeletedInv'
         /\ UNCHANGED <<server, row, worker, running, recorded, exists>> => RowInv'
         /\ UNCHANGED <<served, slot, last, skipped, exists, ticking>> => SlotInv'
         /\ UNCHANGED <<worker, queued, wake>> => NoLostWake'
<1>1. UNCHANGED queued => OnePerLibrary' /\ QueuedLibs' = QueuedLibs
  BY DEF IInv, OnePerLibrary, QueuedLibs
<1>2. UNCHANGED <<worker, running, progress, server>> => RunInv'
  BY DEF IInv, RunInv
<1>3. UNCHANGED <<deleting, exists>> => DeletedInv'
  BY DEF IInv, DeletedInv
<1>4. UNCHANGED <<server, row, worker, running, recorded, exists>> => RowInv'
  BY DEF IInv, RowInv
<1>5. UNCHANGED <<served, slot, last, skipped, exists, ticking>> => SlotInv'
  BY DEF IInv, SlotInv
<1>6. UNCHANGED <<worker, queued, wake>> => NoLostWake'
  BY DEF IInv, NoLostWake
<1> QED
  BY <1>1, <1>2, <1>3, <1>4, <1>5, <1>6

\* A change stays covered by what covered it.
LEMMA CoverFrame ==
  ASSUME IInv, QueuedLibs \subseteq QueuedLibs', asking \subseteq asking',
         UNCHANGED <<worker, running>>,
         \A l \in Libs : owed'[l] /\ exists'[l] /\ Up' => owed[l] /\ exists[l] /\ Up
  PROVE  CoverInv'
BY DEF IInv, CoverInv, Covered, Scanning

-----------------------------------------------------------------------------
(* Asking for a scan.                                                      *)

\* Enqueue: the library's scan waits, unless the one that runs stands in for it.
LEMMA Enqueued ==
  ASSUME IInv, NEW l \in Libs, NEW t \in Triggers, Enqueue(l, t), UNCHANGED worker
  PROVE  /\ queued' \in Seq(Job) /\ OnePerLibrary' /\ QueuedLibs \subseteq QueuedLibs'
         /\ l \in QueuedLibs' \/ (Scanning(l) /\ t \in {"schedule", "startup"})
         /\ NoLostWake'
         /\ \/ UNCHANGED <<skipped, served>>
            \/ /\ t = "schedule"
               /\ skipped' = [skipped EXCEPT ![l] = slot[l]]
               /\ served' = [served EXCEPT ![l] = slot[l]]
<1> DEFINE j == [lib |-> l, trigger |-> t]
<1>1. CASE l \in QueuedLibs
  <2>1. UNCHANGED <<queued, wake, skipped, served>>
    BY <1>1 DEF Enqueue
  <2> QED
    BY <1>1, <2>1, Frames DEF IInv, Shapes
<1>2. CASE l \notin QueuedLibs /\ Folds(l, t)
  <2>1. UNCHANGED <<queued, wake>>
    BY <1>2 DEF Enqueue
  <2>2. \/ UNCHANGED <<skipped, served>>
        \/ /\ t = "schedule"
           /\ skipped' = [skipped EXCEPT ![l] = slot[l]]
           /\ served' = [served EXCEPT ![l] = slot[l]]
    BY <1>2 DEF Enqueue
  <2>3. Scanning(l) /\ t \in {"schedule", "startup"}
    BY <1>2 DEF Folds, Scanning
  <2> QED
    BY <2>1, <2>2, <2>3, Frames DEF IInv, Shapes
<1>3. CASE l \notin QueuedLibs /\ ~Folds(l, t)
  <2>1. queued' = Append(queued, j) /\ wake' = 1 /\ UNCHANGED <<skipped, served>>
    BY <1>3 DEF Enqueue, Woken
  <2>2. j \in Job /\ j.lib = l
    BY DEF Job
  <2>3. /\ queued' \in Seq(Job) /\ OnePerLibrary'
        /\ QueuedLibs' = QueuedLibs \cup {l}
    BY <1>3, <2>1, <2>2, Appended DEF IInv, Shapes
  <2> QED
    BY <2>1, <2>3 DEF NoLostWake
<1> QED
  BY <1>1, <1>2, <1>3

LEMMA StepAskScan ==
  ASSUME IInv, NEW l \in Libs, AskScan(l)
  PROVE  IInv'
<1> USE DEF AskScan, catalogVars, queueVars, workVars, timeVars
<1>1. Shapes'
  BY DEF IInv, Shapes, Triggers
<1>2. CoverInv'
  BY Frames, CoverFrame DEF Up
<1> QED
  BY <1>1, <1>2, Frames DEF IInv

LEMMA StepSaveChange ==
  ASSUME IInv, NEW l \in Libs, SaveChange(l)
  PROVE  IInv'
<1> USE DEF SaveChange, catalogVars, queueVars, workVars, timeVars
<1>1. Shapes'
  BY DEF IInv, Shapes, Triggers
<1>2. CoverInv'
  <2> SUFFICES ASSUME NEW k \in Libs, owed'[k], exists[k], Up PROVE Covered(k)'
    BY DEF CoverInv, Up
  <2>1. CASE k = l
    <3>1. /\ [lib |-> l, trigger |-> "change"] \in asking'
          /\ [lib |-> l, trigger |-> "change"].lib = k
          /\ [lib |-> l, trigger |-> "change"].trigger = "change"
      BY <2>1
    <3> QED
      BY <3>1 DEF Covered
  <2>2. CASE k # l
    <3>1. Covered(k)
      BY <2>2 DEF IInv, Shapes, CoverInv
    <3> QED
      BY <3>1, Frames DEF Covered, Scanning
  <2> QED
    BY <2>1, <2>2
<1> QED
  BY <1>1, <1>2, Frames DEF IInv

\* Whoever queued a library's scan covered its change, and the scan now does.
LEMMA StepStartScan ==
  ASSUME IInv, NEW a \in asking, StartScan(a)
  PROVE  IInv'
<1> USE DEF StartScan, catalogVars, workVars, timeVars
<1>1. a.lib \in Libs /\ a.trigger \in Triggers /\ a.trigger # "schedule"
  BY DEF IInv, Shapes
<1>2. /\ queued' \in Seq(Job) /\ OnePerLibrary' /\ QueuedLibs \subseteq QueuedLibs'
      /\ a.lib \in QueuedLibs' \/ (Scanning(a.lib) /\ a.trigger = "startup")
      /\ NoLostWake' /\ UNCHANGED <<skipped, served>>
  BY <1>1, Enqueued
<1>3. Shapes'
  BY <1>2 DEF IInv, Shapes
<1>4. CoverInv'
  <2> SUFFICES ASSUME NEW k \in Libs, owed[k], exists[k], Up PROVE Covered(k)'
    BY DEF CoverInv, Up
  <2>1. Covered(k)
    BY DEF IInv, CoverInv
  <2>2. CASE k \in QueuedLibs \/ (worker = "load" /\ running.lib = k)
    BY <1>2, <2>2 DEF Covered
  <2>3. CASE \E b \in asking : b.lib = k /\ (b.trigger \in {"manual", "change"} \/ ~Scanning(k))
    <3>1. PICK b \in asking : b.lib = k /\ (b.trigger \in {"manual", "change"} \/ ~Scanning(k))
      BY <2>3
    <3>2. CASE b # a
      BY <3>1, <3>2 DEF Covered, Scanning
    <3>3. CASE b = a
      BY <1>2, <3>1, <3>3 DEF Covered
    <3> QED
      BY <3>2, <3>3
  <2> QED
    BY <2>1, <2>2, <2>3 DEF Covered
<1> QED
  BY <1>2, <1>3, <1>4, Frames DEF IInv

-----------------------------------------------------------------------------
(* Dropping a scan.                                                        *)

LEMMA StepCancelQueued ==
  ASSUME IInv, NEW i \in DOMAIN queued, CancelQueued(i)
  PROVE  IInv'
<1> DEFINE j == queued[i]
<1> USE DEF CancelQueued, catalogVars, workVars, callVars, timeVars
<1>1. j \in Job /\ j.lib \in Libs
  <2>1. j \in Job
    BY DEF IInv, Shapes
  <2> QED
    BY <2>1 DEF Job
<1>2. /\ queued' \in Seq(Job) /\ OnePerLibrary'
      /\ QueuedLibs' = QueuedLibs \ {j.lib} /\ queued # <<>>
  BY Dropped DEF IInv, Shapes
<1>3. /\ owed' = [owed EXCEPT ![j.lib] = FALSE]
      /\ skipped' = IF j.trigger = "schedule" THEN [skipped EXCEPT ![j.lib] = slot[j.lib]] ELSE skipped
      /\ served' = IF j.trigger = "schedule" /\ j.lib \notin ticking
                   THEN [served EXCEPT ![j.lib] = slot[j.lib]] ELSE served
  BY DEF SkipDropped
<1> HIDE DEF j
<1>4. Shapes'
  BY <1>1, <1>2, <1>3 DEF IInv, Shapes
<1>5. CoverInv'
  <2> SUFFICES ASSUME NEW k \in Libs, owed'[k], exists[k], Up PROVE Covered(k)'
    BY DEF CoverInv, Up
  <2>1. k # j.lib /\ owed[k]
    BY <1>1, <1>3 DEF IInv, Shapes
  <2>2. Covered(k)
    BY <2>1 DEF IInv, CoverInv
  <2> QED
    BY <1>2, <2>1, <2>2 DEF Covered, Scanning
<1>6. SlotInv'
  BY <1>1, <1>3 DEF IInv, Shapes, SlotInv
<1>7. NoLostWake'
  BY <1>2 DEF IInv, NoLostWake
<1> QED
  BY <1>2, <1>4, <1>5, <1>6, <1>7, Frames DEF IInv

LEMMA StepCancelRunning ==
  ASSUME IInv, CancelRunning
  PROVE  IInv'
<1> USE DEF CancelRunning, catalogVars, queueVars, callVars, timeVars
<1>1. Shapes'
  BY DEF IInv, Shapes
<1>2. CoverInv'
  BY Frames, CoverFrame DEF Up
<1> QED
  BY <1>1, <1>2, Frames DEF IInv

LEMMA StepDeleteLibrary ==
  ASSUME IInv, NEW l \in Libs, DeleteLibrary(l)
  PROVE  IInv'
<1> USE DEF DeleteLibrary, queueVars, workVars, timeVars
<1>1. Shapes'
  BY DEF IInv, Shapes
<1>2. DeletedInv'
  BY DEF IInv, Shapes, DeletedInv
<1>3. CoverInv'
  <2>1. \A k \in Libs : exists'[k] => exists[k]
    BY DEF IInv, Shapes
  <2> QED
    BY <2>1, Frames, CoverFrame DEF Up
<1>4. RowInv'
  BY DEF IInv, Shapes, RowInv
<1>5. SlotInv'
  BY DEF IInv, Shapes, SlotInv
<1> QED
  BY <1>1, <1>2, <1>3, <1>4, <1>5, Frames DEF IInv

LEMMA StepCancelLibrary ==
  ASSUME IInv, NEW l \in deleting, CancelLibrary(l)
  PROVE  IInv'
<1> USE DEF CancelLibrary, catalogVars, timeVars
<1>1. l \in Libs /\ ~exists[l]
  BY DEF IInv, Shapes, DeletedInv
<1>2. /\ queued' \in Seq(Job) /\ OnePerLibrary'
      /\ QueuedLibs' = QueuedLibs \ {l}
      /\ queued' # <<>> => queued # <<>>
  BY WithoutOne DEF IInv, Shapes
<1>3. Shapes'
  BY <1>2 DEF IInv, Shapes
<1>4. DeletedInv'
  BY DEF IInv, DeletedInv
<1>5. CoverInv'
  <2> SUFFICES ASSUME NEW k \in Libs, owed[k], exists[k], Up PROVE Covered(k)'
    BY DEF CoverInv, Up
  <2>1. Covered(k) /\ k # l
    BY <1>1 DEF IInv, CoverInv
  <2> QED
    BY <1>2, <2>1 DEF Covered, Scanning
<1>6. SlotInv'
  BY <1>1 DEF IInv, Shapes, SlotInv
<1>7. NoLostWake'
  BY <1>2 DEF IInv, NoLostWake
<1> QED
  BY <1>2, <1>3, <1>4, <1>5, <1>6, <1>7, Frames DEF IInv

-----------------------------------------------------------------------------
(* The schedule.                                                           *)

LEMMA StepSlotComes ==
  ASSUME IInv, NEW l \in Libs, SlotComes(l)
  PROVE  IInv'
<1> USE DEF SlotComes, catalogVars, queueVars, workVars, callVars
<1>1. Shapes'
  BY DEF IInv, Shapes
<1>2. CoverInv'
  BY Frames, CoverFrame DEF Up
<1>3. SlotInv'
  BY DEF IInv, Shapes, SlotInv
<1> QED
  BY <1>1, <1>2, <1>3, Frames DEF IInv

\* A slot that is due was not served.
LEMMA DueNotServed ==
  ASSUME IInv, NEW l \in Libs, exists[l], Due(l)
  PROVE  served[l] < slot[l]
<1>1. /\ served[l] \in Nat /\ slot[l] \in Nat /\ last[l] \in Nat
      /\ skipped[l] \in Nat /\ anchor[l] \in Nat
  BY DEF IInv, Shapes
<1>2. slot[l] > last[l] /\ slot[l] > skipped[l]
  BY <1>1 DEF Due
<1>3. served[l] <= last[l] \/ served[l] <= skipped[l]
  BY DEF IInv, SlotInv
<1> QED
  BY <1>1, <1>2, <1>3

LEMMA StepTick ==
  ASSUME IInv, Tick
  PROVE  IInv'
<1> USE DEF Tick, catalogVars, queueVars, workVars, timeVars
<1>1. Shapes'
  BY DEF IInv, Shapes
<1>2. CoverInv'
  BY Frames, CoverFrame DEF Up
<1>3. SlotInv'
  BY DueNotServed DEF IInv, SlotInv
<1> QED
  BY <1>1, <1>2, <1>3, Frames DEF IInv

LEMMA StepQueueDue ==
  ASSUME IInv, NEW l \in ticking, QueueDue(l)
  PROVE  IInv'
<1> USE DEF QueueDue, catalogVars, workVars, timeVars
<1>1. l \in Libs /\ "schedule" \in Triggers
  BY DEF IInv, Shapes, Triggers
<1>2. /\ queued' \in Seq(Job) /\ OnePerLibrary' /\ QueuedLibs \subseteq QueuedLibs'
      /\ NoLostWake'
      /\ \/ UNCHANGED <<skipped, served>>
         \/ /\ skipped' = [skipped EXCEPT ![l] = slot[l]]
            /\ served' = [served EXCEPT ![l] = slot[l]]
  BY <1>1, Enqueued
<1>3. Shapes'
  BY <1>1, <1>2 DEF IInv, Shapes
<1>4. CoverInv'
  BY <1>2, CoverFrame DEF Up
<1>5. SlotInv'
  BY <1>1, <1>2 DEF IInv, Shapes, SlotInv
<1> QED
  BY <1>2, <1>3, <1>4, <1>5, Frames DEF IInv

-----------------------------------------------------------------------------
(* The worker.                                                             *)

\* Where the worker is at no job, none runs.
LEMMA RunningJob ==
  ASSUME IInv, worker \in RunStates
  PROVE  running \in Job /\ running # NoJob /\ running.lib \in Libs
<1>1. running \in Job
  BY DEF IInv, RunInv
<1> QED
  BY <1>1, NoJobIsNone DEF Job

LEMMA StepWaitForWake ==
  ASSUME IInv, WaitForWake
  PROVE  IInv'
<1> USE DEF WaitForWake, catalogVars, queueVars, callVars, timeVars
<1>1. Shapes'
  BY DEF IInv, Shapes, IdleStates
<1>2. RunInv'
  BY DEF IInv, RunInv, IdleStates, RunStates, Ended
<1>3. CoverInv'
  BY DEF IInv, CoverInv, Covered, Scanning, QueuedLibs, Up
<1>4. RowInv'
  BY DEF IInv, RowInv, Ended
<1>5. NoLostWake'
  BY DEF NoLostWake
<1> QED
  BY <1>1, <1>2, <1>3, <1>4, <1>5, Frames DEF IInv

LEMMA StepWake ==
  ASSUME IInv, Wake
  PROVE  IInv'
<1> USE DEF Wake, catalogVars, callVars, timeVars
<1>1. Shapes'
  BY DEF IInv, Shapes, IdleStates
<1>2. RunInv'
  BY DEF IInv, RunInv, IdleStates, RunStates, Ended
<1>3. CoverInv'
  BY DEF IInv, CoverInv, Covered, Scanning, QueuedLibs, Up
<1>4. RowInv'
  BY DEF IInv, RowInv, Ended
<1>5. NoLostWake'
  BY DEF NoLostWake
<1> QED
  BY <1>1, <1>2, <1>3, <1>4, <1>5, Frames DEF IInv

LEMMA StepWorkEnds ==
  ASSUME IInv, WorkEnds
  PROVE  IInv'
<1> USE DEF WorkEnds, catalogVars, queueVars, callVars, timeVars
<1>1. Shapes'
  BY DEF IInv, Shapes, IdleStates
<1>2. RunInv'
  BY DEF IInv, RunInv, IdleStates, RunStates, Ended
<1>3. CoverInv'
  BY DEF CoverInv, Up
<1>4. RowInv'
  BY DEF IInv, RowInv, Ended
<1>5. NoLostWake'
  BY DEF NoLostWake
<1> QED
  BY <1>1, <1>2, <1>3, <1>4, <1>5, Frames DEF IInv

\* The job leaves the queue and covers its library's change as it runs.
LEMMA StepTakeJob ==
  ASSUME IInv, TakeJob
  PROVE  IInv'
<1> DEFINE j == Head(queued)
<1> USE DEF TakeJob, catalogVars, callVars, timeVars
<1>1. /\ queued' \in Seq(Job) /\ OnePerLibrary'
      /\ QueuedLibs' = QueuedLibs \ {j.lib} /\ j \in Job
  BY HeadTaken DEF IInv, Shapes
<1>2. running' = j /\ progress' = [progress EXCEPT ![j.lib] = TRUE]
  OBVIOUS
<1>3. j.lib \in Libs
  BY <1>1 DEF Job
<1> HIDE DEF j
<1>4. Shapes'
  BY <1>1, <1>2, <1>3 DEF IInv, Shapes, RunStates
<1>5. RunInv'
  BY <1>1, <1>2, <1>3 DEF IInv, Shapes, RunInv, IdleStates, RunStates, Ended
<1>6. running = NoJob
  BY DEF IInv, RunInv, IdleStates
<1>7. CoverInv'
  <2> SUFFICES ASSUME NEW k \in Libs, owed[k], exists[k], Up PROVE Covered(k)'
    BY DEF CoverInv, Up
  <2>1. Covered(k)
    BY DEF IInv, CoverInv
  <2>2. CASE k = j.lib
    BY <1>2, <2>2 DEF Covered
  <2>3. CASE k # j.lib
    BY <1>1, <1>2, <2>1, <2>3 DEF Covered, Scanning
  <2> QED
    BY <2>2, <2>3
<1>8. RowInv'
  BY DEF IInv, RowInv, Ended
<1>9. NoLostWake'
  BY DEF NoLostWake
<1> QED
  BY <1>1, <1>4, <1>5, <1>7, <1>8, <1>9, Frames DEF IInv

\* The scan reads the library, its change included.
LEMMA StepLoadLibrary ==
  ASSUME IInv, LoadLibrary
  PROVE  IInv'
<1> USE DEF LoadLibrary, catalogVars, callVars, timeVars
<1>1. worker \in RunStates /\ worker' \in {"record", "clear"}
  BY DEF RunStates
<1>2. running \in Job /\ running # NoJob /\ running.lib \in Libs
  BY <1>1, RunningJob
<1>3. worker' \in RunStates
  BY <1>1 DEF RunStates
<1>4. Shapes'
  BY <1>2, <1>3 DEF IInv, Shapes
<1>5. RunInv'
  BY <1>1, <1>2 DEF IInv, Shapes, RunInv, IdleStates, RunStates, Ended
<1>6. CoverInv'
  <2> SUFFICES ASSUME NEW k \in Libs, owed'[k], exists[k], Up PROVE Covered(k)'
    BY DEF CoverInv, Up
  <2>1. owed[k] /\ k # running.lib
    BY <1>2 DEF IInv, Shapes, Up
  <2>2. Covered(k)
    BY <2>1 DEF IInv, CoverInv
  <2> QED
    BY <2>1, <2>2, Frames DEF Covered, Scanning
<1>7. RowInv'
  BY DEF IInv, RowInv, Ended
<1>8. NoLostWake'
  BY <1>1 DEF NoLostWake
<1> QED
  BY <1>4, <1>5, <1>6, <1>7, <1>8, Frames DEF IInv

\* The row is opened for the library that the worker is at.
LEMMA StepStartScanRun ==
  ASSUME IInv, StartScanRun
  PROVE  IInv'
<1> DEFINE l == running.lib
<1> USE DEF StartScanRun, queueVars, callVars, timeVars
<1>1. worker \in RunStates /\ worker' \in RunStates
  BY DEF RunStates
<1>2. running \in Job /\ running # NoJob /\ l \in Libs
  BY <1>1, RunningJob
<1>3. \/ /\ exists[l] /\ recorded' = TRUE
         /\ row' = [row EXCEPT ![l] = "running"]
         /\ last' = [last EXCEPT ![l] = slot[l]]
         /\ served' = IF l \notin ticking THEN [served EXCEPT ![l] = slot[l]] ELSE served
      \/ UNCHANGED <<row, last, recorded, served>>
  OBVIOUS
<1> HIDE DEF l
<1>4. Shapes'
  BY <1>1, <1>2, <1>3 DEF IInv, Shapes
<1>5. RunInv'
  BY <1>1 DEF IInv, RunInv, IdleStates, RunStates, Ended
<1>6. CoverInv'
  <2> SUFFICES ASSUME NEW k \in Libs, owed[k], exists[k], Up PROVE Covered(k)'
    BY DEF CoverInv, Up
  <2>1. Covered(k)
    BY DEF IInv, CoverInv
  <2> QED
    BY <2>1, Frames DEF Covered, Scanning
<1>7. RowInv'
  <2> SUFFICES ASSUME NEW k \in Libs, server # "down", row'[k] = "running"
               PROVE  running.lib = k /\ recorded' /\ exists[k]
    BY DEF RowInv
  <2>1. row[k] # "running"
    BY DEF IInv, RowInv, Ended
  <2> QED
    BY <1>2, <1>3, <2>1 DEF IInv, Shapes, l
<1>8. SlotInv'
  BY <1>2, <1>3 DEF IInv, Shapes, SlotInv
<1>9. NoLostWake'
  BY DEF NoLostWake
<1> QED
  BY <1>4, <1>5, <1>6, <1>7, <1>8, <1>9, Frames DEF IInv

LEMMA StepScanEnds ==
  ASSUME IInv, ScanEnds
  PROVE  IInv'
<1> USE DEF ScanEnds, catalogVars, callVars, timeVars
<1>1. worker \in RunStates /\ worker' \in Ended
  BY DEF RunStates, runStatus, Ended
<1>2. running \in Job /\ running # NoJob /\ running.lib \in Libs
  BY <1>1, RunningJob
<1>3. progress' = [progress EXCEPT ![running.lib] = TRUE]
  BY <1>2 DEF RunningAfterScan
<1>4. worker' \in RunStates /\ worker' \notin IdleStates /\ worker' \notin {"load", "select"}
  BY <1>1 DEF RunStates, IdleStates, Ended
<1>5. Shapes'
  BY <1>2, <1>3, <1>4 DEF IInv, Shapes
<1>6. RunInv'
  BY <1>2, <1>3, <1>4 DEF IInv, Shapes, RunInv
<1>7. CoverInv'
  <2> SUFFICES ASSUME NEW k \in Libs, owed[k], exists[k], Up PROVE Covered(k)'
    BY DEF CoverInv, Up
  <2>1. Covered(k)
    BY DEF IInv, CoverInv
  <2> QED
    BY <2>1, Frames DEF Covered, Scanning
<1>8. RowInv'
  BY <1>1 DEF IInv, RowInv
<1>9. NoLostWake'
  BY <1>4 DEF NoLostWake
<1> QED
  BY <1>5, <1>6, <1>7, <1>8, <1>9, Frames DEF IInv

\* The row is closed before the library stops reading as running.
LEMMA StepFinishScanRun ==
  ASSUME IInv, FinishScanRun
  PROVE  IInv'
<1> USE DEF FinishScanRun, queueVars, callVars, timeVars
<1>1. worker \in RunStates /\ worker' \in RunStates /\ worker \notin {"load", "none"}
  BY DEF RunStates, Ended
<1>2. running \in Job /\ running # NoJob /\ running.lib \in Libs
  BY <1>1, RunningJob
<1>3. worker \in {"none", "running"} \cup Ended /\ worker # "running"
  BY DEF Ended
<1>4. Shapes'
  BY <1>1, <1>2, <1>3 DEF IInv, Shapes
<1>5. RunInv'
  BY <1>1, <1>2 DEF IInv, RunInv, IdleStates
<1>6. CoverInv'
  <2> SUFFICES ASSUME NEW k \in Libs, owed[k], exists[k], Up PROVE Covered(k)'
    BY DEF CoverInv, Up
  <2>1. Covered(k)
    BY DEF IInv, CoverInv
  <2> QED
    BY <1>1, <2>1, Frames DEF Covered, Scanning
<1>7. RowInv'
  <2> SUFFICES ASSUME NEW k \in Libs, server # "down", row'[k] = "running" PROVE FALSE
    BY DEF RowInv
  <2>1. CASE row[k] = "running"
    <3>1. running.lib = k /\ recorded /\ exists[k]
      BY <2>1 DEF IInv, RowInv
    <3> QED
      BY <1>3, <3>1 DEF IInv, Shapes
  <2>2. CASE row[k] # "running"
    BY <1>3, <2>2 DEF IInv, Shapes
  <2> QED
    BY <2>1, <2>2
<1>8. NoLostWake'
  BY DEF NoLostWake
<1> QED
  BY <1>4, <1>5, <1>6, <1>7, <1>8, Frames DEF IInv

LEMMA StepClearRunning ==
  ASSUME IInv, ClearRunning
  PROVE  IInv'
<1> USE DEF ClearRunning, catalogVars, callVars, timeVars
<1>1. Shapes'
  <2>1. worker' \in RunStates \cup IdleStates
    BY DEF IdleStates
  <2>2. progress' \in [Libs -> BOOLEAN]
    BY DEF IInv, Shapes
  <2> QED
    BY <2>1, <2>2 DEF IInv, Shapes
<1>2. RunInv'
  BY DEF IInv, RunInv, IdleStates, RunStates, Ended
<1>3. CoverInv'
  <2> SUFFICES ASSUME NEW k \in Libs, owed[k], exists[k], Up PROVE Covered(k)'
    BY DEF CoverInv, Up
  <2>1. Covered(k)
    BY DEF IInv, CoverInv
  <2> QED
    BY <2>1, Frames DEF Covered, Scanning
<1>4. RowInv'
  BY DEF IInv, RowInv, Ended
<1>5. NoLostWake'
  BY DEF NoLostWake
<1> QED
  BY <1>1, <1>2, <1>3, <1>4, <1>5, Frames DEF IInv

-----------------------------------------------------------------------------
(* The process.                                                            *)

LEMMA StepStopServer ==
  ASSUME IInv, StopServer
  PROVE  IInv'
<1> USE DEF StopServer, catalogVars, queueVars, workVars, callVars
<1>1. Shapes'
  BY DEF IInv, Shapes
<1>2. RunInv'
  BY DEF IInv, RunInv
<1>3. CoverInv'
  BY DEF CoverInv, Up
<1>4. RowInv'
  BY DEF IInv, RowInv, Up
<1> QED
  BY <1>1, <1>2, <1>3, <1>4, Frames DEF IInv

LEMMA StepExit ==
  ASSUME IInv, Exit
  PROVE  IInv'
<1> USE DEF Exit, catalogVars
<1>1. Shapes'
  BY DEF IInv, Shapes, IdleStates
<1>2. OnePerLibrary' /\ DeletedInv' /\ CoverInv' /\ RowInv' /\ NoLostWake'
  BY DEF OnePerLibrary, DeletedInv, CoverInv, Up, RowInv, NoLostWake
<1>3. RunInv'
  BY DEF RunInv, IdleStates, RunStates, Ended
<1>4. SlotInv'
  BY DEF IInv, Shapes, SlotInv
<1> QED
  BY <1>1, <1>2, <1>3, <1>4 DEF IInv

\* Every library is asked for, and no scan runs that could stand in for one.
LEMMA StepStart ==
  ASSUME IInv, Start
  PROVE  IInv'
<1> USE DEF Start, queueVars
<1>1. worker = "none" /\ running = NoJob
  BY DEF IInv, RunInv, IdleStates
<1>2. Shapes'
  <2>1. row' \in [Libs -> {"none", "running"} \cup Ended]
    BY DEF IInv, Shapes, Interrupted, Ended
  <2>2. worker' \in RunStates \cup IdleStates
    BY DEF IdleStates
  <2>3. asking' \subseteq [lib : Libs, trigger : Triggers \ {"schedule"}]
    BY DEF Triggers
  <2> QED
    BY <2>1, <2>2, <2>3 DEF IInv, Shapes
<1>3. RunInv'
  BY <1>1 DEF RunInv, IdleStates, RunStates, Ended
<1>4. CoverInv'
  <2> SUFFICES ASSUME NEW k \in Libs, exists[k] PROVE Covered(k)'
    BY DEF CoverInv
  <2>1. /\ [lib |-> k, trigger |-> "startup"] \in asking'
        /\ [lib |-> k, trigger |-> "startup"].lib = k
    OBVIOUS
  <2>2. ~Scanning(k)'
    BY <1>1 DEF Scanning
  <2> QED
    BY <2>1, <2>2 DEF Covered
<1>5. RowInv'
  BY DEF RowInv, Interrupted
<1>6. NoLostWake'
  BY DEF NoLostWake
<1> QED
  BY <1>2, <1>3, <1>4, <1>5, <1>6, Frames DEF IInv

-----------------------------------------------------------------------------
(* The theorems.                                                           *)

LEMMA Stutters ==
  ASSUME IInv, UNCHANGED vars
  PROVE  IInv'
<1> USE DEF vars, catalogVars, queueVars, workVars, callVars, timeVars
<1>1. Shapes'
  BY DEF IInv, Shapes
<1>2. CoverInv'
  BY Frames, CoverFrame DEF Up
<1> QED
  BY <1>1, <1>2, Frames DEF IInv

\* The invariant holds in every state of the queue, its worker, its callers and
\* the rows they leave (jobs.go, scanruns.go).
THEOREM Inductive == Spec => []IInv
<1>1. IInv /\ [Next]_vars => IInv'
  <2> SUFFICES ASSUME IInv, [Next]_vars PROVE IInv'
    OBVIOUS
  <2>1. CASE \E l \in Libs : AskScan(l) \/ SaveChange(l) \/ DeleteLibrary(l) \/ SlotComes(l)
    BY <2>1, StepAskScan, StepSaveChange, StepDeleteLibrary, StepSlotComes
  <2>2. CASE \/ \E a \in asking : StartScan(a)
             \/ \E i \in DOMAIN queued : CancelQueued(i)
             \/ \E l \in deleting : CancelLibrary(l)
             \/ \E l \in ticking : QueueDue(l)
    BY <2>2, StepStartScan, StepCancelQueued, StepCancelLibrary, StepQueueDue
  <2>3. CASE CancelRunning \/ Tick \/ WaitForWake \/ Wake \/ WorkEnds \/ TakeJob
    BY <2>3, StepCancelRunning, StepTick, StepWaitForWake, StepWake, StepWorkEnds, StepTakeJob
  <2>4. CASE LoadLibrary \/ StartScanRun \/ ScanEnds \/ FinishScanRun \/ ClearRunning
    BY <2>4, StepLoadLibrary, StepStartScanRun, StepScanEnds, StepFinishScanRun, StepClearRunning
  <2>5. CASE StopServer \/ Exit \/ Start
    BY <2>5, StepStopServer, StepExit, StepStart
  <2>6. CASE UNCHANGED vars
    BY <2>6, Stutters
  <2> QED
    BY <2>1, <2>2, <2>3, <2>4, <2>5, <2>6 DEF Next
<1> QED
  BY <1>1, InitInv, PTL DEF Spec

\* No job waits beside a worker that nothing will wake, whatever is queued between
\* the worker's look at the queue and its wait (work, Enqueue).
THEOREM NeverLosesWake == Spec => []NoLostWake
<1>1. IInv => NoLostWake
  BY DEF IInv
<1> QED
  BY <1>1, Inductive, PTL

\* A library waits at most once in the queue (Enqueue's coalescing), however many
\* callers ask for it.
THEOREM QueuedOnce == Spec => []OnePerLibrary
<1>1. IInv => OnePerLibrary
  BY DEF IInv
<1> QED
  BY <1>1, Inductive, PTL

\* A settings change is never left behind by a scan that had read the library
\* before it, or by a crash (Enqueue, the startup scans).
THEOREM ChangesGetScanned == Spec => []ChangeGetsScanned
<1>1. IInv => ChangeGetsScanned
  BY DEF IInv, CoverInv, Covered, ChangeGetsScanned
<1> QED
  BY <1>1, Inductive, PTL

\* A library that reads as idle has no open row, across crashes (run's order,
\* InterruptScanRuns).
THEOREM IdleIsRecorded == Spec => []IdleMeansRecorded
<1>1. IInv => IdleMeansRecorded
  <2> SUFFICES ASSUME IInv, NEW l \in Libs, server # "down", row[l] = "running" PROVE progress[l]
    BY DEF IdleMeansRecorded
  <2>1. worker \in {"scan"} \cup Ended /\ running.lib = l
    BY DEF IInv, RowInv
  <2>2. worker \in RunStates \ {"clear"}
    BY <2>1 DEF RunStates, Ended
  <2> QED
    BY <2>1, <2>2 DEF IInv, RunInv
<1> QED
  BY <1>1, Inductive, PTL

-----------------------------------------------------------------------------
(* Which steps lengthen the queue.                                         *)

\* Only an Enqueue does, by the job that it was asked for.
LEMMA OnlyEnqueueGrows ==
  ASSUME IInv, [Next]_vars, Len(queued') > Len(queued)
  PROVE  \/ \E a \in asking : StartScan(a)
         \/ \E l \in ticking : QueueDue(l)
<1> SUFFICES ASSUME ~\E a \in asking : StartScan(a), ~\E l \in ticking : QueueDue(l)
             PROVE  FALSE
  OBVIOUS
<1>1. Len(queued) \in Nat
  BY DEF IInv, Shapes
<1>2. queued' # queued
  BY <1>1
<1>3. CASE \E i \in DOMAIN queued : CancelQueued(i)
  <2>1. Len(queued') < Len(queued)
    BY <1>3, Dropped DEF CancelQueued, IInv, Shapes
  <2> QED
    BY <1>1, <2>1
<1>4. CASE \E l \in deleting : CancelLibrary(l)
  <2>1. queued' \in Seq(Job) /\ Len(queued') <= Len(queued)
    BY <1>4, WithoutOne DEF CancelLibrary, IInv, Shapes
  <2> QED
    BY <1>1, <2>1
<1>5. CASE TakeJob
  <2>1. Len(queued') < Len(queued)
    BY <1>5, HeadTaken DEF TakeJob, IInv, Shapes
  <2> QED
    BY <1>1, <2>1
<1>6. CASE Exit
  BY <1>1, <1>6 DEF Exit
<1>7. CASE \/ \E l \in Libs : AskScan(l) \/ SaveChange(l) \/ DeleteLibrary(l) \/ SlotComes(l)
           \/ CancelRunning \/ Tick \/ UNCHANGED vars
  BY <1>2, <1>7 DEF AskScan, SaveChange, DeleteLibrary, SlotComes, CancelRunning, Tick,
                    queueVars, vars
<1>8. CASE \/ WaitForWake \/ Wake \/ WorkEnds \/ LoadLibrary \/ StartScanRun
           \/ ScanEnds \/ FinishScanRun \/ ClearRunning \/ StopServer \/ Start
  BY <1>2, <1>8 DEF WaitForWake, Wake, WorkEnds, LoadLibrary, StartScanRun, ScanEnds,
                    FinishScanRun, ClearRunning, StopServer, Start, queueVars
<1> QED
  BY <1>3, <1>4, <1>5, <1>6, <1>7, <1>8 DEF Next

\* The job that Enqueue adds is the one it was asked for.
LEMMA GrowsByAsked ==
  ASSUME IInv, NEW l \in Libs, NEW t \in Triggers, Enqueue(l, t), Len(queued') > Len(queued)
  PROVE  queued'[Len(queued')].lib = l /\ queued'[Len(queued')].trigger = t
<1> DEFINE j == [lib |-> l, trigger |-> t]
<1>1. queued \in Seq(Job) /\ Len(queued) \in Nat
  BY DEF IInv, Shapes
<1>2. queued' = Append(queued, j)
  BY <1>1 DEF Enqueue
<1>3. j \in Job /\ j.lib = l /\ j.trigger = t
  BY DEF Job
<1> HIDE DEF j
<1>4. queued'[Len(queued')] = j
  BY <1>1, <1>2, <1>3
<1> QED
  BY <1>3, <1>4

\* A slot of the schedule that was scanned, dropped or folded into a scan is not
\* queued again (NextScans, jobQueue.skipped), over crashes and deletions too.
THEOREM SlotsQueuedOnce == Spec => SlotOnce
<1> DEFINE Once == \A l \in Libs :
          (Len(queued') > Len(queued) /\ queued'[Len(queued')] = [lib |-> l, trigger |-> "schedule"])
              => served[l] < slot[l]
<1>1. IInv /\ [Next]_vars => Once
  <2> SUFFICES ASSUME IInv, [Next]_vars, NEW l \in Libs, Len(queued') > Len(queued),
                      queued'[Len(queued')] = [lib |-> l, trigger |-> "schedule"]
               PROVE  served[l] < slot[l]
    OBVIOUS
  <2>1. queued'[Len(queued')].lib = l /\ queued'[Len(queued')].trigger = "schedule"
    OBVIOUS
  <2>2. CASE \E a \in asking : StartScan(a)
    <3>1. PICK a \in asking : StartScan(a)
      BY <2>2
    <3>2. a.lib \in Libs /\ a.trigger \in Triggers /\ a.trigger # "schedule"
      BY DEF IInv, Shapes
    <3> QED
      BY <2>1, <3>1, <3>2, GrowsByAsked DEF StartScan
  <2>3. CASE \E k \in ticking : QueueDue(k)
    <3>1. PICK k \in ticking : QueueDue(k)
      BY <2>3
    <3>2. k \in Libs /\ "schedule" \in Triggers
      BY DEF IInv, Shapes, Triggers
    <3>3. k = l
      BY <2>1, <3>1, <3>2, GrowsByAsked DEF QueueDue
    <3> QED
      BY <3>3 DEF IInv, SlotInv
  <2> QED
    BY <2>2, <2>3, OnlyEnqueueGrows
<1>2. IInv /\ [Next]_vars => [Once]_vars
  BY <1>1
<1> QED
  BY <1>2, Inductive, PTL DEF Spec, SlotOnce

=============================================================================
