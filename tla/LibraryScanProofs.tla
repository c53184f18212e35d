-------------------------- MODULE LibraryScanProofs --------------------------
(* Proofs about LibraryScan, for any number of paths, books, requests,      *)
(* changes, faults and scans, and whatever the surroundings do (any Wild).  *)
(* IndexMatchesDisk is not inductive: it rests on what a scan over          *)
(* untouched files has seen, read and written at each stage, and on what    *)
(* the requests beside it are about to write.                               *)
EXTENDS LibraryScan, FiniteSetTheorems, TLAPS

Fingerprints == Books \union {None, Unread}
Stages == {"idle", "walk", "moves", "index", "prune", "delete"}

Scan == [pc : Stages, sigs : [Paths -> Fingerprints], walk : [Paths -> Fingerprints],
         todo : SUBSET Paths, partial : BOOLEAN, left : SUBSET Paths,
         read : [Paths -> Fingerprints]]

Steps == {"idle", "find", "look", "carry", "check", "compare", "move", "read", "index", "drop"}

Req == [pc : Steps, path : Paths \union {None}, rows : SUBSET Paths,
        from : Paths \union {None}, old : Fingerprints, book : Fingerprints,
        shared : BOOLEAN, moved : BOOLEAN]

Shapes ==
    /\ disk \in [Paths -> Books \union {None}] /\ index \in [Paths -> Fingerprints]
    /\ faulty \subseteq Paths /\ gone \subseteq Paths /\ hidden \subseteq Paths
    /\ scan \in Scan /\ req \in [Requests -> Req]
    /\ quiet \in BOOLEAN /\ settled \in BOOLEAN

Visited(p) == scan.pc # "idle" /\ (scan.pc = "walk" => p \notin scan.todo)

\* A path that is empty, or that the walk took for empty, was without a book in
\* this scan, unless its folder could not be read; then nothing is pruned.
WalkInv ==
    /\ scan.pc # "idle" => faulty \subseteq hidden /\ \A p \in Paths : disk[p] = None => p \in gone
    /\ \A p \in Paths : Visited(p) /\ scan.walk[p] = None =>
          p \in gone \/ (scan.partial /\ p \in hidden)
    /\ scan.pc \in {"prune", "delete"} => ~scan.partial
    /\ scan.pc = "delete" => \A p \in scan.todo : scan.walk[p] = None

\* What may be carried from is what the walk missed.
LeftInv == \A p \in scan.left : Visited(p) /\ scan.walk[p] = None

\* The files are as the last completed scan, or the running one's start, found
\* them, and all can be read.
Calm == faulty = {} /\ (settled \/ (quiet /\ scan.pc # "idle"))

\* A scan that meets a folder it can't read is partial.
FaultSeen ==
    /\ settled => faulty = {}
    /\ quiet => \A p \in faulty : Visited(p) => scan.partial

\* A request found the path it carries from without its book.
Left(q) == q.pc \in {"compare", "move"} \/ q.moved

\* What a request is to write, and to delete, is as on disk.
RequestTrue(q) ==
    q.pc # "idle" =>
        /\ q.path \in Paths
        /\ q.moved => q.pc \in {"read", "index", "drop"}
        /\ q.pc = "drop" => q.moved
        /\ q.pc = "check" \/ Left(q) => q.from \in Paths
        /\ Calm => /\ disk[q.path] # None
                   /\ q.book \in {None, disk[q.path]}
                   /\ q.pc = "index" => q.book = disk[q.path]
                   /\ Left(q) => disk[q.from] = None

RequestsTrue == \A r \in Requests : RequestTrue(req[r])

\* What the scan saw and read is as on disk, and what it need not read, or has
\* written, is as in the index.
ScanTrue ==
    Calm /\ scan.pc # "idle" => \A p \in Paths :
        /\ Visited(p) => scan.walk[p] = disk[p]
        /\ scan.read[p] \in {None, disk[p]}
        /\ scan.sigs[p] = disk[p] => index[p] = disk[p]
        /\ scan.pc = "index" /\ p \in scan.todo => disk[p] # None
        /\ scan.pc \in {"index", "prune", "delete"} /\ disk[p] # None =>
              \/ p \in scan.todo /\ scan.pc = "index"
              \/ scan.read[p] = disk[p] /\ scan.pc = "index"
              \/ index[p] = disk[p]
        /\ scan.pc = "delete" /\ disk[p] = None => p \in scan.todo \/ index[p] = None

IInv == /\ Shapes /\ WalkInv /\ LeftInv /\ FaultSeen /\ RequestsTrue /\ ScanTrue
        /\ IndexMatchesDisk

-----------------------------------------------------------------------------
(* Records.                                                                 *)

LEMMA Constants ==
  /\ None \in Fingerprints /\ Unread \in Fingerprints /\ None # Unread
  /\ None \notin Books /\ Unread \notin Books /\ None \notin Paths
  /\ Nowhere \in [Paths -> Fingerprints] /\ \A p \in Paths : Nowhere[p] = None
BY LibraryAssumption DEF Fingerprints, Nowhere, None, Unread

LEMMA IdleScan ==
  /\ Idle \in Scan /\ Idle.pc = "idle" /\ Idle.left = {}
BY Constants DEF Idle, Scan, Stages

LEMMA NoRequest ==
  /\ NoReq \in Req /\ NoReq.pc = "idle" /\ ~NoReq.moved
  /\ NoReq.from = None /\ NoReq.old = None /\ NoReq.book = None
BY Constants DEF NoReq, Req, Steps

LEMMA FingerprintRead ==
  ASSUME Shapes, NEW p \in Paths
  PROVE  /\ Fingerprint(p) \in Fingerprints \ {None}
         /\ faulty = {} /\ disk[p] # None => Fingerprint(p) = disk[p]
BY Constants DEF Shapes, Fingerprint, Fingerprints

LEMMA InitInv == Init => IInv
<1> SUFFICES ASSUME Init PROVE IInv
  OBVIOUS
<1>1. Shapes
  <2>1. disk \in [Paths -> Books \union {None}] /\ index \in [Paths -> Fingerprints]
    BY DEF Init, Fingerprints
  <2>2. scan \in Scan /\ req \in [Requests -> Req]
    BY IdleScan, NoRequest DEF Init
  <2> QED
    BY <2>1, <2>2 DEF Init, Shapes
<1>2. scan.pc = "idle" /\ scan.left = {}
  BY IdleScan DEF Init
<1>3. WalkInv /\ LeftInv /\ ScanTrue
  BY <1>2 DEF WalkInv, LeftInv, ScanTrue, Visited
<1>4. FaultSeen /\ IndexMatchesDisk
  BY DEF Init, FaultSeen, IndexMatchesDisk
<1>5. RequestsTrue
  BY NoRequest DEF Init, RequestsTrue, RequestTrue
<1> QED
  BY <1>1, <1>3, <1>4, <1>5 DEF IInv

-----------------------------------------------------------------------------
(* A step that leaves alone what a part of the invariant reads preserves    *)
(* that part.                                                               *)

LEMMA Frames ==
  ASSUME IInv
  PROVE  /\ UNCHANGED <<scan, disk, faulty, gone, hidden>> => WalkInv'
         /\ UNCHANGED scan => LeftInv'
         /\ UNCHANGED <<scan, faulty, settled, quiet>> => FaultSeen'
         /\ UNCHANGED <<req, disk>> /\ (Calm' => Calm) => RequestsTrue'
         /\ UNCHANGED <<disk, index, settled>> => IndexMatchesDisk'
<1>1. UNCHANGED <<scan, disk, faulty, gone, hidden>> => WalkInv'
  BY DEF IInv, WalkInv, Visited
<1>2. UNCHANGED scan => LeftInv'
  BY DEF IInv, LeftInv, Visited
<1>3. UNCHANGED <<scan, faulty, settled, quiet>> => FaultSeen'
  BY DEF IInv, FaultSeen, Visited
<1>4. UNCHANGED <<req, disk>> /\ (Calm' => Calm) => RequestsTrue'
  BY DEF IInv, RequestsTrue, RequestTrue, Left
<1>5. UNCHANGED <<disk, index, settled>> => IndexMatchesDisk'
  BY DEF IInv, IndexMatchesDisk
<1> QED
  BY <1>1, <1>2, <1>3, <1>4, <1>5

\* A scan about to prune that spares a row.
LEMMA Spared ==
  ASSUME IInv, NEW p,
         scan' = IF scan.pc = "delete" THEN [scan EXCEPT !.todo = @ \ {p}] ELSE scan
  PROVE  /\ scan' \in Scan /\ scan'.pc = scan.pc
         /\ scan'.sigs = scan.sigs /\ scan'.walk = scan.walk /\ scan'.read = scan.read
         /\ scan'.partial = scan.partial /\ scan'.left = scan.left
         /\ scan.pc # "delete" => scan'.todo = scan.todo
         /\ scan'.todo \subseteq scan.todo
         /\ \A q \in scan.todo : q # p => q \in scan'.todo
<1>1. scan \in Scan
  BY DEF IInv, Shapes
<1>2. CASE scan.pc # "delete"
  BY <1>1, <1>2
<1>3. CASE scan.pc = "delete"
  <2>1. scan' = [scan EXCEPT !.todo = @ \ {p}]
    BY <1>3
  <2>2. scan' \in Scan
    BY <1>1, <2>1 DEF Scan
  <2>3. /\ scan'.pc = scan.pc /\ scan'.todo = scan.todo \ {p}
        /\ scan'.sigs = scan.sigs /\ scan'.walk = scan.walk /\ scan'.read = scan.read
        /\ scan'.partial = scan.partial /\ scan'.left = scan.left
    BY <1>1, <2>1 DEF Scan
  <2> QED
    BY <1>3, <2>2, <2>3
<1> QED
  BY <1>2, <1>3

\* A row written, or deleted, as it is on disk.
LEMMA RowWritten ==
  ASSUME IInv, NEW p \in Paths, NEW v \in Fingerprints, Calm => v = disk[p],
         index' = [index EXCEPT ![p] = v], UNCHANGED <<disk, faulty, quiet, settled>>,
         scan'.pc = scan.pc,
         scan'.sigs = scan.sigs, scan'.walk = scan.walk, scan'.read = scan.read,
         scan.pc # "delete" => scan'.todo = scan.todo,
         \/ scan'.todo = scan.todo
         \/ v = None /\ \A q \in scan.todo : q # p => q \in scan'.todo
  PROVE  /\ index' \in [Paths -> Fingerprints] /\ ScanTrue' /\ IndexMatchesDisk'
<1>1. index \in [Paths -> Fingerprints] /\ disk \in [Paths -> Books \union {None}]
  BY DEF IInv, Shapes
<1>2. index' \in [Paths -> Fingerprints]
  BY <1>1
<1>3. Calm => \A q \in Paths : index[q] = disk[q] => index'[q] = disk[q]
  BY <1>1
<1>4. Calm' = Calm
  BY DEF Calm
<1>5. ScanTrue'
  <2> SUFFICES ASSUME Calm, scan.pc # "idle", NEW q \in Paths
               PROVE  /\ Visited(q)' => scan.walk[q] = disk[q]
                      /\ scan.read[q] \in {None, disk[q]}
                      /\ scan.sigs[q] = disk[q] => index'[q] = disk[q]
                      /\ scan.pc = "index" /\ q \in scan'.todo => disk[q] # None
                      /\ scan.pc \in {"index", "prune", "delete"} /\ disk[q] # None =>
                            \/ q \in scan'.todo /\ scan.pc = "index"
                            \/ scan.read[q] = disk[q] /\ scan.pc = "index"
                            \/ index'[q] = disk[q]
                      /\ scan.pc = "delete" /\ disk[q] = None =>
                            q \in scan'.todo \/ index'[q] = None
    BY <1>4 DEF ScanTrue
  <2>1. /\ Visited(q) => scan.walk[q] = disk[q]
        /\ scan.read[q] \in {None, disk[q]}
        /\ scan.sigs[q] = disk[q] => index[q] = disk[q]
        /\ scan.pc = "index" /\ q \in scan.todo => disk[q] # None
        /\ scan.pc \in {"index", "prune", "delete"} /\ disk[q] # None =>
              \/ q \in scan.todo /\ scan.pc = "index"
              \/ scan.read[q] = disk[q] /\ scan.pc = "index"
              \/ index[q] = disk[q]
        /\ scan.pc = "delete" /\ disk[q] = None => q \in scan.todo \/ index[q] = None
    BY DEF IInv, ScanTrue
  <2>2. Visited(q)' = Visited(q)
    BY DEF Visited
  <2>3. /\ scan.pc = "index" => scan'.todo = scan.todo
        /\ index[q] = disk[q] => index'[q] = disk[q]
    BY <1>3
  <2>4. scan.pc = "delete" /\ disk[q] = None => q \in scan'.todo \/ index'[q] = None
    <3>1. CASE q = p
      BY <1>1, <2>1, <3>1
    <3>2. CASE q # p
      BY <1>1, <2>1, <3>2
    <3> QED
      BY <3>1, <3>2
  <2> QED
    BY <2>1, <2>2, <2>3, <2>4
<1>6. IndexMatchesDisk'
  <2>1. settled => Calm /\ index = disk
    BY DEF IInv, FaultSeen, Calm, IndexMatchesDisk
  <2> QED
    BY <1>1, <2>1 DEF IndexMatchesDisk
<1> QED
  BY <1>2, <1>5, <1>6

-----------------------------------------------------------------------------
(* The files.                                                               *)

\* Whatever changes on disk, nothing is calm any more, and an emptied path is
\* gone from this scan.
LEMMA StepChange ==
  ASSUME IInv, NEW new \in [Paths -> Books \union {None}], Change(new)
  PROVE  IInv'
<1> USE DEF Change
<1>1. Shapes'
  BY DEF IInv, Shapes
<1>2. WalkInv'
  BY DEF IInv, WalkInv, Visited
<1>3. ~Calm' /\ FaultSeen' /\ IndexMatchesDisk'
  BY DEF Calm, FaultSeen, IndexMatchesDisk
<1>4. RequestsTrue' /\ ScanTrue'
  BY <1>3 DEF IInv, RequestsTrue, RequestTrue, ScanTrue
<1> QED
  BY <1>1, <1>2, <1>3, <1>4, Frames DEF IInv

LEMMA StepFiles ==
  ASSUME IInv, NEW p \in Paths, (\E q \in Paths : Move(p, q) \/ Copy(p, q)) \/ Remove(p)
  PROVE  IInv'
<1>1. \E new \in [Paths -> Books \union {None}] : Change(new)
  <2>1. disk \in [Paths -> Books \union {None}]
    BY DEF IInv, Shapes
  <2>2. ASSUME NEW q \in Paths, Move(p, q)
        PROVE  \E new \in [Paths -> Books \union {None}] : Change(new)
    BY <2>1, <2>2 DEF Move
  <2>3. ASSUME NEW q \in Paths, Copy(p, q)
        PROVE  \E new \in [Paths -> Books \union {None}] : Change(new)
    BY <2>1, <2>3 DEF Copy
  <2>4. ASSUME Remove(p) PROVE \E new \in [Paths -> Books \union {None}] : Change(new)
    BY <2>1, <2>4 DEF Remove
  <2> QED
    BY <2>2, <2>3, <2>4
<1> QED
  BY <1>1, StepChange

LEMMA StepFaults ==
  ASSUME IInv, NEW p \in Paths, Fault(p) \/ Heal(p)
  PROVE  IInv'
<1> USE DEF Fault, Heal
<1>1. Shapes'
  BY DEF IInv, Shapes
<1>2. ~Calm' /\ FaultSeen' /\ IndexMatchesDisk'
  BY DEF Calm, FaultSeen, IndexMatchesDisk
<1>3. RequestsTrue' /\ ScanTrue'
  BY <1>2 DEF IInv, RequestsTrue, RequestTrue, Left, ScanTrue
<1>4. WalkInv'
  BY DEF IInv, WalkInv, Visited
<1> QED
  BY <1>1, <1>2, <1>3, <1>4, Frames DEF IInv

-----------------------------------------------------------------------------
(* A full scan.                                                             *)

LEMMA StepStartScan ==
  ASSUME IInv, StartScan
  PROVE  IInv'
<1> USE DEF StartScan, files, history
<1>1. index \in [Paths -> Fingerprints] /\ disk \in [Paths -> Books \union {None}]
  BY DEF IInv, Shapes
<1>2. scan' \in Scan
  BY <1>1, Constants DEF Idle, Scan, Stages
<1>3. /\ scan'.pc = "walk" /\ scan'.sigs = index /\ scan'.todo = Paths
      /\ scan'.read = Nowhere /\ scan'.left = {}
  BY DEF Idle
<1>4. Shapes'
  BY <1>2 DEF IInv, Shapes
<1>5. WalkInv' /\ LeftInv'
  BY <1>3 DEF WalkInv, LeftInv, Visited
<1>6. FaultSeen'
  BY <1>3 DEF IInv, Shapes, FaultSeen, Visited
<1>7. RequestsTrue'
  <2>1. CASE \A r \in Requests : req[r].pc = "idle"
    BY <2>1 DEF RequestsTrue, RequestTrue
  <2>2. CASE ~\A r \in Requests : req[r].pc = "idle"
    <3>1. Calm' => Calm
      BY <2>2 DEF Calm
    <3> QED
      BY <3>1, Frames
  <2> QED
    BY <2>1, <2>2
<1>8. ScanTrue'
  BY <1>1, <1>3, Constants DEF ScanTrue, Visited
<1> QED
  BY <1>4, <1>5, <1>6, <1>7, <1>8, Frames DEF IInv

LEMMA StepVisit ==
  ASSUME IInv, NEW p \in Paths, Visit(p)
  PROVE  IInv'
<1> DEFINE seen == IF p \in faulty THEN None ELSE disk[p]
<1> USE DEF Visit, files, history
<1>1. scan \in Scan /\ seen \in Fingerprints /\ disk \in [Paths -> Books \union {None}]
  BY DEF IInv, Shapes, Fingerprints
<1>2. scan' = [scan EXCEPT !.todo = @ \ {p}, !.partial = @ \/ p \in faulty, !.walk[p] = seen]
  OBVIOUS
<1> HIDE DEF seen
<1>3. scan' \in Scan
  <2> DEFINE some == scan.partial \/ p \in faulty
             walk == [scan.walk EXCEPT ![p] = seen]
  <2>1. scan' = [scan EXCEPT !.todo = @ \ {p}, !.partial = some, !.walk = walk]
    BY <1>2
  <2>2. some \in BOOLEAN
    OBVIOUS
  <2>3. walk \in [Paths -> Fingerprints]
    BY <1>1 DEF Scan
  <2>4. scan.todo \ {p} \subseteq Paths
    BY <1>1 DEF Scan
  <2> HIDE DEF some, walk, Visit
  <2> QED
    BY <1>1, <2>1, <2>2, <2>3, <2>4 DEF Scan
<1>4. scan.pc = "walk" /\ scan'.pc = "walk" /\ scan'.todo = scan.todo \ {p}
  BY <1>1, <1>2 DEF Scan
<1>5. scan'.sigs = scan.sigs /\ scan'.read = scan.read /\ scan'.left = scan.left
  BY <1>1, <1>2 DEF Scan
<1>6. scan'.partial <=> (scan.partial \/ p \in faulty)
  BY <1>1, <1>2 DEF Scan
<1>7. scan'.walk = [scan.walk EXCEPT ![p] = seen] /\ scan.walk \in [Paths -> Fingerprints]
  BY <1>1, <1>2 DEF Scan
<1>8. Shapes'
  BY <1>3 DEF IInv, Shapes
<1>9. WalkInv'
  <2>1. faulty \subseteq hidden /\ \A q \in Paths : disk[q] = None => q \in gone
    BY <1>4 DEF IInv, WalkInv
  <2>2. \A q \in Paths : Visited(q)' /\ scan'.walk[q] = None =>
           q \in gone \/ (scan'.partial /\ q \in hidden)
    <3> SUFFICES ASSUME NEW q \in Paths, Visited(q)', scan'.walk[q] = None
                 PROVE  q \in gone \/ (scan'.partial /\ q \in hidden)
      OBVIOUS
    <3>1. CASE q = p
      BY <1>4, <1>6, <1>7, <2>1, <3>1 DEF seen
    <3>2. CASE q # p
      BY <1>4, <1>6, <1>7, <3>2 DEF IInv, WalkInv, Visited
    <3> QED
      BY <3>1, <3>2
  <2> QED
    BY <1>4, <2>1, <2>2 DEF WalkInv
<1>10. LeftInv'
  BY <1>4, <1>5, <1>7 DEF IInv, LeftInv, Visited
<1>11. FaultSeen'
  BY <1>4, <1>6 DEF IInv, FaultSeen, Visited
<1>12. Calm' <=> Calm
  BY <1>4 DEF Calm
<1>13. ScanTrue'
  <2> SUFFICES ASSUME Calm, NEW q \in Paths
               PROVE  /\ Visited(q)' => scan'.walk[q] = disk[q]
                      /\ scan'.read[q] \in {None, disk[q]}
                      /\ scan'.sigs[q] = disk[q] => index[q] = disk[q]
    BY <1>4, <1>12 DEF ScanTrue
  <2>1. Visited(q)' => scan'.walk[q] = disk[q]
    <3>1. CASE q = p
      BY <1>7, <3>1 DEF Calm, seen
    <3>2. CASE q # p
      BY <1>4, <1>7, <3>2 DEF IInv, ScanTrue, Visited
    <3> QED
      BY <3>1, <3>2
  <2> QED
    BY <1>4, <1>5, <2>1 DEF IInv, ScanTrue
<1> QED
  BY <1>8, <1>9, <1>10, <1>11, <1>12, <1>13, Frames DEF IInv

\* A scan that ends without a prune, or is stopped.
LEMMA ScanOver ==
  ASSUME IInv, scan' = Idle, UNCHANGED <<disk, faulty, index, req, quiet, settled, gone, hidden>>
  PROVE  IInv'
<1>1. scan' \in Scan /\ scan'.pc = "idle" /\ scan'.left = {}
  BY IdleScan
<1>2. Shapes'
  BY <1>1 DEF IInv, Shapes
<1>3. WalkInv' /\ LeftInv' /\ ScanTrue'
  BY <1>1 DEF WalkInv, LeftInv, ScanTrue, Visited
<1>4. FaultSeen'
  BY <1>1 DEF IInv, FaultSeen, Visited
<1>5. Calm' => Calm
  BY <1>1 DEF Calm
<1> QED
  BY <1>2, <1>3, <1>4, <1>5, Frames DEF IInv

LEMMA StepEndWalk ==
  ASSUME IInv, EndWalk
  PROVE  IInv'
<1> DEFINE miss == {p \in Indexed \ Found : scan.sigs[p] # Unread}
<1> USE DEF EndWalk, files, history
<1>1. CASE Found = {} /\ Indexed # {}
  BY <1>1, ScanOver
<1>2. CASE ~(Found = {} /\ Indexed # {})
  <2>1. /\ scan' = [scan EXCEPT !.pc = "moves", !.todo = Found \ Indexed, !.left = miss]
        /\ scan \in Scan /\ Found \subseteq Paths /\ miss \subseteq Paths
    BY <1>2 DEF IInv, Shapes, Found, Indexed
  <2>2. \A p \in miss : scan.walk[p] = None
    BY DEF Found, Indexed
  <2> HIDE DEF miss
  <2>3. scan' \in Scan
    BY <2>1 DEF Scan, Stages
  <2>4. scan.pc = "walk" /\ scan.todo = {} /\ scan'.pc = "moves" /\ scan'.left = miss
    BY <2>1 DEF Scan
  <2>5. /\ scan'.sigs = scan.sigs /\ scan'.read = scan.read /\ scan'.walk = scan.walk
        /\ scan'.partial = scan.partial
    BY <2>1 DEF Scan
  <2>6. \A p \in Paths : Visited(p) /\ Visited(p)'
    BY <2>4 DEF Visited
  <2>7. Shapes'
    BY <2>3 DEF IInv, Shapes
  <2>8. WalkInv' /\ LeftInv'
    BY <2>1, <2>2, <2>4, <2>5, <2>6 DEF IInv, WalkInv, LeftInv
  <2>9. FaultSeen'
    BY <2>5, <2>6 DEF IInv, Shapes, FaultSeen
  <2>10. Calm' <=> Calm
    BY <2>4 DEF Calm
  <2>11. ScanTrue'
    BY <2>4, <2>5, <2>6, <2>10 DEF IInv, ScanTrue
  <2> QED
    BY <2>7, <2>8, <2>9, <2>10, <2>11, Frames DEF IInv
<1> QED
  BY <1>1, <1>2

LEMMA StepDetectMove ==
  ASSUME IInv, NEW p \in Paths, DetectMove(p)
  PROVE  IInv'
<1>1. /\ scan.pc = "moves" /\ scan \in Scan
      /\ UNCHANGED <<disk, faulty, index, req, quiet, settled, gone, hidden>>
  BY DEF DetectMove, files, history, IInv, Shapes
<1>2. PICK left \in SUBSET scan.left : scan' = [scan EXCEPT !.todo = @ \ {p}, !.left = left]
  <2>1. CASE scan' = [scan EXCEPT !.todo = @ \ {p}]
    <3>1. scan' = [scan EXCEPT !.todo = @ \ {p}, !.left = scan.left]
      BY <1>1, <2>1 DEF Scan
    <3> QED
      BY <3>1
  <2>2. CASE \E q \in scan.left : scan' = [scan EXCEPT !.todo = @ \ {p}, !.left = @ \ {q}]
    BY <2>2
  <2> QED
    BY <2>1, <2>2 DEF DetectMove
<1>3. scan' \in Scan
  BY <1>1, <1>2 DEF Scan
<1>4. scan'.pc = "moves" /\ scan'.left \subseteq scan.left
  BY <1>1, <1>2 DEF Scan
<1>5. /\ scan'.sigs = scan.sigs /\ scan'.read = scan.read /\ scan'.walk = scan.walk
      /\ scan'.partial = scan.partial
  BY <1>1, <1>2 DEF Scan
<1>6. \A q \in Paths : Visited(q) /\ Visited(q)'
  BY <1>1, <1>4 DEF Visited
<1>7. Shapes'
  BY <1>1, <1>3 DEF IInv, Shapes
<1>8. WalkInv' /\ LeftInv'
  <2>1. WalkInv'
    BY <1>1, <1>4, <1>5, <1>6 DEF IInv, WalkInv
  <2>2. LeftInv'
    BY <1>1, <1>4, <1>5, <1>6 DEF IInv, LeftInv, Visited
  <2> QED
    BY <2>1, <2>2
<1>9. FaultSeen'
  BY <1>1, <1>5, <1>6 DEF IInv, Shapes, FaultSeen
<1>10. Calm' <=> Calm
  BY <1>1, <1>4 DEF Calm
<1>11. ScanTrue'
  BY <1>1, <1>4, <1>5, <1>6, <1>10 DEF IInv, ScanTrue
<1> QED
  BY <1>1, <1>7, <1>8, <1>9, <1>10, <1>11, Frames DEF IInv

\* What is not read again is in the index as it is on disk.
LEMMA StepEndMoves ==
  ASSUME IInv, EndMoves
  PROVE  IInv'
<1> DEFINE todo == {p \in Found : scan.sigs[p] # scan.walk[p]}
<1>1. /\ scan.pc = "moves" /\ scan \in Scan /\ todo \subseteq Paths
      /\ scan' = [scan EXCEPT !.pc = "index", !.todo = todo]
      /\ UNCHANGED <<disk, faulty, index, req, quiet, settled, gone, hidden>>
  BY DEF EndMoves, files, history, IInv, Shapes, Found
<1>2. \A p \in Paths : p \in todo <=> scan.walk[p] # None /\ scan.sigs[p] # scan.walk[p]
  BY DEF Found
<1> HIDE DEF todo
<1>3. scan' \in Scan
  BY <1>1 DEF Scan, Stages
<1>4. scan'.pc = "index" /\ scan'.todo = todo
  BY <1>1 DEF Scan
<1>5. /\ scan'.sigs = scan.sigs /\ scan'.read = scan.read /\ scan'.walk = scan.walk
      /\ scan'.partial = scan.partial /\ scan'.left = scan.left
  BY <1>1 DEF Scan
<1>6. \A q \in Paths : Visited(q) /\ Visited(q)'
  BY <1>1, <1>4 DEF Visited
<1>7. Shapes'
  BY <1>1, <1>3 DEF IInv, Shapes
<1>8. WalkInv' /\ LeftInv'
  <2>1. WalkInv'
    BY <1>1, <1>4, <1>5, <1>6 DEF IInv, WalkInv
  <2>2. LeftInv'
    BY <1>1, <1>4, <1>5, <1>6 DEF IInv, LeftInv, Visited
  <2> QED
    BY <2>1, <2>2
<1>9. FaultSeen'
  BY <1>1, <1>5, <1>6 DEF IInv, Shapes, FaultSeen
<1>10. Calm' <=> Calm
  BY <1>1, <1>4 DEF Calm
<1>11. ScanTrue'
  <2> SUFFICES ASSUME Calm, NEW p \in Paths
               PROVE  /\ scan.walk[p] = disk[p]
                      /\ scan.read[p] \in {None, disk[p]}
                      /\ scan.sigs[p] = disk[p] => index[p] = disk[p]
                      /\ p \in todo => disk[p] # None
                      /\ disk[p] # None => p \in todo \/ index[p] = disk[p]
    BY <1>1, <1>4, <1>5, <1>10 DEF ScanTrue
  <2>1. /\ scan.walk[p] = disk[p] /\ scan.read[p] \in {None, disk[p]}
        /\ scan.sigs[p] = disk[p] => index[p] = disk[p]
    BY <1>1, <1>6 DEF IInv, ScanTrue
  <2> QED
    BY <1>2, <2>1
<1> QED
  BY <1>1, <1>7, <1>8, <1>9, <1>10, <1>11, Frames DEF IInv

LEMMA StepReadBook ==
  ASSUME IInv, NEW p \in Paths, ReadBook(p)
  PROVE  IInv'
<1> DEFINE book == Fingerprint(p)
<1>1. /\ scan.pc = "index" /\ p \in scan.todo /\ scan \in Scan
      /\ scan' = [scan EXCEPT !.todo = @ \ {p}, !.read[p] = book]
      /\ UNCHANGED <<disk, faulty, index, req, quiet, settled, gone, hidden>>
  BY DEF ReadBook, files, history, IInv, Shapes
<1>2. book \in Fingerprints /\ (faulty = {} /\ disk[p] # None => book = disk[p])
  BY FingerprintRead DEF IInv
<1> HIDE DEF book
<1>3. scan' \in Scan
  <2> DEFINE read == [scan.read EXCEPT ![p] = book]
  <2>1. scan' = [scan EXCEPT !.todo = @ \ {p}, !.read = read]
    BY <1>1
  <2>2. read \in [Paths -> Fingerprints]
    BY <1>1, <1>2 DEF Scan
  <2> HIDE DEF read
  <2> QED
    BY <1>1, <2>1, <2>2 DEF Scan
<1>4. scan'.pc = "index" /\ scan'.todo = scan.todo \ {p}
  BY <1>1 DEF Scan
<1>5. /\ scan'.sigs = scan.sigs /\ scan'.walk = scan.walk
      /\ scan'.partial = scan.partial /\ scan'.left = scan.left
  BY <1>1 DEF Scan
<1>6. scan'.read = [scan.read EXCEPT ![p] = book] /\ scan.read \in [Paths -> Fingerprints]
  BY <1>1 DEF Scan
<1>7. \A q \in Paths : Visited(q) /\ Visited(q)'
  BY <1>1, <1>4 DEF Visited
<1>8. Shapes'
  BY <1>1, <1>3 DEF IInv, Shapes
<1>9. WalkInv' /\ LeftInv'
  <2>1. WalkInv'
    BY <1>1, <1>4, <1>5, <1>7 DEF IInv, WalkInv
  <2>2. LeftInv'
    BY <1>1, <1>4, <1>5, <1>7 DEF IInv, LeftInv, Visited
  <2> QED
    BY <2>1, <2>2
<1>10. FaultSeen'
  BY <1>1, <1>5, <1>7 DEF IInv, Shapes, FaultSeen
<1>11. Calm' <=> Calm
  BY <1>1, <1>4 DEF Calm
<1>12. ScanTrue'
  <2> SUFFICES ASSUME Calm, NEW q \in Paths
               PROVE  /\ scan.walk[q] = disk[q]
                      /\ scan'.read[q] \in {None, disk[q]}
                      /\ scan.sigs[q] = disk[q] => index[q] = disk[q]
                      /\ q \in scan'.todo => disk[q] # None
                      /\ disk[q] # None =>
                            q \in scan'.todo \/ scan'.read[q] = disk[q] \/ index[q] = disk[q]
    BY <1>1, <1>4, <1>5, <1>11 DEF ScanTrue
  <2>1. /\ scan.walk[q] = disk[q] /\ scan.read[q] \in {None, disk[q]}
        /\ scan.sigs[q] = disk[q] => index[q] = disk[q]
        /\ q \in scan.todo => disk[q] # None
        /\ disk[q] # None => q \in scan.todo \/ scan.read[q] = disk[q] \/ index[q] = disk[q]
    BY <1>1, <1>7 DEF IInv, ScanTrue
  <2>2. CASE q = p
    BY <1>1, <1>2, <1>6, <2>1, <2>2 DEF Calm
  <2>3. CASE q # p
    BY <1>4, <1>6, <2>1, <2>3
  <2> QED
    BY <2>2, <2>3
<1> QED
  BY <1>1, <1>8, <1>9, <1>10, <1>11, <1>12, Frames DEF IInv

LEMMA StepWriteBook ==
  ASSUME IInv, NEW p \in Paths, WriteBook(p)
  PROVE  IInv'
<1> DEFINE book == scan.read[p]
<1>1. /\ scan.pc = "index" /\ scan \in Scan /\ book # None
      /\ scan' = [scan EXCEPT !.read[p] = None]
      /\ index' = [index EXCEPT ![p] = book]
      /\ UNCHANGED <<disk, faulty, req, quiet, settled, gone, hidden>>
  BY DEF WriteBook, files, history, IInv, Shapes
<1>2. book \in Fingerprints /\ (Calm => book = disk[p])
  BY <1>1 DEF IInv, ScanTrue, Scan
<1>3. index \in [Paths -> Fingerprints] /\ disk \in [Paths -> Books \union {None}]
  BY DEF IInv, Shapes
<1> HIDE DEF book
<1>4. scan' \in Scan
  <2> DEFINE read == [scan.read EXCEPT ![p] = None]
  <2>1. scan' = [scan EXCEPT !.read = read]
    BY <1>1
  <2>2. read \in [Paths -> Fingerprints]
    BY <1>1, Constants DEF Scan
  <2> HIDE DEF read
  <2> QED
    BY <1>1, <2>1, <2>2 DEF Scan
<1>5. /\ scan'.pc = "index" /\ scan'.todo = scan.todo
      /\ scan'.sigs = scan.sigs /\ scan'.walk = scan.walk
      /\ scan'.partial = scan.partial /\ scan'.left = scan.left
  BY <1>1 DEF Scan
<1>6. scan'.read = [scan.read EXCEPT ![p] = None] /\ scan.read \in [Paths -> Fingerprints]
  BY <1>1 DEF Scan
<1>7. \A q \in Paths : Visited(q) /\ Visited(q)'
  BY <1>1, <1>5 DEF Visited
<1>8. Shapes'
  BY <1>1, <1>2, <1>3, <1>4 DEF IInv, Shapes
<1>9. WalkInv' /\ LeftInv'
  <2>1. WalkInv'
    BY <1>1, <1>5, <1>7 DEF IInv, WalkInv
  <2>2. LeftInv'
    BY <1>1, <1>5, <1>7 DEF IInv, LeftInv, Visited
  <2> QED
    BY <2>1, <2>2
<1>10. FaultSeen'
  BY <1>1, <1>5, <1>7 DEF IInv, Shapes, FaultSeen
<1>11. Calm' <=> Calm
  BY <1>1, <1>5 DEF Calm
<1>12. ScanTrue'
  <2> SUFFICES ASSUME Calm, NEW q \in Paths
               PROVE  /\ scan.walk[q] = disk[q]
                      /\ scan'.read[q] \in {None, disk[q]}
                      /\ scan.sigs[q] = disk[q] => index'[q] = disk[q]
                      /\ q \in scan.todo => disk[q] # None
                      /\ disk[q] # None =>
                            q \in scan.todo \/ scan'.read[q] = disk[q] \/ index'[q] = disk[q]
    BY <1>1, <1>5, <1>11 DEF ScanTrue
  <2>1. /\ scan.walk[q] = disk[q] /\ scan.read[q] \in {None, disk[q]}
        /\ scan.sigs[q] = disk[q] => index[q] = disk[q]
        /\ q \in scan.todo => disk[q] # None
        /\ disk[q] # None => q \in scan.todo \/ scan.read[q] = disk[q] \/ index[q] = disk[q]
    BY <1>1, <1>7 DEF IInv, ScanTrue
  <2>2. CASE q = p
    BY <1>1, <1>2, <1>3, <1>6, <2>1, <2>2
  <2>3. CASE q # p
    BY <1>1, <1>3, <1>6, <2>1, <2>3
  <2> QED
    BY <2>2, <2>3
<1>13. IndexMatchesDisk'
  <2>1. settled => Calm /\ index = disk
    BY DEF IInv, FaultSeen, Calm, IndexMatchesDisk
  <2> QED
    BY <1>1, <1>2, <1>3, <2>1 DEF IndexMatchesDisk
<1> QED
  BY <1>1, <1>8, <1>9, <1>10, <1>11, <1>12, <1>13, Frames DEF IInv

LEMMA StepEndIndex ==
  ASSUME IInv, EndIndex
  PROVE  IInv'
<1> USE DEF EndIndex, files, history
<1>1. CASE scan.partial
  BY <1>1, ScanOver
<1>2. CASE ~scan.partial
  <2>1. /\ scan.pc = "index" /\ scan \in Scan /\ scan.todo = {} /\ scan.read = Nowhere
        /\ scan' = [scan EXCEPT !.pc = "prune"]
    BY <1>2 DEF IInv, Shapes
  <2>2. scan' \in Scan
    BY <2>1 DEF Scan, Stages
  <2>3. /\ scan'.pc = "prune" /\ scan'.read = scan.read
        /\ scan'.sigs = scan.sigs /\ scan'.walk = scan.walk
        /\ scan'.partial = scan.partial /\ scan'.left = scan.left
    BY <2>1 DEF Scan
  <2>4. \A q \in Paths : Visited(q) /\ Visited(q)'
    BY <2>1, <2>3 DEF Visited
  <2>5. Shapes'
    BY <2>2 DEF IInv, Shapes
  <2>6. WalkInv'
    BY <1>2, <2>1, <2>3, <2>4 DEF IInv, WalkInv
  <2>7. LeftInv'
    BY <2>1, <2>3, <2>4 DEF IInv, LeftInv, Visited
  <2>8. FaultSeen'
    BY <2>3, <2>4 DEF IInv, Shapes, FaultSeen
  <2>9. Calm' <=> Calm
    BY <2>1, <2>3 DEF Calm
  <2>10. ScanTrue'
    <3> SUFFICES ASSUME Calm, NEW q \in Paths
                 PROVE  /\ scan.walk[q] = disk[q] /\ scan.read[q] \in {None, disk[q]}
                        /\ scan.sigs[q] = disk[q] => index[q] = disk[q]
                        /\ disk[q] # None => index[q] = disk[q]
      BY <2>3, <2>9 DEF ScanTrue
    <3>1. scan.read[q] = None
      BY <2>1, Constants
    <3> QED
      BY <2>1, <2>4, <3>1 DEF IInv, ScanTrue
  <2> QED
    BY <2>5, <2>6, <2>7, <2>8, <2>9, <2>10, Frames DEF IInv
<1> QED
  BY <1>1, <1>2

\* Rows the walk did not find are to go, and what is on disk is found.
LEMMA StepLookToPrune ==
  ASSUME IInv, LookToPrune
  PROVE  IInv'
<1> DEFINE rows == {p \in Paths : index[p] # None} \ Found
<1>1. /\ scan.pc = "prune" /\ scan \in Scan /\ rows \subseteq Paths
      /\ scan' = [scan EXCEPT !.pc = "delete", !.todo = rows]
      /\ UNCHANGED <<disk, faulty, index, req, quiet, settled, gone, hidden>>
  BY DEF LookToPrune, files, history, IInv, Shapes
<1>2. \A p \in Paths : p \in rows <=> index[p] # None /\ scan.walk[p] = None
  BY DEF Found
<1> HIDE DEF rows
<1>3. scan' \in Scan
  BY <1>1 DEF Scan, Stages
<1>4. /\ scan'.pc = "delete" /\ scan'.todo = rows /\ scan'.read = scan.read
      /\ scan'.sigs = scan.sigs /\ scan'.walk = scan.walk
      /\ scan'.partial = scan.partial /\ scan'.left = scan.left
  BY <1>1 DEF Scan
<1>5. \A q \in Paths : Visited(q) /\ Visited(q)'
  BY <1>1, <1>4 DEF Visited
<1>6. Shapes'
  BY <1>1, <1>3 DEF IInv, Shapes
<1>7. WalkInv'
  BY <1>1, <1>2, <1>4, <1>5 DEF IInv, WalkInv
<1>8. LeftInv'
  BY <1>1, <1>4, <1>5 DEF IInv, LeftInv, Visited
<1>9. FaultSeen'
  BY <1>1, <1>4, <1>5 DEF IInv, Shapes, FaultSeen
<1>10. Calm' <=> Calm
  BY <1>1, <1>4 DEF Calm
<1>11. ScanTrue'
  <2> SUFFICES ASSUME Calm, NEW q \in Paths
               PROVE  /\ scan.walk[q] = disk[q] /\ scan.read[q] \in {None, disk[q]}
                      /\ scan.sigs[q] = disk[q] => index[q] = disk[q]
                      /\ disk[q] # None => index[q] = disk[q]
                      /\ disk[q] = None => q \in rows \/ index[q] = None
    BY <1>1, <1>4, <1>10 DEF ScanTrue
  <2>1. /\ scan.walk[q] = disk[q] /\ scan.read[q] \in {None, disk[q]}
        /\ scan.sigs[q] = disk[q] => index[q] = disk[q]
        /\ disk[q] # None => index[q] = disk[q]
    BY <1>1, <1>5 DEF IInv, ScanTrue
  <2> QED
    BY <1>2, <2>1
<1> QED
  BY <1>1, <1>6, <1>7, <1>8, <1>9, <1>10, <1>11, Frames DEF IInv

\* A scan that nothing disturbed leaves the index as the disk is.
LEMMA StepPrune ==
  ASSUME IInv, Prune
  PROVE  IInv'
<1>1. /\ scan.pc = "delete" /\ scan \in Scan /\ scan' = Idle /\ settled' = quiet
      /\ index' = [p \in Paths |-> IF p \in scan.todo THEN None ELSE index[p]]
      /\ UNCHANGED <<disk, faulty, req, quiet, gone, hidden>>
  BY DEF Prune, files, history, IInv, Shapes
<1>2. scan' \in Scan /\ scan'.pc = "idle" /\ scan'.left = {}
  BY <1>1, IdleScan
<1>3. \A p \in Paths : Visited(p)
  BY <1>1 DEF Visited
<1>4. quiet => faulty = {} /\ Calm
  BY <1>1, <1>3 DEF IInv, Shapes, FaultSeen, WalkInv, Calm
<1>5. Shapes'
  BY <1>1, <1>2, Constants DEF IInv, Shapes
<1>6. WalkInv' /\ LeftInv' /\ ScanTrue'
  BY <1>2 DEF WalkInv, LeftInv, ScanTrue, Visited
<1>7. FaultSeen'
  BY <1>1, <1>2, <1>4 DEF FaultSeen, Visited
<1>8. Calm' => Calm
  BY <1>1, <1>2, <1>4 DEF Calm
<1>9. IndexMatchesDisk'
  <2> SUFFICES ASSUME quiet PROVE index' = disk
    BY <1>1 DEF IndexMatchesDisk
  <2>1. ASSUME NEW p \in Paths PROVE index'[p] = disk[p]
    <3>1. /\ scan.walk[p] = disk[p]
          /\ disk[p] # None => index[p] = disk[p]
          /\ disk[p] = None => p \in scan.todo \/ index[p] = None
      BY <1>1, <1>3, <1>4 DEF IInv, ScanTrue
    <3>2. p \in scan.todo => scan.walk[p] = None
      BY <1>1 DEF IInv, WalkInv
    <3> QED
      BY <1>1, <3>1, <3>2
  <2> QED
    BY <1>1, <2>1 DEF IInv, Shapes
<1> QED
  BY <1>1, <1>5, <1>6, <1>7, <1>8, <1>9, Frames DEF IInv

LEMMA StepStop ==
  ASSUME IInv, Stop
  PROVE  IInv'
BY ScanOver DEF Stop, files, history

-----------------------------------------------------------------------------
(* On demand.                                                               *)

\* One request goes on.
LEMMA RequestsKept ==
  ASSUME IInv, NEW r \in Requests, NEW q \in Req, RequestTrue(q),
         req' = [req EXCEPT ![r] = q], UNCHANGED disk, Calm' = Calm
  PROVE  req' \in [Requests -> Req] /\ RequestsTrue'
<1>1. req' \in [Requests -> Req]
  BY DEF IInv, Shapes
<1>2. RequestsTrue'
  <2> SUFFICES ASSUME NEW o \in Requests PROVE RequestTrue(req[o])'
    BY DEF RequestsTrue
  <2>1. CASE o = r
    <3>1. req'[o] = q
      BY <2>1 DEF IInv, Shapes
    <3> QED
      BY <3>1 DEF RequestTrue, Left
  <2>2. CASE o # r
    <3>1. req'[o] = req[o] /\ RequestTrue(req[o])
      BY <2>2 DEF IInv, Shapes, RequestsTrue
    <3> QED
      BY <3>1 DEF RequestTrue, Left
  <2> QED
    BY <2>1, <2>2
<1> QED
  BY <1>1, <1>2

\* ... and writes nothing.
LEMMA RequestStep ==
  ASSUME IInv, NEW r \in Requests, NEW q \in Req, RequestTrue(q),
         req' = [req EXCEPT ![r] = q],
         UNCHANGED <<disk, faulty, scan, quiet, settled, gone, hidden>>
  PROVE  /\ req' \in [Requests -> Req] /\ WalkInv' /\ LeftInv' /\ FaultSeen'
         /\ RequestsTrue' /\ (UNCHANGED index => IInv')
<1>1. Calm' = Calm
  BY DEF Calm
<1>2. req' \in [Requests -> Req] /\ RequestsTrue'
  BY <1>1, RequestsKept
<1>3. WalkInv' /\ LeftInv' /\ FaultSeen'
  BY Frames
<1>4. ASSUME UNCHANGED index PROVE IInv'
  <2>1. Shapes'
    BY <1>2, <1>4 DEF IInv, Shapes
  <2>2. ScanTrue'
    BY <1>1, <1>4 DEF IInv, ScanTrue, Visited
  <2> QED
    BY <1>2, <1>3, <1>4, <2>1, <2>2, Frames DEF IInv
<1> QED
  BY <1>2, <1>3, <1>4

LEMMA RequestOver ==
  NoReq \in Req /\ RequestTrue(NoReq)
BY NoRequest DEF RequestTrue

LEMMA StepStartRequest ==
  ASSUME IInv, NEW r \in Requests, NEW q \in Req, StartRequest(r, q),
         q.path \in Paths, q.pc \in {"find", "carry"}, q.book = None, ~q.moved
  PROVE  IInv'
<1>1. RequestTrue(q)
  BY DEF StartRequest, RequestTrue, Left
<1> QED
  BY <1>1, RequestStep DEF StartRequest, files

LEMMA StepIndexPath ==
  ASSUME IInv, NEW r \in Requests, NEW p \in Paths, IndexPath(r, p)
  PROVE  IInv'
<1> DEFINE q == [NoReq EXCEPT !.pc = "find", !.path = p, !.shared = TRUE]
<1>1. StartRequest(r, q)
  BY DEF IndexPath
<1>2. q \in Req
  BY Constants DEF NoReq, Req, Steps
<1>3. q.path = p /\ q.pc = "find" /\ q.book = None /\ ~q.moved
  BY DEF NoReq
<1> HIDE DEF q
<1> QED
  BY <1>1, <1>2, <1>3, StepStartRequest

LEMMA StepIndexMoved ==
  ASSUME IInv, NEW r \in Requests, NEW p \in Paths, NEW from \in Paths \union {None},
         IndexMoved(r, p, from)
  PROVE  IInv'
<1> DEFINE q == [NoReq EXCEPT !.pc = "carry", !.path = p, !.from = from]
<1>1. StartRequest(r, q)
  BY DEF IndexMoved
<1>2. q \in Req
  BY Constants DEF NoReq, Req, Steps
<1>3. q.path = p /\ q.pc = "carry" /\ q.book = None /\ ~q.moved
  BY DEF NoReq
<1> HIDE DEF q
<1> QED
  BY <1>1, <1>2, <1>3, StepStartRequest

LEMMA RequestIs ==
  ASSUME IInv, NEW r \in Requests, req[r].pc # "idle"
  PROVE  /\ req[r] \in Req /\ RequestTrue(req[r]) /\ req[r].path \in Paths
         /\ req \in [Requests -> Req] /\ index \in [Paths -> Fingerprints]
         /\ disk \in [Paths -> Books \union {None}] /\ faulty \subseteq Paths
<1>1. req[r] \in Req /\ RequestTrue(req[r])
  BY DEF IInv, Shapes, RequestsTrue
<1> QED
  BY <1>1 DEF IInv, Shapes, RequestTrue

\* What is read, and kept, of the book at the request's path.
LEMMA HashRead ==
  ASSUME IInv, NEW r \in Requests, req[r].pc # "idle"
  PROVE  /\ ContentHash(req[r]) \in Fingerprints
         /\ Calm => ContentHash(req[r]) = disk[req[r].path]
<1> DEFINE p == req[r].path
<1>1. req[r] \in Req /\ RequestTrue(req[r]) /\ p \in Paths
  BY RequestIs
<1>2. /\ Fingerprint(p) \in Fingerprints
      /\ faulty = {} /\ disk[p] # None => Fingerprint(p) = disk[p]
  BY <1>1, FingerprintRead DEF IInv
<1>3. disk[p] \in Books \union {None}
  BY <1>1 DEF IInv, Shapes
<1>4. Calm => faulty = {} /\ disk[p] # None /\ req[r].book \in {None, disk[p]}
  BY <1>1 DEF RequestTrue, Calm
<1>5. req[r].book \in Fingerprints
  BY <1>1 DEF Req
<1> QED
  BY <1>2, <1>3, <1>4, <1>5, Constants DEF ContentHash

LEMMA StepMoveCandidates ==
  ASSUME IInv, NEW r \in Requests, MoveCandidates(r)
  PROVE  IInv'
<1> DEFINE book == ContentHash(req[r])
           rows == {q \in Paths \ {req[r].path} : /\ book # None /\ index[req[r].path] = None
                                                  /\ index[q] = book}
           new == [req[r] EXCEPT !.pc = "look", !.book = book, !.rows = rows]
<1>1. /\ req[r].pc = "find" /\ req' = [req EXCEPT ![r] = new]
      /\ UNCHANGED <<disk, faulty, index, scan, quiet, settled, gone, hidden>>
  BY DEF MoveCandidates, files, history
<1>2. req[r] \in Req /\ RequestTrue(req[r])
  BY <1>1, RequestIs
<1>3. book \in Fingerprints /\ (Calm => book = disk[req[r].path]) /\ rows \subseteq Paths
  BY <1>1, HashRead
<1> HIDE DEF book, rows
<1>4. new \in Req
  BY <1>2, <1>3 DEF Req, Steps
<1>5. /\ new.pc = "look" /\ new.path = req[r].path /\ new.book = book
      /\ new.moved = req[r].moved /\ new.from = req[r].from
  BY <1>2 DEF Req
<1> HIDE DEF new
<1>6. RequestTrue(new)
  BY <1>1, <1>2, <1>3, <1>5 DEF RequestTrue, Left
<1> QED
  BY <1>1, <1>4, <1>6, RequestStep

LEMMA StepMovedFrom ==
  ASSUME IInv, NEW r \in Requests, MovedFrom(r)
  PROVE  IInv'
<1>1. /\ req[r].pc = "look"
      /\ UNCHANGED <<disk, faulty, index, scan, quiet, settled, gone, hidden>>
  BY DEF MovedFrom, files
<1>2. req[r] \in Req /\ RequestTrue(req[r])
  BY <1>1, RequestIs
<1>3. PICK from \in Paths \union {None} :
          req' = [req EXCEPT ![r] = [req[r] EXCEPT !.pc = "carry", !.rows = {}, !.from = from]]
  <2>1. req[r].rows \subseteq Paths
    BY <1>2 DEF Req
  <2> QED
    BY <2>1 DEF MovedFrom
<1> DEFINE new == [req[r] EXCEPT !.pc = "carry", !.rows = {}, !.from = from]
<1>4. new \in Req
  BY <1>2 DEF Req, Steps
<1>5. /\ new.pc = "carry" /\ new.path = req[r].path /\ new.book = req[r].book
      /\ new.moved = req[r].moved
  BY <1>2 DEF Req
<1>6. req' = [req EXCEPT ![r] = new]
  BY <1>3
<1> HIDE DEF new
<1>7. RequestTrue(new)
  BY <1>1, <1>2, <1>5 DEF RequestTrue, Left
<1> QED
  BY <1>1, <1>4, <1>6, <1>7, RequestStep

LEMMA StepFindOld ==
  ASSUME IInv, NEW r \in Requests, FindOld(r)
  PROVE  IInv'
<1> DEFINE old == IF req[r].from = None THEN None ELSE index[req[r].from]
           next == IF old = None THEN "read" ELSE "check"
           new == [req[r] EXCEPT !.pc = next, !.old = old]
<1>1. /\ req[r].pc = "carry" /\ req' = [req EXCEPT ![r] = new]
      /\ UNCHANGED <<disk, faulty, index, scan, quiet, settled, gone, hidden>>
  BY DEF FindOld, files, history
<1>2. /\ req[r] \in Req /\ RequestTrue(req[r]) /\ req[r].from \in Paths \union {None}
      /\ index \in [Paths -> Fingerprints]
  BY <1>1, RequestIs DEF Req
<1>3. /\ old \in Fingerprints /\ next \in {"read", "check"}
      /\ next = "check" => req[r].from \in Paths
  BY <1>2, Constants
<1> HIDE DEF old, next
<1>4. new \in Req
  BY <1>2, <1>3 DEF Req, Steps
<1>5. /\ new.pc = next /\ new.path = req[r].path /\ new.book = req[r].book
      /\ new.moved = req[r].moved /\ new.from = req[r].from
  BY <1>2 DEF Req
<1> HIDE DEF new
<1>6. RequestTrue(new)
  BY <1>1, <1>2, <1>3, <1>5 DEF RequestTrue, Left
<1> QED
  BY <1>1, <1>4, <1>6, RequestStep

LEMMA StepCheckGone ==
  ASSUME IInv, NEW r \in Requests, CheckGone(r)
  PROVE  IInv'
<1> DEFINE there == BookOnDisk(req[r].from)
           new == [req[r] EXCEPT !.pc = IF there THEN "read" ELSE "compare",
                                 !.old = IF there THEN None ELSE @]
<1>1. /\ req[r].pc = "check"
      /\ UNCHANGED <<disk, faulty, index, scan, quiet, settled, gone, hidden>>
  BY DEF CheckGone, files, history
<1>2. /\ req[r] \in Req /\ RequestTrue(req[r]) /\ req[r].old \in Fingerprints
      /\ req[r].from \in Paths
  BY <1>1, RequestIs DEF Req, RequestTrue
<1>3. req' = [req EXCEPT ![r] = new]
  BY <1>2 DEF CheckGone, Req
<1>4. ~there => disk[req[r].from] = None
  BY DEF BookOnDisk
<1> HIDE DEF there
<1>5. new \in Req
  BY <1>2, Constants DEF Req, Steps
<1>6. /\ new.pc = IF there THEN "read" ELSE "compare"
      /\ new.path = req[r].path /\ new.book = req[r].book
      /\ new.moved = req[r].moved /\ new.from = req[r].from
  BY <1>2 DEF Req
<1> HIDE DEF new
<1>7. RequestTrue(new)
  BY <1>1, <1>2, <1>4, <1>6 DEF RequestTrue, Left
<1> QED
  BY <1>1, <1>3, <1>5, <1>7, RequestStep

LEMMA StepCompare ==
  ASSUME IInv, NEW r \in Requests, Compare(r)
  PROVE  IInv'
<1> DEFINE book == ContentHash(req[r])
           next == IF book = req[r].old THEN "move" ELSE "read"
           old == IF book = req[r].old THEN req[r].old ELSE None
           new == [req[r] EXCEPT !.pc = next, !.old = old, !.book = book]
<1>1. /\ req[r].pc = "compare"
      /\ UNCHANGED <<disk, faulty, index, scan, quiet, settled, gone, hidden>>
  BY DEF Compare, files, history
<1>2. req[r] \in Req /\ RequestTrue(req[r]) /\ req[r].old \in Fingerprints
  BY <1>1, RequestIs DEF Req
<1>3. req' = [req EXCEPT ![r] = new]
  BY DEF Compare
<1>4. book \in Fingerprints /\ (Calm => book = disk[req[r].path])
  BY <1>1, HashRead
<1>5. next \in {"move", "read"} /\ old \in Fingerprints
  BY <1>2, Constants
<1> HIDE DEF book, next, old
<1>6. new \in Req
  BY <1>2, <1>4, <1>5 DEF Req, Steps
<1>7. /\ new.pc = next /\ new.path = req[r].path /\ new.book = book
      /\ new.moved = req[r].moved /\ new.from = req[r].from
  BY <1>2 DEF Req
<1> HIDE DEF new
<1>8. RequestTrue(new)
  BY <1>1, <1>2, <1>4, <1>5, <1>7 DEF RequestTrue, Left
<1> QED
  BY <1>1, <1>3, <1>6, <1>8, RequestStep

LEMMA StepCarryMove ==
  ASSUME IInv, NEW r \in Requests, CarryMove(r)
  PROVE  IInv'
<1> DEFINE new == [req[r] EXCEPT !.pc = "read", !.moved = TRUE]
<1>1. /\ req[r].pc = "move" /\ req' = [req EXCEPT ![r] = new]
      /\ UNCHANGED <<disk, faulty, index, scan, quiet, settled, gone, hidden>>
  BY DEF CarryMove, files, history
<1>2. req[r] \in Req /\ RequestTrue(req[r])
  BY <1>1, RequestIs
<1>3. new \in Req
  BY <1>2 DEF Req, Steps
<1>4. /\ new.pc = "read" /\ new.path = req[r].path /\ new.book = req[r].book
      /\ new.moved /\ new.from = req[r].from
  BY <1>2 DEF Req
<1> HIDE DEF new
<1>5. RequestTrue(new)
  BY <1>1, <1>2, <1>4 DEF RequestTrue, Left
<1> QED
  BY <1>1, <1>3, <1>5, RequestStep

LEMMA StepEnrich ==
  ASSUME IInv, NEW r \in Requests, Enrich(r)
  PROVE  IInv'
<1> DEFINE book == IF req[r].book = None THEN Fingerprint(req[r].path) ELSE req[r].book
           new == [req[r] EXCEPT !.pc = "index", !.book = book]
<1>1. /\ req[r].pc = "read"
      /\ UNCHANGED <<disk, faulty, index, scan, quiet, settled, gone, hidden>>
  BY DEF Enrich, files, history
<1>2. req[r] \in Req /\ RequestTrue(req[r]) /\ req[r].path \in Paths
  BY <1>1, RequestIs
<1>3. req' = [req EXCEPT ![r] = new]
  BY DEF Enrich
<1>4. /\ Fingerprint(req[r].path) \in Fingerprints
      /\ faulty = {} /\ disk[req[r].path] # None => Fingerprint(req[r].path) = disk[req[r].path]
  BY <1>2, FingerprintRead DEF IInv
<1>5. book \in Fingerprints /\ (Calm => book = disk[req[r].path])
  <2>1. req[r].book \in Fingerprints
    BY <1>2 DEF Req
  <2>2. Calm => faulty = {} /\ disk[req[r].path] # None /\ req[r].book \in {None, disk[req[r].path]}
    BY <1>1, <1>2 DEF RequestTrue, Calm
  <2> QED
    BY <1>4, <2>1, <2>2
<1> HIDE DEF book
<1>6. new \in Req
  BY <1>2, <1>5 DEF Req, Steps
<1>7. /\ new.pc = "index" /\ new.path = req[r].path /\ new.book = book
      /\ new.moved = req[r].moved /\ new.from = req[r].from
  BY <1>2 DEF Req
<1> HIDE DEF new
<1>8. RequestTrue(new)
  BY <1>1, <1>2, <1>5, <1>7 DEF RequestTrue, Left
<1> QED
  BY <1>1, <1>3, <1>6, <1>8, RequestStep

LEMMA StepIndexBook ==
  ASSUME IInv, NEW r \in Requests, IndexBook(r)
  PROVE  IInv'
<1> DEFINE p == req[r].path
           drops == [req[r] EXCEPT !.pc = "drop"]
<1>1. /\ req[r].pc = "index" /\ index' = [index EXCEPT ![p] = req[r].book]
      /\ req' = [req EXCEPT ![r] = IF req[r].moved THEN drops ELSE NoReq]
      /\ UNCHANGED <<disk, faulty, scan, quiet, settled, gone, hidden>>
  BY DEF IndexBook, files
<1>2. req[r] \in Req /\ RequestTrue(req[r])
  BY <1>1, RequestIs
<1>3. PICK q \in Req : req' = [req EXCEPT ![r] = q] /\ RequestTrue(q)
  <2>1. CASE req[r].moved
    <3>1. req' = [req EXCEPT ![r] = drops]
      BY <1>1, <2>1
    <3>2. drops \in Req
      BY <1>2 DEF Req, Steps
    <3>3. /\ drops.pc = "drop" /\ drops.path = p /\ drops.from = req[r].from
          /\ drops.book = req[r].book /\ drops.moved = req[r].moved
      BY <1>2 DEF Req
    <3> HIDE DEF drops
    <3>4. RequestTrue(drops)
      BY <1>1, <1>2, <2>1, <3>3 DEF RequestTrue, Left
    <3> QED
      BY <3>1, <3>2, <3>4
  <2>2. CASE ~req[r].moved
    <3>1. req' = [req EXCEPT ![r] = NoReq]
      BY <1>1, <2>2
    <3> QED
      BY <3>1, RequestOver
  <2> QED
    BY <2>1, <2>2
<1>4. p \in Paths /\ req[r].book \in Fingerprints /\ (Calm => req[r].book = disk[p])
  BY <1>1, <1>2 DEF RequestTrue, Req
<1>5. index' \in [Paths -> Fingerprints] /\ ScanTrue' /\ IndexMatchesDisk'
  BY <1>1, <1>4, RowWritten
<1>6. /\ req' \in [Requests -> Req] /\ WalkInv' /\ LeftInv' /\ FaultSeen'
      /\ RequestsTrue'
  BY <1>1, <1>3, RequestStep
<1>7. Shapes'
  BY <1>1, <1>5, <1>6 DEF IInv, Shapes
<1> QED
  BY <1>5, <1>6, <1>7 DEF IInv

LEMMA StepDeleteBookAt ==
  ASSUME IInv, NEW r \in Requests, DeleteBookAt(r)
  PROVE  IInv'
<1> DEFINE from == req[r].from
<1>1. /\ req[r].pc = "drop"
      /\ index' = [index EXCEPT ![from] = None] /\ req' = [req EXCEPT ![r] = NoReq]
      /\ scan' = IF scan.pc = "delete" THEN [scan EXCEPT !.todo = @ \ {from}] ELSE scan
      /\ UNCHANGED <<disk, faulty, quiet, settled, gone, hidden>>
  BY DEF DeleteBookAt, files
<1>2. req[r] \in Req /\ RequestTrue(req[r])
  BY <1>1, RequestIs
<1>3. from \in Paths /\ (Calm => disk[from] = None)
  BY <1>1, <1>2 DEF RequestTrue, Left
<1> HIDE DEF from
<1>4. /\ scan' \in Scan /\ scan'.pc = scan.pc
      /\ scan'.sigs = scan.sigs /\ scan'.walk = scan.walk /\ scan'.read = scan.read
      /\ scan'.partial = scan.partial /\ scan'.left = scan.left
      /\ scan.pc # "delete" => scan'.todo = scan.todo
      /\ scan'.todo \subseteq scan.todo
      /\ \A q \in scan.todo : q # from => q \in scan'.todo
  BY <1>1, Spared
<1>5. index' \in [Paths -> Fingerprints] /\ ScanTrue' /\ IndexMatchesDisk'
  BY <1>1, <1>3, <1>4, RowWritten, Constants
<1>6. Calm' = Calm
  BY <1>1, <1>4 DEF Calm
<1>7. req' \in [Requests -> Req] /\ RequestsTrue'
  BY <1>1, <1>6, RequestsKept, RequestOver
<1>8. \A q : Visited(q)' = Visited(q)
  BY <1>4 DEF Visited
<1>9. WalkInv'
  BY <1>1, <1>4, <1>8 DEF IInv, WalkInv
<1>10. LeftInv' /\ FaultSeen'
  BY <1>1, <1>4, <1>8 DEF IInv, LeftInv, FaultSeen
<1>11. Shapes'
  BY <1>1, <1>4, <1>5, <1>7 DEF IInv, Shapes
<1> QED
  BY <1>5, <1>7, <1>9, <1>10, <1>11 DEF IInv

LEMMA StepCancel ==
  ASSUME IInv, NEW r \in Requests, Cancel(r)
  PROVE  IInv'
BY RequestStep, RequestOver DEF Cancel, files

-----------------------------------------------------------------------------
(* The theorems.                                                            *)

LEMMA Stutters ==
  ASSUME IInv, UNCHANGED vars
  PROVE  IInv'
<1> USE DEF vars, history
<1>1. Shapes'
  BY DEF IInv, Shapes
<1>2. Calm' = Calm
  BY DEF Calm
<1>3. ScanTrue'
  BY <1>2 DEF IInv, ScanTrue, Visited
<1> QED
  BY <1>1, <1>2, <1>3, Frames DEF IInv

\* The invariant holds in every state of the scan, the requests beside it and the
\* files under both (scanner.go).
THEOREM Inductive == Spec => []IInv
<1>1. IInv /\ [Next]_vars => IInv'
  <2> SUFFICES ASSUME IInv, [Next]_vars PROVE IInv'
    OBVIOUS
  <2>1. CASE \E p, q \in Paths : Move(p, q) \/ Copy(p, q)
    BY <2>1, StepFiles
  <2>2. CASE \E p \in Paths : Remove(p) \/ Fault(p) \/ Heal(p)
    BY <2>2, StepFiles, StepFaults
  <2>3. CASE StartScan \/ EndWalk \/ EndMoves \/ EndIndex \/ LookToPrune \/ Prune \/ Stop
    BY <2>3, StepStartScan, StepEndWalk, StepEndMoves, StepEndIndex, StepLookToPrune,
       StepPrune, StepStop
  <2>4. CASE \E p \in Paths : Visit(p) \/ DetectMove(p) \/ ReadBook(p) \/ WriteBook(p)
    BY <2>4, StepVisit, StepDetectMove, StepReadBook, StepWriteBook
  <2>5. CASE \E r \in Requests, p \in Paths :
               \/ IndexPath(r, p)
               \/ \E from \in Paths \union {None} : IndexMoved(r, p, from)
    BY <2>5, StepIndexPath, StepIndexMoved
  <2>6. CASE \E r \in Requests :
               \/ MoveCandidates(r) \/ MovedFrom(r) \/ FindOld(r) \/ CheckGone(r) \/ Compare(r)
               \/ CarryMove(r) \/ Enrich(r) \/ IndexBook(r) \/ DeleteBookAt(r) \/ Cancel(r)
    BY <2>6, StepMoveCandidates, StepMovedFrom, StepFindOld, StepCheckGone, StepCompare,
       StepCarryMove, StepEnrich, StepIndexBook, StepDeleteBookAt, StepCancel
  <2>7. CASE UNCHANGED vars
    BY <2>7, Stutters
  <2> QED
    BY <2>1, <2>2, <2>3, <2>4, <2>5, <2>6, <2>7 DEF Next
<1> QED
  BY <1>1, InitInv, PTL DEF Spec

\* A scan that ran to its end over files nobody touched leaves exactly the books on
\* disk in the index, whatever came before it or ran beside it (Scan, IndexPath,
\* IndexMoved), and whatever the surroundings did before.
THEOREM IndexIsDisk == Spec => []IndexMatchesDisk
<1>1. IInv => IndexMatchesDisk
  BY DEF IInv
<1> QED
  BY <1>1, Inductive, PTL

\* What changes the files touches neither the scan nor the listeners' state; of a
\* request's steps, only the carry touches the state and only its last the scan.
LEMMA FilesApart ==
  ASSUME NEW p \in Paths,
         \/ \E q \in Paths : Move(p, q) \/ Copy(p, q)
         \/ Remove(p) \/ Fault(p) \/ Heal(p)
  PROVE  UNCHANGED <<scan, at>>
<1>1. ASSUME NEW new, Change(new) PROVE UNCHANGED <<scan, at>>
  BY <1>1 DEF Change
<1>2. ASSUME NEW q \in Paths, Move(p, q) PROVE UNCHANGED <<scan, at>>
  BY <1>1, <1>2 DEF Move
<1>3. ASSUME NEW q \in Paths, Copy(p, q) PROVE UNCHANGED <<scan, at>>
  BY <1>1, <1>3 DEF Copy
<1>4. CASE Remove(p)
  BY <1>1, <1>4 DEF Remove
<1>5. CASE Fault(p) \/ Heal(p)
  BY <1>5 DEF Fault, Heal
<1> QED
  BY <1>2, <1>3, <1>4, <1>5

LEMMA RequestsApart ==
  ASSUME NEW r \in Requests,
         \/ \E p \in Paths :
              IndexPath(r, p) \/ \E from \in Paths \union {None} : IndexMoved(r, p, from)
         \/ MoveCandidates(r) \/ MovedFrom(r) \/ FindOld(r) \/ CheckGone(r) \/ Compare(r)
         \/ Enrich(r) \/ IndexBook(r) \/ Cancel(r)
  PROVE  UNCHANGED <<scan, at>>
<1>1. ASSUME NEW p \in Paths, IndexPath(r, p) PROVE UNCHANGED <<scan, at>>
  BY <1>1 DEF IndexPath, StartRequest
<1>2. ASSUME NEW p \in Paths, NEW from \in Paths \union {None}, IndexMoved(r, p, from)
      PROVE  UNCHANGED <<scan, at>>
  BY <1>2 DEF IndexMoved, StartRequest
<1>3. CASE MoveCandidates(r) \/ MovedFrom(r) \/ FindOld(r) \/ CheckGone(r)
  BY <1>3 DEF MoveCandidates, MovedFrom, FindOld, CheckGone
<1>4. CASE Compare(r) \/ Enrich(r) \/ IndexBook(r) \/ Cancel(r)
  BY <1>4 DEF Compare, Enrich, IndexBook, Cancel
<1> QED
  BY <1>1, <1>2, <1>3, <1>4

LEMMA DropApart ==
  ASSUME IInv, NEW r \in Requests, DeleteBookAt(r)
  PROVE  scan'.pc = scan.pc /\ UNCHANGED at
<1>1. scan' = IF scan.pc = "delete" THEN [scan EXCEPT !.todo = @ \ {req[r].from}] ELSE scan
  BY DEF DeleteBookAt
<1> QED
  BY <1>1, Spared DEF DeleteBookAt

\* A step out of the prune that takes a row took one of a book that was gone.
LEMMA PruneStep ==
  ASSUME IInv, [Next]_vars, scan.pc = "delete", scan'.pc = "idle",
         NEW p \in Paths, index[p] # None, index'[p] = None
  PROVE  p \in gone
<1>1. CASE Prune
  <2>1. p \in scan.todo
    BY <1>1 DEF Prune
  <2> QED
    BY <2>1 DEF IInv, WalkInv, Visited
<1>2. CASE Stop
  BY <1>2 DEF Stop
<1>3. CASE UNCHANGED scan
  BY <1>3
<1>4. CASE \/ StartScan \/ EndWalk \/ EndMoves \/ EndIndex \/ LookToPrune
           \/ \E q \in Paths : Visit(q) \/ DetectMove(q) \/ ReadBook(q) \/ WriteBook(q)
  BY <1>4 DEF StartScan, EndWalk, EndMoves, EndIndex, LookToPrune, Visit, DetectMove,
              ReadBook, WriteBook
<1>5. CASE \/ \E q, t \in Paths : Move(q, t) \/ Copy(q, t)
           \/ \E q \in Paths : Remove(q) \/ Fault(q) \/ Heal(q)
  BY <1>3, <1>5, FilesApart
<1>6. CASE \/ \E r \in Requests, q \in Paths :
                 IndexPath(r, q) \/ \E from \in Paths \union {None} : IndexMoved(r, q, from)
           \/ \E r \in Requests :
                 \/ MoveCandidates(r) \/ MovedFrom(r) \/ FindOld(r) \/ CheckGone(r) \/ Compare(r)
                 \/ Enrich(r) \/ IndexBook(r) \/ Cancel(r)
  BY <1>3, <1>6, RequestsApart
<1>7. CASE \E r \in Requests : CarryMove(r)
  BY <1>3, <1>7 DEF CarryMove
<1>8. CASE \E r \in Requests : DeleteBookAt(r)
  BY <1>8, DropApart
<1>9. UNCHANGED vars => UNCHANGED scan
  BY DEF vars
<1> QED
  BY <1>1, <1>2, <1>3, <1>4, <1>5, <1>6, <1>7, <1>8, <1>9 DEF Next

\* A prune removes no row of a book that was on disk all through its scan, a folder
\* that couldn't be read included (DeleteBooksNotIn after a whole discovery).
THEOREM PrunesGone == Spec => PrunesOnlyGone
<1>1. IInv /\ [Next]_vars =>
        [scan.pc = "delete" /\ scan'.pc = "idle" =>
           \A p \in Paths : index[p] # None /\ index'[p] = None => p \in gone]_vars
  BY PruneStep
<1> QED
  BY <1>1, Inductive, PTL DEF Spec, PrunesOnlyGone

\* A request whose path to carry from is empty, or was when it looked, is away.
Away(q, r) ==
    /\ q.from \in Paths /\ disk[q.from] = None => r \in away
    /\ q.pc \in {"compare", "move"} => r \in away

AwayInv == \A r \in Requests : Away(req[r], r)

\* One request goes on, none is forgotten.
LEMMA AwayKept ==
  ASSUME IInv, AwayInv, NEW r \in Requests, NEW q, req' = [req EXCEPT ![r] = q],
         UNCHANGED disk, away \ {r} \subseteq away',
         q.from \in Paths /\ disk[q.from] = None => r \in away',
         q.pc \in {"compare", "move"} => r \in away'
  PROVE  AwayInv'
<1> SUFFICES ASSUME NEW o \in Requests PROVE Away(req[o], o)'
  BY DEF AwayInv
<1>1. CASE o = r
  <2>1. req'[o] = q
    BY <1>1 DEF IInv, Shapes
  <2> QED
    BY <1>1, <2>1 DEF Away
<1>2. CASE o # r
  <2>1. req'[o] = req[o] /\ Away(req[o], o)
    BY <1>2 DEF IInv, Shapes, AwayInv
  <2> QED
    BY <1>2, <2>1 DEF Away
<1> QED
  BY <1>1, <1>2

LEMMA NotAway == NoReq.from \notin Paths /\ NoReq.pc \notin {"compare", "move"}
BY NoRequest, Constants

LEMMA AwayFiles ==
  ASSUME IInv, AwayInv, NEW p \in Paths,
         \/ \E q \in Paths : Move(p, q) \/ Copy(p, q)
         \/ Remove(p) \/ Fault(p) \/ Heal(p)
  PROVE  AwayInv'
<1>1. ASSUME NEW new, Change(new) PROVE AwayInv'
  <2>1. /\ disk' = new /\ UNCHANGED req
        /\ away' = away \union {r \in Requests : req[r].from # None /\ new[req[r].from] = None}
    BY <1>1 DEF Change
  <2> SUFFICES ASSUME NEW r \in Requests PROVE Away(req[r], r)'
    BY DEF AwayInv
  <2>2. Away(req[r], r)
    BY DEF AwayInv
  <2> QED
    BY <2>1, <2>2, Constants DEF Away
<1>2. ASSUME NEW q \in Paths, Move(p, q) \/ Copy(p, q) PROVE AwayInv'
  BY <1>1, <1>2 DEF Move, Copy
<1>3. CASE Remove(p)
  BY <1>1, <1>3 DEF Remove
<1>4. CASE Fault(p) \/ Heal(p)
  BY <1>4 DEF Fault, Heal, AwayInv, Away
<1> QED
  BY <1>2, <1>3, <1>4

LEMMA AwayStart ==
  ASSUME IInv, AwayInv, NEW r \in Requests, NEW q \in Req, StartRequest(r, q),
         q.pc \in {"find", "carry"}
  PROVE  AwayInv'
<1>1. /\ req' = [req EXCEPT ![r] = q] /\ UNCHANGED disk
      /\ away' = IF Empty(q.from) THEN away \union {r} ELSE away
  BY DEF StartRequest, files
<1>2. /\ q.from \in Paths /\ disk[q.from] = None => r \in away'
      /\ q.pc \in {"compare", "move"} => r \in away'
  BY <1>1, Constants DEF Away, Empty
<1> QED
  BY <1>1, <1>2, AwayKept

LEMMA AwayRequest ==
  ASSUME IInv, AwayInv, NEW r \in Requests,
         \/ MoveCandidates(r) \/ MovedFrom(r) \/ FindOld(r) \/ CheckGone(r) \/ Compare(r)
         \/ CarryMove(r) \/ Enrich(r) \/ IndexBook(r) \/ DeleteBookAt(r) \/ Cancel(r)
  PROVE  AwayInv'
<1>1. Away(req[r], r) /\ req[r] \in Req
  BY DEF AwayInv, IInv, Shapes
<1>2. CASE MoveCandidates(r) \/ FindOld(r) \/ Compare(r) \/ CarryMove(r) \/ Enrich(r)
  <2>1. PICK q : /\ req' = [req EXCEPT ![r] = q] /\ UNCHANGED <<disk, away>>
                 /\ q.from = req[r].from
                 /\ q.pc \in {"compare", "move"} => req[r].pc \in {"compare", "move"}
    <3>1. CASE MoveCandidates(r)
      <4> DEFINE q(rows) == [req[r] EXCEPT !.pc = "look", !.book = ContentHash(req[r]), !.rows = rows]
      <4>1. PICK rows : req' = [req EXCEPT ![r] = q(rows)]
        BY <3>1 DEF MoveCandidates
      <4>2. q(rows).from = req[r].from /\ q(rows).pc = "look"
        BY <1>1 DEF Req
      <4>3. UNCHANGED <<disk, away>>
        BY <3>1 DEF MoveCandidates, files, history
      <4> HIDE DEF q
      <4> QED
        BY <4>1, <4>2, <4>3
    <3>2. CASE FindOld(r)
      <4> DEFINE old == IF req[r].from = None THEN None ELSE index[req[r].from]
                 q == [req[r] EXCEPT !.pc = IF old = None THEN "read" ELSE "check", !.old = old]
      <4>1. req' = [req EXCEPT ![r] = q] /\ UNCHANGED <<disk, away>>
        BY <3>2 DEF FindOld, files, history
      <4> HIDE DEF old
      <4>2. q.from = req[r].from /\ q.pc \in {"read", "check"}
        BY <1>1 DEF Req
      <4> HIDE DEF q
      <4> QED
        BY <4>1, <4>2
    <3>3. CASE Compare(r)
      <4> DEFINE book == ContentHash(req[r])
                 old == IF book = req[r].old THEN req[r].old ELSE None
                 next == IF book = req[r].old THEN "move" ELSE "read"
                 q == [req[r] EXCEPT !.pc = next, !.old = old, !.book = book]
      <4>1. req' = [req EXCEPT ![r] = q] /\ UNCHANGED <<disk, away>> /\ req[r].pc = "compare"
        BY <3>3 DEF Compare, files, history
      <4> HIDE DEF book, old, next
      <4>2. q.from = req[r].from
        BY <1>1 DEF Req
      <4> HIDE DEF q
      <4> QED
        BY <4>1, <4>2
    <3>4. CASE CarryMove(r)
      <4> DEFINE q == [req[r] EXCEPT !.pc = "read", !.moved = TRUE]
      <4>1. req' = [req EXCEPT ![r] = q] /\ UNCHANGED <<disk, away>>
        BY <3>4 DEF CarryMove, files, history
      <4>2. q.from = req[r].from /\ q.pc = "read"
        BY <1>1 DEF Req
      <4> HIDE DEF q
      <4> QED
        BY <4>1, <4>2
    <3>5. CASE Enrich(r)
      <4> DEFINE book == IF req[r].book = None THEN Fingerprint(req[r].path) ELSE req[r].book
                 q == [req[r] EXCEPT !.pc = "index", !.book = book]
      <4>1. req' = [req EXCEPT ![r] = q] /\ UNCHANGED <<disk, away>>
        BY <3>5 DEF Enrich, files, history
      <4> HIDE DEF book
      <4>2. q.from = req[r].from /\ q.pc = "index"
        BY <1>1 DEF Req
      <4> HIDE DEF q
      <4> QED
        BY <4>1, <4>2
    <3> QED
      BY <1>2, <3>1, <3>2, <3>3, <3>4, <3>5
  <2>2. /\ q.from \in Paths /\ disk[q.from] = None => r \in away'
        /\ q.pc \in {"compare", "move"} => r \in away'
    BY <1>1, <2>1 DEF Away
  <2> QED
    BY <2>1, <2>2, AwayKept
<1>3. CASE MovedFrom(r)
  <2>1. PICK from : /\ req' = [req EXCEPT ![r] = [req[r] EXCEPT !.pc = "carry", !.rows = {}, !.from = from]]
                    /\ away' = IF Empty(from) THEN away \union {r} ELSE away
    BY <1>3 DEF MovedFrom
  <2> DEFINE q == [req[r] EXCEPT !.pc = "carry", !.rows = {}, !.from = from]
  <2>2. q.pc = "carry" /\ q.from = from /\ UNCHANGED disk
    BY <1>1, <1>3 DEF Req, MovedFrom, files
  <2>3. req' = [req EXCEPT ![r] = q]
    BY <2>1
  <2> HIDE DEF q
  <2>4. /\ q.from \in Paths /\ disk[q.from] = None => r \in away'
        /\ q.pc \in {"compare", "move"} => r \in away'
    BY <2>1, <2>2, Constants DEF Away, Empty
  <2> QED
    BY <2>1, <2>2, <2>3, <2>4, AwayKept
<1>4. CASE CheckGone(r)
  <2> DEFINE q == IF BookOnDisk(req[r].from) THEN [req[r] EXCEPT !.pc = "read", !.old = None]
                  ELSE [req[r] EXCEPT !.pc = "compare"]
  <2>1. /\ req[r].pc = "check" /\ UNCHANGED <<disk, away>>
        /\ req' = [req EXCEPT ![r] = q]
    BY <1>4 DEF CheckGone, files, history
  <2>2. /\ q.from = req[r].from
        /\ BookOnDisk(req[r].from) => q.pc = "read"
    BY <1>1 DEF Req
  <2> HIDE DEF q
  <2>3. ~BookOnDisk(req[r].from) => disk[req[r].from] = None /\ req[r].from \in Paths
    BY <2>1 DEF BookOnDisk, IInv, RequestsTrue, RequestTrue
  <2>4. /\ q.from \in Paths /\ disk[q.from] = None => r \in away'
        /\ q.pc \in {"compare", "move"} => r \in away'
    BY <1>1, <2>1, <2>2, <2>3 DEF Away
  <2> QED
    BY <2>1, <2>4, AwayKept
<1>5. CASE IndexBook(r)
  <2> DEFINE q == [req[r] EXCEPT !.pc = "drop"]
  <2>1. CASE req[r].moved
    <3>1. req' = [req EXCEPT ![r] = q] /\ UNCHANGED <<disk, away>>
      BY <1>5, <2>1 DEF IndexBook, files
    <3>2. q.from = req[r].from /\ q.pc = "drop"
      BY <1>1 DEF Req
    <3> HIDE DEF q
    <3>3. /\ q.from \in Paths /\ disk[q.from] = None => r \in away'
          /\ q.pc \in {"compare", "move"} => r \in away'
      BY <1>1, <3>1, <3>2 DEF Away
    <3> QED
      BY <3>1, <3>3, AwayKept
  <2>2. CASE ~req[r].moved
    <3>1. req' = [req EXCEPT ![r] = NoReq] /\ UNCHANGED disk /\ away' = away \ {r}
      BY <1>5, <2>2 DEF IndexBook, files
    <3> QED
      BY <3>1, NotAway, AwayKept
  <2> QED
    BY <2>1, <2>2
<1>6. CASE DeleteBookAt(r) \/ Cancel(r)
  <2>1. req' = [req EXCEPT ![r] = NoReq] /\ UNCHANGED disk /\ away' = away \ {r}
    BY <1>6 DEF DeleteBookAt, Cancel, files
  <2> QED
    BY <2>1, NotAway, AwayKept
<1> QED
  BY <1>2, <1>3, <1>4, <1>5, <1>6

LEMMA AwayNext == ASSUME IInv, AwayInv, [Next]_vars PROVE AwayInv'
<1>1. CASE UNCHANGED <<disk, req, away>>
  BY <1>1 DEF AwayInv, Away
<1>2. CASE StartScan \/ EndWalk \/ EndMoves \/ EndIndex \/ LookToPrune \/ Prune \/ Stop
  BY <1>1, <1>2 DEF StartScan, EndWalk, EndMoves, EndIndex, LookToPrune, Prune, Stop,
                    files, history
<1>3. CASE \E p \in Paths : Visit(p) \/ DetectMove(p) \/ ReadBook(p) \/ WriteBook(p)
  BY <1>1, <1>3 DEF Visit, DetectMove, ReadBook, WriteBook, files, history
<1>4. CASE \/ \E p, q \in Paths : Move(p, q) \/ Copy(p, q)
           \/ \E p \in Paths : Remove(p) \/ Fault(p) \/ Heal(p)
  BY <1>4, AwayFiles
<1>5. ASSUME NEW r \in Requests, NEW p \in Paths, IndexPath(r, p) PROVE AwayInv'
  <2> DEFINE q == [NoReq EXCEPT !.pc = "find", !.path = p, !.shared = TRUE]
  <2>1. StartRequest(r, q)
    BY <1>5 DEF IndexPath
  <2>2. q \in Req /\ q.pc = "find"
    BY Constants DEF NoReq, Req, Steps
  <2> HIDE DEF q
  <2> QED
    BY <2>1, <2>2, AwayStart
<1>6. ASSUME NEW r \in Requests, NEW p \in Paths, NEW from \in Paths \union {None},
             IndexMoved(r, p, from)
      PROVE  AwayInv'
  <2> DEFINE q == [NoReq EXCEPT !.pc = "carry", !.path = p, !.from = from]
  <2>1. StartRequest(r, q)
    BY <1>6 DEF IndexMoved
  <2>2. q \in Req /\ q.pc = "carry"
    BY Constants DEF NoReq, Req, Steps
  <2> HIDE DEF q
  <2> QED
    BY <2>1, <2>2, AwayStart
<1>7. CASE \E r \in Requests :
             \/ MoveCandidates(r) \/ MovedFrom(r) \/ FindOld(r) \/ CheckGone(r) \/ Compare(r)
             \/ CarryMove(r) \/ Enrich(r) \/ IndexBook(r) \/ DeleteBookAt(r) \/ Cancel(r)
  BY <1>7, AwayRequest
<1>8. CASE UNCHANGED vars
  BY <1>1, <1>8 DEF vars, history
<1> QED
  BY <1>2, <1>3, <1>4, <1>5, <1>6, <1>7, <1>8 DEF Next

\* A step that carries a book's state away from a path is one of a request that is
\* away, or of a scan whose walk missed the path.
LEMMA CarryStep ==
  ASSUME IInv, AwayInv, [Next]_vars, NEW b \in Books, at'[b] # at[b]
  PROVE  \/ \E r \in away : req'[r] # req[r] /\ req[r].from = at[b]
         \/ scan' # scan /\ at[b] \in gone \union hidden
<1>1. CASE \E p \in Paths : DetectMove(p)
  <2>1. PICK p \in Paths : DetectMove(p)
    BY <1>1
  <2>2. PICK q \in scan.left : MoveDurableState(q, p)
    BY <2>1 DEF DetectMove
  <2>3. at[b] = q
    BY <2>2 DEF MoveDurableState
  <2>4. scan \in Scan /\ q \in Paths
    BY DEF IInv, Shapes, Scan
  <2>5. q \in gone \union hidden
    BY <2>4 DEF IInv, LeftInv, WalkInv
  <2>6. scan' # scan
    <3>1. p \in scan.todo /\ scan'.todo = scan.todo \ {p}
      BY <2>1, <2>4 DEF DetectMove, Scan
    <3> QED
      BY <3>1
  <2> QED
    BY <2>3, <2>5, <2>6
<1>2. CASE \E r \in Requests : CarryMove(r)
  <2>1. PICK r \in Requests : CarryMove(r)
    BY <1>2
  <2>2. at[b] = req[r].from
    BY <2>1 DEF CarryMove, MoveDurableState
  <2>3. r \in away
    BY <2>1 DEF CarryMove, AwayInv, Away
  <2>4. req'[r] # req[r]
    <3> DEFINE q == [req[r] EXCEPT !.pc = "read", !.moved = TRUE]
    <3>1. req[r] \in Req /\ req[r].pc = "move" /\ req' = [req EXCEPT ![r] = q]
      BY <2>1 DEF CarryMove, IInv, Shapes
    <3>2. q.pc = "read"
      BY <3>1 DEF Req
    <3> HIDE DEF q
    <3> QED
      BY <3>1, <3>2 DEF IInv, Shapes
  <2> QED
    BY <2>2, <2>3, <2>4
<1>3. CASE UNCHANGED at
  BY <1>3
<1>4. CASE StartScan \/ EndWalk \/ EndMoves \/ EndIndex \/ LookToPrune \/ Prune \/ Stop
  BY <1>3, <1>4 DEF StartScan, EndWalk, EndMoves, EndIndex, LookToPrune, Prune, Stop
<1>5. CASE \E q \in Paths : Visit(q) \/ ReadBook(q) \/ WriteBook(q)
  BY <1>3, <1>5 DEF Visit, ReadBook, WriteBook
<1>6. CASE \/ \E q, t \in Paths : Move(q, t) \/ Copy(q, t)
           \/ \E q \in Paths : Remove(q) \/ Fault(q) \/ Heal(q)
  BY <1>3, <1>6, FilesApart
<1>7. CASE \/ \E r \in Requests, q \in Paths :
                 IndexPath(r, q) \/ \E from \in Paths \union {None} : IndexMoved(r, q, from)
           \/ \E r \in Requests :
                 \/ MoveCandidates(r) \/ MovedFrom(r) \/ FindOld(r) \/ CheckGone(r) \/ Compare(r)
                 \/ Enrich(r) \/ IndexBook(r) \/ Cancel(r)
  BY <1>3, <1>7, RequestsApart
<1>8. CASE \E r \in Requests : DeleteBookAt(r)
  BY <1>3, <1>8, DropApart
<1>9. UNCHANGED vars => UNCHANGED at
  BY DEF vars
<1> QED
  BY <1>1, <1>2, <1>3, <1>4, <1>5, <1>6, <1>7, <1>8, <1>9 DEF Next

\* State is carried away from a path only by a request that knew the path while it was
\* without its book, or by a scan during which it was, or could not be read: a path
\* that can't be checked keeps its state from a request (bookOnDisk, detectMoves).
THEOREM CarriesFromGone == Spec => PresentKeepsState
<1>1. Init => AwayInv
  BY NoRequest, Constants DEF Init, AwayInv, Away
<1>2. IInv /\ AwayInv /\ [Next]_vars => AwayInv'
  BY AwayNext
<1>3. IInv /\ AwayInv /\ [Next]_vars =>
        [\A b \in Books : at'[b] # at[b] =>
           \/ \E r \in away : req'[r] # req[r] /\ req[r].from = at[b]
           \/ scan' # scan /\ at[b] \in gone \union hidden]_vars
  BY CarryStep
<1> QED
  BY <1>1, <1>2, <1>3, Inductive, PTL DEF Spec, PresentKeepsState

-----------------------------------------------------------------------------
(* The listeners' state, when nothing of Wild happens.                      *)

Here(b) == \E p \in Paths : disk[p] = b

\* The book is on disk, and its state is not where it is.
Stray(b) == Here(b) /\ disk[at[b]] # b

\* Every row and every path the state is on is a book's, and a folder that can't be
\* read is there.
Plain ==
    /\ at \in [Books -> Paths]
    /\ index \in [Paths -> Books \union {None}]
    /\ scan.sigs \in [Paths -> Books \union {None}]
    /\ scan.read \in [Paths -> Books \union {None}]
    /\ \A p \in faulty : disk[p] # None

\* What a request is to read is there, and what it carries is its book's.
Reads(q) ==
    /\ q.path \in Paths /\ disk[q.path] # None /\ q.path \notin faulty
    /\ q.book \in {None, disk[q.path]}
    /\ q.pc \in {"index", "drop"} => q.book = disk[q.path]
    /\ q.pc \in {"find", "look"} => q.old = None
    /\ q.pc = "move" \/ q.moved => q.old = disk[q.path]

RequestReads == \A r \in Requests : req[r].pc # "idle" => Reads(req[r])

\* What the scan is to read is there, as the walk found it.
ScanReads ==
    \A p \in Paths :
        /\ scan.pc = "walk" => scan.walk[p] \in {None, disk[p]}
        /\ scan.pc = "walk" /\ p \notin scan.todo => scan.walk[p] = disk[p] \/ scan.partial
        /\ scan.pc \in {"walk", "moves"} /\ scan.walk[p] \notin {None, scan.sigs[p]} =>
              scan.walk[p] = disk[p] /\ p \notin faulty
        /\ scan.pc = "moves" /\ p \in scan.todo =>
              scan.walk[p] # None /\ scan.sigs[p] = None
        /\ scan.pc = "index" /\ p \in scan.todo =>
              /\ scan.walk[p] \notin {None, scan.sigs[p]}
              /\ scan.walk[p] = disk[p] /\ p \notin faulty

\* The book is, or was, known at the path.
Mark(p, b) ==
    \/ b \in {disk[p], index[p], scan.sigs[p], scan.read[p]}
    \/ at[b] = p
    \/ \E r \in Requests : req[r].from = p /\ req[r].old = b

\* One book is known at a path.
OneBook == \A p \in Paths, b, c \in Books : Mark(p, b) /\ Mark(p, c) => b = c

\* A walk that is over found every book on disk somewhere, unless it was partial.
BooksSeen ==
    scan.pc \in {"moves", "index", "prune", "delete"} =>
        \A b \in Books : Here(b) => scan.partial \/ \E x \in Paths : scan.walk[x] = b

\* The only row of a stray book is where its state is ...
StrayRow ==
    \A b \in Books : Stray(b) =>
        index[at[b]] = b /\ \A x \in Paths \ {at[b]} : index[x] # b

\* ... and a scan sees it there and nowhere else, so that it takes every other path
\* of the book for new, and has yet to carry the state or keeps the row.
StrayScanned(b) ==
    /\ \A x \in Paths \ {at[b]} : b # scan.sigs[x] /\ b # scan.read[x]
    /\ scan.pc = "walk" => scan.sigs[at[b]] = b
    /\ scan.pc = "moves" =>
          /\ \A x \in Paths \ {at[b]} : scan.walk[x] = b =>
                x \in scan.todo /\ at[b] \in scan.left /\ scan.sigs[at[b]] = b
          /\ \/ scan.walk[at[b]] # None \/ scan.partial
             \/ \E x \in Paths \ {at[b]} : scan.walk[x] = b
    /\ scan.pc = "index" => \A x \in scan.todo : disk[x] # b
    /\ scan.pc \in {"index", "prune", "delete"} => scan.walk[at[b]] # None \/ scan.partial

StrayScan == \A b \in Books : Stray(b) => StrayScanned(b)

\* A request for a stray book is to carry its state from where it is, and has done so
\* before it writes.
Carries(q, b) ==
    /\ q.pc = "look" => q.rows = {at[b]}
    /\ q.pc \in {"carry", "check", "compare", "move"} => q.from = at[b]
    /\ q.pc \in {"check", "compare", "move"} => q.old = b
    /\ q.pc \notin {"read", "index", "drop"}

StrayReq ==
    \A r \in Requests, b \in Books :
        req[r].pc # "idle" /\ b = disk[req[r].path] /\ Stray(b) => Carries(req[r], b)

SInv == /\ Plain /\ RequestReads /\ ScanReads /\ OneBook /\ BooksSeen
        /\ StrayRow /\ StrayScan /\ StrayReq /\ StateWithBook

LEMMA InitState == Init => SInv
<1> SUFFICES ASSUME Init PROVE SInv
  OBVIOUS
<1>1. IInv
  BY InitInv
<1>2. \A b \in Books : \E p \in Paths : disk[p] = b
  <2> SUFFICES ASSUME NEW b \in Books, ~\E p \in Paths : disk[p] = b PROVE FALSE
    OBVIOUS
  <2>1. {p \in Paths : disk[p] = b} = {}
    OBVIOUS
  <2>2. Cardinality({p \in Paths : disk[p] = b}) = 1
    BY DEF Init
  <2> QED
    BY <2>1, <2>2, FS_EmptySet
<1>3. at \in [Books -> Paths] /\ \A b \in Books : disk[at[b]] = b
  BY <1>2 DEF Init
<1>4. \A b \in Books : ~Stray(b)
  BY <1>3 DEF Stray
<1>5. scan.pc = "idle" /\ scan.sigs = Nowhere /\ scan.read = Nowhere
  BY DEF Init, Idle
<1>6. \A r \in Requests : req[r].pc = "idle" /\ req[r].from = None
  BY DEF Init, NoReq
<1>7. Plain
  BY <1>1, <1>3, <1>5, Constants DEF Init, IInv, Shapes, Plain, Nowhere
<1>8. OneBook
  <2> SUFFICES ASSUME NEW p \in Paths, NEW b \in Books, Mark(p, b) PROVE disk[p] = b
    BY DEF OneBook
  <2>1. index = disk /\ scan.sigs[p] = None /\ scan.read[p] = None
    BY <1>5, Constants DEF Init
  <2> QED
    BY <1>3, <1>6, <2>1, Constants DEF Mark
<1>9. RequestReads /\ ScanReads /\ BooksSeen
  BY <1>5, <1>6 DEF RequestReads, ScanReads, BooksSeen
<1>10. StateWithBook
  BY <1>3 DEF StateWithBook
<1>11. StrayRow /\ StrayScan /\ StrayReq
  BY <1>4 DEF StrayRow, StrayScan, StrayReq
<1> QED
  BY <1>7, <1>8, <1>9, <1>10, <1>11 DEF SInv

\* A step over untouched files that makes no book known at a path where it was not.
LEMMA MarksKept ==
  ASSUME OneBook, \A p \in Paths, b \in Books : Mark(p, b)' => Mark(p, b)
  PROVE  OneBook'
BY DEF OneBook

\* The home of a stray book is empty.
LEMMA StrayHome ==
  ASSUME IInv, SInv, NEW b \in Books, Stray(b)
  PROVE  at[b] \in Paths /\ disk[at[b]] = None /\ at[b] \notin faulty
<1>1. at[b] \in Paths /\ disk[at[b]] \in Books \union {None} /\ disk[at[b]] # b
  BY DEF IInv, Shapes, SInv, Plain, Stray
<1>2. disk[at[b]] = None
  BY <1>1 DEF SInv, OneBook, Mark
<1>3. at[b] \notin faulty
  BY <1>2 DEF SInv, Plain
<1> QED
  BY <1>1, <1>2, <1>3

\* ... and later steps of the scan do not change what its walk found.
LEMMA SeenKept ==
  ASSUME BooksSeen, UNCHANGED disk, scan.pc \in {"moves", "index", "prune", "delete"},
         scan'.walk = scan.walk, scan'.partial = scan.partial
  PROVE  BooksSeen'
BY DEF BooksSeen, Here

\* A step of the scan alone.
LEMMA ScanStep ==
  ASSUME IInv, SInv, UNCHANGED <<disk, faulty, index, at, req, settled>>,
         scan'.sigs \in [Paths -> Books \union {None}],
         scan'.read \in [Paths -> Books \union {None}],
         \A p \in Paths : {scan'.sigs[p], scan'.read[p]} \subseteq
             {None, disk[p], index[p], scan.sigs[p], scan.read[p]},
         ScanReads', BooksSeen',
         \A b \in Books : Stray(b) => StrayScanned(b)'
  PROVE  SInv'
<1>1. Plain'
  BY DEF SInv, Plain
<1>2. RequestReads' /\ StateWithBook'
  BY DEF SInv, RequestReads, Here, StateWithBook, Reads
<1>3. \A b \in Books : Stray(b)' <=> Stray(b)
  BY DEF Stray, Here
<1>4. StrayRow' /\ StrayReq'
  BY <1>3 DEF SInv, StrayRow, StrayReq, Carries
<1>5. StrayScan'
  BY <1>3 DEF StrayScan
<1>6. OneBook'
  <2>1. \A p \in Paths, b \in Books : Mark(p, b)' => Mark(p, b)
    BY Constants DEF Mark
  <2> QED
    BY <2>1, MarksKept DEF SInv
<1> QED
  BY <1>1, <1>2, <1>4, <1>5, <1>6 DEF SInv

LEMMA ScanOverState ==
  ASSUME IInv, SInv, UNCHANGED <<disk, faulty, index, at, req, settled>>, scan' = Idle
  PROVE  SInv'
<1>1. scan'.pc = "idle" /\ scan'.sigs = Nowhere /\ scan'.read = Nowhere
  BY DEF Idle
<1>2. /\ Nowhere \in [Paths -> Books \union {None}]
      /\ \A p \in Paths : Nowhere[p] = None
  BY DEF Nowhere
<1>3. ScanReads'
  BY <1>1 DEF ScanReads
<1>4. BooksSeen'
  BY <1>1 DEF BooksSeen
<1>5. \A b \in Books : Stray(b) => StrayScanned(b)'
  BY <1>1, <1>2, Constants DEF StrayScanned
<1> QED
  BY <1>1, <1>2, <1>3, <1>4, <1>5, ScanStep

LEMMA StateStop == ASSUME IInv, SInv, Stop PROVE SInv'
BY ScanOverState DEF Stop, files, history

LEMMA StateStartScan == ASSUME IInv, SInv, StartScan PROVE SInv'
<1>1. UNCHANGED <<disk, faulty, index, at, req, settled>>
  BY DEF StartScan, files, history
<1>2. /\ scan'.pc = "walk" /\ scan'.sigs = index /\ scan'.read = Nowhere
      /\ scan'.walk = Nowhere /\ scan'.todo = Paths
  BY DEF StartScan, Idle
<1>3. /\ Nowhere \in [Paths -> Books \union {None}]
      /\ \A p \in Paths : Nowhere[p] = None
  BY DEF Nowhere
<1>4. ScanReads'
  BY <1>2, <1>3 DEF ScanReads
<1>5. BooksSeen'
  BY <1>2 DEF BooksSeen
<1>6. \A b \in Books : Stray(b) => StrayScanned(b)'
  BY <1>1, <1>2, <1>3, Constants DEF StrayScanned, SInv, StrayRow
<1>7. index \in [Paths -> Books \union {None}]
  BY DEF SInv, Plain
<1> QED
  BY <1>1, <1>2, <1>3, <1>4, <1>5, <1>6, <1>7, ScanStep

LEMMA StateVisit == ASSUME IInv, SInv, NEW p \in Paths, Visit(p) PROVE SInv'
<1> DEFINE seen == IF p \in faulty THEN None ELSE disk[p]
<1>1. UNCHANGED <<disk, faulty, index, at, req, settled>>
  BY DEF Visit, files, history
<1>2. /\ scan \in Scan /\ scan.pc = "walk" /\ p \in scan.todo
      /\ scan' = [scan EXCEPT !.todo = @ \ {p}, !.partial = @ \/ p \in faulty, !.walk[p] = seen]
  BY DEF Visit, IInv, Shapes
<1>3. seen \in {None, disk[p]} /\ (seen = disk[p] \/ p \in faulty) /\ (seen # None => p \notin faulty)
  OBVIOUS
<1> HIDE DEF seen
<1>4. /\ scan'.pc = "walk" /\ scan'.todo = scan.todo \ {p}
      /\ scan'.sigs = scan.sigs /\ scan'.read = scan.read
  BY <1>2 DEF Scan
<1>5. scan'.partial <=> (scan.partial \/ p \in faulty)
  BY <1>2 DEF Scan
<1>6. scan'.walk = [scan.walk EXCEPT ![p] = seen] /\ scan.walk \in [Paths -> Fingerprints]
  BY <1>2 DEF Scan
<1>7. /\ scan'.walk[p] = seen
      /\ \A x \in Paths \ {p} : scan'.walk[x] = scan.walk[x]
  BY <1>6
<1>8. ScanReads'
  <2> SUFFICES ASSUME NEW x \in Paths
               PROVE  /\ scan'.walk[x] \in {None, disk[x]}
                      /\ x \notin scan'.todo => scan'.walk[x] = disk[x] \/ scan'.partial
                      /\ scan'.walk[x] \notin {None, scan'.sigs[x]} =>
                            scan'.walk[x] = disk[x] /\ x \notin faulty
    BY <1>1, <1>4 DEF ScanReads
  <2>1. CASE x = p
    BY <1>3, <1>5, <1>7, <2>1
  <2>2. CASE x # p
    BY <1>2, <1>4, <1>5, <1>7, <2>2 DEF SInv, ScanReads
  <2> QED
    BY <2>1, <2>2
<1>9. BooksSeen'
  BY <1>4 DEF BooksSeen
<1>10. \A b \in Books : Stray(b) => StrayScanned(b)'
  BY <1>1, <1>2, <1>4 DEF StrayScanned, SInv, StrayScan
<1>11. scan.sigs \in [Paths -> Books \union {None}] /\ scan.read \in [Paths -> Books \union {None}]
  BY DEF SInv, Plain
<1> QED
  BY <1>1, <1>4, <1>8, <1>9, <1>10, <1>11, ScanStep

\* A stray book is new wherever the walk found it, and disappeared from its home.
LEMMA StateEndWalk == ASSUME IInv, SInv, EndWalk PROVE SInv'
<1> DEFINE miss == {p \in Indexed \ Found : scan.sigs[p] # Unread}
<1>1. UNCHANGED <<disk, faulty, index, at, req, settled>>
  BY DEF EndWalk, files, history
<1>2. CASE Found = {} /\ Indexed # {}
  BY <1>1, <1>2, ScanOverState DEF EndWalk
<1>3. CASE ~(Found = {} /\ Indexed # {})
  <2>1. /\ scan \in Scan /\ scan.pc = "walk" /\ scan.todo = {}
        /\ scan' = [scan EXCEPT !.pc = "moves", !.todo = Found \ Indexed, !.left = miss]
    BY <1>3 DEF EndWalk, IInv, Shapes
  <2>2. \A p \in Paths :
           /\ p \in Found \ Indexed <=> scan.walk[p] # None /\ scan.sigs[p] = None
           /\ p \in miss <=> scan.walk[p] = None /\ scan.sigs[p] \notin {None, Unread}
    BY DEF Found, Indexed
  <2> HIDE DEF miss
  <2>3. /\ scan'.pc = "moves" /\ scan'.todo = Found \ Indexed /\ scan'.left = miss
        /\ scan'.sigs = scan.sigs /\ scan'.read = scan.read /\ scan'.walk = scan.walk
        /\ scan'.partial = scan.partial
    BY <2>1 DEF Scan
  <2>4. /\ scan.sigs \in [Paths -> Books \union {None}]
        /\ scan.read \in [Paths -> Books \union {None}]
        /\ \A p \in Paths : disk[p] \in Books \union {None}
    BY DEF SInv, Plain, IInv, Shapes
  <2>5. ScanReads'
    BY <1>1, <2>1, <2>2, <2>3 DEF SInv, ScanReads
  <2>6. BooksSeen'
    BY <1>1, <2>1, <2>3 DEF SInv, ScanReads, BooksSeen, Here
  <2>7. ASSUME NEW b \in Books, Stray(b) PROVE StrayScanned(b)'
    <3>1. at[b] \in Paths /\ disk[at[b]] = None
      BY <2>7, StrayHome
    <3>2. /\ \A x \in Paths \ {at[b]} : b # scan.sigs[x] /\ b # scan.read[x]
          /\ scan.sigs[at[b]] = b
      BY <2>1, <2>7 DEF SInv, StrayScan, StrayScanned
    <3>3. at[b] \in miss
      <4>1. scan.walk[at[b]] = None
        BY <2>1, <3>1 DEF SInv, ScanReads
      <4> QED
        BY <2>2, <3>1, <3>2, <4>1, Constants
    <3>4. ASSUME NEW x \in Paths \ {at[b]}, scan.walk[x] = b PROVE x \in Found \ Indexed
      <4>1. disk[x] = b
        BY <2>1, <3>4, Constants DEF SInv, ScanReads
      <4>2. scan.sigs[x] \in Books => scan.sigs[x] = b
        BY <4>1 DEF SInv, OneBook, Mark
      <4>3. scan.sigs[x] = None
        BY <2>4, <3>2, <4>2
      <4> QED
        BY <2>2, <3>4, <4>3, Constants
    <3>5. scan.partial \/ \E x \in Paths \ {at[b]} : scan.walk[x] = b
      <4>1. PICK x \in Paths : disk[x] = b
        BY <2>7 DEF Stray, Here
      <4>2. x # at[b]
        BY <3>1, <4>1, Constants
      <4> QED
        BY <2>1, <4>1, <4>2 DEF SInv, ScanReads
    <3> QED
      BY <1>1, <2>3, <3>2, <3>3, <3>4, <3>5 DEF StrayScanned
  <2> QED
    BY <1>1, <2>3, <2>4, <2>5, <2>6, <2>7, ScanStep
<1> QED
  BY <1>2, <1>3

\* What was not carried is not to be read.
LEMMA StateEndMoves == ASSUME IInv, SInv, EndMoves PROVE SInv'
<1> DEFINE news == {p \in Found : scan.sigs[p] # scan.walk[p]}
<1>1. UNCHANGED <<disk, faulty, index, at, req, settled>>
  BY DEF EndMoves, files, history
<1>2. /\ scan \in Scan /\ scan.pc = "moves" /\ scan.todo = {}
      /\ scan' = [scan EXCEPT !.pc = "index", !.todo = news]
  BY DEF EndMoves, IInv, Shapes
<1>3. \A p \in news : p \in Paths /\ scan.walk[p] \notin {None, scan.sigs[p]}
  BY DEF Found
<1> HIDE DEF news
<1>4. /\ scan'.pc = "index" /\ scan'.todo = news
      /\ scan'.sigs = scan.sigs /\ scan'.read = scan.read /\ scan'.walk = scan.walk
      /\ scan'.partial = scan.partial
  BY <1>2 DEF Scan
<1>5. scan.sigs \in [Paths -> Books \union {None}] /\ scan.read \in [Paths -> Books \union {None}]
  BY DEF SInv, Plain
<1>6. \A p \in news : scan.walk[p] = disk[p] /\ p \notin faulty
  BY <1>2, <1>3 DEF SInv, ScanReads
<1>7. ScanReads'
  BY <1>1, <1>3, <1>4, <1>6 DEF ScanReads
<1>8. BooksSeen'
  BY <1>1, <1>2, <1>4, SeenKept DEF SInv
<1>9. ASSUME NEW b \in Books, Stray(b) PROVE StrayScanned(b)'
  <2>1. StrayScanned(b) /\ disk[at[b]] # b
    BY <1>9 DEF SInv, StrayScan, Stray
  <2>2. \A x \in Paths \ {at[b]} : scan.walk[x] # b
    BY <1>2, <2>1 DEF StrayScanned
  <2>3. \A x \in news : disk[x] # b
    BY <1>3, <1>6, <2>1, <2>2
  <2> QED
    BY <1>1, <1>2, <1>4, <2>1, <2>2, <2>3 DEF StrayScanned
<1> QED
  BY <1>1, <1>4, <1>5, <1>7, <1>8, <1>9, ScanStep

LEMMA StateReadBook == ASSUME IInv, SInv, NEW p \in Paths, ReadBook(p) PROVE SInv'
<1> DEFINE new == [scan.read EXCEPT ![p] = disk[p]]
<1>1. UNCHANGED <<disk, faulty, index, at, req, settled>>
  BY DEF ReadBook, files, history
<1>2. scan \in Scan /\ scan.pc = "index" /\ p \in scan.todo
  BY DEF ReadBook, IInv, Shapes
<1>3. Fingerprint(p) = disk[p]
  BY <1>2 DEF SInv, ScanReads, Fingerprint
<1>4. scan' = [scan EXCEPT !.todo = @ \ {p}, !.read = new]
  BY <1>3 DEF ReadBook
<1>5. /\ scan.sigs \in [Paths -> Books \union {None}]
      /\ new \in [Paths -> Books \union {None}]
      /\ new[p] = disk[p] /\ \A x \in Paths \ {p} : new[x] = scan.read[x]
  BY DEF SInv, Plain, IInv, Shapes
<1> HIDE DEF new
<1>6. /\ scan'.pc = "index" /\ scan'.todo = scan.todo \ {p}
      /\ scan'.sigs = scan.sigs /\ scan'.read = new /\ scan'.walk = scan.walk
      /\ scan'.partial = scan.partial
  BY <1>2, <1>4 DEF Scan
<1>7. ScanReads'
  BY <1>1, <1>2, <1>6 DEF SInv, ScanReads
<1>8. BooksSeen'
  BY <1>1, <1>2, <1>6, SeenKept DEF SInv
<1>9. \A b \in Books : Stray(b) => StrayScanned(b)'
  BY <1>1, <1>2, <1>5, <1>6 DEF SInv, StrayScan, StrayScanned
<1>10. \A x \in Paths : new[x] \in {disk[x], scan.read[x]}
  BY <1>5
<1> QED
  BY <1>1, <1>5, <1>6, <1>7, <1>8, <1>9, <1>10, ScanStep

LEMMA StateEndIndex == ASSUME IInv, SInv, EndIndex PROVE SInv'
<1>1. UNCHANGED <<disk, faulty, index, at, req, settled>>
  BY DEF EndIndex, files, history
<1>2. CASE scan.partial
  BY <1>1, <1>2, ScanOverState DEF EndIndex
<1>3. CASE ~scan.partial
  <2>1. scan \in Scan /\ scan.pc = "index" /\ scan' = [scan EXCEPT !.pc = "prune"]
    BY <1>3 DEF EndIndex, IInv, Shapes
  <2>2. /\ scan'.pc = "prune" /\ scan'.sigs = scan.sigs /\ scan'.read = scan.read
        /\ scan'.walk = scan.walk /\ scan'.partial = scan.partial
    BY <2>1 DEF Scan
  <2>3. scan.sigs \in [Paths -> Books \union {None}] /\ scan.read \in [Paths -> Books \union {None}]
    BY DEF SInv, Plain
  <2>4. ScanReads'
    BY <2>2 DEF ScanReads
  <2>5. BooksSeen'
    BY <1>1, <2>1, <2>2, SeenKept DEF SInv
  <2>6. \A b \in Books : Stray(b) => StrayScanned(b)'
    BY <1>1, <2>1, <2>2 DEF SInv, StrayScan, StrayScanned
  <2> QED
    BY <1>1, <2>2, <2>3, <2>4, <2>5, <2>6, ScanStep
<1> QED
  BY <1>2, <1>3

LEMMA StateWriteBook == ASSUME IInv, SInv, NEW p \in Paths, WriteBook(p) PROVE SInv'
<1> DEFINE left == [scan.read EXCEPT ![p] = None]
<1>1. UNCHANGED <<disk, faulty, at, req, settled>>
  BY DEF WriteBook, files, history
<1>2. /\ scan \in Scan /\ scan.pc = "index" /\ scan.read[p] # None
      /\ index' = [index EXCEPT ![p] = scan.read[p]] /\ scan' = [scan EXCEPT !.read = left]
  BY DEF WriteBook, IInv, Shapes
<1>3. /\ scan.read \in [Paths -> Books \union {None}] /\ index \in [Paths -> Books \union {None}]
      /\ at \in [Books -> Paths]
  BY DEF SInv, Plain
<1>4. /\ left \in [Paths -> Books \union {None}]
      /\ left[p] = None /\ \A x \in Paths \ {p} : left[x] = scan.read[x]
  BY <1>3
<1> HIDE DEF left
<1>5. /\ scan'.pc = scan.pc /\ scan'.todo = scan.todo /\ scan'.left = scan.left
      /\ scan'.sigs = scan.sigs /\ scan'.read = left /\ scan'.walk = scan.walk
      /\ scan'.partial = scan.partial
  BY <1>2 DEF Scan
<1>6. /\ index'[p] = scan.read[p] /\ scan.read[p] \in Books
      /\ \A x \in Paths \ {p} : index'[x] = index[x]
  BY <1>2, <1>3
<1>7. Plain'
  BY <1>1, <1>2, <1>3, <1>4, <1>5 DEF SInv, Plain
<1>8. RequestReads' /\ ScanReads' /\ StateWithBook'
  BY <1>1, <1>5 DEF SInv, RequestReads, ScanReads, Here, StateWithBook, Reads
<1>9. BooksSeen'
  BY <1>1, <1>2, <1>5, SeenKept DEF SInv
<1>10. OneBook'
  <2>1. ASSUME NEW x \in Paths, NEW b \in Books, Mark(x, b)' PROVE Mark(x, b)
    <3>1. CASE x = p
      BY <1>1, <1>4, <1>5, <1>6, <2>1, <3>1, Constants DEF Mark
    <3>2. CASE x # p
      BY <1>1, <1>4, <1>5, <1>6, <2>1, <3>2 DEF Mark
    <3> QED
      BY <3>1, <3>2
  <2> QED
    BY <2>1, MarksKept DEF SInv
<1>11. \A b \in Books : Stray(b)' <=> Stray(b)
  BY <1>1 DEF Stray, Here
<1>12. StrayRow'
  <2> SUFFICES ASSUME NEW b \in Books, Stray(b)
               PROVE  index'[at[b]] = b /\ \A x \in Paths \ {at[b]} : index'[x] # b
    BY <1>1, <1>11 DEF StrayRow
  <2>1. \A x \in Paths \ {at[b]} : b # scan.read[x]
    BY DEF SInv, StrayScan, StrayScanned
  <2>2. at[b] = p => scan.read[p] = b
    BY <1>6 DEF SInv, OneBook, Mark
  <2> QED
    BY <1>3, <1>6, <2>1, <2>2 DEF SInv, StrayRow
<1>13. StrayScan'
  <2> SUFFICES ASSUME NEW b \in Books, Stray(b) PROVE StrayScanned(b)'
    BY <1>11 DEF StrayScan
  <2>1. StrayScanned(b) /\ \A x \in Paths : scan'.read[x] \in {None, scan.read[x]}
    BY <1>4, <1>5 DEF SInv, StrayScan
  <2> QED
    BY <1>1, <1>5, <2>1, Constants DEF StrayScanned
<1>14. StrayReq'
  BY <1>1, <1>11 DEF SInv, StrayReq, Carries
<1> QED
  BY <1>7, <1>8, <1>9, <1>10, <1>12, <1>13, <1>14 DEF SInv

LEMMA StateLookToPrune == ASSUME IInv, SInv, LookToPrune PROVE SInv'
<1>1. UNCHANGED <<disk, faulty, index, at, req, settled>>
  BY DEF LookToPrune, files, history
<1>2. PICK rows : /\ scan \in Scan /\ scan.pc = "prune"
                  /\ scan' = [scan EXCEPT !.pc = "delete", !.todo = rows]
  BY DEF LookToPrune, IInv, Shapes
<1>3. /\ scan'.pc = "delete" /\ scan'.sigs = scan.sigs /\ scan'.read = scan.read
      /\ scan'.walk = scan.walk /\ scan'.partial = scan.partial
  BY <1>2 DEF Scan
<1>4. scan.sigs \in [Paths -> Books \union {None}] /\ scan.read \in [Paths -> Books \union {None}]
  BY DEF SInv, Plain
<1>5. ScanReads'
  BY <1>3 DEF ScanReads
<1>6. BooksSeen'
  BY <1>1, <1>2, <1>3, SeenKept DEF SInv
<1>7. \A b \in Books : Stray(b) => StrayScanned(b)'
  BY <1>1, <1>2, <1>3 DEF SInv, StrayScan, StrayScanned
<1> QED
  BY <1>1, <1>3, <1>4, <1>5, <1>6, <1>7, ScanStep

\* The prune keeps the row of a stray book; there is none over untouched files.
LEMMA StatePrune == ASSUME IInv, SInv, Prune PROVE SInv'
<1>1. /\ scan.pc = "delete" /\ scan' = Idle
      /\ index' = [p \in Paths |-> IF p \in scan.todo THEN None ELSE index[p]]
      /\ settled' = quiet
      /\ UNCHANGED <<disk, faulty, at, req>>
  BY DEF Prune, files, history
<1>2. scan'.pc = "idle" /\ scan'.sigs = Nowhere /\ scan'.read = Nowhere
  BY <1>1 DEF Idle
<1>3. /\ Nowhere \in [Paths -> Books \union {None}]
      /\ \A p \in Paths : Nowhere[p] = None
  BY DEF Nowhere
<1>4. \A p \in Paths : index'[p] \in {None, index[p]} /\ (p \in Found => index'[p] = index[p])
  BY <1>1 DEF IInv, WalkInv, Found
<1>5. \A b \in Books : Stray(b) => at[b] \in Found
  <2> SUFFICES ASSUME NEW b \in Books, Stray(b) PROVE at[b] \in Found
    OBVIOUS
  <2>1. scan.walk[at[b]] # None \/ scan.partial
    BY <1>1 DEF SInv, StrayScan, StrayScanned
  <2> QED
    BY <1>1, <2>1, StrayHome DEF IInv, WalkInv, Found
<1>6. quiet => \A b \in Books : ~Stray(b)
  <2> SUFFICES ASSUME quiet, NEW b \in Books, Stray(b) PROVE FALSE
    OBVIOUS
  <2>1. at[b] \in Paths /\ disk[at[b]] = None
    BY StrayHome
  <2>2. \A p \in Paths : Visited(p)
    BY <1>1 DEF Visited
  <2>3. faulty = {}
    BY <1>1, <2>2 DEF IInv, FaultSeen, WalkInv, Shapes
  <2>4. scan.walk[at[b]] = None
    BY <1>1, <2>1, <2>2, <2>3 DEF IInv, ScanTrue, Calm
  <2> QED
    BY <1>5, <2>4 DEF Found
<1>7. \A b \in Books : (Stray(b)' <=> Stray(b)) /\ (Here(b)' <=> Here(b))
  BY <1>1 DEF Stray, Here
<1>8. Plain'
  BY <1>1, <1>2, <1>3 DEF SInv, Plain
<1>9. RequestReads' /\ StrayReq'
  BY <1>1, <1>7 DEF SInv, RequestReads, StrayReq, Reads, Carries
<1>10. ScanReads' /\ BooksSeen'
  BY <1>2 DEF ScanReads, BooksSeen
<1>11. OneBook'
  <2>1. \A x \in Paths, b \in Books : Mark(x, b)' => Mark(x, b)
    BY <1>1, <1>2, <1>3, <1>4, Constants DEF Mark
  <2> QED
    BY <2>1, MarksKept DEF SInv
<1>12. StateWithBook'
  <2>1. quiet => \A b \in Books : Here(b) => disk[at[b]] = b
    BY <1>6 DEF Stray
  <2> QED
    BY <1>1, <1>7, <2>1 DEF SInv, StateWithBook, Here
<1>13. StrayRow'
  BY <1>1, <1>4, <1>5, <1>7, Constants, StrayHome DEF SInv, StrayRow
<1>14. StrayScan'
  BY <1>2, <1>3, Constants DEF StrayScan, StrayScanned
<1> QED
  BY <1>8, <1>9, <1>10, <1>11, <1>12, <1>13, <1>14 DEF SInv

\* State carried to a path of its book, from one where that book was known: no other
\* book's state goes with it, and no book strays.
LEMMA Carried ==
  ASSUME IInv, SInv, NEW from \in Paths, NEW to \in Paths, NEW c \in Books,
         disk[to] = c, Mark(from, c), MoveDurableState(from, to),
         UNCHANGED <<disk, settled>>
  PROVE  /\ at' \in [Books -> Paths] /\ StateWithBook'
         /\ \A b \in Books : at'[b] # at[b] => b = c /\ at[b] = from /\ at'[b] = to
         /\ \A b \in Books : Stray(b)' => Stray(b) /\ at'[b] = at[b] /\ at[b] # from
<1>1. at \in [Books -> Paths]
  BY DEF SInv, Plain
<1>2. at' \in [Books -> Paths] /\ \A b \in Books : at'[b] = IF at[b] = from THEN to ELSE at[b]
  BY <1>1 DEF MoveDurableState
<1>3. \A b \in Books : at[b] = from => b = c
  BY DEF SInv, OneBook, Mark
<1>4. \A b \in Books : at'[b] # at[b] => b = c /\ at[b] = from /\ at'[b] = to
  BY <1>2, <1>3
<1>5. \A b \in Books : Here(b)' <=> Here(b)
  BY DEF Here
<1>6. \A b \in Books : disk[at[b]] = b => disk[at'[b]] = b
  BY <1>4
<1>7. \A b \in Books : Stray(b)' => Stray(b) /\ at'[b] = at[b] /\ at[b] # from
  BY <1>2, <1>3, <1>4, <1>5, <1>6 DEF Stray
<1>8. StateWithBook'
  BY <1>6 DEF SInv, StateWithBook
<1> QED
  BY <1>2, <1>4, <1>7, <1>8

\* A scan that finds a stray book carries its state, from the one path it knows the
\* book at.
LEMMA StateDetectMove == ASSUME IInv, SInv, NEW p \in Paths, DetectMove(p) PROVE SInv'
<1> DEFINE same == {q \in scan.left : scan.sigs[q] = Fingerprint(p)}
<1>1. scan \in Scan /\ scan.pc = "moves" /\ p \in scan.todo /\ scan.left \subseteq Paths
  BY DEF DetectMove, IInv, Shapes, Scan
<1>2. UNCHANGED <<disk, faulty, index, req, settled>>
  BY DEF DetectMove, files, history
<1>3. /\ scan.walk[p] = disk[p] /\ disk[p] # None /\ p \notin faulty /\ scan.sigs[p] = None
  BY <1>1 DEF SInv, ScanReads
<1>4. Fingerprint(p) = disk[p] /\ disk[p] \in Books
  BY <1>3 DEF Fingerprint, IInv, Shapes
<1>5. \A q \in same : q \in Paths /\ scan.sigs[q] = disk[p] /\ q # p
  BY <1>1, <1>3, <1>4
<1>6. scan.sigs \in [Paths -> Books \union {None}] /\ scan.read \in [Paths -> Books \union {None}]
  BY DEF SInv, Plain
<1>7. CASE same = {} /\ scan' = [scan EXCEPT !.todo = @ \ {p}] /\ UNCHANGED at
  <2>1. /\ scan'.pc = "moves" /\ scan'.todo = scan.todo \ {p} /\ scan'.left = scan.left
        /\ scan'.sigs = scan.sigs /\ scan'.read = scan.read /\ scan'.walk = scan.walk
        /\ scan'.partial = scan.partial
    BY <1>1, <1>7 DEF Scan
  <2>2. ScanReads'
    BY <1>1, <1>2, <2>1 DEF SInv, ScanReads
  <2>3. BooksSeen'
    BY <1>1, <1>2, <2>1, SeenKept DEF SInv
  <2>4. ASSUME NEW b \in Books, Stray(b) PROVE StrayScanned(b)'
    <3>1. StrayScanned(b) /\ at[b] \in Paths
      BY <2>4 DEF SInv, StrayScan, Plain
    <3>2. p # at[b] => scan.walk[p] # b
      BY <1>1, <1>3, <1>4, <1>7, <3>1 DEF StrayScanned
    <3> QED
      BY <1>1, <1>7, <2>1, <3>1, <3>2 DEF StrayScanned
  <2> QED
    BY <1>2, <1>6, <1>7, <2>1, <2>2, <2>3, <2>4, ScanStep
<1>8. ASSUME NEW q \in same, MoveDurableState(q, p),
             scan' = [scan EXCEPT !.todo = @ \ {p}, !.left = @ \ {q}]
      PROVE  SInv'
  <2> DEFINE c == disk[p]
  <2>1. /\ scan'.pc = "moves" /\ scan'.todo = scan.todo \ {p} /\ scan'.left = scan.left \ {q}
        /\ scan'.sigs = scan.sigs /\ scan'.read = scan.read /\ scan'.walk = scan.walk
        /\ scan'.partial = scan.partial
    BY <1>1, <1>8 DEF Scan
  <2>2. q \in Paths /\ scan.sigs[q] = c /\ Mark(q, c) /\ q \in scan.left
    BY <1>5, <1>8 DEF Mark
  <2>3. /\ at' \in [Books -> Paths] /\ StateWithBook'
        /\ \A b \in Books : at'[b] # at[b] => b = c /\ at[b] = q /\ at'[b] = p
        /\ \A b \in Books : Stray(b)' => Stray(b) /\ at'[b] = at[b] /\ at[b] # q
    BY <1>2, <1>4, <1>8, <2>2, Carried
  <2>4. Plain'
    BY <1>2, <2>1, <2>3 DEF SInv, Plain
  <2>5. RequestReads' /\ ScanReads'
    BY <1>1, <1>2, <2>1 DEF SInv, RequestReads, ScanReads, Reads
  <2>6. OneBook'
    <3>1. \A x \in Paths, b \in Books : Mark(x, b)' => Mark(x, b)
      BY <1>2, <2>1, <2>3 DEF Mark
    <3> QED
      BY <3>1, MarksKept DEF SInv
  <2>7. BooksSeen'
    BY <1>1, <1>2, <2>1, SeenKept DEF SInv
  <2>8. StrayRow'
    BY <1>2, <2>3 DEF SInv, StrayRow
  <2>9. StrayScan'
    <3> SUFFICES ASSUME NEW b \in Books, Stray(b)' PROVE StrayScanned(b)'
      BY DEF StrayScan
    <3>1. Stray(b) /\ at'[b] = at[b] /\ StrayScanned(b) /\ at[b] \in Paths
      BY <2>3 DEF SInv, StrayScan, Plain
    <3>2. at[b] # q
      BY <2>3
    <3>3. p # at[b] => scan.walk[p] # b
      <4> SUFFICES ASSUME p # at[b], scan.walk[p] = b PROVE FALSE
        OBVIOUS
      <4>1. b = c
        BY <1>3
      <4>2. q = at[b]
        BY <2>2, <3>1, <4>1 DEF StrayScanned
      <4> QED
        BY <3>2, <4>2
    <3> QED
      BY <1>1, <1>2, <2>1, <3>1, <3>2, <3>3 DEF StrayScanned
  <2>10. StrayReq'
    BY <1>2, <2>3 DEF SInv, StrayReq, Carries
  <2> QED
    BY <2>3, <2>4, <2>5, <2>6, <2>7, <2>8, <2>9, <2>10 DEF SInv
<1> QED
  BY <1>7, <1>8 DEF DetectMove

\* A request's next record, over untouched files.
LEMMA NextRequest ==
  ASSUME IInv, SInv, NEW r \in Requests, NEW q \in Req, req' = [req EXCEPT ![r] = q],
         UNCHANGED <<disk, faulty>>,
         q.pc # "idle" => Reads(q),
         \A b \in Books : Stray(b)' => Stray(b) /\ at'[b] = at[b],
         \A b \in Books : q.pc # "idle" /\ b = disk[q.path] /\ Stray(b)' => Carries(q, b)
  PROVE  /\ RequestReads' /\ StrayReq'
         /\ req'[r] = q /\ \A o \in Requests \ {r} : req'[o] = req[o]
<1>1. req'[r] = q /\ \A o \in Requests \ {r} : req'[o] = req[o]
  BY DEF IInv, Shapes
<1>2. RequestReads'
  <2> SUFFICES ASSUME NEW o \in Requests, req'[o].pc # "idle" PROVE Reads(req[o])'
    BY DEF RequestReads
  <2>1. CASE o = r
    BY <1>1, <2>1 DEF Reads
  <2>2. CASE o # r
    <3>1. req'[o] = req[o] /\ Reads(req[o])
      BY <1>1, <2>2 DEF SInv, RequestReads
    <3> QED
      BY <3>1 DEF Reads
  <2> QED
    BY <2>1, <2>2
<1>3. StrayReq'
  <2> SUFFICES ASSUME NEW o \in Requests, NEW b \in Books,
                      req'[o].pc # "idle", b = disk[req'[o].path], Stray(b)'
               PROVE  Carries(req[o], b)'
    BY DEF StrayReq
  <2>1. Stray(b) /\ at'[b] = at[b]
    OBVIOUS
  <2>2. CASE o = r
    BY <1>1, <2>1, <2>2 DEF Carries
  <2>3. CASE o # r
    <3>1. req'[o] = req[o] /\ Carries(req[o], b)
      BY <1>1, <2>1, <2>3 DEF SInv, StrayReq
    <3> QED
      BY <2>1, <3>1 DEF Carries
  <2> QED
    BY <2>2, <2>3
<1> QED
  BY <1>1, <1>2, <1>3

\* A step of a request that carries and writes nothing.
LEMMA RequestState ==
  ASSUME IInv, SInv, NEW r \in Requests, NEW q \in Req, req' = [req EXCEPT ![r] = q],
         UNCHANGED <<disk, faulty, index, at, scan, settled>>,
         q.pc # "idle" => Reads(q),
         \A b \in Books : q.pc # "idle" /\ b = disk[q.path] /\ Stray(b) => Carries(q, b),
         \A b \in Books : q.from \in Paths /\ q.old = b => Mark(q.from, b)
  PROVE  SInv'
<1>1. \A b \in Books : Stray(b)' <=> Stray(b)
  BY DEF Stray, Here
<1>2. /\ RequestReads' /\ StrayReq'
      /\ req'[r] = q /\ \A o \in Requests \ {r} : req'[o] = req[o]
  BY <1>1, NextRequest
<1>3. Plain' /\ ScanReads' /\ StateWithBook'
  BY DEF SInv, Plain, ScanReads, Here, StateWithBook
<1>4. BooksSeen' /\ StrayRow'
  BY <1>1 DEF SInv, BooksSeen, Here, StrayRow
<1>5. StrayScan'
  BY <1>1 DEF SInv, StrayScan, StrayScanned
<1>6. OneBook'
  <2>1. ASSUME NEW p \in Paths, NEW b \in Books, Mark(p, b)' PROVE Mark(p, b)
    <3>1. ASSUME NEW o \in Requests, req'[o].from = p, req'[o].old = b
          PROVE  Mark(p, b)
      <4>1. CASE o = r
        BY <1>2, <3>1, <4>1
      <4>2. CASE o # r
        BY <1>2, <3>1, <4>2 DEF Mark
      <4> QED
        BY <4>1, <4>2
    <3> QED
      BY <2>1, <3>1 DEF Mark
  <2> QED
    BY <2>1, MarksKept DEF SInv
<1> QED
  BY <1>2, <1>3, <1>4, <1>5, <1>6 DEF SInv

LEMMA StateCancel == ASSUME IInv, SInv, NEW r \in Requests, Cancel(r) PROVE SInv'
<1>1. NoReq \in Req /\ NoReq.pc = "idle" /\ NoReq.from \notin Paths
  BY NoRequest, Constants
<1>2. /\ req' = [req EXCEPT ![r] = NoReq]
      /\ UNCHANGED <<disk, faulty, index, at, scan, settled>>
  BY DEF Cancel, files
<1> QED
  BY <1>1, <1>2, RequestState

LEMMA StateStartRequest ==
  ASSUME IInv, SInv, NEW r \in Requests, NEW q \in Req, StartRequest(r, q),
         q.path \in Paths, q.pc \in {"find", "carry"}, q.book = None, q.old = None, ~q.moved,
         \A b \in Books : q.pc = "carry" /\ b = disk[q.path] /\ Stray(b) => q.from = at[b]
  PROVE  SInv'
<1>1. /\ req' = [req EXCEPT ![r] = q] /\ disk[q.path] # None /\ q.path \notin faulty
      /\ UNCHANGED <<disk, faulty, index, at, scan, settled>>
  BY DEF StartRequest, files
<1>2. Reads(q)
  BY <1>1 DEF Reads
<1>3. \A b \in Books : b = disk[q.path] /\ Stray(b) => Carries(q, b)
  BY DEF Carries
<1>4. None \notin Books
  BY Constants
<1> QED
  BY <1>1, <1>2, <1>3, <1>4, RequestState

LEMMA StateIndexPath ==
  ASSUME IInv, SInv, NEW r \in Requests, NEW p \in Paths, IndexPath(r, p) PROVE SInv'
<1> DEFINE q == [NoReq EXCEPT !.pc = "find", !.path = p, !.shared = TRUE]
<1>1. StartRequest(r, q)
  BY DEF IndexPath
<1>2. q \in Req
  BY Constants DEF NoReq, Req, Steps
<1>3. q.path = p /\ q.pc = "find" /\ q.book = None /\ q.old = None /\ ~q.moved
  BY DEF NoReq
<1> HIDE DEF q
<1> QED
  BY <1>1, <1>2, <1>3, StateStartRequest

\* The Bridge names where the book was.
LEMMA StateIndexMoved ==
  ASSUME Wild = {}, IInv, SInv, NEW r \in Requests, NEW p \in Paths,
         NEW from \in Paths \union {None}, IndexMoved(r, p, from)
  PROVE  SInv'
<1> DEFINE q == [NoReq EXCEPT !.pc = "carry", !.path = p, !.from = from]
<1>1. StartRequest(r, q)
  BY DEF IndexMoved
<1>2. q \in Req
  BY Constants DEF NoReq, Req, Steps
<1>3. /\ q.path = p /\ q.pc = "carry" /\ q.book = None /\ q.old = None /\ ~q.moved
      /\ q.from = from
  BY DEF NoReq
<1>4. \A b \in Books : b = disk[p] /\ Stray(b) => from = at[b]
  BY DEF IndexMoved, Stray
<1> HIDE DEF q
<1> QED
  BY <1>1, <1>2, <1>3, <1>4, StateStartRequest

\* Where a request stands.
LEMMA RequestAt ==
  ASSUME IInv, SInv, NEW r \in Requests, req[r].pc # "idle"
  PROVE  /\ req[r] \in Req /\ RequestTrue(req[r]) /\ Reads(req[r])
         /\ req[r].path \in Paths /\ disk[req[r].path] \in Books
         /\ disk[req[r].path] \notin {None, Unread}
         /\ Fingerprint(req[r].path) = disk[req[r].path]
         /\ ContentHash(req[r]) = disk[req[r].path]
         /\ \A b \in Books : b = disk[req[r].path] /\ Stray(b) => Carries(req[r], b)
         /\ \A b \in Books : req[r].old = b => Mark(req[r].from, b)
<1>1. /\ req[r] \in Req /\ RequestTrue(req[r]) /\ Reads(req[r])
      /\ \A b \in Books : b = disk[req[r].path] /\ Stray(b) => Carries(req[r], b)
  BY RequestIs DEF SInv, RequestReads, StrayReq
<1>2. /\ req[r].path \in Paths /\ disk[req[r].path] # None /\ req[r].path \notin faulty
      /\ req[r].book \in {None, disk[req[r].path]}
  BY <1>1 DEF Reads
<1>3. disk[req[r].path] \in Books
  BY <1>2 DEF IInv, Shapes
<1>4. disk[req[r].path] \notin {None, Unread}
  BY <1>3, Constants
<1>5. Fingerprint(req[r].path) = disk[req[r].path]
  BY <1>2 DEF Fingerprint
<1>6. ContentHash(req[r]) = disk[req[r].path]
  BY <1>2, <1>4, <1>5 DEF ContentHash
<1>7. \A b \in Books : req[r].old = b => Mark(req[r].from, b)
  BY DEF Mark
<1> QED
  BY <1>1, <1>2, <1>3, <1>4, <1>5, <1>6, <1>7

\* A request finds where a stray book was: the one row it has.
LEMMA StateMoveCandidates ==
  ASSUME IInv, SInv, NEW r \in Requests, MoveCandidates(r) PROVE SInv'
<1> DEFINE p == req[r].path
           c == disk[p]
           rows == {q \in Paths \ {p} : c # None /\ index[p] = None /\ index[q] = c}
           new == [req[r] EXCEPT !.pc = "look", !.book = c, !.rows = rows]
<1>1. req[r].pc = "find" /\ UNCHANGED <<disk, faulty, index, at, scan, settled>>
  BY DEF MoveCandidates, files, history
<1>2. /\ req[r] \in Req /\ RequestTrue(req[r]) /\ Reads(req[r]) /\ p \in Paths
      /\ c \in Books /\ c # None /\ ContentHash(req[r]) = c
  BY <1>1, RequestAt
<1>3. req' = [req EXCEPT ![r] = new]
  BY <1>2 DEF MoveCandidates
<1>4. \A b \in Books : b = c /\ Stray(b) => rows = {at[b]}
  <2> SUFFICES ASSUME NEW b \in Books, b = c, Stray(b) PROVE rows = {at[b]}
    OBVIOUS
  <2>1. at[b] \in Paths /\ disk[at[b]] = None
    BY StrayHome
  <2>2. at[b] # p /\ index[at[b]] = b /\ \A x \in Paths \ {at[b]} : index[x] # b
    BY <1>2, <2>1 DEF SInv, StrayRow
  <2>3. index[p] = None
    <3>1. index[p] \in Books => index[p] = b
      BY <1>2 DEF SInv, OneBook, Mark
    <3> QED
      BY <1>2, <2>2, <3>1 DEF SInv, Plain
  <2> QED
    BY <1>2, <2>1, <2>2, <2>3
<1>5. c \in Fingerprints /\ rows \subseteq Paths
  BY <1>2 DEF Fingerprints
<1> HIDE DEF rows, p, c
<1>6. new \in Req
  BY <1>2, <1>5 DEF Req, Steps
<1>7. /\ new.pc = "look" /\ new.path = p /\ new.rows = rows /\ new.from = req[r].from
      /\ new.old = req[r].old /\ new.book = c /\ new.moved = req[r].moved
  BY <1>2 DEF Req, p
<1> HIDE DEF new
<1>8. Reads(new)
  BY <1>1, <1>2, <1>7 DEF Reads, RequestTrue, p, c
<1>9. \A b \in Books : b = disk[new.path] /\ Stray(b) => Carries(new, b)
  BY <1>4, <1>7 DEF Carries, c
<1>10. \A b \in Books : new.from \in Paths /\ new.old = b => Mark(new.from, b)
  BY <1>1, <1>7, RequestAt
<1> QED
  BY <1>1, <1>3, <1>6, <1>8, <1>9, <1>10, RequestState

LEMMA StateMovedFrom == ASSUME IInv, SInv, NEW r \in Requests, MovedFrom(r) PROVE SInv'
<1> DEFINE was == {q \in req[r].rows : ~BookOnDisk(q)}
<1>1. req[r].pc = "look" /\ UNCHANGED <<disk, faulty, index, at, scan, settled>>
  BY DEF MovedFrom, files
<1>2. /\ req[r] \in Req /\ RequestTrue(req[r]) /\ Reads(req[r]) /\ req[r].rows \subseteq Paths
      /\ \A b \in Books : b = disk[req[r].path] /\ Stray(b) => req[r].rows = {at[b]}
  BY <1>1, RequestAt DEF Req, Carries
<1>3. PICK from \in IF was = {} THEN {None} ELSE was :
          req' = [req EXCEPT ![r] = [req[r] EXCEPT !.pc = "carry", !.rows = {}, !.from = from]]
  BY DEF MovedFrom
<1>4. \A b \in Books : b = disk[req[r].path] /\ Stray(b) => from = at[b]
  <2> SUFFICES ASSUME NEW b \in Books, b = disk[req[r].path], Stray(b) PROVE from = at[b]
    OBVIOUS
  <2>1. at[b] \in Paths /\ disk[at[b]] = None /\ at[b] \notin faulty
    BY StrayHome
  <2>2. was = {at[b]}
    BY <1>2, <2>1 DEF BookOnDisk
  <2> QED
    BY <1>3, <2>2
<1>5. from \in Paths \union {None}
  BY <1>2, <1>3
<1> HIDE DEF was
<1> DEFINE new == [req[r] EXCEPT !.pc = "carry", !.rows = {}, !.from = from]
<1>6. req' = [req EXCEPT ![r] = new]
  BY <1>3
<1>7. new \in Req
  BY <1>2, <1>5 DEF Req, Steps
<1>8. /\ new.pc = "carry" /\ new.path = req[r].path /\ new.from = from
      /\ new.old = req[r].old /\ new.book = req[r].book /\ new.moved = req[r].moved
  BY <1>2 DEF Req
<1> HIDE DEF new
<1>9. Reads(new) /\ new.old = None
  BY <1>1, <1>2, <1>8 DEF Reads, RequestTrue
<1>10. \A b \in Books : b = disk[new.path] /\ Stray(b) => Carries(new, b)
  BY <1>4, <1>8 DEF Carries
<1>11. None \notin Books
  BY Constants
<1> QED
  BY <1>1, <1>6, <1>7, <1>9, <1>10, <1>11, RequestState

LEMMA StateFindOld == ASSUME IInv, SInv, NEW r \in Requests, FindOld(r) PROVE SInv'
<1> DEFINE from == req[r].from
           old == IF from = None THEN None ELSE index[from]
           next == IF old = None THEN "read" ELSE "check"
           new == [req[r] EXCEPT !.pc = next, !.old = old]
<1>1. /\ req[r].pc = "carry" /\ req' = [req EXCEPT ![r] = new]
      /\ UNCHANGED <<disk, faulty, index, at, scan, settled>>
  BY DEF FindOld, files, history
<1>2. /\ req[r] \in Req /\ RequestTrue(req[r]) /\ Reads(req[r])
      /\ from \in Paths \union {None} /\ index \in [Paths -> Books \union {None}]
      /\ \A b \in Books : b = disk[req[r].path] /\ Stray(b) => from = at[b]
  BY <1>1, RequestAt DEF Req, Carries, SInv, Plain
<1>3. /\ old \in Books \union {None} /\ old \in Fingerprints
      /\ \A b \in Books : from \in Paths /\ old = b => index[from] = b
  BY <1>2, Constants DEF Fingerprints
<1>4. \A b \in Books : b = disk[req[r].path] /\ Stray(b) => old = b
  <2> SUFFICES ASSUME NEW b \in Books, b = disk[req[r].path], Stray(b) PROVE old = b
    OBVIOUS
  <2>1. from = at[b] /\ at[b] \in Paths /\ index[at[b]] = b
    BY <1>2, StrayHome DEF SInv, StrayRow
  <2> QED
    BY <2>1, Constants
<1>5. next = IF old = None THEN "read" ELSE "check"
  OBVIOUS
<1> HIDE DEF old, next
<1>6. new \in Req
  BY <1>2, <1>3, <1>5 DEF Req, Steps
<1>7. /\ new.pc = next /\ new.path = req[r].path /\ new.from = from
      /\ new.old = old /\ new.book = req[r].book /\ new.moved = req[r].moved
  BY <1>2 DEF Req
<1> HIDE DEF new, from
<1>8. Reads(new)
  BY <1>1, <1>2, <1>5, <1>7 DEF Reads, RequestTrue
<1>9. \A b \in Books : b = disk[new.path] /\ Stray(b) => Carries(new, b)
  <2> SUFFICES ASSUME NEW b \in Books, b = disk[req[r].path], Stray(b) PROVE Carries(new, b)
    BY <1>7
  <2>1. old = b /\ from = at[b] /\ b # None
    BY <1>2, <1>4, Constants
  <2> QED
    BY <1>5, <1>7, <2>1 DEF Carries
<1>10. \A b \in Books : new.from \in Paths /\ new.old = b => Mark(new.from, b)
  BY <1>3, <1>7 DEF Mark
<1> QED
  BY <1>1, <1>6, <1>8, <1>9, <1>10, RequestState

LEMMA StateCheckGone == ASSUME IInv, SInv, NEW r \in Requests, CheckGone(r) PROVE SInv'
<1> DEFINE from == req[r].from
           there == BookOnDisk(from)
           old == IF there THEN None ELSE req[r].old
           new == [req[r] EXCEPT !.pc = IF there THEN "read" ELSE "compare", !.old = old]
<1>1. req[r].pc = "check" /\ UNCHANGED <<disk, faulty, index, at, scan, settled>>
  BY DEF CheckGone, files, history
<1>2. /\ req[r] \in Req /\ RequestTrue(req[r]) /\ Reads(req[r])
      /\ req[r].old \in Fingerprints /\ from \in Paths
      /\ \A b \in Books : b = disk[req[r].path] /\ Stray(b) => from = at[b] /\ req[r].old = b
      /\ \A b \in Books : req[r].old = b => Mark(from, b)
  BY <1>1, RequestAt DEF Req, Carries, RequestTrue
<1>3. req' = [req EXCEPT ![r] = new]
  BY <1>2 DEF CheckGone, Req
<1>4. \A b \in Books : b = disk[req[r].path] /\ Stray(b) => ~there
  <2> SUFFICES ASSUME NEW b \in Books, b = disk[req[r].path], Stray(b) PROVE ~there
    OBVIOUS
  <2>1. from = at[b] /\ disk[at[b]] = None /\ at[b] \notin faulty
    BY <1>2, StrayHome
  <2> QED
    BY <2>1 DEF BookOnDisk
<1>5. old = IF there THEN None ELSE req[r].old
  OBVIOUS
<1> HIDE DEF there, old
<1>6. new \in Req
  BY <1>2, <1>5, Constants DEF Req, Steps
<1>7. /\ new.pc = IF there THEN "read" ELSE "compare"
      /\ new.path = req[r].path /\ new.from = from
      /\ new.old = old /\ new.book = req[r].book /\ new.moved = req[r].moved
  BY <1>2 DEF Req
<1> HIDE DEF new, from
<1>8. Reads(new)
  BY <1>1, <1>2, <1>5, <1>7 DEF Reads, RequestTrue
<1>9. \A b \in Books : b = disk[new.path] /\ Stray(b) => Carries(new, b)
  BY <1>2, <1>4, <1>5, <1>7 DEF Carries
<1>10. \A b \in Books : new.from \in Paths /\ new.old = b => Mark(new.from, b)
  BY <1>2, <1>5, <1>7, Constants
<1> QED
  BY <1>1, <1>3, <1>6, <1>8, <1>9, <1>10, RequestState

LEMMA StateCompare == ASSUME IInv, SInv, NEW r \in Requests, Compare(r) PROVE SInv'
<1> DEFINE c == disk[req[r].path]
           old == IF c = req[r].old THEN req[r].old ELSE None
           next == IF c = req[r].old THEN "move" ELSE "read"
           new == [req[r] EXCEPT !.pc = next, !.old = old, !.book = c]
<1>1. req[r].pc = "compare" /\ UNCHANGED <<disk, faulty, index, at, scan, settled>>
  BY DEF Compare, files, history
<1>2. /\ req[r] \in Req /\ RequestTrue(req[r]) /\ Reads(req[r])
      /\ req[r].old \in Fingerprints /\ c \in Books /\ ContentHash(req[r]) = c
      /\ \A b \in Books : b = c /\ Stray(b) => req[r].from = at[b] /\ req[r].old = b
      /\ \A b \in Books : req[r].old = b => Mark(req[r].from, b)
  BY <1>1, RequestAt DEF Req, Carries
<1>3. req' = [req EXCEPT ![r] = new]
  BY <1>2 DEF Compare
<1>4. c \in Fingerprints
  BY <1>2 DEF Fingerprints
<1>5. /\ old = IF c = req[r].old THEN req[r].old ELSE None
      /\ next = IF c = req[r].old THEN "move" ELSE "read"
  OBVIOUS
<1> HIDE DEF old, next
<1>6. new \in Req
  BY <1>2, <1>4, <1>5, Constants DEF Req, Steps
<1>7. /\ new.pc = next /\ new.path = req[r].path /\ new.from = req[r].from
      /\ new.old = old /\ new.book = c /\ new.moved = req[r].moved
  BY <1>2 DEF Req
<1> HIDE DEF new
<1>8. Reads(new)
  BY <1>1, <1>2, <1>5, <1>7 DEF Reads, RequestTrue
<1>9. \A b \in Books : b = disk[new.path] /\ Stray(b) => Carries(new, b)
  BY <1>2, <1>5, <1>7 DEF Carries
<1>10. \A b \in Books : new.from \in Paths /\ new.old = b => Mark(new.from, b)
  BY <1>2, <1>5, <1>7, Constants
<1> QED
  BY <1>1, <1>3, <1>6, <1>8, <1>9, <1>10, RequestState

\* A book whose request is past the carry is not stray.
LEMMA StateEnrich == ASSUME IInv, SInv, NEW r \in Requests, Enrich(r) PROVE SInv'
<1> DEFINE c == disk[req[r].path]
           new == [req[r] EXCEPT !.pc = "index", !.book = c]
<1>1. req[r].pc = "read" /\ UNCHANGED <<disk, faulty, index, at, scan, settled>>
  BY DEF Enrich, files, history
<1>2. /\ req[r] \in Req /\ Reads(req[r]) /\ c \in Books /\ Fingerprint(req[r].path) = c
      /\ \A b \in Books : b = c => ~Stray(b)
      /\ \A b \in Books : req[r].old = b => Mark(req[r].from, b)
  BY <1>1, RequestAt DEF Carries
<1>3. (IF req[r].book = None THEN Fingerprint(req[r].path) ELSE req[r].book) = c
  BY <1>2 DEF Reads
<1>4. req' = [req EXCEPT ![r] = new] /\ c \in Fingerprints
  BY <1>2, <1>3 DEF Enrich, Fingerprints
<1>5. new \in Req
  BY <1>2, <1>4 DEF Req, Steps
<1>6. /\ new.pc = "index" /\ new.path = req[r].path /\ new.from = req[r].from
      /\ new.old = req[r].old /\ new.book = c /\ new.moved = req[r].moved
  BY <1>2 DEF Req
<1> HIDE DEF new
<1>7. Reads(new)
  BY <1>2, <1>6 DEF Reads
<1>8. \A b \in Books : b = disk[new.path] /\ Stray(b) => Carries(new, b)
  BY <1>2, <1>6
<1>9. \A b \in Books : new.from \in Paths /\ new.old = b => Mark(new.from, b)
  BY <1>2, <1>6
<1> QED
  BY <1>1, <1>4, <1>5, <1>7, <1>8, <1>9, RequestState

\* A request for a stray book carries its state to where the book is.
LEMMA StateCarryMove == ASSUME IInv, SInv, NEW r \in Requests, CarryMove(r) PROVE SInv'
<1> DEFINE p == req[r].path
           from == req[r].from
           c == disk[p]
           q == [req[r] EXCEPT !.pc = "read", !.moved = TRUE]
<1>1. /\ req[r].pc = "move" /\ req' = [req EXCEPT ![r] = q] /\ MoveDurableState(from, p)
      /\ UNCHANGED <<disk, faulty, index, scan, settled>>
  BY DEF CarryMove, files, history
<1>2. /\ req[r] \in Req /\ Reads(req[r]) /\ p \in Paths /\ c \in Books
      /\ from \in Paths /\ req[r].old = c /\ Mark(from, c)
      /\ \A b \in Books : b = c /\ Stray(b) => from = at[b]
  BY <1>1, RequestAt DEF Carries, RequestTrue, Left, Reads
<1>3. q \in Req
  BY <1>2 DEF Req, Steps
<1>4. /\ q.pc = "read" /\ q.path = p /\ q.from = from /\ q.old = c
      /\ q.book = req[r].book /\ q.moved
  BY <1>2 DEF Req
<1> HIDE DEF q, p, from
<1>5. /\ at' \in [Books -> Paths] /\ StateWithBook'
      /\ \A b \in Books : at'[b] # at[b] => b = c /\ at[b] = from /\ at'[b] = p
      /\ \A b \in Books : Stray(b)' => Stray(b) /\ at'[b] = at[b] /\ at[b] # from
  BY <1>1, <1>2, Carried
<1>6. \A b \in Books : b = c => ~Stray(b)'
  BY <1>2, <1>5
<1>7. Reads(q)
  BY <1>2, <1>4 DEF Reads, p
<1>8. /\ RequestReads' /\ StrayReq'
      /\ req'[r] = q /\ \A o \in Requests \ {r} : req'[o] = req[o]
  BY <1>1, <1>3, <1>4, <1>5, <1>6, <1>7, NextRequest
<1>9. Plain' /\ ScanReads'
  BY <1>1, <1>5 DEF SInv, Plain, ScanReads
<1>10. BooksSeen'
  BY <1>1 DEF SInv, BooksSeen, Here
<1>11. StrayRow'
  BY <1>1, <1>5 DEF SInv, StrayRow
<1>12. StrayScan'
  <2> SUFFICES ASSUME NEW b \in Books, Stray(b)' PROVE StrayScanned(b)'
    BY DEF StrayScan
  <2>1. at'[b] = at[b] /\ StrayScanned(b)
    BY <1>5 DEF SInv, StrayScan
  <2> QED
    BY <1>1, <2>1 DEF StrayScanned
<1>13. OneBook'
  <2>1. ASSUME NEW x \in Paths, NEW b \in Books, Mark(x, b)' PROVE Mark(x, b)
    <3>1. CASE b \in {disk[x], index[x], scan.sigs[x], scan.read[x]}
      BY <3>1 DEF Mark
    <3>2. CASE at'[b] = x
      BY <1>5, <3>2 DEF Mark
    <3>3. ASSUME NEW o \in Requests, req'[o].from = x, req'[o].old = b
          PROVE  Mark(x, b)
      <4>1. CASE o = r
        BY <1>2, <1>4, <1>8, <3>3, <4>1
      <4>2. CASE o # r
        BY <1>8, <3>3, <4>2 DEF Mark
      <4> QED
        BY <4>1, <4>2
    <3> QED
      BY <1>1, <2>1, <3>1, <3>2, <3>3 DEF Mark
  <2> QED
    BY <2>1, MarksKept DEF SInv
<1> QED
  BY <1>5, <1>8, <1>9, <1>10, <1>11, <1>12, <1>13 DEF SInv

\* A request writes or deletes rows of its own book, which is not stray.
LEMMA RowState ==
  ASSUME IInv, SInv, NEW r \in Requests, req[r].pc \in {"index", "drop"},
         NEW p \in Paths, Mark(p, disk[req[r].path]), NEW v \in {None, disk[p]},
         v \in {None, disk[req[r].path]}, index' = [index EXCEPT ![p] = v],
         NEW q \in Req, req' = [req EXCEPT ![r] = q],
         UNCHANGED <<disk, faulty, at, settled>>,
         scan'.pc = scan.pc /\ (scan.pc # "delete" => scan'.todo = scan.todo),
         scan'.sigs = scan.sigs /\ scan'.walk = scan.walk /\ scan'.read = scan.read,
         scan'.partial = scan.partial /\ scan'.left = scan.left,
         q.pc # "idle" => Reads(q) /\ q.path = req[r].path,
         \A b \in Books : q.from \in Paths /\ q.old = b => Mark(q.from, b)
  PROVE  SInv'
<1> DEFINE c == disk[req[r].path]
<1>1. c \in Books /\ c # None /\ \A b \in Books : b = c => ~Stray(b)
  BY RequestAt DEF Carries
<1>2. index \in [Paths -> Books \union {None}] /\ v \in Books \union {None}
  BY DEF SInv, Plain, IInv, Shapes
<1>3. index'[p] = v /\ \A x \in Paths \ {p} : index'[x] = index[x]
  BY <1>2
<1>4. \A b \in Books : (Stray(b)' <=> Stray(b)) /\ (Stray(b) => b # c)
  <2>1. \A b \in Books : Stray(b)' <=> Stray(b)
    BY DEF Stray, Here
  <2> QED
    BY <1>1, <2>1
<1> HIDE DEF c
<1>5. Plain'
  BY <1>2 DEF SInv, Plain
<1>6. ScanReads' /\ StateWithBook' /\ BooksSeen'
  <2>1. ScanReads'
    BY DEF SInv, ScanReads
  <2>2. StateWithBook' /\ BooksSeen'
    BY DEF SInv, Here, StateWithBook, BooksSeen
  <2> QED
    BY <2>1, <2>2
<1>7. StrayScan'
  <2> SUFFICES ASSUME NEW b \in Books, Stray(b) PROVE StrayScanned(b)'
    BY <1>4 DEF StrayScan
  <2>1. StrayScanned(b)
    BY DEF SInv, StrayScan
  <2> QED
    BY <2>1 DEF StrayScanned
<1>8. StrayRow'
  <2> SUFFICES ASSUME NEW b \in Books, Stray(b)
               PROVE  index'[at[b]] = b /\ \A x \in Paths \ {at[b]} : index'[x] # b
    BY <1>4 DEF StrayRow
  <2>1. b # c /\ at[b] \in Paths
    BY <1>4 DEF SInv, Plain
  <2>2. at[b] # p
    BY <1>1, <2>1 DEF SInv, OneBook, Mark, c
  <2> QED
    BY <1>3, <2>1, <2>2, Constants DEF SInv, StrayRow, c
<1>9. /\ RequestReads' /\ StrayReq'
      /\ req'[r] = q /\ \A o \in Requests \ {r} : req'[o] = req[o]
  <2>1. \A b \in Books : Stray(b)' => Stray(b) /\ at'[b] = at[b]
    BY <1>4
  <2>2. \A b \in Books : q.pc # "idle" /\ b = disk[q.path] => ~Stray(b)'
    BY <1>4 DEF c
  <2> QED
    BY <2>1, <2>2, NextRequest
<1>10. OneBook'
  <2>1. ASSUME NEW x \in Paths, NEW b \in Books, Mark(x, b)' PROVE Mark(x, b)
    <3>1. index'[x] = b => b \in {disk[x], index[x]}
      BY <1>3, Constants
    <3>2. ASSUME NEW o \in Requests, req'[o].from = x, req'[o].old = b
          PROVE  Mark(x, b)
      <4>1. CASE o = r
        BY <1>9, <3>2, <4>1
      <4>2. CASE o # r
        BY <1>9, <3>2, <4>2 DEF Mark
      <4> QED
        BY <4>1, <4>2
    <3> QED
      BY <2>1, <3>1, <3>2 DEF Mark
  <2> QED
    BY <2>1, MarksKept DEF SInv
<1> QED
  BY <1>5, <1>6, <1>7, <1>8, <1>9, <1>10 DEF SInv

LEMMA StateIndexBook == ASSUME IInv, SInv, NEW r \in Requests, IndexBook(r) PROVE SInv'
<1> DEFINE drops == [req[r] EXCEPT !.pc = "drop"]
<1>1. /\ req[r].pc = "index"
      /\ index' = [index EXCEPT ![req[r].path] = req[r].book]
      /\ req' = [req EXCEPT ![r] = IF req[r].moved THEN drops ELSE NoReq]
      /\ UNCHANGED <<disk, faulty, at, scan, settled>>
  BY DEF IndexBook, files
<1>2. /\ req[r] \in Req /\ Reads(req[r]) /\ req[r].path \in Paths
      /\ req[r].book = disk[req[r].path]
      /\ \A b \in Books : req[r].old = b => Mark(req[r].from, b)
  BY <1>1, RequestAt DEF Reads
<1>3. Mark(req[r].path, disk[req[r].path])
  BY DEF Mark
<1>4. PICK q \in Req : /\ req' = [req EXCEPT ![r] = q]
                       /\ q.pc # "idle" => Reads(q) /\ q.path = req[r].path
                       /\ \A b \in Books : q.from \in Paths /\ q.old = b => Mark(q.from, b)
  <2>1. CASE req[r].moved
    <3>1. /\ drops \in Req /\ drops.pc = "drop" /\ drops.path = req[r].path
          /\ drops.book = req[r].book /\ drops.moved = req[r].moved
          /\ drops.from = req[r].from /\ drops.old = req[r].old
      BY <1>2 DEF Req, Steps
    <3>2. req' = [req EXCEPT ![r] = drops]
      BY <1>1, <2>1
    <3> HIDE DEF drops
    <3>3. Reads(drops)
      BY <1>2, <2>1, <3>1 DEF Reads
    <3> QED
      BY <1>2, <3>1, <3>2, <3>3
  <2>2. CASE ~req[r].moved
    <3>1. req' = [req EXCEPT ![r] = NoReq]
      BY <1>1, <2>2
    <3> QED
      BY <3>1, NoRequest, Constants
  <2> QED
    BY <2>1, <2>2
<1> HIDE DEF drops
<1> QED
  BY <1>1, <1>2, <1>3, <1>4, RowState

LEMMA StateDeleteBookAt == ASSUME IInv, SInv, NEW r \in Requests, DeleteBookAt(r) PROVE SInv'
<1> DEFINE from == req[r].from
<1>1. /\ req[r].pc = "drop"
      /\ index' = [index EXCEPT ![from] = None] /\ req' = [req EXCEPT ![r] = NoReq]
      /\ scan' = IF scan.pc = "delete" THEN [scan EXCEPT !.todo = @ \ {from}] ELSE scan
      /\ UNCHANGED <<disk, faulty, at, settled>>
  BY DEF DeleteBookAt, files
<1>2. /\ from \in Paths /\ req[r].old = disk[req[r].path] /\ disk[req[r].path] \in Books
      /\ Mark(from, disk[req[r].path])
  BY <1>1, RequestAt DEF RequestTrue, Left, Reads
<1> HIDE DEF from
<1>3. /\ scan'.pc = scan.pc /\ (scan.pc # "delete" => scan'.todo = scan.todo)
      /\ scan'.sigs = scan.sigs /\ scan'.walk = scan.walk /\ scan'.read = scan.read
      /\ scan'.partial = scan.partial /\ scan'.left = scan.left
  BY <1>1, Spared
<1>4. NoReq \in Req /\ NoReq.pc = "idle" /\ NoReq.from \notin Paths
  BY NoRequest, Constants
<1> QED
  BY <1>1, <1>2, <1>3, <1>4, RowState

\* A change of the files leaves alone what is still to be read, and so what the scan
\* and the requests rely on; books other than the one that moves stray no more than
\* before.
LEMMA ChangeState ==
  ASSUME Wild = {}, IInv, SInv, NEW new \in [Paths -> Books \union {None}], Change(new),
         \E p \in Paths : new[p] # disk[p],
         \A p \in Paths : new[p] # disk[p] => p \notin faulty
  PROVE  /\ scan.pc # "walk" /\ UNCHANGED <<faulty, index, at, scan, req>>
         /\ \A p \in Paths : new[p] # disk[p] => ~ToRead(p)
         /\ Plain' /\ RequestReads' /\ ScanReads' /\ StateWithBook'
         /\ \A b \in Books : Stray(b) => StrayScanned(b)'
<1>1. /\ \A p \in Paths : new[p] # disk[p] => ~ToRead(p)
      /\ disk' = new /\ ~settled' /\ UNCHANGED <<faulty, index, at, scan, req>>
  BY DEF Change
<1>2. scan.pc # "walk"
  BY <1>1 DEF ToRead
<1>3. RequestReads'
  <2>1. \A r \in Requests : req[r].pc # "idle" => disk'[req[r].path] = disk[req[r].path]
    BY <1>1 DEF ToRead, SInv, RequestReads, Reads
  <2> QED
    BY <1>1, <2>1 DEF SInv, RequestReads, Reads
<1>4. ScanReads'
  <2>1. \A p \in Paths : scan.pc = "moves" /\ scan.walk[p] \notin {None, scan.sigs[p]} =>
            disk'[p] = disk[p]
    BY <1>1 DEF ToRead
  <2>2. \A p \in Paths : scan.pc = "index" /\ p \in scan.todo => disk'[p] = disk[p]
    BY <1>1 DEF ToRead
  <2> QED
    BY <1>1, <1>2, <2>1, <2>2 DEF SInv, ScanReads
<1>5. Plain'
  BY <1>1 DEF SInv, Plain, IInv, Shapes
<1>6. ASSUME NEW b \in Books, Stray(b) PROVE StrayScanned(b)'
  <2>1. scan.pc = "index" => \A x \in scan.todo : disk'[x] = disk[x]
    BY <1>1 DEF ToRead, IInv, Shapes, Scan
  <2>2. StrayScanned(b)
    BY <1>6 DEF SInv, StrayScan
  <2> QED
    BY <1>1, <2>1, <2>2 DEF StrayScanned
<1> QED
  BY <1>1, <1>2, <1>3, <1>4, <1>5, <1>6 DEF StateWithBook

\* A free path takes a book that alone is known there.
LEMMA FreeMarks ==
  ASSUME Wild = {}, SInv, IInv, NEW q \in Paths, NEW b \in Books, Free(q, b),
         NEW c \in Books, Mark(q, c)
  PROVE  c = b
<1>1. disk[q] = None /\ {index[q], scan.sigs[q], scan.read[q]} \subseteq {None, b}
  BY DEF Free
<1>2. CASE c \in {disk[q], index[q], scan.sigs[q], scan.read[q]}
  BY <1>1, <1>2, Constants
<1>3. CASE at[c] = q
  BY <1>3 DEF Free
<1>4. CASE \E r \in Requests : req[r].from = q /\ req[r].old = c
  BY <1>4, Constants DEF Free
<1> QED
  BY <1>2, <1>3, <1>4 DEF Mark

\* A change that makes no other book stray.
LEMMA KeptChange ==
  ASSUME Wild = {}, IInv, SInv, NEW new \in [Paths -> Books \union {None}], Change(new),
         \E p \in Paths : new[p] # disk[p],
         \A p \in Paths : new[p] # disk[p] => p \notin faulty,
         \A p \in Paths : new[p] \notin {None, disk[p]} => Free(p, new[p]),
         \A b \in Books : Here(b)' => Here(b),
         \A b \in Books : Stray(b)' => Stray(b)
  PROVE  SInv'
<1>1. disk' = new
  BY DEF Change
<1>2. /\ UNCHANGED <<faulty, index, at, scan, req>>
      /\ Plain' /\ RequestReads' /\ ScanReads' /\ StateWithBook'
      /\ \A b \in Books : Stray(b) => StrayScanned(b)'
      /\ \A p \in Paths : new[p] # disk[p] => ~ToRead(p)
  BY ChangeState
<1>4. OneBook'
  <2>1. ASSUME NEW p \in Paths, NEW b \in Books, Mark(p, b)', ~Mark(p, b)
        PROVE  new[p] = b /\ \A c \in Books : Mark(p, c) => c = b
    <3>1. new[p] = b /\ disk[p] # b
      BY <1>1, <1>2, <2>1 DEF Mark
    <3>2. Free(p, b)
      BY <3>1, Constants
    <3> QED
      BY <3>1, <3>2, FreeMarks
  <2>2. \A p \in Paths, b, c \in Books : Mark(p, b)' /\ Mark(p, c)' => b = c
    BY <2>1 DEF SInv, OneBook
  <2> QED
    BY <2>2 DEF OneBook
<1>6. BooksSeen'
  BY <1>2 DEF SInv, BooksSeen
<1>7. StrayRow' /\ StrayScan'
  BY <1>2 DEF SInv, StrayRow, StrayScan
<1>8. StrayReq'
  <2>1. \A r \in Requests : req[r].pc # "idle" => disk'[req[r].path] = disk[req[r].path]
    BY <1>1, <1>2 DEF ToRead, SInv, RequestReads, Reads
  <2> QED
    BY <1>2, <2>1 DEF SInv, StrayReq, Carries
<1> QED
  BY <1>2, <1>4, <1>6, <1>7, <1>8 DEF SInv

LEMMA StateCopy ==
  ASSUME Wild = {}, IInv, SInv, NEW p \in Paths, NEW q \in Paths, Copy(p, q) PROVE SInv'
<1> DEFINE new == [disk EXCEPT ![q] = disk[p]]
<1>1. /\ disk[p] # None /\ Free(q, disk[p]) /\ Change(new) /\ UNCHANGED at
      /\ disk \in [Paths -> Books \union {None}] /\ disk' = new
  BY DEF Copy, Change, IInv, Shapes
<1>2. /\ new \in [Paths -> Books \union {None}] /\ new[q] = disk[p]
      /\ \A x \in Paths \ {q} : new[x] = disk[x]
  BY <1>1
<1>3. q \notin faulty /\ disk[q] = None
  BY <1>1 DEF Free, Still
<1> HIDE DEF new
<1>4. \A b \in Books : Here(b)' => Here(b)
  BY <1>1, <1>2 DEF Here
<1>5. \A b \in Books : Stray(b)' => Stray(b)
  <2> SUFFICES ASSUME NEW b \in Books, Stray(b)' PROVE disk[at[b]] # b
    BY <1>4 DEF Stray
  <2>1. at[b] \in Paths /\ disk'[at[b]] # b
    BY <1>1 DEF SInv, Plain, Stray
  <2> QED
    BY <1>1, <1>2, <1>3, <2>1, Constants
<1> QED
  BY <1>1, <1>2, <1>3, <1>4, <1>5, KeptChange

LEMMA StateRemove ==
  ASSUME Wild = {}, IInv, SInv, NEW p \in Paths, Remove(p) PROVE SInv'
<1> DEFINE new == [disk EXCEPT ![p] = None]
<1>1. /\ disk[p] # None /\ p \notin faulty
      /\ Only(p) \/ at[disk[p]] # p
      /\ Change(new) /\ UNCHANGED at
      /\ disk \in [Paths -> Books \union {None}] /\ disk' = new
  BY DEF Remove, Still, Change, IInv, Shapes
<1>2. /\ new \in [Paths -> Books \union {None}] /\ new[p] = None
      /\ \A x \in Paths \ {p} : new[x] = disk[x]
  BY <1>1
<1> HIDE DEF new
<1>3. \A b \in Books : Here(b)' => Here(b)
  BY <1>1, <1>2, Constants DEF Here
<1>4. \A b \in Books : Stray(b)' => Stray(b)
  <2> SUFFICES ASSUME NEW b \in Books, Stray(b)', disk[at[b]] = b PROVE FALSE
    BY <1>3 DEF Stray
  <2>1. at[b] \in Paths /\ disk'[at[b]] # b
    BY <1>1 DEF SInv, Plain, Stray
  <2>2. at[b] = p
    BY <1>1, <1>2, <2>1
  <2>3. PICK x \in Paths : disk'[x] = b
    BY DEF Stray, Here
  <2>4. x # p /\ disk[x] = b
    BY <1>1, <1>2, <2>3, Constants
  <2> QED
    BY <1>1, <2>2, <2>4 DEF Only
<1> QED
  BY <1>1, <1>2, <1>3, <1>4, KeptChange

\* A book that moves strays, with its one row where it was.
LEMMA StateMove ==
  ASSUME Wild = {}, IInv, SInv, NEW p \in Paths, NEW q \in Paths, Move(p, q) PROVE SInv'
<1> DEFINE m == disk[p]
           new == [disk EXCEPT ![p] = None, ![q] = m]
<1>1. /\ m # None /\ p \notin faulty /\ Free(q, m) /\ Alone(p) /\ Placed(p) /\ Change(new)
      /\ disk \in [Paths -> Books \union {None}] /\ disk' = new
  BY DEF Move, Still, Change, IInv, Shapes
<1>2. m \in Books /\ disk[q] = None /\ q \notin faulty /\ p # q
  BY <1>1 DEF Free, Still
<1>3. /\ new \in [Paths -> Books \union {None}] /\ new[p] = None /\ new[q] = m
      /\ \A x \in Paths \ {p, q} : new[x] = disk[x]
  BY <1>1, <1>2
<1> HIDE DEF new
<1>4. \E x \in Paths : new[x] # disk[x]
  BY <1>1, <1>3
<1>5. \A x \in Paths : new[x] # disk[x] <=> x \in {p, q}
  BY <1>1, <1>2, <1>3
<1>7. /\ scan.pc # "walk" /\ UNCHANGED <<faulty, index, at, scan, req>>
      /\ RequestReads' /\ ScanReads' /\ StateWithBook' /\ Plain'
      /\ \A b \in Books : Stray(b) => StrayScanned(b)'
      /\ ~ToRead(p) /\ ~ToRead(q)
  BY <1>1, <1>2, <1>3, <1>4, <1>5, ChangeState
<1>8. /\ \A x \in Paths \ {p} : disk[x] # m /\ m \notin {index[x], scan.sigs[x], scan.read[x]}
      /\ index[p] = m /\ \A x \in Paths \ {p} : scan.walk[x] # m
  BY <1>1 DEF Alone, Only, Placed
<1>9. at[m] = p /\ at \in [Books -> Paths]
  <2>1. at \in [Books -> Paths]
    BY DEF SInv, Plain
  <2>2. disk[at[m]] = m
    BY <1>2, <1>8 DEF SInv, StrayRow, Stray, Here
  <2> QED
    BY <1>2, <1>8, <2>1, <2>2
<1> HIDE DEF m
<1>10. \A b \in Books \ {m} : /\ Here(b)' => Here(b)
                              /\ disk[at[b]] = b => disk'[at[b]] = b
                              /\ Stray(b)' => Stray(b)
  <2>1. \A b \in Books \ {m} : Here(b)' => Here(b)
    BY <1>1, <1>2, <1>3, Constants DEF Here
  <2>2. \A b \in Books \ {m} : disk[at[b]] = b => disk'[at[b]] = b
    BY <1>1, <1>2, <1>3, <1>9, Constants DEF m
  <2> QED
    BY <1>7, <2>1, <2>2 DEF Stray
<1>11. BooksSeen'
  <2>1. Here(m)
    BY <1>2 DEF Here, m
  <2> QED
    BY <1>7, <1>10, <2>1 DEF SInv, BooksSeen
<1>12. StrayRow'
  <2> SUFFICES ASSUME NEW b \in Books, Stray(b)'
               PROVE  index[at[b]] = b /\ \A x \in Paths \ {at[b]} : index[x] # b
    BY <1>7 DEF StrayRow
  <2>1. CASE b = m
    BY <1>8, <1>9, <2>1
  <2>2. CASE b # m
    BY <1>10, <2>2 DEF SInv, StrayRow
  <2> QED
    BY <2>1, <2>2
<1>13. ASSUME NEW b \in Books, b = m PROVE StrayScanned(b)'
  <2>1. scan.pc # "idle" => scan.walk[p] = m \/ scan.partial
    <3>1. Here(m)
      BY <1>2 DEF Here, m
    <3>2. scan.pc # "idle" => scan.pc \in {"moves", "index", "prune", "delete"}
      BY <1>7 DEF IInv, Shapes, Scan, Stages
    <3>3. scan.pc # "idle" => scan.partial \/ \E x \in Paths : scan.walk[x] = m
      BY <1>2, <3>1, <3>2 DEF SInv, BooksSeen
    <3> QED
      BY <1>8, <3>3
  <2>2. scan.pc = "moves" => \A x \in Paths \ {p} : scan.walk[x] # m
    BY <1>8
  <2>3. scan.pc = "index" => \A x \in scan.todo : disk'[x] # m
    <3> SUFFICES ASSUME scan.pc = "index", NEW x \in scan.todo PROVE disk'[x] # m
      OBVIOUS
    <3>1. x \in Paths \ {p, q}
      BY <1>7 DEF ToRead, IInv, Shapes, Scan
    <3> QED
      BY <1>1, <1>3, <1>8, <3>1
  <2> QED
    BY <1>1, <1>2, <1>7, <1>8, <1>9, <1>13, <2>1, <2>2, <2>3, Constants DEF StrayScanned
<1>14. StrayScan'
  <2> SUFFICES ASSUME NEW b \in Books, Stray(b)' PROVE StrayScanned(b)'
    BY DEF StrayScan
  <2>1. CASE b # m
    BY <1>7, <1>10, <2>1
  <2>2. CASE b = m
    BY <1>13, <2>2
  <2> QED
    BY <2>1, <2>2
<1>15. StrayReq'
  <2> SUFFICES ASSUME NEW r \in Requests, NEW b \in Books, req[r].pc # "idle",
                      b = disk'[req[r].path], Stray(b)'
               PROVE  Carries(req[r], b)
    BY <1>7 DEF StrayReq, Carries
  <2>1. req[r].path \in Paths \ {p, q}
    BY <1>7 DEF ToRead, SInv, RequestReads, Reads
  <2>2. b = disk[req[r].path] /\ b # m
    BY <1>1, <1>3, <1>8, <2>1
  <2> QED
    BY <1>10, <2>2 DEF SInv, StrayReq
<1>16. OneBook'
  <2>1. ASSUME NEW x \in Paths, NEW b \in Books, Mark(x, b)', ~Mark(x, b)
        PROVE  b = m /\ x = q
    <3>1. disk'[x] = b /\ disk[x] # b
      BY <1>7, <2>1 DEF Mark
    <3> QED
      BY <1>1, <1>2, <1>3, <3>1, Constants
  <2>2. \A c \in Books : Mark(q, c) => c = m
    BY <1>1, <1>2, FreeMarks
  <2>3. \A x \in Paths, b, c \in Books : Mark(x, b)' /\ Mark(x, c)' => b = c
    BY <2>1, <2>2 DEF SInv, OneBook
  <2> QED
    BY <2>3 DEF OneBook
<1> QED
  BY <1>7, <1>11, <1>12, <1>14, <1>15, <1>16 DEF SInv

\* A folder that can't be read for a while holds a book that is known where it is, and
\* so is not to be read.
LEMMA StateFaults ==
  ASSUME Wild = {}, IInv, SInv, NEW p \in Paths, Fault(p) \/ Heal(p) PROVE SInv'
<1>1. /\ UNCHANGED <<disk, index, at, scan, req>> /\ ~settled'
      /\ \/ faulty' = faulty \ {p}
         \/ faulty' = faulty \union {p} /\ disk[p] # None /\ Known(p)
  BY DEF Fault, Heal, Known
<1>2. Plain'
  BY <1>1 DEF SInv, Plain
<1>3. RequestReads'
  BY <1>1 DEF SInv, RequestReads, Reads, Known
<1>4. ScanReads'
  BY <1>1 DEF SInv, ScanReads, Known
<1>5. OneBook' /\ StateWithBook'
  BY <1>1 DEF SInv, OneBook, Mark, StateWithBook
<1>6. \A b \in Books : Stray(b)' <=> Stray(b)
  BY <1>1 DEF Stray, Here
<1>7. BooksSeen' /\ StrayRow' /\ StrayReq'
  BY <1>1, <1>6 DEF SInv, BooksSeen, Here, StrayRow, StrayReq, Carries
<1>8. StrayScan'
  BY <1>1, <1>6 DEF SInv, StrayScan, StrayScanned
<1> QED
  BY <1>2, <1>3, <1>4, <1>5, <1>7, <1>8 DEF SInv

LEMMA StateStutters == ASSUME SInv, UNCHANGED vars PROVE SInv'
<1> USE DEF vars, history
<1>1. \A b \in Books : Stray(b)' <=> Stray(b)
  BY DEF Stray, Here
<1>2. Plain' /\ RequestReads' /\ ScanReads' /\ StateWithBook'
  BY DEF SInv, Plain, RequestReads, ScanReads, StateWithBook, Reads
<1>3. OneBook' /\ BooksSeen'
  BY DEF SInv, OneBook, Mark, BooksSeen, Here
<1>4. StrayRow' /\ StrayReq' /\ StrayScan'
  BY <1>1 DEF SInv, StrayRow, StrayReq, StrayScan, StrayScanned, Carries
<1> QED
  BY <1>2, <1>3, <1>4 DEF SInv

LEMMA StateNext == ASSUME Wild = {}, IInv, SInv, [Next]_vars PROVE SInv'
<1>1. CASE \E p, q \in Paths : Move(p, q) \/ Copy(p, q)
  BY <1>1, StateMove, StateCopy
<1>2. CASE \E p \in Paths : Remove(p) \/ Fault(p) \/ Heal(p)
  BY <1>2, StateRemove, StateFaults
<1>3. CASE StartScan \/ EndWalk \/ EndMoves \/ EndIndex \/ LookToPrune \/ Prune \/ Stop
  BY <1>3, StateStartScan, StateEndWalk, StateEndMoves, StateEndIndex, StateLookToPrune,
     StatePrune, StateStop
<1>4. CASE \E p \in Paths : Visit(p) \/ DetectMove(p) \/ ReadBook(p) \/ WriteBook(p)
  BY <1>4, StateVisit, StateDetectMove, StateReadBook, StateWriteBook
<1>5. CASE \E r \in Requests, p \in Paths :
             \/ IndexPath(r, p)
             \/ \E from \in Paths \union {None} : IndexMoved(r, p, from)
  BY <1>5, StateIndexPath, StateIndexMoved
<1>6. CASE \E r \in Requests :
             \/ MoveCandidates(r) \/ MovedFrom(r) \/ FindOld(r) \/ CheckGone(r) \/ Compare(r)
             \/ CarryMove(r) \/ Enrich(r) \/ IndexBook(r) \/ DeleteBookAt(r) \/ Cancel(r)
  BY <1>6, StateMoveCandidates, StateMovedFrom, StateFindOld, StateCheckGone, StateCompare,
     StateCarryMove, StateEnrich, StateIndexBook, StateDeleteBookAt, StateCancel
<1>7. CASE UNCHANGED vars
  BY <1>7, StateStutters
<1> QED
  BY <1>1, <1>2, <1>3, <1>4, <1>5, <1>6, <1>7 DEF Next

\* Where nothing of Wild happens, the state of every book on disk is with the book once
\* a scan ran to its end over files nobody touched, whatever moves, copies, removals,
\* faults, stopped scans and on-demand requests came before (detectMoves, carryFrom).
THEOREM StateStays ==
  ASSUME Wild = {}
  PROVE  Spec => []StateWithBook
<1>1. IInv /\ SInv /\ [Next]_vars => SInv'
  BY StateNext
<1>2. SInv => StateWithBook
  BY DEF SInv
<1> QED
  BY <1>1, <1>2, InitState, Inductive, PTL DEF Spec
=============================================================================
