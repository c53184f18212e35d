---------------------------- MODULE RestoreProofs ----------------------------
(* Proofs about Restore, for any number of commits, backups, restores and   *)
(* starts, and whatever the disk refuses. Neither NoForeignWal nor the      *)
(* promise is inductive: what a step of the start may do rests on what the  *)
(* steps before it left on disk (StartInv, AsideInv).                       *)
EXTENDS Restore, TLAPS

Known == 1 .. count["commit"]
Kinds == {"scheduled", "manual", "before-restore"}
File == [gen : Nat, holds : SUBSET Known]
Backup == [id : Nat, kind : Kinds, holds : SUBSET Known]
Marker == [ask : Nat, id : Nat, holds : SUBSET Known]
Aside == [start : Nat, part : {"main", "wal"}, gen : Nat, holds : SUBSET Known]
Maker == [step : {"idle", "write", "prune", "remove"}, kind : Kinds,
          holds : SUBSET Known, doomed : SUBSET Backup]

\* The steps of a start once the backup is staged, and all those of a restore.
Applying == {"copy", "asideWal", "asideMain", "unwal", "swap"}
Restoring == Applying \union {"check", "stage", "record", "unmark"}

\* The contents of the copies on disk, and of the backup that is asked for.
Held == {c.holds : c \in copies} \union {f.holds : f \in aside}
Wanted == IF marker = NoMarker THEN {} ELSE {marker.holds}

\* Every file holds commits that were made.
Shapes ==
    /\ count \in [Counters -> Nat] /\ count["commit"] <= MaxCommits
    /\ main \in File /\ wal \in File /\ staged \in File
    /\ copies \subseteq Backup /\ aside \subseteq Aside
    /\ marker \in Marker /\ maker \in Maker /\ asker \in Backup
    /\ applied \in Nat
    /\ pc \in {"down", "up", "open"} \union Restoring

\* A file that is there has a generation.
Generations ==
    /\ main = NoFile \/ main.gen > 0
    /\ staged = NoFile \/ staged.gen > 0

\* What the place of the process says of the disk.
StartInv ==
    /\ pc \in {"up", "copy", "asideWal", "asideMain"} => main # NoFile
    /\ pc \in Applying => staged # NoFile /\ staged.holds = marker.holds
    /\ pc \in Restoring => marker # NoMarker
    /\ pc = "open" => marker = NoMarker
    /\ pc \in {"asideMain", "swap"} => wal = NoFile
    /\ pc \in {"unwal", "swap"} => Content \subseteq UNION Held

\* What keepAside moved in this start, before the main file: at most the log.
AsideInv ==
    /\ \A f \in aside : f.start <= count["start"]
    /\ pc \in {"check", "stage", "copy", "asideWal"} =>
          \A f \in aside : f.start < count["start"]
    /\ pc = "asideMain" =>
          \A f, g \in aside : f.start = count["start"] /\ g.start = count["start"] =>
              f = g /\ f.gen = main.gen

\* A backup being written is of the database as it was in this run.
MakerInv == maker.step = "write" => pc = "up" /\ maker.holds \subseteq Content

\* No marker and no restore is ahead of what was asked.
AskInv == applied <= count["ask"] /\ marker.ask <= count["ask"]

IInv == /\ Shapes /\ Generations /\ NoForeignWal /\ StartInv /\ AsideInv
        /\ MakerInv /\ AskInv /\ NoReplay

\* What the database should hold, its files and the copies. Only at risk do its
\* files hold less, and only then are they moved.
WasInv ==
    /\ risk \in BOOLEAN
    /\ ~risk => Content = was
    /\ pc = "up" => ~risk
    /\ Content \subseteq was /\ was \subseteq Content \union UNION Held
    /\ pc = "unwal" /\ ~risk => wal = NoFile
    /\ pc \in {"asideWal", "asideMain"} => risk
    /\ pc = "asideMain" =>
          \A f \in aside : f.start = count["start"] => f.holds \subseteq was

-----------------------------------------------------------------------------
(* The invariant.                                                           *)

LEMMA NoThings ==
    /\ NoFile \in File /\ NoFile.gen = 0 /\ NoFile.holds = {}
    /\ NoMarker \in Marker /\ NoMarker.ask = 0
    /\ NoBackup \in Backup
    /\ NotMaking \in Maker /\ NotMaking.step = "idle" /\ NotMaking.holds = {}
BY DEF NoFile, File, NoMarker, Marker, NoBackup, Backup, NotMaking, Maker, Kinds

\* The sets above depend on the commits made, which only a commit changes.
LEMMA SameSets ==
  ASSUME count'["commit"] = count["commit"]
  PROVE  /\ Known' = Known /\ File' = File /\ Backup' = Backup /\ Marker' = Marker
         /\ Aside' = Aside /\ Maker' = Maker
BY DEF Known, File, Backup, Marker, Aside, Maker

LEMMA InitInv == Init => IInv
<1> SUFFICES ASSUME Init PROVE IInv
  OBVIOUS
<1>1. \A c \in Counters : count[c] = 0
  BY DEF Init
<1>2. count["commit"] = 0 /\ count["start"] = 0 /\ count["ask"] = 0
  BY <1>1 DEF Counters
<1>3. Shapes
  <2>1. count \in [Counters -> Nat]
    BY DEF Init
  <2>2. 0 <= MaxCommits
    BY RestoreAssumption
  <2>3. /\ main = NoFile /\ wal = NoFile /\ staged = NoFile /\ aside = {} /\ copies = {}
        /\ marker = NoMarker /\ maker = NotMaking /\ asker = NoBackup
        /\ applied = 0 /\ pc = "down"
    BY DEF Init
  <2> QED
    BY <1>2, <2>1, <2>2, <2>3, NoThings DEF Shapes
<1>4. Generations /\ NoForeignWal /\ StartInv
  BY DEF Init, Generations, NoForeignWal, StartInv, Applying, Restoring
<1>5. AsideInv /\ NoReplay
  BY DEF Init, AsideInv, NoReplay
<1>6. MakerInv /\ AskInv
  <2>1. maker = NotMaking /\ marker = NoMarker /\ applied = 0
    BY DEF Init
  <2> QED
    BY <1>2, <2>1, NoThings DEF MakerInv, AskInv
<1> QED
  BY <1>3, <1>4, <1>5, <1>6 DEF IInv

\* While the server is up, a handler changes copies, the marker and what it holds
\* in memory; a marker it leaves was there, or is of a new ask.
LEMMA ServeInv ==
  ASSUME IInv, pc = "up", UpUnchanged,
         count' \in [Counters -> Nat], count'["commit"] = count["commit"],
         count'["start"] = count["start"], count["ask"] <= count'["ask"],
         copies' \subseteq Backup, maker' \in Maker, asker' \in Backup, marker' \in Marker,
         maker'.step = "write" => maker'.holds \subseteq Content,
         \/ marker' = marker
         \/ marker' = NoMarker
         \/ marker'.ask = count'["ask"] /\ marker'.ask > count["ask"]
  PROVE  IInv'
<1>1. UNCHANGED <<main, wal, staged, aside, pc, applied>>
  BY DEF UpUnchanged
<1>2. Shapes'
  BY <1>1, SameSets DEF IInv, Shapes
<1>3. Generations' /\ NoForeignWal'
  BY <1>1 DEF IInv, Generations, NoForeignWal
<1>4. StartInv' /\ AsideInv'
  BY <1>1 DEF IInv, StartInv, AsideInv, Applying, Restoring
<1>5. MakerInv'
  BY <1>1 DEF MakerInv, Content
<1>6. applied \in Nat /\ count["ask"] \in Nat /\ count'["ask"] \in Nat /\ marker.ask \in Nat
  BY DEF IInv, Shapes, Marker, Counters
<1>7. AskInv' /\ NoReplay'
  <2>1. AskInv'
    BY <1>1, <1>6, NoThings DEF IInv, AskInv
  <2>2. NoReplay'
    BY <1>1, <1>6 DEF IInv, AskInv, NoReplay
  <2> QED
    BY <2>1, <2>2
<1> QED
  BY <1>2, <1>3, <1>4, <1>5, <1>7 DEF IInv

\* A counter goes up.
LEMMA Counted ==
  ASSUME IInv, NEW c \in Counters, count' = [count EXCEPT ![c] = @ + 1]
  PROVE  /\ count' \in [Counters -> Nat] /\ count'[c] = count[c] + 1
         /\ \A d \in Counters \ {c} : count'[d] = count[d]
         /\ \A d \in Counters : count[d] \in Nat
BY DEF IInv, Shapes

LEMMA BackupsInv ==
  ASSUME IInv, (\E kind \in {"scheduled", "manual"} : BeginBackup(kind))
               \/ WriteBackup \/ LookToPrune \/ RemovePruned
  PROVE  IInv'
<1>1. /\ count \in [Counters -> Nat] /\ copies \subseteq Backup /\ maker \in Maker
      /\ asker \in Backup /\ marker \in Marker /\ maker.holds \subseteq Known
      /\ Content \subseteq Known /\ count["ask"] \in Nat
  BY DEF IInv, Shapes, Maker, Content, File, Counters
<1>2. "commit" \in Counters /\ "start" \in Counters /\ "ask" \in Counters
      /\ "backup" \in Counters /\ "copy" \in Counters
  BY DEF Counters
<1>3. ASSUME NEW kind \in {"scheduled", "manual"}, BeginBackup(kind) PROVE IInv'
  <2>1. /\ maker' = [NotMaking EXCEPT !.step = "write", !.kind = kind, !.holds = Content]
        /\ count' = [count EXCEPT !["backup"] = @ + 1]
        /\ pc = "up" /\ UpUnchanged /\ UNCHANGED <<copies, marker, asker>>
    BY <1>3 DEF BeginBackup
  <2>2. maker' \in Maker /\ maker'.holds = Content
    BY <1>1, <2>1 DEF Maker, NotMaking, Kinds
  <2>3. /\ count' \in [Counters -> Nat] /\ count'["commit"] = count["commit"]
        /\ count'["start"] = count["start"] /\ count'["ask"] = count["ask"]
    BY <1>2, <2>1, Counted
  <2> QED
    BY <1>1, <2>1, <2>2, <2>3, ServeInv
<1>4. CASE WriteBackup
  <2>1. pc = "up" /\ maker.step = "write" /\ UpUnchanged /\ UNCHANGED <<marker, asker>>
    BY <1>4 DEF WriteBackup
  <2>2. maker' \in Maker /\ maker'.step # "write"
    <3>1. /\ [NotMaking EXCEPT !.step = "prune"] \in Maker
          /\ [NotMaking EXCEPT !.step = "prune"].step = "prune"
      BY DEF NotMaking, Maker, Kinds
    <3> QED
      BY <1>4, <3>1, NoThings DEF WriteBackup
  <2>3. CASE UNCHANGED <<copies, count>>
    BY <1>1, <2>1, <2>2, <2>3, ServeInv
  <2>4. ASSUME count' = [count EXCEPT !["copy"] = @ + 1],
               copies' = copies \union {[id |-> count'["copy"], kind |-> maker.kind,
                                         holds |-> maker.holds]}
        PROVE  IInv'
    <3>1. /\ count' \in [Counters -> Nat] /\ count'["commit"] = count["commit"]
          /\ count'["start"] = count["start"] /\ count'["ask"] = count["ask"]
          /\ count'["copy"] \in Nat
      BY <1>2, <2>4, Counted
    <3>2. [id |-> count'["copy"], kind |-> maker.kind, holds |-> maker.holds] \in Backup
      BY <1>1, <3>1 DEF Backup, Maker
    <3>3. copies' \subseteq Backup
      BY <1>1, <2>4, <3>2
    <3> QED
      BY <1>1, <2>1, <2>2, <3>1, <3>3, ServeInv
  <2> QED
    BY <1>4, <2>3, <2>4 DEF WriteBackup
<1>5. CASE LookToPrune
  <2>1. /\ maker' = [maker EXCEPT !.step = "remove", !.doomed = Prunable]
        /\ pc = "up" /\ UpUnchanged /\ UNCHANGED <<copies, marker, asker, count>>
    BY <1>5 DEF LookToPrune
  <2>2. Prunable \subseteq Backup
    BY <1>1 DEF Prunable
  <2>3. maker' \in Maker /\ maker'.step # "write"
    BY <1>1, <2>1, <2>2 DEF Maker
  <2> QED
    BY <1>1, <2>1, <2>3, ServeInv
<1>6. CASE RemovePruned
  <2>1. pc = "up" /\ UpUnchanged /\ UNCHANGED <<marker, asker, count>> /\ copies' \subseteq copies
    BY <1>6 DEF RemovePruned
  <2>2. maker' \in Maker /\ maker'.step # "write"
    <3>1. ASSUME NEW c PROVE /\ [maker EXCEPT !.doomed = @ \ {c}] \in Maker
                             /\ [maker EXCEPT !.doomed = @ \ {c}].step = maker.step
      BY <1>1 DEF Maker
    <3> QED
      BY <1>6, <3>1, NoThings DEF RemovePruned
  <2> QED
    BY <1>1, <2>1, <2>2, ServeInv
<1> QED
  BY <1>3, <1>4, <1>5, <1>6

LEMMA RequestsInv ==
  ASSUME IInv, \/ \E c \in copies : BeginDelete(c) \/ BeginRequest(c)
               \/ CancelForDelete \/ FinishDelete \/ RequestRestore \/ CancelRestore
  PROVE  IInv'
<1>1. /\ count \in [Counters -> Nat] /\ copies \subseteq Backup /\ maker \in Maker
      /\ asker \in Backup /\ marker \in Marker /\ count["ask"] \in Nat
      /\ maker.step = "write" => maker.holds \subseteq Content
  BY DEF IInv, Shapes, Counters, MakerInv
<1>2. CASE \/ \E c \in copies : BeginDelete(c) \/ BeginRequest(c)
           \/ CancelForDelete \/ FinishDelete \/ CancelRestore
  <2>1. pc = "up" /\ UpUnchanged /\ UNCHANGED <<maker, count>> /\ copies' \subseteq copies
    BY <1>2 DEF BeginDelete, BeginRequest, CancelForDelete, FinishDelete, CancelRestore, volatile
  <2>2. asker' \in Backup /\ marker' \in {marker, NoMarker}
    BY <1>1, <1>2 DEF BeginDelete, BeginRequest, CancelForDelete, FinishDelete, CancelRestore, volatile
  <2> QED
    BY <1>1, <2>1, <2>2, ServeInv, NoThings
<1>3. CASE RequestRestore
  <2>1. pc = "up" /\ UpUnchanged /\ UNCHANGED <<copies, maker>> /\ asker' = NoBackup
    BY <1>3 DEF RequestRestore
  <2>2. CASE UNCHANGED <<count, marker>>
    BY <1>1, <2>1, <2>2, ServeInv, NoThings
  <2>3. ASSUME count' = [count EXCEPT !["ask"] = @ + 1],
               marker' = [ask |-> count'["ask"], id |-> asker.id, holds |-> asker.holds]
        PROVE  IInv'
    <3>1. /\ count' \in [Counters -> Nat] /\ count'["commit"] = count["commit"]
          /\ count'["start"] = count["start"] /\ count'["ask"] = count["ask"] + 1
      BY <2>3, Counted DEF Counters
    <3>2. marker' \in Marker /\ marker'.ask = count'["ask"]
      BY <1>1, <2>3, <3>1 DEF Marker, Backup
    <3> QED
      BY <1>1, <2>1, <3>1, <3>2, ServeInv, NoThings
  <2> QED
    BY <1>3, <2>2, <2>3 DEF RequestRestore
<1> QED
  BY <1>2, <1>3

\* A commit goes to the database's own log.
LEMMA CommitInv == ASSUME IInv, Commit PROVE IInv'
<1> DEFINE n == count["commit"]
<1>1. /\ pc = "up" /\ n < MaxCommits /\ count' = [count EXCEPT !["commit"] = @ + 1]
      /\ wal' = [gen |-> main.gen, holds |-> wal.holds \union {count'["commit"]}]
      /\ UNCHANGED <<main, staged, aside, copies, marker, pc, applied, maker, asker>>
  BY DEF Commit, volatile
<1>2. /\ count' \in [Counters -> Nat] /\ count'["commit"] = n + 1 /\ n \in Nat
      /\ count'["start"] = count["start"] /\ count'["ask"] = count["ask"]
  BY <1>1, Counted DEF Counters
<1>3. Known \subseteq Known' /\ n + 1 \in Known'
  BY <1>2 DEF Known
<1>4. /\ File \subseteq File' /\ Backup \subseteq Backup' /\ Marker \subseteq Marker'
      /\ Aside \subseteq Aside' /\ SUBSET Known \subseteq SUBSET Known'
  BY <1>3 DEF File, Backup, Marker, Aside
<1>5. Maker \subseteq Maker'
  BY <1>4 DEF Maker
<1>6. wal.holds \subseteq Known /\ main.gen \in Nat /\ main.gen > 0 /\ main # NoFile
  BY <1>1 DEF IInv, Shapes, File, Generations, StartInv
<1>7. wal' \in File' /\ wal'.gen = main.gen /\ wal.holds \subseteq wal'.holds
  BY <1>1, <1>2, <1>3, <1>6 DEF File
<1>8. Shapes'
  <2>1. count'["commit"] <= MaxCommits
    BY <1>1, <1>2, RestoreAssumption
  <2> QED
    BY <1>1, <1>2, <1>4, <1>5, <1>7, <2>1 DEF IInv, Shapes
<1>9. Generations' /\ NoForeignWal' /\ StartInv'
  BY <1>1, <1>6, <1>7 DEF IInv, Generations, NoForeignWal, StartInv, Applying, Restoring
<1>10. AsideInv' /\ AskInv' /\ NoReplay'
  BY <1>1, <1>2 DEF IInv, AsideInv, AskInv, NoReplay
<1>11. MakerInv'
  BY <1>1, <1>7 DEF IInv, MakerInv, Content
<1> QED
  BY <1>8, <1>9, <1>10, <1>11 DEF IInv

\* The log folds into its own database, or stays beside it.
LEMMA Closed ==
  ASSUME IInv, CloseDatabase
  PROVE  /\ main' \in File /\ wal' \in File /\ Content' = Content
         /\ main'.gen = main.gen /\ (main = NoFile <=> main' = NoFile)
         /\ wal' # NoFile => wal' = wal
<1>1. main \in File /\ wal \in File
  BY DEF IInv, Shapes
<1>2. CASE UNCHANGED <<main, wal>>
  BY <1>1, <1>2 DEF Content
<1>3. CASE main' = [main EXCEPT !.holds = @ \union wal.holds] /\ wal' = NoFile
  <2>1. /\ main' \in File /\ main'.gen = main.gen
        /\ main'.holds = main.holds \union wal.holds
    BY <1>1, <1>3 DEF File
  <2>2. Content' = Content
    BY <1>3, <2>1, NoThings DEF Content
  <2>3. CASE main = NoFile
    <3>1. wal.holds = {} /\ main.holds = {}
      BY <2>3, NoThings DEF IInv, NoForeignWal
    <3>2. main' = NoFile
      BY <1>1, <2>1, <2>3, <3>1 DEF File, NoFile
    <3> QED
      BY <1>3, <2>1, <2>2, <2>3, <3>2, NoThings
  <2>4. CASE main # NoFile
    <3>1. main' # NoFile
      BY <1>1, <2>1, <2>4, NoThings DEF IInv, Generations, File
    <3> QED
      BY <1>3, <2>1, <2>2, <2>4, <3>1, NoThings
  <2> QED
    BY <2>3, <2>4
<1> QED
  BY <1>2, <1>3 DEF CloseDatabase

\* The process ends, cleanly or not; nothing is known of a server that is down.
LEMMA EndsInv == ASSUME IInv, Stop \/ Die PROVE IInv'
<1>1. /\ pc' = "down" /\ maker' = NotMaking /\ asker' = NoBackup
      /\ UNCHANGED <<staged, aside, copies, marker, applied, count>>
      /\ CloseDatabase \/ UNCHANGED <<main, wal>>
  BY DEF Stop, Die, disk
<1>2. main \in File /\ wal \in File
  BY DEF IInv, Shapes
<1>3. /\ main' \in File /\ wal' \in File
      /\ main'.gen = main.gen /\ (main = NoFile <=> main' = NoFile)
      /\ wal' # NoFile => wal' = wal
  BY <1>1, <1>2, Closed
<1>4. Shapes'
  BY <1>1, <1>3, NoThings, SameSets DEF IInv, Shapes
<1>5. Generations' /\ NoForeignWal' /\ StartInv'
  BY <1>1, <1>3 DEF IInv, Generations, NoForeignWal, StartInv, Applying, Restoring
<1>6. AsideInv' /\ AskInv' /\ NoReplay'
  BY <1>1 DEF IInv, AsideInv, AskInv, NoReplay
<1>7. MakerInv'
  BY <1>1, NoThings DEF MakerInv
<1> QED
  BY <1>4, <1>5, <1>6, <1>7 DEF IInv

LEMMA StartsInv == ASSUME IInv, Start PROVE IInv'
<1>1. /\ pc = "down" /\ count' = [count EXCEPT !["start"] = @ + 1]
      /\ pc' = (IF marker = NoMarker THEN "open" ELSE "check")
      /\ UNCHANGED <<main, wal, staged, aside, copies, marker, applied, maker, asker>>
  BY DEF Start, disk, volatile
<1>2. /\ count' \in [Counters -> Nat] /\ count'["start"] = count["start"] + 1
      /\ count'["commit"] = count["commit"] /\ count'["ask"] = count["ask"]
      /\ count["start"] \in Nat
  BY <1>1, Counted DEF Counters
<1>3. Shapes'
  BY <1>1, <1>2, SameSets DEF IInv, Shapes, Restoring
<1>4. Generations' /\ NoForeignWal' /\ StartInv'
  BY <1>1 DEF IInv, Generations, NoForeignWal, StartInv, Applying, Restoring
<1>5. AsideInv'
  <2>1. \A f \in aside : f.start \in Nat /\ f.start <= count["start"]
    BY DEF IInv, Shapes, Aside, AsideInv
  <2> QED
    BY <1>1, <1>2, <2>1 DEF AsideInv
<1>6. MakerInv' /\ AskInv' /\ NoReplay'
  BY <1>1, <1>2 DEF IInv, MakerInv, AskInv, NoReplay
<1> QED
  BY <1>3, <1>4, <1>5, <1>6 DEF IInv

\* store.Open: the marker is gone, and the log, if there is one, has its database.
LEMMA OpenInv == ASSUME IInv, Open PROVE IInv'
<1>1. /\ pc = "open" /\ pc' = "up"
      /\ UNCHANGED <<wal, staged, aside, copies, marker, applied, maker, asker>>
  BY DEF Open, volatile
<1>2. /\ count' \in [Counters -> Nat] /\ count'["start"] = count["start"]
      /\ count'["commit"] = count["commit"] /\ count'["ask"] = count["ask"]
      /\ main' \in File /\ main' # NoFile /\ main'.gen > 0
      /\ main # NoFile => main' = main
  <2>1. CASE main = NoFile
    <3>1. /\ count' = [count EXCEPT !["gen"] = @ + 1]
          /\ main' = [gen |-> count'["gen"], holds |-> {}]
      BY <2>1 DEF Open
    <3>2. /\ count' \in [Counters -> Nat] /\ count'["start"] = count["start"]
          /\ count'["commit"] = count["commit"] /\ count'["ask"] = count["ask"]
          /\ count'["gen"] \in Nat /\ count'["gen"] > 0
      BY <3>1, Counted DEF Counters
    <3>3. main' \in File /\ main'.gen > 0
      BY <3>1, <3>2 DEF File
    <3> QED
      BY <2>1, <3>2, <3>3, NoThings
  <2>2. CASE main # NoFile
    BY <2>2 DEF Open, IInv, Shapes, Generations
  <2> QED
    BY <2>1, <2>2
<1>3. Shapes'
  BY <1>1, <1>2, SameSets DEF IInv, Shapes
<1>4. Generations' /\ NoForeignWal' /\ StartInv'
  BY <1>1, <1>2 DEF IInv, Generations, NoForeignWal, StartInv, Applying, Restoring
<1>5. AsideInv' /\ MakerInv' /\ AskInv' /\ NoReplay'
  BY <1>1, <1>2 DEF IInv, AsideInv, MakerInv, StartInv, AskInv, NoReplay
<1> QED
  BY <1>3, <1>4, <1>5 DEF IInv

\* A step of a restore touches neither the marker nor the handlers' memory.
LEMMA RestoreStep ==
  ASSUME IInv, pc \in Restoring, pc' \in Restoring, StartUnchanged, UNCHANGED applied,
         count' \in [Counters -> Nat], count'["commit"] = count["commit"],
         count'["ask"] = count["ask"],
         main' \in File, wal' \in File, staged' \in File,
         copies' \subseteq Backup, aside' \subseteq Aside,
         Generations', NoForeignWal', StartInv', AsideInv'
  PROVE  IInv'
<1>1. UNCHANGED <<marker, maker, asker>>
  BY DEF StartUnchanged, volatile
<1>2. pc # "up" /\ pc' # "up"
  BY DEF Restoring, Applying
<1>3. Shapes'
  BY <1>1, SameSets DEF IInv, Shapes
<1>4. MakerInv' /\ AskInv' /\ NoReplay'
  BY <1>1, <1>2 DEF IInv, MakerInv, AskInv, NoReplay
<1> QED
  BY <1>3, <1>4 DEF IInv

\* A restore that gives up leaves the database where it is.
LEMMA RefuseInv ==
  ASSUME IInv, pc \in Restoring, NEW why, Refuse(why), StartUnchanged, UNCHANGED main,
         aside' \subseteq aside, wal' \in File,
         wal' # NoFile => main # NoFile /\ wal'.gen = main.gen
  PROVE  IInv'
<1>1. pc' = "record" /\ staged' = NoFile /\ UNCHANGED <<copies, applied, count, main, marker>>
  BY DEF Refuse, StartUnchanged
<1>2. Generations' /\ NoForeignWal'
  BY <1>1 DEF IInv, Generations, NoForeignWal
<1>3. StartInv' /\ AsideInv'
  BY <1>1 DEF IInv, StartInv, AsideInv, Applying, Restoring
<1>4. /\ count' \in [Counters -> Nat] /\ main' \in File /\ staged' \in File
      /\ copies' \subseteq Backup /\ aside' \subseteq Aside /\ pc' \in Restoring
  BY <1>1, NoThings DEF IInv, Shapes, Restoring
<1> QED
  BY <1>1, <1>2, <1>3, <1>4, RestoreStep

LEMMA CheckInv == ASSUME IInv, CheckBackup PROVE IInv'
<1>1. pc = "check" /\ StartUnchanged /\ UNCHANGED <<main, wal, aside>> /\ pc \in Restoring
  BY DEF CheckBackup, Restoring
<1>2. /\ count \in [Counters -> Nat] /\ main \in File /\ wal \in File /\ staged \in File
      /\ copies \subseteq Backup /\ aside \subseteq Aside
  BY DEF IInv, Shapes
<1>3. ASSUME NEW why, Refuse(why) PROVE IInv'
  BY <1>1, <1>2, <1>3, RefuseInv DEF IInv, NoForeignWal
<1>4. CASE pc' = "stage" /\ UNCHANGED <<staged, copies, applied, count>>
  <2>1. Generations' /\ NoForeignWal'
    BY <1>1, <1>4 DEF IInv, Generations, NoForeignWal
  <2>2. StartInv' /\ AsideInv' /\ pc' \in Restoring
    BY <1>1, <1>4 DEF IInv, StartInv, AsideInv, Applying, Restoring, StartUnchanged
  <2> QED
    BY <1>1, <1>2, <1>4, <2>1, <2>2, RestoreStep
<1> QED
  BY <1>3, <1>4 DEF CheckBackup

LEMMA StageInv == ASSUME IInv, StageBackup PROVE IInv'
<1>1. /\ pc = "stage" /\ StartUnchanged /\ UNCHANGED <<main, wal, aside, marker>>
      /\ pc \in Restoring
  BY DEF StageBackup, Restoring, StartUnchanged
<1>2. /\ main \in File /\ wal \in File /\ staged \in File
      /\ copies \subseteq Backup /\ aside \subseteq Aside /\ marker \in Marker
      /\ marker # NoMarker
  BY <1>1 DEF IInv, Shapes, StartInv
<1>3. ASSUME Refuse("failed") PROVE IInv'
  BY <1>1, <1>2, <1>3, RefuseInv DEF IInv, NoForeignWal
<1>4. ASSUME count' = [count EXCEPT !["gen"] = @ + 1],
             staged' = [gen |-> count'["gen"], holds |-> marker.holds],
             pc' = (IF main = NoFile THEN "unwal" ELSE "copy"),
             UNCHANGED <<copies, res, applied>>
      PROVE  IInv'
  <2>1. /\ count' \in [Counters -> Nat] /\ count'["start"] = count["start"]
        /\ count'["commit"] = count["commit"] /\ count'["ask"] = count["ask"]
        /\ count'["gen"] \in Nat /\ count'["gen"] > 0
    BY <1>4, Counted DEF Counters
  <2>2. /\ staged' \in File /\ staged'.gen > 0 /\ staged'.holds = marker.holds
        /\ staged' # NoFile
    BY <1>2, <1>4, <2>1, NoThings DEF File, Marker
  <2>3. Generations' /\ NoForeignWal'
    BY <1>1, <2>2 DEF IInv, Generations, NoForeignWal
  <2>4. main = NoFile => Content' = {}
    BY <1>1, NoThings DEF IInv, NoForeignWal, Content
  <2>5. StartInv' /\ pc' \in Restoring
    BY <1>1, <1>2, <1>4, <2>2, <2>4 DEF StartInv, Applying, Restoring
  <2>6. AsideInv'
    BY <1>1, <1>4, <2>1 DEF IInv, AsideInv
  <2> QED
    BY <1>1, <1>2, <1>4, <2>1, <2>2, <2>3, <2>5, <2>6, RestoreStep
<1> QED
  BY <1>3, <1>4 DEF StageBackup

\* The copy before the restore holds all the database held, its log included.
LEMMA CopyInv == ASSUME IInv, CopyCurrent PROVE IInv'
<1>1. /\ pc = "copy" /\ StartUnchanged /\ CloseDatabase /\ pc \in Restoring
      /\ UNCHANGED <<staged, aside, applied, marker>>
  BY DEF CopyCurrent, Restoring, Applying, StartUnchanged
<1>2. /\ staged \in File /\ copies \subseteq Backup /\ aside \subseteq Aside
      /\ main # NoFile /\ staged # NoFile /\ staged.holds = marker.holds
      /\ marker # NoMarker /\ count \in [Counters -> Nat]
  BY <1>1 DEF IInv, Shapes, StartInv, Applying, Restoring
<1>3. /\ main' \in File /\ wal' \in File /\ Content' = Content
      /\ main'.gen = main.gen /\ main' # NoFile
      /\ wal' # NoFile => wal' = wal
  BY <1>1, <1>2, Closed
<1>4. Generations' /\ NoForeignWal'
  BY <1>1, <1>2, <1>3 DEF IInv, Generations, NoForeignWal
<1>5. CASE pc' = "asideWal" /\ UNCHANGED <<copies, count>>
  <2>1. StartInv' /\ pc' \in Restoring
    BY <1>1, <1>2, <1>3, <1>5 DEF StartInv, Applying, Restoring
  <2>2. AsideInv'
    BY <1>1, <1>5 DEF IInv, AsideInv
  <2> QED
    BY <1>1, <1>2, <1>3, <1>4, <1>5, <2>1, <2>2, RestoreStep
<1>6. ASSUME count' = [count EXCEPT !["copy"] = @ + 1],
             copies' = copies \union {[id |-> count'["copy"], kind |-> "before-restore",
                                       holds |-> Content]},
             pc' = "unwal"
      PROVE  IInv'
  <2> DEFINE c == [id |-> count'["copy"], kind |-> "before-restore", holds |-> Content]
  <2>1. /\ count' \in [Counters -> Nat] /\ count'["start"] = count["start"]
        /\ count'["commit"] = count["commit"] /\ count'["ask"] = count["ask"]
        /\ count'["copy"] \in Nat
    BY <1>6, Counted DEF Counters
  <2>2. Content \subseteq Known
    BY DEF IInv, Shapes, File, Content
  <2>3. c \in Backup /\ c.holds = Content
    BY <2>1, <2>2 DEF Backup, Kinds
  <2> HIDE DEF c
  <2>4. copies' \subseteq Backup /\ c \in copies'
    BY <1>2, <1>6, <2>3 DEF c
  <2>5. Content' \subseteq UNION Held'
    BY <1>3, <2>3, <2>4 DEF Held
  <2>6. StartInv' /\ pc' \in Restoring
    BY <1>1, <1>2, <1>6, <2>5 DEF StartInv, Applying, Restoring
  <2>7. AsideInv'
    BY <1>1, <1>6, <2>1 DEF IInv, AsideInv
  <2> QED
    BY <1>1, <1>2, <1>3, <1>4, <1>6, <2>1, <2>4, <2>6, <2>7, RestoreStep
<1> QED
  BY <1>5, <1>6 DEF CopyCurrent

\* keepAside: the log is renamed first, and named for this start.
LEMMA AsideWalInv == ASSUME IInv, AsideWal PROVE IInv'
<1>1. pc = "asideWal" /\ StartUnchanged /\ UNCHANGED <<main, marker>> /\ pc \in Restoring
  BY DEF AsideWal, Restoring, Applying, StartUnchanged
<1>2. /\ main \in File /\ wal \in File /\ staged \in File
      /\ copies \subseteq Backup /\ aside \subseteq Aside /\ count \in [Counters -> Nat]
      /\ main # NoFile /\ staged # NoFile /\ staged.holds = marker.holds
      /\ marker # NoMarker
  BY <1>1 DEF IInv, Shapes, StartInv, Applying, Restoring
<1>3. ASSUME Refuse("failed"), UNCHANGED <<wal, aside>> PROVE IInv'
  BY <1>1, <1>2, <1>3, RefuseInv DEF IInv, NoForeignWal
<1>4. ASSUME aside' = (IF wal = NoFile THEN aside ELSE aside \union {Kept("wal", wal)}),
             wal' = NoFile, pc' = "asideMain",
             UNCHANGED <<staged, copies, res, applied, count>>
      PROVE  IInv'
  <2>1. count["start"] \in Nat
    BY <1>2 DEF Counters
  <2>2. /\ Kept("wal", wal) \in Aside /\ Kept("wal", wal).start = count["start"]
        /\ Kept("wal", wal).gen = wal.gen
    BY <1>2, <2>1 DEF Kept, Aside, File
  <2>3. aside' \subseteq Aside
    BY <1>2, <1>4, <2>2
  <2>4. AsideInv'
    <3>1. \A f \in aside : f.start < count["start"] /\ f.start \in Nat
      BY <1>1, <1>2 DEF IInv, AsideInv, Aside
    <3>2. wal # NoFile => wal.gen = main.gen
      BY DEF IInv, NoForeignWal
    <3>3. CASE wal = NoFile
      BY <1>1, <1>4, <2>1, <3>1, <3>3 DEF AsideInv
    <3>4. CASE wal # NoFile
      <4>1. \A f \in aside' : f \in aside \/ f = Kept("wal", wal)
        BY <1>4, <3>4
      <4>2. \A f \in aside' : f.start <= count["start"]
        BY <2>1, <2>2, <3>1, <4>1
      <4>3. \A f \in aside' : f.start = count["start"] => f = Kept("wal", wal) /\ f.gen = main.gen
        BY <2>1, <2>2, <3>1, <3>2, <3>4, <4>1
      <4> QED
        BY <1>1, <1>4, <4>2, <4>3 DEF AsideInv
    <3> QED
      BY <3>3, <3>4
  <2>5. Generations' /\ NoForeignWal'
    BY <1>1, <1>4 DEF IInv, Generations, NoForeignWal
  <2>6. StartInv' /\ pc' \in Restoring
    BY <1>1, <1>2, <1>4 DEF StartInv, Applying, Restoring
  <2> QED
    BY <1>1, <1>2, <1>4, <2>3, <2>4, <2>5, <2>6, NoThings, RestoreStep
<1> QED
  BY <1>3, <1>4 DEF AsideWal

\* ... then the main file; what is put back when that fails is its own log.
LEMMA AsideMainInv == ASSUME IInv, AsideMain PROVE IInv'
<1>1. pc = "asideMain" /\ StartUnchanged /\ UNCHANGED marker /\ pc \in Restoring
  BY DEF AsideMain, Restoring, Applying, StartUnchanged
<1>2. /\ main \in File /\ wal = NoFile /\ staged \in File
      /\ copies \subseteq Backup /\ aside \subseteq Aside /\ count \in [Counters -> Nat]
      /\ main # NoFile /\ staged # NoFile /\ staged.holds = marker.holds
      /\ marker # NoMarker
  BY <1>1 DEF IInv, Shapes, StartInv, Applying, Restoring
<1>3. ASSUME aside' = aside \union {Kept("main", main)}, main' = NoFile, pc' = "unwal",
             UNCHANGED <<wal, staged, copies, res, applied, count>>
      PROVE  IInv'
  <2>1. count["start"] \in Nat
    BY <1>2 DEF Counters
  <2>2. Kept("main", main) \in Aside /\ Kept("main", main).start = count["start"]
    BY <1>2, <2>1 DEF Kept, Aside, File
  <2>3. aside' \subseteq Aside
    BY <1>2, <1>3, <2>2
  <2>4. AsideInv'
    BY <1>3, <2>1, <2>2 DEF IInv, AsideInv
  <2>5. Generations' /\ NoForeignWal'
    BY <1>2, <1>3 DEF IInv, Generations, NoForeignWal
  <2>6. Content' = {}
    BY <1>2, <1>3, NoThings DEF Content
  <2>7. StartInv' /\ pc' \in Restoring
    BY <1>1, <1>2, <1>3, <2>6 DEF StartInv, Applying, Restoring
  <2> QED
    BY <1>1, <1>2, <1>3, <2>3, <2>4, <2>5, <2>7, NoThings, RestoreStep
<1>4. ASSUME Refuse("failed"), UNCHANGED main, UNCHANGED <<wal, aside>> PROVE IInv'
  BY <1>1, <1>2, <1>4, NoThings, RefuseInv
<1>5. ASSUME Refuse("failed"), UNCHANGED main,
             NEW f \in aside, f.start = count["start"],
             wal' = [gen |-> f.gen, holds |-> f.holds],
             aside' = aside \ {g \in aside : g.start = count["start"]}
      PROVE  IInv'
  <2>1. f.gen = main.gen
    BY <1>1, <1>5 DEF IInv, AsideInv
  <2>2. wal' \in File /\ wal'.gen = main.gen
    BY <1>2, <1>5, <2>1 DEF Aside, File
  <2>3. aside' \subseteq aside
    BY <1>5
  <2> QED
    BY <1>1, <1>2, <1>5, <2>2, <2>3, RefuseInv
<1> QED
  BY <1>3, <1>4, <1>5 DEF AsideMain

\* The old log goes before the swap.
LEMMA DropLogInv == ASSUME IInv, DropLog PROVE IInv'
<1>1. /\ pc = "unwal" /\ StartUnchanged /\ UNCHANGED <<main, marker, aside>>
      /\ pc \in Restoring
  BY DEF DropLog, Restoring, Applying, StartUnchanged
<1>2. /\ main \in File /\ wal \in File /\ staged \in File
      /\ copies \subseteq Backup /\ aside \subseteq Aside /\ count \in [Counters -> Nat]
      /\ staged # NoFile /\ staged.holds = marker.holds /\ marker # NoMarker
      /\ Content \subseteq UNION Held
  BY <1>1 DEF IInv, Shapes, StartInv, Applying, Restoring
<1>3. ASSUME wal' \in {wal, NoFile}, Refuse("failed") PROVE IInv'
  <2>1. wal' \in File /\ (wal' # NoFile => main # NoFile /\ wal'.gen = main.gen)
    BY <1>2, <1>3, NoThings DEF IInv, NoForeignWal
  <2> QED
    BY <1>1, <1>3, <2>1, RefuseInv
<1>4. ASSUME wal' = NoFile, pc' = "swap", UNCHANGED <<staged, copies, res, applied, count>>
      PROVE  IInv'
  <2>1. Content' \subseteq Content /\ Held' = Held
    BY <1>1, <1>4, NoThings DEF Content, Held
  <2>2. StartInv' /\ pc' \in Restoring
    BY <1>1, <1>2, <1>4, <2>1 DEF StartInv, Applying, Restoring
  <2>3. Generations' /\ NoForeignWal' /\ AsideInv'
    BY <1>1, <1>4 DEF IInv, Generations, NoForeignWal, AsideInv
  <2> QED
    BY <1>1, <1>2, <1>4, <2>2, <2>3, NoThings, RestoreStep
<1> QED
  BY <1>3, <1>4 DEF DropLog

\* The swap, the one step that counts a restore as applied.
LEMMA SwapInv == ASSUME IInv, Swap PROVE IInv'
<1>1. /\ pc = "swap" /\ StartUnchanged /\ UNCHANGED <<wal, aside, marker, maker, asker>>
      /\ pc \in Restoring
  BY DEF Swap, Restoring, Applying, StartUnchanged, volatile
<1>2. /\ main \in File /\ wal \in File /\ wal = NoFile /\ staged \in File
      /\ staged # NoFile /\ marker # NoMarker /\ marker \in Marker
  BY <1>1 DEF IInv, Shapes, StartInv, Applying, Restoring
<1>3. ASSUME Refuse("failed"), UNCHANGED main PROVE IInv'
  BY <1>1, <1>2, <1>3, RefuseInv DEF IInv, NoForeignWal
<1>4. ASSUME main' = staged, staged' = NoFile, applied' = marker.ask, pc' = "record",
             UNCHANGED <<copies, count>>
      PROVE  IInv'
  <2>1. marker.ask \in Nat
    BY <1>2 DEF Marker
  <2>2. Shapes'
    BY <1>1, <1>2, <1>4, <2>1, NoThings, SameSets DEF IInv, Shapes, Restoring
  <2>3. Generations' /\ NoForeignWal'
    BY <1>1, <1>2, <1>4 DEF IInv, Generations, NoForeignWal
  <2>4. StartInv' /\ AsideInv'
    BY <1>1, <1>2, <1>4 DEF IInv, StartInv, AsideInv, Applying, Restoring
  <2>5. MakerInv' /\ AskInv' /\ NoReplay'
    BY <1>1, <1>4 DEF IInv, MakerInv, AskInv, NoReplay
  <2> QED
    BY <2>2, <2>3, <2>4, <2>5 DEF IInv
<1> QED
  BY <1>3, <1>4 DEF Swap

\* The outcome and the marker: the start goes on only without the marker.
LEMMA RecordInv == ASSUME IInv, Record \/ Unmark PROVE IInv'
<1>1. /\ UNCHANGED <<main, wal, staged, aside, copies, applied, count, maker, asker>>
      /\ pc \in {"record", "unmark"}
      /\ \/ pc' \in {"unmark", "down"} /\ marker' = marker
         \/ pc' = "open" /\ marker' = NoMarker
  BY DEF Record, Unmark, disk, volatile
<1>2. marker # NoMarker
  BY <1>1 DEF IInv, StartInv, Restoring
<1>3. Shapes' /\ Generations' /\ NoForeignWal'
  BY <1>1, NoThings, SameSets DEF IInv, Shapes, Restoring, Generations, NoForeignWal
<1>4. StartInv' /\ AsideInv'
  BY <1>1, <1>2 DEF IInv, StartInv, AsideInv, Applying, Restoring
<1>5. MakerInv' /\ NoReplay'
  BY <1>1 DEF IInv, MakerInv, NoReplay
<1>6. AskInv'
  <2>1. count["ask"] \in Nat
    BY DEF IInv, Shapes, Counters
  <2> QED
    BY <1>1, <2>1, NoThings DEF IInv, AskInv
<1> QED
  BY <1>3, <1>4, <1>5, <1>6 DEF IInv

LEMMA NextInv == IInv /\ [Next]_vars => IInv'
<1> SUFFICES ASSUME IInv, [Next]_vars PROVE IInv'
  OBVIOUS
<1>1. CASE Serve
  BY <1>1, CommitInv, BackupsInv, RequestsInv DEF Serve
<1>2. CASE Stop \/ Die
  BY <1>2, EndsInv
<1>3. CASE Start
  BY <1>3, StartsInv
<1>4. CASE ApplyPendingRestore
  BY <1>4, CheckInv, StageInv, CopyInv, AsideWalInv, AsideMainInv, DropLogInv, SwapInv,
     RecordInv DEF ApplyPendingRestore
<1>5. CASE Open
  BY <1>5, OpenInv
<1>6. CASE UNCHANGED vars
  <2>1. UNCHANGED <<main, wal, staged, aside, copies, marker, pc, applied, maker, asker, count>>
    BY <1>6 DEF vars, disk, volatile
  <2> QED
    BY <2>1, SameSets DEF IInv, Shapes, Generations, NoForeignWal, StartInv, AsideInv,
       MakerInv, AskInv, NoReplay, Content, Held
<1> QED
  BY <1>1, <1>2, <1>3, <1>4, <1>5, <1>6 DEF Next

-----------------------------------------------------------------------------
(* What the database should hold.                                           *)

LEMMA InitWas == Init => WasInv
<1> SUFFICES ASSUME Init PROVE WasInv
  OBVIOUS
<1>1. /\ main = NoFile /\ wal = NoFile /\ was = {} /\ risk = FALSE /\ pc = "down"
  BY DEF Init
<1>2. Content = {}
  BY <1>1, NoThings DEF Content
<1> QED
  BY <1>1, <1>2 DEF WasInv

\* While the server is up, its database holds what it should, whatever the copies.
LEMMA UpWas ==
  ASSUME WasInv, pc = "up", pc' = "up", UNCHANGED <<main, wal, was, risk>>
  PROVE  WasInv'
BY DEF WasInv, Content

\* Between the steps that move files.
LEMMA QuietWas ==
  ASSUME WasInv, UNCHANGED <<main, wal, aside, copies, was, risk>>,
         pc' \notin {"up", "unwal", "asideWal", "asideMain"}
  PROVE  WasInv'
BY DEF WasInv, Content, Held

LEMMA CommitWas == ASSUME IInv, WasInv, Commit PROVE WasInv'
<1>1. /\ pc = "up" /\ pc' = "up" /\ risk' = risk /\ main' = main
      /\ was' = was \union {count'["commit"]}
      /\ wal' = [gen |-> main.gen, holds |-> wal.holds \union {count'["commit"]}]
  BY DEF Commit
<1>2. Content' = Content \union {count'["commit"]}
  BY <1>1 DEF Content
<1> QED
  BY <1>1, <1>2 DEF WasInv

LEMMA EndsWas == ASSUME IInv, WasInv, Stop \/ Die PROVE WasInv'
<1>1. pc' = "down" /\ UNCHANGED <<aside, copies, was, risk>>
  BY DEF Stop, Die, disk
<1>2. Content' = Content /\ Held' = Held
  BY <1>1, Closed DEF Stop, Die, disk, Content, Held
<1> QED
  BY <1>1, <1>2 DEF WasInv

LEMMA StageWas == ASSUME IInv, WasInv, StageBackup PROVE WasInv'
<1>1. /\ UNCHANGED <<main, wal, aside, copies, was, risk>>
      /\ pc' \in {"record", "copy", "unwal"} /\ (pc' = "unwal" => main = NoFile)
  BY DEF StageBackup, SameDatabase, Refuse
<1>2. CASE pc' # "unwal"
  BY <1>1, <1>2, QuietWas
<1>3. CASE pc' = "unwal"
  <2>1. wal' = NoFile
    BY <1>1, <1>3 DEF IInv, NoForeignWal
  <2> QED
    BY <1>1, <1>3, <2>1 DEF WasInv, Content, Held
<1> QED
  BY <1>2, <1>3

LEMMA CopyWas == ASSUME IInv, WasInv, CopyCurrent PROVE WasInv'
<1>1. /\ UNCHANGED <<aside, was>> /\ copies \subseteq copies'
      /\ pc' \in {"unwal", "asideWal"}
      /\ risk' = (risk \/ pc' = "asideWal" \/ wal' # NoFile)
  BY DEF CopyCurrent
<1>2. Content' = Content /\ Held \subseteq Held'
  BY <1>1, Closed DEF CopyCurrent, Held
<1> QED
  BY <1>1, <1>2 DEF WasInv

LEMMA AsideWas == ASSUME IInv, WasInv, AsideWal \/ AsideMain PROVE WasInv'
<1>1. UNCHANGED <<was, risk, copies>> /\ risk
  BY DEF AsideWal, AsideMain, SameDatabase, Refuse, WasInv
<1>2. CASE Refuse("failed") /\ UNCHANGED <<main, wal, aside>>
  BY <1>1, <1>2, QuietWas DEF Refuse
<1>3. ASSUME AsideWal,
             aside' = (IF wal = NoFile THEN aside ELSE aside \union {Kept("wal", wal)}),
             wal' = NoFile, pc' = "asideMain", UNCHANGED count
      PROVE  WasInv'
  <2>1. Kept("wal", wal).holds = wal.holds
    BY DEF Kept
  <2>2. Held \subseteq Held' /\ (wal # NoFile => wal.holds \in Held')
    BY <1>1, <1>3, <2>1 DEF Held
  <2>3. main' = main /\ pc = "asideWal"
    BY <1>3 DEF AsideWal
  <2>4. Content' \subseteq Content /\ Content \subseteq Content' \union UNION Held'
    BY <1>3, <2>2, <2>3, NoThings DEF Content
  <2>5. \A f \in aside : f.start # count["start"]
    <3>1. count["start"] \in Nat /\ \A f \in aside : f.start \in Nat
      BY DEF IInv, Shapes, Counters, Aside
    <3> QED
      BY <2>3, <3>1 DEF IInv, AsideInv
  <2>6. \A f \in aside' : f.start = count'["start"] => f.holds \subseteq was
    <3>1. wal.holds \subseteq was
      BY DEF WasInv, Content
    <3> QED
      BY <1>3, <2>1, <2>5, <3>1
  <2> QED
    BY <1>1, <1>3, <2>2, <2>4, <2>6 DEF WasInv
<1>4. ASSUME AsideMain, aside' = aside \union {Kept("main", main)}, main' = NoFile,
             pc' = "unwal", UNCHANGED wal
      PROVE  WasInv'
  <2>1. Kept("main", main).holds = main.holds
    BY DEF Kept
  <2>2. Held \subseteq Held' /\ main.holds \in Held'
    BY <1>1, <1>4, <2>1 DEF Held
  <2>3. Content' \subseteq Content /\ Content \subseteq Content' \union UNION Held'
    BY <1>4, <2>2, NoThings DEF Content
  <2> QED
    BY <1>1, <1>4, <2>2, <2>3 DEF WasInv
<1>5. ASSUME AsideMain, Refuse("failed"), UNCHANGED main,
             NEW f \in aside, f.start = count["start"],
             wal' = [gen |-> f.gen, holds |-> f.holds],
             aside' = aside \ {g \in aside : g.start = count["start"]}
      PROVE  WasInv'
  <2>1. wal = NoFile /\ pc = "asideMain" /\ pc' = "record"
    BY <1>5 DEF AsideMain, IInv, StartInv, Refuse
  <2>2. aside' = aside \ {f}
    BY <1>5, <2>1 DEF IInv, AsideInv
  <2>3. Held \ {f.holds} \subseteq Held'
    BY <1>1, <2>2 DEF Held
  <2>4. Content' = Content \union f.holds
    BY <1>5, <2>1, NoThings DEF Content
  <2>5. f.holds \subseteq was
    BY <1>5, <2>1 DEF WasInv
  <2> QED
    BY <1>1, <2>1, <2>3, <2>4, <2>5 DEF WasInv
<1> QED
  BY <1>2, <1>3, <1>4, <1>5 DEF AsideWal, AsideMain

LEMMA DropLogWas == ASSUME IInv, WasInv, DropLog PROVE WasInv'
<1>1. /\ UNCHANGED <<main, aside, copies, was, risk>> /\ wal' \in {wal, NoFile}
      /\ pc = "unwal" /\ pc' \in {"swap", "record"}
  BY DEF DropLog, SameDatabase, Refuse
<1>2. Content' \subseteq Content /\ Held' = Held
  BY <1>1, NoThings DEF Content, Held
<1>3. Content \subseteq UNION Held
  BY <1>1 DEF IInv, StartInv
<1>4. ~risk => Content' = Content
  BY <1>1 DEF WasInv, Content
<1> QED
  BY <1>1, <1>2, <1>3, <1>4 DEF WasInv

LEMMA SwapWas == ASSUME IInv, WasInv, Swap PROVE WasInv'
<1>1. pc = "swap" /\ pc' = "record" /\ UNCHANGED <<wal, aside, copies>> /\ wal = NoFile
  BY DEF Swap, Refuse, IInv, StartInv
<1>2. CASE UNCHANGED <<main, was, risk>>
  BY <1>1, <1>2, QuietWas
<1>3. CASE main' = staged /\ was' = staged.holds /\ risk' = FALSE
  <2>1. Content' = was'
    BY <1>1, <1>3, NoThings DEF Content
  <2> QED
    BY <1>1, <1>3, <2>1 DEF WasInv
<1> QED
  BY <1>2, <1>3 DEF Swap, SameDatabase

\* A new database is empty: the files hold what they did.
LEMMA OpenContent == ASSUME Open PROVE Content' = Content
<1>1. CASE main = NoFile
  <2>1. main'.holds = {} /\ wal' = wal
    BY <1>1 DEF Open
  <2> QED
    BY <1>1, <2>1, NoThings DEF Content
<1>2. CASE main # NoFile
  BY <1>2 DEF Open, Content
<1> QED
  BY <1>1, <1>2

LEMMA OpenWas == ASSUME WasInv, Open PROVE WasInv'
<1>1. pc' = "up" /\ was' = Content /\ risk' = FALSE
  BY DEF Open
<1> QED
  BY <1>1, OpenContent DEF WasInv

LEMMA NextWas == IInv /\ WasInv /\ [Next]_vars => WasInv'
<1> SUFFICES ASSUME IInv, WasInv, [Next]_vars PROVE WasInv'
  OBVIOUS
<1>1. CASE Serve
  <2>1. CASE Commit
    BY <2>1, CommitWas
  <2>2. CASE UpUnchanged /\ pc = "up"
    BY <2>2, UpWas DEF UpUnchanged
  <2> QED
    BY <1>1, <2>1, <2>2 DEF Serve, BeginBackup, WriteBackup, LookToPrune, RemovePruned,
       BeginDelete, CancelForDelete, FinishDelete, BeginRequest, RequestRestore, CancelRestore
<1>2. CASE Stop \/ Die
  BY <1>2, EndsWas
<1>3. CASE Start \/ CheckBackup \/ Record \/ Unmark
  BY <1>3, QuietWas DEF Start, CheckBackup, Refuse, Record, Unmark, SameDatabase, disk
<1>4. CASE StageBackup \/ CopyCurrent \/ AsideWal \/ AsideMain \/ DropLog \/ Swap
  BY <1>4, StageWas, CopyWas, AsideWas, DropLogWas, SwapWas
<1>5. CASE Open
  BY <1>5, OpenWas
<1>6. CASE UNCHANGED vars
  BY <1>6 DEF vars, disk, WasInv, Content, Held
<1> QED
  BY <1>1, <1>2, <1>3, <1>4, <1>5, <1>6 DEF Next, ApplyPendingRestore

-----------------------------------------------------------------------------
(* The restore seen from outside.                                           *)

\* What the promise sees, in the names used here.
LEMMA Seen ==
    /\ Promise!avars = <<pc = "up", was, Content, Held, Wanted, risk>>
    /\ Promise!avars' = <<pc' = "up", was', Content', Held', Wanted', risk'>>
BY DEF Promise!avars, Held, Wanted

LEMMA InitSeen == Init => Promise!AInit
<1> SUFFICES ASSUME Init PROVE Promise!AInit
  OBVIOUS
<1>1. /\ main = NoFile /\ wal = NoFile /\ copies = {} /\ aside = {} /\ marker = NoMarker
      /\ was = {} /\ risk = FALSE
  BY DEF Init
<1>2. (pc = "up") = FALSE
  BY DEF Init
<1>3. Content = {}
  BY <1>1, NoThings DEF Content
<1>4. {c.holds : c \in copies} \union {f.holds : f \in aside} = {}
  BY <1>1
<1> QED
  BY <1>1, <1>2, <1>3, <1>4 DEF Promise!AInit

\* A step that the promise does not see.
LEMMA Unseen ==
  ASSUME pc = "up" <=> pc' = "up", SameDatabase, Content' = Content, Held' = Held,
         Wanted' = Wanted
  PROVE  UNCHANGED Promise!avars
BY Seen DEF SameDatabase

\* The steps that the promise does see, from what they do to what is seen.
LEMMA WriteSeen ==
  ASSUME pc = "up", pc' = "up", NEW c \in Commits \ was, was' = was \union {c}, risk' = risk,
         Content' = Content \union {c}, Held' = Held, Wanted' = Wanted
  PROVE  Promise!Write
BY DEF Promise!Write, Held, Wanted

LEMMA CopySeen ==
  ASSUME pc = "up", pc' = "up", SameDatabase, NEW s \in SUBSET was, Content' = Content,
         Held' = Held \union {s}, Wanted' = Wanted
  PROVE  Promise!Copy
BY DEF Promise!Copy, Held, Wanted, SameDatabase

LEMMA DropSeen ==
  ASSUME pc = "up", pc' = "up", SameDatabase, Content' = Content, Held' \subseteq Held,
         Wanted' = Wanted
  PROVE  Promise!Drop
BY DEF Promise!Drop, Held, Wanted, SameDatabase

LEMMA AskSeen ==
  ASSUME pc = "up", pc' = "up", SameDatabase, Content' = Content, Held' = Held,
         NEW s \in SUBSET Commits, Wanted' = {s}
  PROVE  Promise!Ask
BY DEF Promise!Ask, Held, Wanted, SameDatabase

LEMMA SettleSeen ==
  ASSUME pc = "up" <=> pc' = "up", SameDatabase, Content' = Content, Held' = Held,
         Wanted' = {}
  PROVE  Promise!Settle
BY DEF Promise!Settle, Held, Wanted, SameDatabase

LEMMA DownSeen ==
  ASSUME pc = "up", pc' # "up", SameDatabase, Content' = Content, Held' = Held,
         Wanted' = Wanted
  PROVE  Promise!Down
BY DEF Promise!Down, Held, Wanted, SameDatabase

LEMMA CopyCurrentSeen ==
  ASSUME pc # "up", pc' # "up", Wanted # {}, was' = was, risk' \in {risk, TRUE},
         Content' = Content, Wanted' = Wanted,
         Held' = Held \union {Content} \/ (risk' /\ Held' = Held)
  PROVE  Promise!CopyCurrent
BY DEF Promise!CopyCurrent, Held, Wanted

LEMMA HandleSeen ==
  ASSUME pc # "up", pc' # "up", Wanted # {}, risk, SameDatabase, Wanted' = Wanted,
         Content' \subseteq was, was \subseteq Content' \union UNION Held',
         \A s \in Held \ Held' : s \subseteq Content'
  PROVE  Promise!Handle
BY DEF Promise!Handle, Held, Wanted, SameDatabase

LEMMA ApplySeen ==
  ASSUME pc # "up", pc' # "up", Wanted # {}, was \subseteq UNION Held,
         was' \in Wanted, Content' = was', risk' = FALSE, Held' = Held, Wanted' = Wanted
  PROVE  Promise!Apply
BY DEF Promise!Apply, Held, Wanted

LEMMA ComesUp ==
  ASSUME pc # "up", pc' = "up", Wanted = {}, Content' = Content, Held' = Held,
         Wanted' = Wanted, was' = Content, risk' = FALSE,
         \/ Content = was
         \/ risk /\ Content \subseteq was /\ was \subseteq Content \union UNION Held
  PROVE  Promise!Up
BY DEF Promise!Up, Held, Wanted

\* A marker written or removed, a copy added or dropped.
LEMMA SameSeen ==
    /\ UNCHANGED <<main, wal>> => Content' = Content
    /\ UNCHANGED <<copies, aside>> => Held' = Held
    /\ copies' \subseteq copies /\ aside' = aside => Held' \subseteq Held
    /\ UNCHANGED marker => Wanted' = Wanted
    /\ marker' = NoMarker => Wanted' = {}
    /\ marker # NoMarker => Wanted = {marker.holds} /\ Wanted # {}
BY DEF Content, Held, Wanted

LEMMA CopyHeld ==
  ASSUME NEW c, copies' = copies \union {c}, aside' = aside
  PROVE  Held' = Held \union {c.holds}
<1>1. ASSUME NEW x \in Held' PROVE x \in Held \union {c.holds}
  BY <1>1 DEF Held
<1>2. ASSUME NEW x \in Held \union {c.holds} PROVE x \in Held'
  BY <1>2 DEF Held
<1> QED
  BY <1>1, <1>2

LEMMA ServeSeen ==
  ASSUME IInv, WasInv, Serve
  PROVE  Promise!ANext \/ UNCHANGED Promise!avars
<1>0. pc = "up" /\ Content = was
  BY DEF Serve, Commit, BeginBackup, WriteBackup, LookToPrune, RemovePruned, BeginDelete,
     CancelForDelete, FinishDelete, BeginRequest, RequestRestore, CancelRestore, WasInv
<1>1. CASE Commit
  <2>1. /\ pc = "up" /\ pc' = "up" /\ count["commit"] < MaxCommits
        /\ count' = [count EXCEPT !["commit"] = @ + 1]
        /\ wal' = [gen |-> main.gen, holds |-> wal.holds \union {count'["commit"]}]
        /\ UNCHANGED <<main, aside, copies, marker, risk>>
        /\ was' = was \union {count'["commit"]}
    BY <1>1 DEF Commit
  <2>2. count'["commit"] = count["commit"] + 1 /\ count["commit"] \in Nat
    BY <2>1, Counted DEF Counters
  <2>3. Content' = Content \union {count'["commit"]}
    BY <2>1 DEF Content
  <2>4. Content \subseteq Known
    BY DEF IInv, Shapes, File, Content
  <2>5. count'["commit"] \in Commits \ was
    BY <1>0, <2>1, <2>2, <2>4, RestoreAssumption DEF Commits, Known
  <2> QED
    BY <2>1, <2>3, <2>5, SameSeen, WriteSeen DEF Promise!ANext
<1>2. CASE \/ \E kind \in {"scheduled", "manual"} : BeginBackup(kind)
           \/ LookToPrune \/ \E c \in copies : BeginDelete(c) \/ BeginRequest(c)
  <2>1. SameDatabase /\ UNCHANGED <<main, wal, aside, pc, copies, marker>>
    BY <1>2 DEF BeginBackup, LookToPrune, BeginDelete, BeginRequest, UpUnchanged, SameDatabase
  <2> QED
    BY <2>1, SameSeen, Unseen
<1>3. CASE WriteBackup
  <2>1. pc = "up" /\ SameDatabase /\ UNCHANGED <<main, wal, aside, pc, marker>> /\ maker.step = "write"
    BY <1>3 DEF WriteBackup, UpUnchanged, SameDatabase
  <2>2. CASE UNCHANGED copies
    BY <2>1, <2>2, SameSeen, Unseen
  <2>3. ASSUME copies' = copies \union {[id |-> count'["copy"], kind |-> maker.kind,
                                         holds |-> maker.holds]}
        PROVE  Promise!Copy
    <3>1. maker.holds \in SUBSET was
      BY <1>0, <2>1 DEF IInv, MakerInv
    <3>2. Held' = Held \union {maker.holds}
      <4> DEFINE c == [id |-> count'["copy"], kind |-> maker.kind, holds |-> maker.holds]
      <4>1. c.holds = maker.holds /\ copies' = copies \union {c}
        BY <2>3
      <4> HIDE DEF c
      <4> QED
        BY <2>1, <4>1, CopyHeld
    <3> QED
      BY <2>1, <3>1, <3>2, SameSeen, CopySeen
  <2> QED
    BY <1>3, <2>2, <2>3 DEF WriteBackup, Promise!ANext
<1>4. CASE RemovePruned \/ FinishDelete
  <2>1. pc = "up" /\ SameDatabase /\ UNCHANGED <<main, wal, aside, pc, marker>> /\ copies' \subseteq copies
    BY <1>4 DEF RemovePruned, FinishDelete, UpUnchanged, SameDatabase
  <2> QED
    BY <2>1, SameSeen, DropSeen DEF Promise!ANext
<1>5. CASE CancelForDelete \/ CancelRestore
  <2>1. /\ pc = "up" /\ SameDatabase /\ UNCHANGED <<main, wal, aside, pc, copies>>
        /\ marker' = NoMarker \/ marker' = marker
    BY <1>5 DEF CancelForDelete, CancelRestore, UpUnchanged, SameDatabase
  <2>2. CASE marker' = NoMarker
    BY <2>1, <2>2, SameSeen, SettleSeen DEF Promise!ANext
  <2>3. CASE marker' = marker
    BY <2>1, <2>3, SameSeen, Unseen
  <2> QED
    BY <2>1, <2>2, <2>3
<1>6. CASE RequestRestore
  <2>1. pc = "up" /\ SameDatabase /\ UNCHANGED <<main, wal, aside, pc, copies>>
    BY <1>6 DEF RequestRestore, UpUnchanged, SameDatabase
  <2>2. CASE UNCHANGED marker
    BY <2>1, <2>2, SameSeen, Unseen
  <2>3. ASSUME count' = [count EXCEPT !["ask"] = @ + 1],
               marker' = [ask |-> count'["ask"], id |-> asker.id, holds |-> asker.holds]
        PROVE  Promise!Ask
    <3>1. count'["ask"] = count["ask"] + 1 /\ count["ask"] \in Nat
      BY <2>3, Counted DEF Counters
    <3>2. marker'.ask > 0 /\ marker'.holds = asker.holds
      BY <2>3, <3>1
    <3>3. Wanted' = {asker.holds}
      BY <3>2, NoThings DEF Wanted
    <3>4. asker.holds \subseteq Known /\ Known \subseteq Commits
      BY RestoreAssumption DEF IInv, Shapes, Backup, Known, Commits, Counters
    <3> QED
      BY <2>1, <3>3, <3>4, SameSeen, AskSeen
  <2> QED
    BY <1>6, <2>2, <2>3 DEF RequestRestore, Promise!ANext
<1> QED
  BY <1>1, <1>2, <1>3, <1>4, <1>5, <1>6 DEF Serve

LEMMA TurnsSeen ==
  ASSUME IInv, WasInv, Stop \/ Die \/ Start \/ Open
  PROVE  Promise!ANext \/ UNCHANGED Promise!avars
<1>1. UNCHANGED <<copies, aside, marker>>
  BY DEF Stop, Die, Start, Open, disk
<1>2. Held' = Held /\ Wanted' = Wanted
  BY <1>1, SameSeen
<1>3. CASE Stop \/ Die
  <2>1. pc' # "up" /\ SameDatabase
    BY <1>3 DEF Stop, Die, SameDatabase
  <2>2. Content' = Content
    BY <1>3, Closed DEF Stop, Die, disk, Content
  <2>3. CASE pc = "up"
    BY <1>2, <2>1, <2>2, <2>3, DownSeen DEF Promise!ANext
  <2>4. CASE pc # "up"
    BY <1>2, <2>1, <2>2, <2>4, Unseen
  <2> QED
    BY <2>3, <2>4
<1>4. CASE Start
  <2>1. pc # "up" /\ pc' # "up" /\ SameDatabase /\ UNCHANGED <<main, wal>>
    BY <1>4 DEF Start, SameDatabase, disk
  <2> QED
    BY <1>2, <2>1, SameSeen, Unseen
<1>5. CASE Open
  <2>1. pc # "up" /\ pc' = "up" /\ pc = "open" /\ was' = Content /\ risk' = FALSE
    BY <1>5 DEF Open
  <2>2. Wanted = {}
    BY <2>1 DEF IInv, StartInv, Wanted
  <2>3. \/ Content = was
        \/ risk /\ Content \subseteq was /\ was \subseteq Content \union UNION Held
    BY DEF WasInv
  <2>4. Content' = Content
    BY <1>5, OpenContent
  <2> QED
    BY <1>2, <2>1, <2>2, <2>3, <2>4, ComesUp DEF Promise!ANext
<1> QED
  BY <1>3, <1>4, <1>5

\* A step of a restore that leaves the database, the copies and the marker.
LEMMA QuietSeen ==
  ASSUME pc \in Restoring, pc' \in Restoring, SameDatabase,
         UNCHANGED <<main, wal, copies, aside, marker>>
  PROVE  UNCHANGED Promise!avars
<1>1. pc # "up" /\ pc' # "up"
  BY DEF Restoring, Applying
<1> QED
  BY <1>1, SameSeen, Unseen

LEMMA AsideSeen ==
  ASSUME IInv, WasInv, AsideWal \/ AsideMain
  PROVE  Promise!ANext \/ UNCHANGED Promise!avars
<1>1. /\ pc \in {"asideWal", "asideMain"} /\ pc \in Restoring /\ pc # "up"
      /\ UNCHANGED <<marker, copies>> /\ marker # NoMarker /\ SameDatabase
  BY DEF AsideWal, AsideMain, StartUnchanged, Refuse, Restoring, Applying, IInv, StartInv
<1>0. risk /\ Content \subseteq was /\ was \subseteq Content \union UNION Held
  BY <1>1 DEF WasInv
<1>2. Wanted' = Wanted /\ Wanted # {}
  BY <1>1, SameSeen
<1>3. CASE AsideWal
  <2>1. CASE Refuse("failed") /\ UNCHANGED <<wal, aside>>
    BY <1>1, <1>3, <2>1, QuietSeen DEF AsideWal, Refuse, Restoring
  <2>2. ASSUME aside' = (IF wal = NoFile THEN aside ELSE aside \union {Kept("wal", wal)}),
               wal' = NoFile, pc' = "asideMain"
        PROVE  Promise!Handle
    <3>1. Kept("wal", wal).holds = wal.holds
      BY DEF Kept
    <3>2. Held \subseteq Held' /\ (wal # NoFile => wal.holds \in Held')
      BY <1>1, <2>2, <3>1 DEF Held
    <3>3. main' = main
      BY <1>3 DEF AsideWal
    <3>4. Content' \subseteq Content /\ Content \subseteq Content' \union UNION Held'
      BY <2>2, <3>2, <3>3, NoThings DEF Content
    <3> QED
      BY <1>0, <1>1, <1>2, <2>2, <3>2, <3>4, HandleSeen
  <2> QED
    BY <1>3, <2>1, <2>2 DEF AsideWal, Promise!ANext
<1>4. CASE AsideMain
  <2>1. wal = NoFile /\ pc = "asideMain"
    BY <1>4 DEF AsideMain, IInv, StartInv
  <2>2. ASSUME aside' = aside \union {Kept("main", main)}, main' = NoFile, pc' = "unwal",
               UNCHANGED wal
        PROVE  Promise!Handle
    <3>1. Kept("main", main).holds = main.holds
      BY DEF Kept
    <3>2. Held \subseteq Held' /\ main.holds \in Held'
      BY <1>1, <2>2, <3>1 DEF Held
    <3>3. Content' \subseteq Content /\ Content \subseteq Content' \union UNION Held'
      BY <2>1, <2>2, <3>2, NoThings DEF Content
    <3> QED
      BY <1>0, <1>1, <1>2, <2>2, <3>2, <3>3, HandleSeen
  <2>3. CASE Refuse("failed") /\ UNCHANGED <<main, wal, aside>>
    BY <1>1, <2>3, QuietSeen DEF Refuse, Restoring
  <2>4. ASSUME Refuse("failed"), UNCHANGED main,
               NEW f \in aside, f.start = count["start"],
               wal' = [gen |-> f.gen, holds |-> f.holds],
               aside' = aside \ {g \in aside : g.start = count["start"]}
        PROVE  Promise!Handle
    <3>1. \A g \in aside : g.start = count["start"] => g = f
      BY <2>1, <2>4 DEF IInv, AsideInv
    <3>2. aside' = aside \ {f}
      BY <2>4, <3>1
    <3>3. Held \ {f.holds} \subseteq Held'
      BY <1>1, <3>2 DEF Held
    <3>4. Content' = Content \union f.holds
      BY <2>1, <2>4, NoThings DEF Content
    <3>5. pc' # "up"
      BY <2>4 DEF Refuse
    <3>6. f.holds \subseteq was
      BY <2>1, <2>4 DEF WasInv
    <3> QED
      BY <1>0, <1>1, <1>2, <3>3, <3>4, <3>5, <3>6, HandleSeen
  <2> QED
    BY <1>4, <2>2, <2>3, <2>4 DEF AsideMain, Promise!ANext
<1> QED
  BY <1>3, <1>4

LEMMA ApplySteps ==
  ASSUME IInv, WasInv, ApplyPendingRestore
  PROVE  Promise!ANext \/ UNCHANGED Promise!avars
<1>1. CASE CheckBackup \/ StageBackup
  BY <1>1, QuietSeen DEF CheckBackup, StageBackup, StartUnchanged, SameDatabase, Refuse, Restoring, Applying
<1>2. CASE CopyCurrent
  <2>1. /\ Content' = Content /\ UNCHANGED <<aside, marker, was>> /\ pc = "copy" /\ pc' # "up"
        /\ risk' = (risk \/ pc' = "asideWal" \/ wal' # NoFile)
    BY <1>2, Closed DEF CopyCurrent, StartUnchanged
  <2>2. Wanted # {} /\ Wanted' = Wanted /\ risk' \in {risk, TRUE}
    BY <2>1, SameSeen DEF IInv, StartInv, Restoring, Applying, WasInv
  <2>3. CASE UNCHANGED copies /\ pc' = "asideWal"
    BY <2>1, <2>2, <2>3, SameSeen, CopyCurrentSeen DEF Promise!ANext
  <2>4. ASSUME copies' = copies \union {[id |-> count'["copy"], kind |-> "before-restore",
                                         holds |-> Content]}
        PROVE  Promise!CopyCurrent
    <3>1. Held' = Held \union {Content}
      <4> DEFINE c == [id |-> count'["copy"], kind |-> "before-restore", holds |-> Content]
      <4>1. c.holds = Content /\ copies' = copies \union {c}
        BY <2>4
      <4> HIDE DEF c
      <4> QED
        BY <2>1, <4>1, CopyHeld
    <3> QED
      BY <2>1, <2>2, <3>1, CopyCurrentSeen
  <2> QED
    BY <1>2, <2>3, <2>4 DEF CopyCurrent, Promise!ANext
<1>3. CASE AsideWal \/ AsideMain
  BY <1>3, AsideSeen
<1>4. CASE DropLog
  <2>1. /\ pc = "unwal" /\ pc' # "up" /\ UNCHANGED <<main, aside, copies, marker>>
        /\ wal' \in {wal, NoFile} /\ SameDatabase
    BY <1>4 DEF DropLog, Refuse, StartUnchanged
  <2>2. Wanted # {} /\ Wanted' = Wanted /\ Held' = Held /\ Content \subseteq UNION Held
    BY <2>1, SameSeen DEF IInv, StartInv, Restoring, Applying
  <2>3. CASE risk
    <3>1. Content' \subseteq Content
      BY <2>1, NoThings DEF Content
    <3>2. Content' \subseteq was /\ was \subseteq Content' \union UNION Held'
      BY <2>2, <3>1 DEF WasInv
    <3> QED
      BY <2>1, <2>2, <2>3, <3>2, HandleSeen DEF Promise!ANext
  <2>4. CASE ~risk
    <3>1. UNCHANGED <<main, wal>>
      BY <2>1, <2>4 DEF WasInv
    <3> QED
      BY <2>1, <3>1, SameSeen, Unseen
  <2> QED
    BY <2>3, <2>4
<1>5. CASE Swap
  <2>1. pc = "swap" /\ pc' # "up" /\ UNCHANGED <<wal, aside, copies, marker>>
    BY <1>5 DEF Swap, Refuse, StartUnchanged
  <2>2. /\ wal = NoFile /\ staged.holds = marker.holds /\ marker # NoMarker
        /\ Content \subseteq UNION Held
    BY <2>1 DEF IInv, StartInv, Restoring, Applying
  <2>5. was \subseteq UNION Held
    BY <2>2 DEF WasInv
  <2>3. CASE UNCHANGED main /\ SameDatabase
    BY <2>1, <2>3, SameSeen, Unseen
  <2>4. CASE main' = staged /\ was' = staged.holds /\ risk' = FALSE
    <3>1. Content' = marker.holds
      BY <2>1, <2>2, <2>4, NoThings DEF Content
    <3> QED
      BY <2>1, <2>2, <2>4, <2>5, <3>1, SameSeen, ApplySeen DEF Promise!ANext
  <2> QED
    BY <1>5, <2>3, <2>4 DEF Swap
<1>6. CASE Record
  BY <1>6, SameSeen, Unseen DEF Record, disk, SameDatabase
<1>7. CASE Unmark
  <2>1. /\ pc # "up" /\ pc' # "up" /\ UNCHANGED <<main, wal, aside, copies>>
        /\ marker' = NoMarker \/ marker' = marker
        /\ SameDatabase
    BY <1>7 DEF Unmark, SameDatabase
  <2>2. CASE marker' = NoMarker
    BY <2>1, <2>2, SameSeen, SettleSeen DEF Promise!ANext
  <2>3. CASE marker' = marker
    BY <2>1, <2>3, SameSeen, Unseen
  <2> QED
    BY <2>1, <2>2, <2>3
<1> QED
  BY <1>1, <1>2, <1>3, <1>4, <1>5, <1>6, <1>7 DEF ApplyPendingRestore

\* Every step is one of the promise's, or unseen.
LEMMA StepSeen == IInv /\ WasInv /\ [Next]_vars => [Promise!ANext]_(Promise!avars)
<1> SUFFICES ASSUME IInv, WasInv, [Next]_vars PROVE Promise!ANext \/ UNCHANGED Promise!avars
  OBVIOUS
<1>1. CASE UNCHANGED vars
  BY <1>1, SameSeen, Unseen DEF vars, disk, SameDatabase
<1>2. CASE Next
  BY <1>2, ServeSeen, TurnsSeen, ApplySteps DEF Next
<1> QED
  BY <1>1, <1>2

-----------------------------------------------------------------------------

\* The files, the marker and the place of the process agree after every step,
\* failure and death.
THEOREM Inductive == Spec => []IInv
BY InitInv, NextInv, PTL DEF Spec

\* What the database should hold is in its files, or at risk at least on disk.
THEOREM NothingLost == Spec => []WasInv
BY InitWas, NextWas, Inductive, PTL DEF Spec

\* No database ever stands beside another's log (applyRestore).
THEOREM OwnWal == Spec => []NoForeignWal
<1>1. IInv => NoForeignWal
  BY DEF IInv
<1> QED
  BY <1>1, Inductive, PTL

\* A server that is up has no marker of a restore already applied
\* (ApplyPendingRestore).
THEOREM AppliedOnce == Spec => []NoReplay
<1>1. IInv => NoReplay
  BY DEF IInv
<1> QED
  BY <1>1, Inductive, PTL

\* The backup service and the start implement AtomicRestore: the server comes up on
\* all of the database it had, or on all of the backup that was asked for; but where
\* the safety copy or the fold failed and the start gave up later, on a part of the
\* old database, the rest of it being in other files on disk.
THEOREM Implements == Spec => KeepsPromise
BY InitSeen, StepSeen, Inductive, NothingLost, PTL DEF Spec, KeepsPromise, Promise!ASpec
=============================================================================
