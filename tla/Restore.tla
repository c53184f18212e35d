------------------------------- MODULE Restore -------------------------------
(* Database backups and the restore applied at the next start:              *)
(* internal/backup/backup.go, and the start-up order of pkg/launcher/app.go.*)
(*                                                                          *)
(* A file is the set of commits it holds. The database is two files, the    *)
(* main one and its write-ahead log; both carry the generation of the main  *)
(* file they were made with, since SQLite must never read a log of another  *)
(* database. The process may die between any two steps, and each step that  *)
(* touches the disk may fail when Faults names it.                          *)
EXTENDS Naturals, FiniteSets

CONSTANTS
    Faults,      \* the disk steps that may fail
    Keep,        \* how many scheduled backups the schedule keeps
    MaxCommits,  \* bound: commits ever made
    MaxBackups,  \* bound: scheduled and manual backups ever begun
    MaxAsks,     \* bound: restores ever asked for
    MaxStarts    \* bound: starts of the server

AllFaults == {"inspect", "stage", "copy", "fold", "aside", "undo", "side",
              "swap", "marker", "write", "remove"}

ASSUME RestoreAssumption ==
    /\ Faults \subseteq AllFaults
    /\ Keep \in Nat \ {0}
    /\ MaxCommits \in Nat /\ MaxBackups \in Nat
    /\ MaxAsks \in Nat /\ MaxStarts \in Nat

VARIABLES
    main,     \* audiosilo.db: NoFile or [gen, holds]
    wal,      \* audiosilo.db-wal: NoFile or [gen, holds]
    staged,   \* audiosilo.db.restoring: NoFile or [gen, holds]
    aside,    \* the files keepAside renamed: [start, part, gen, holds]
    copies,   \* the backups folder: [id, kind, holds]
    marker,   \* restore.json: NoFile or [ask, id, holds] (holds: of that backup)
    pc,       \* where the process is: "down", "up", or a step of its start
    res,      \* RestoreResult.Error of the restore being applied; "" when OK
    applied,  \* history: the last ask whose backup became the database
    was,      \* history: what the database should hold: the commits since it
              \* was opened or restored, on what it held then
    risk,     \* history: in a start since, the safety copy or the fold failed
    maker,    \* the one backup being made, its prune included
    deleter,  \* a Delete request under way: NoDelete or [id, cancel]
    asker,    \* a RequestRestore under way: NoBackup or the backup it checked
    count     \* commits, backups, copies, asks, starts and generations so far

NoFile == [gen |-> 0, holds |-> {}]
NoMarker == [ask |-> 0, id |-> 0, holds |-> {}]
NoBackup == [id |-> 0, kind |-> "manual", holds |-> {}]
NoDelete == [id |-> 0, cancel |-> FALSE]
NotMaking == [step |-> "idle", kind |-> "manual", holds |-> {}, doomed |-> {}]

disk == <<main, wal, staged, aside, copies, marker>>
volatile == <<maker, deleter, asker>>
vars == <<disk, pc, res, applied, was, risk, volatile, count>>

Commits == 1 .. MaxCommits
Counters == {"commit", "backup", "copy", "ask", "start", "gen"}

Fails(step) == step \in Faults

(* What the database's own files hold.                                      *)
Content == main.holds \union wal.holds

Init ==
    /\ main = NoFile /\ wal = NoFile /\ staged = NoFile
    /\ aside = {} /\ copies = {} /\ marker = NoMarker
    /\ pc = "down" /\ res = "" /\ applied = 0
    /\ was = {} /\ risk = FALSE
    /\ maker = NotMaking /\ deleter = NoDelete /\ asker = NoBackup
    /\ count = [c \in Counters |-> 0]

-----------------------------------------------------------------------------
(* SQLite, as the server uses it.                                           *)

(* The last connection closes: the log is folded into the main file and     *)
(* removed, or (disk full) left beside it.                                  *)
CloseDatabase ==
    \/ /\ main' = [main EXCEPT !.holds = @ \union wal.holds]
       /\ wal' = NoFile
    \/ Fails("fold") /\ UNCHANGED <<main, wal>>

Commit ==
    /\ pc = "up"
    /\ count["commit"] < MaxCommits
    /\ count' = [count EXCEPT !["commit"] = @ + 1]
    /\ wal' = [gen |-> main.gen, holds |-> wal.holds \union {count'["commit"]}]
    /\ was' = was \union {count'["commit"]}
    /\ UNCHANGED <<main, staged, aside, copies, marker, pc, res, applied,
                   risk, volatile>>

-----------------------------------------------------------------------------
(* While the server is up.                                                  *)

UpUnchanged == UNCHANGED <<main, wal, staged, aside, pc, res, applied, was, risk>>

(* begin, and VACUUM INTO's snapshot: the copy is the database as of now.   *)
BeginBackup(kind) ==
    /\ pc = "up"
    /\ maker.step = "idle"
    /\ count["backup"] < MaxBackups
    /\ count' = [count EXCEPT !["backup"] = @ + 1]
    /\ maker' = [NotMaking EXCEPT !.step = "write", !.kind = kind, !.holds = Content]
    /\ UpUnchanged /\ UNCHANGED <<copies, marker, deleter, asker>>

(* write renames the finished copy into place; a failed one leaves nothing. *)
WriteBackup ==
    /\ pc = "up"
    /\ maker.step = "write"
    /\ \/ /\ count' = [count EXCEPT !["copy"] = @ + 1]
          /\ copies' = copies \union {[id |-> count'["copy"], kind |-> maker.kind,
                                       holds |-> maker.holds]}
          /\ maker' = IF maker.kind = "scheduled" THEN [NotMaking EXCEPT !.step = "prune"] ELSE NotMaking
       \/ Fails("write") /\ maker' = NotMaking /\ UNCHANGED <<copies, count>>
    /\ UpUnchanged /\ UNCHANGED <<marker, deleter, asker>>

(* The scheduled backups past the newest Keep, less the one a restore waits *)
(* for.                                                                     *)
Prunable ==
    LET scheduled == {c \in copies : c.kind = "scheduled"}
    IN  {c \in scheduled : Cardinality({d \in scheduled : d.id > c.id}) >= Keep}
            \ {c \in copies : c.id = marker.id}

(* pruneKind reads the folder and the marker...                             *)
LookToPrune ==
    /\ pc = "up"
    /\ maker.step = "prune"
    /\ maker' = [maker EXCEPT !.step = "remove", !.doomed = Prunable]
    /\ UpUnchanged /\ UNCHANGED <<copies, marker, deleter, asker, count>>

(* ... and removes them one by one; a failed removal is only logged.        *)
RemovePruned ==
    /\ pc = "up"
    /\ maker.step = "remove"
    /\ IF maker.doomed = {}
       THEN maker' = NotMaking /\ UNCHANGED copies
       ELSE \E c \in maker.doomed :
                /\ maker' = [maker EXCEPT !.doomed = @ \ {c}]
                /\ \/ copies' = copies \ {c}
                   \/ Fails("remove") /\ UNCHANGED copies
    /\ UpUnchanged /\ UNCHANGED <<marker, deleter, asker, count>>

(* Delete: the backup is there; is a restore waiting for it?                *)
BeginDelete(c) ==
    /\ pc = "up"
    /\ deleter = NoDelete
    /\ deleter' = [id |-> c.id, cancel |-> marker.id = c.id]
    /\ UpUnchanged /\ UNCHANGED <<copies, marker, maker, asker, count>>

(* Its CancelRestore: whichever marker is there by now. A failure ends the  *)
(* Delete.                                                                  *)
CancelForDelete ==
    /\ pc = "up"
    /\ deleter # NoDelete /\ deleter.cancel
    /\ \/ deleter' = [deleter EXCEPT !.cancel = FALSE] /\ marker' = NoMarker
       \/ Fails("marker") /\ deleter' = NoDelete /\ UNCHANGED marker
    /\ UpUnchanged /\ UNCHANGED <<copies, maker, asker, count>>

FinishDelete ==
    /\ pc = "up"
    /\ deleter # NoDelete /\ ~deleter.cancel
    /\ deleter' = NoDelete
    /\ \/ copies' = {c \in copies : c.id # deleter.id}
       \/ Fails("remove") /\ UNCHANGED copies
    /\ UpUnchanged /\ UNCHANGED <<marker, maker, asker, count>>

(* RequestRestore: the backup was looked at...                              *)
BeginRequest(c) ==
    /\ pc = "up"
    /\ asker = NoBackup
    /\ count["ask"] < MaxAsks
    /\ asker' = c
    /\ UpUnchanged /\ UNCHANGED <<copies, marker, maker, deleter, count>>

(* ... and the marker replaces any that waits.                              *)
RequestRestore ==
    /\ pc = "up"
    /\ asker # NoBackup
    /\ asker' = NoBackup
    /\ \/ /\ count' = [count EXCEPT !["ask"] = @ + 1]
          /\ marker' = [ask |-> count'["ask"], id |-> asker.id, holds |-> asker.holds]
       \/ Fails("marker") /\ UNCHANGED <<count, marker>>
    /\ UpUnchanged /\ UNCHANGED <<copies, maker, deleter>>

CancelRestore ==
    /\ pc = "up"
    /\ marker # NoMarker
    /\ marker' = NoMarker
    /\ UpUnchanged /\ UNCHANGED <<copies, volatile, count>>

(* A clean stop closes the database last.                                   *)
Stop ==
    /\ pc = "up"
    /\ pc' = "down"
    /\ CloseDatabase
    /\ maker' = NotMaking /\ deleter' = NoDelete /\ asker' = NoBackup
    /\ UNCHANGED <<staged, aside, copies, marker, res, applied, was, risk, count>>

Die ==
    /\ pc # "down"
    /\ pc' = "down"
    /\ maker' = NotMaking /\ deleter' = NoDelete /\ asker' = NoBackup
    /\ UNCHANGED <<disk, res, applied, was, risk, count>>

-----------------------------------------------------------------------------
(* A start: ApplyPendingRestore, then the database opens.                   *)

Start ==
    /\ pc = "down"
    /\ count["start"] < MaxStarts
    /\ count' = [count EXCEPT !["start"] = @ + 1]
    /\ pc' = IF marker = NoMarker THEN "open" ELSE "check"
    /\ UNCHANGED <<disk, res, applied, was, risk, volatile>>

StartUnchanged == UNCHANGED <<marker, volatile>>

(* A step after which the database should hold what it should before.       *)
SameDatabase == UNCHANGED <<was, risk>>

(* applyRestore gives up: the staged copy goes and the reason is recorded.  *)
Refuse(why) ==
    /\ pc' = "record"
    /\ res' = why
    /\ staged' = NoFile
    /\ UNCHANGED <<copies, applied, count>>

(* The backup must be there and pass the full check.                        *)
CheckBackup ==
    /\ pc = "check"
    /\ \/ /\ \A c \in copies : c.id # marker.id
          /\ Refuse("missing")
       \/ /\ \E c \in copies : c.id = marker.id
          /\ Fails("inspect") /\ Refuse("unusable")
       \/ /\ \E c \in copies : c.id = marker.id
          /\ pc' = "stage" /\ res' = "failed"
          /\ UNCHANGED <<staged, copies, applied, count>>
    /\ StartUnchanged /\ SameDatabase /\ UNCHANGED <<main, wal, aside>>

(* copyFile: the backup beside the database, so that the swap is a rename.  *)
StageBackup ==
    /\ pc = "stage"
    /\ \/ /\ count' = [count EXCEPT !["gen"] = @ + 1]
          /\ staged' = [gen |-> count'["gen"], holds |-> marker.holds]
          /\ pc' = IF main = NoFile THEN "unwal" ELSE "copy"
          /\ UNCHANGED <<copies, res, applied>>
       \/ Fails("stage") /\ Refuse("failed")
    /\ StartUnchanged /\ SameDatabase /\ UNCHANGED <<main, wal, aside>>

Bug_CopyCurrent ==
    /\ pc = "copy"
    /\ \/ /\ count' = [count EXCEPT !["copy"] = @ + 1]
          /\ copies' = copies \union {[id |-> count'["copy"], kind |-> "before-restore",
                                       holds |-> main.holds]}
       \/ Fails("copy") /\ UNCHANGED <<copies, count>>
    /\ pc' = "unwal"
    /\ CloseDatabase
    /\ risk' = (risk \/ copies' = copies \/ wal' # NoFile)
    /\ StartUnchanged /\ UNCHANGED <<staged, aside, res, applied, was>>

(* The current database is copied into the backups folder, or, when that    *)
(* fails, its files are kept aside. Either way its connection closes.       *)
CopyCurrent ==
    /\ pc = "copy"
    /\ \/ /\ count' = [count EXCEPT !["copy"] = @ + 1]
          /\ copies' = copies \union {[id |-> count'["copy"], kind |-> "before-restore",
                                       holds |-> Content]}
          /\ pc' = "unwal"
       \/ /\ Fails("copy")
          /\ pc' = "asideWal"
          /\ UNCHANGED <<copies, count>>
    /\ CloseDatabase
    /\ risk' = (risk \/ pc' = "asideWal" \/ wal' # NoFile)
    /\ StartUnchanged /\ UNCHANGED <<staged, aside, res, applied, was>>

Kept(part, file) ==
    [start |-> count["start"], part |-> part, gen |-> file.gen, holds |-> file.holds]

(* keepAside renames the log first, so no main file is kept without it...   *)
AsideWal ==
    /\ pc = "asideWal"
    /\ \/ /\ aside' = IF wal = NoFile THEN aside ELSE aside \union {Kept("wal", wal)}
          /\ wal' = NoFile
          /\ pc' = "asideMain"
          /\ UNCHANGED <<staged, copies, res, applied, count>>
       \/ /\ Fails("aside") /\ wal # NoFile
          /\ Refuse("failed")
          /\ UNCHANGED <<wal, aside>>
    /\ StartUnchanged /\ SameDatabase /\ UNCHANGED main

(* ... then the main file; a failure puts the log back where it was.        *)
AsideMain ==
    /\ pc = "asideMain"
    /\ \/ /\ aside' = aside \union {Kept("main", main)}
          /\ main' = NoFile
          /\ pc' = "unwal"
          /\ UNCHANGED <<wal, staged, copies, res, applied, count>>
       \/ /\ Fails("aside")
          /\ Refuse("failed")
          /\ LET moved == {f \in aside : f.start = count["start"]}
             IN  \/ /\ moved # {}
                    /\ \E f \in moved : wal' = [gen |-> f.gen, holds |-> f.holds]
                    /\ aside' = aside \ moved
                 \/ /\ moved = {} \/ Fails("undo")
                    /\ UNCHANGED <<wal, aside>>
          /\ UNCHANGED main
    /\ StartUnchanged /\ SameDatabase

Bug_DropLog ==
    /\ pc = "unwal"
    /\ pc' = "swap"
    /\ StartUnchanged /\ SameDatabase
    /\ UNCHANGED <<wal, staged, copies, res, applied, count, main, aside>>

(* The -wal and -shm of the replaced database go before the swap. The -shm  *)
(* holds no commit; its removal can fail once the -wal is gone.             *)
DropLog ==
    /\ pc = "unwal"
    /\ \/ /\ wal' = NoFile
          /\ pc' = "swap"
          /\ UNCHANGED <<staged, copies, res, applied, count>>
       \/ /\ Fails("side")
          /\ wal' \in {wal, NoFile}
          /\ Refuse("failed")
    /\ StartUnchanged /\ SameDatabase /\ UNCHANGED <<main, aside>>

Swap ==
    /\ pc = "swap"
    /\ \/ /\ main' = staged
          /\ staged' = NoFile
          /\ res' = ""
          /\ applied' = marker.ask
          /\ was' = staged.holds /\ risk' = FALSE
          /\ pc' = "record"
          /\ UNCHANGED <<copies, count>>
       \/ Fails("swap") /\ Refuse("failed") /\ SameDatabase /\ UNCHANGED main
    /\ StartUnchanged /\ UNCHANGED <<wal, aside>>

(* The outcome is written (a failure is only logged), then the marker goes; *)
(* a marker that cannot be removed stops the start.                         *)
Record ==
    /\ pc = "record"
    /\ pc' = "unmark"
    /\ UNCHANGED <<disk, res, applied, was, risk, volatile, count>>

Bug_Unmark ==
    /\ pc = "unmark"
    /\ marker' \in {marker, NoMarker}
    /\ pc' = "open"
    /\ UNCHANGED <<main, wal, staged, aside, copies, res, applied, was, risk, volatile, count>>

Unmark ==
    /\ pc = "unmark"
    /\ \/ marker' = NoMarker /\ pc' = "open"
       \/ Fails("marker") /\ pc' = "down" /\ UNCHANGED marker
    /\ UNCHANGED <<main, wal, staged, aside, copies, res, applied, was, risk, volatile, count>>

(* store.Open creates the database when there is none.                      *)
Open ==
    /\ pc = "open"
    /\ pc' = "up"
    /\ IF main = NoFile
       THEN /\ count' = [count EXCEPT !["gen"] = @ + 1]
            /\ main' = [gen |-> count'["gen"], holds |-> {}]
       ELSE UNCHANGED <<main, count>>
    /\ was' = Content /\ risk' = FALSE
    /\ UNCHANGED <<wal, staged, aside, copies, marker, res, applied, volatile>>

-----------------------------------------------------------------------------
Serve ==
    \/ Commit
    \/ \E kind \in {"scheduled", "manual"} : BeginBackup(kind)
    \/ WriteBackup \/ LookToPrune \/ RemovePruned
    \/ \E c \in copies : BeginDelete(c)
    \/ CancelForDelete \/ FinishDelete
    \/ \E c \in copies : BeginRequest(c)
    \/ RequestRestore \/ CancelRestore

ApplyPendingRestore ==
    \/ CheckBackup \/ StageBackup \/ CopyCurrent \/ AsideWal \/ AsideMain
    \/ DropLog \/ Swap \/ Record \/ Unmark

Next == Serve \/ Stop \/ Die \/ Start \/ ApplyPendingRestore \/ Open

Spec == Init /\ [][Next]_vars

-----------------------------------------------------------------------------
(* Properties.                                                              *)

(* A write-ahead log beside the database is that database's own: at no      *)
(* moment, so after no crash, does a restored main file stand beside the    *)
(* log of the database it replaced (applyRestore removes it first).         *)
NoForeignWal == wal # NoFile => main # NoFile /\ wal.gen = main.gen

(* A server never serves while the marker of a restore it has already       *)
(* applied still waits: the next start would apply it again and put away    *)
(* what was written since (ApplyPendingRestore fails the start instead).    *)
NoReplay == pc = "up" /\ marker # NoMarker => marker.ask > applied

(* The restore seen from outside: what the database should hold, what its   *)
(* own files and the copies hold, and what is asked for.                    *)
Promise == INSTANCE AtomicRestore WITH
    serving <- pc = "up",
    db      <- was,
    held    <- Content,
    copies  <- {c.holds : c \in copies} \union {f.holds : f \in aside},
    asked   <- IF marker = NoMarker THEN {} ELSE {marker.holds}

(* Whatever fails and wherever the process dies, the server comes up on all *)
(* of the old database or all of the backup (ApplyPendingRestore), unless   *)
(* the safety copy or the fold of the log failed and the start gave up      *)
(* later: then on part of the old database, all of it being in some file.   *)
(* "A refused restore leaves the database as it was" holds but for that.    *)
KeepsPromise == Promise!ASpec

=============================================================================
