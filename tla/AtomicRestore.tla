---------------------------- MODULE AtomicRestore ----------------------------
(* What a restore promises, whatever fails and whenever the process dies.   *)
(* The server has a database: the commits of its users, or, from the moment *)
(* a restore is applied, the contents of the backup that was asked for. It  *)
(* comes up on that database, all of it, and with no restore waiting. There *)
(* is one exception (risk): when the safety copy of the database could not  *)
(* be made, or its log not be folded in, the start takes the database out   *)
(* of its files before it puts the backup there, and if it gives up after   *)
(* that, the server comes up on a part of the old database, or on an empty  *)
(* one; the rest is in files in the data folder and the backups folder.     *)
(* Restore implements this specification.                                   *)
EXTENDS Naturals

CONSTANT Commits

VARIABLES
    serving,  \* the server is up
    db,       \* the commits that the database should have
    held,     \* those that the database's own files have
    copies,   \* the contents of every copy on disk
    asked,    \* {the contents of the backup to be restored}, or {}
    risk      \* the safety copy or the fold failed in a restore not yet applied

avars == <<serving, db, held, copies, asked, risk>>

AInit ==
    /\ serving = FALSE
    /\ db = {} /\ held = {}
    /\ copies = {}
    /\ asked = {}
    /\ risk = FALSE

-----------------------------------------------------------------------------
(* While the server is up.                                                  *)

Write ==
    /\ serving
    /\ \E c \in Commits \ db : db' = db \union {c} /\ held' = held \union {c}
    /\ UNCHANGED <<serving, copies, asked, risk>>

(* A copy is of the database as it was at some moment of this run.          *)
Copy ==
    /\ serving
    /\ \E s \in SUBSET db : copies' = copies \union {s}
    /\ UNCHANGED <<serving, db, held, asked, risk>>

(* An admin or the schedule lets a copy go: only while the server is up.    *)
Drop ==
    /\ serving
    /\ copies' \in SUBSET copies
    /\ UNCHANGED <<serving, db, held, asked, risk>>

Ask ==
    /\ serving
    /\ \E s \in SUBSET Commits : asked' = {s}
    /\ UNCHANGED <<serving, db, held, copies, risk>>

(* The restore is called off, or, at a start, was applied or refused.       *)
Settle == asked' = {} /\ UNCHANGED <<serving, db, held, copies, risk>>

Down == serving /\ serving' = FALSE /\ UNCHANGED <<db, held, copies, asked, risk>>

-----------------------------------------------------------------------------
(* A start with a restore to apply.                                         *)

(* The safety copy: all of what the database's files hold. It, or the fold  *)
(* of the log that follows it, may fail.                                    *)
CopyCurrent ==
    /\ ~serving /\ asked # {}
    /\ copies' = copies \union {held} \/ (risk' /\ copies' = copies)
    /\ risk' \in {risk, TRUE}
    /\ UNCHANGED <<serving, db, held, asked>>

(* At risk, the database's files are moved aside, put back, or their log is *)
(* removed: no commit is in no file, and a copy goes only into the          *)
(* database's files.                                                        *)
Handle ==
    /\ ~serving /\ asked # {} /\ risk
    /\ held' \in SUBSET db
    /\ db \subseteq held' \union UNION copies'
    /\ \A s \in copies \ copies' : s \subseteq held'
    /\ UNCHANGED <<serving, db, asked, risk>>

(* The database becomes the backup asked for, all of it at once; all of the *)
(* old one is in copies by then.                                            *)
Apply ==
    /\ ~serving /\ asked # {}
    /\ db \subseteq UNION copies
    /\ db' \in asked /\ held' = db'
    /\ risk' = FALSE
    /\ UNCHANGED <<serving, copies, asked>>

(* The server comes up, on the database that it should have or, at risk, on *)
(* what is left of it.                                                      *)
Up ==
    /\ ~serving /\ serving' = TRUE
    /\ asked = {}
    /\ \/ held = db
       \/ risk /\ held \subseteq db /\ db \subseteq held \union UNION copies
    /\ db' = held
    /\ risk' = FALSE
    /\ UNCHANGED <<held, copies, asked>>

ANext == Write \/ Copy \/ Drop \/ Ask \/ Settle \/ Down \/ CopyCurrent \/ Handle \/ Apply \/ Up

ASpec == AInit /\ [][ANext]_avars
=============================================================================
