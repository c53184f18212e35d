---------------------------- MODULE LibraryScan ----------------------------
(* One library's index against its files: internal/library/scanner.go (a    *)
(* full scan: the walk, the move detection, the indexing, the prune; and    *)
(* the on-demand index of one book, alone or after a move), with what it    *)
(* calls in internal/catalog (books.go, listening.go MoveDurableState).     *)
(*                                                                          *)
(* A book is its content, which is also its fingerprint and, with its path, *)
(* its size and modification time. Its listeners' state is keyed on a path. *)
(* Files change under both, and a folder may be unreadable for a while.     *)
(*                                                                          *)
(* Five things strand the state of a book that moved, and Wild says which   *)
(* of them may happen: a change of the files while a scan walks them, of a  *)
(* book about to be read, or another book put where a request is carrying   *)
(* state from ("race"); a folder that can't be read while a book in it is   *)
(* to be indexed, or moves, or after it left: what can't be checked counts  *)
(* as there ("faults"); a move made as a copy and a removal, or of a book   *)
(* with the row of a removed copy still in the index ("copies"); a book     *)
(* that moves again, on or back, before it is indexed where it is or while  *)
(* a scan that saw it elsewhere goes on ("again"); and a rescan by the      *)
(* Bridge that doesn't name where the book was ("from").                    *)
EXTENDS Naturals, FiniteSets

CONSTANTS
    Paths,       \* where a book can be
    Books,       \* the contents
    Requests,    \* on-demand index requests at a time
    Wild,        \* what the surroundings may do that strands state (see below)
    MaxChanges,  \* bound: changes on disk
    MaxFaults,   \* bound: folders becoming unreadable
    MaxScans,    \* bound: scans
    MaxOpens     \* bound: on-demand requests

None == "none"      \* no book, no row, no path
Unread == "unread"  \* the row of a book whose file couldn't be read

ASSUME LibraryAssumption ==
    /\ IsFiniteSet(Paths) /\ None \notin Paths
    /\ {None, Unread} \intersect Books = {}
    /\ Wild \subseteq {"race", "faults", "copies", "again", "from"}
    /\ {MaxChanges, MaxFaults, MaxScans, MaxOpens} \subseteq Nat

VARIABLES
    disk,     \* disk[p]: the book whose files are at p
    faulty,   \* the paths whose folder can't be read now
    index,    \* index[p]: the fingerprint of the row at p
    at,       \* at[b]: the path that b's listening state is keyed on
    scan,     \* the running scan
    req,      \* req[r]: an on-demand request
    used,     \* changes, faults, scans and opens so far
    quiet,    \* history: the disk is as the running scan's start found it
    settled,  \* history: ... and as the last completed scan found it
    gone,     \* history: the paths without a book at some time of this scan
    hidden,   \* history: those whose folder couldn't be read at some time of it
    away      \* history: the requests whose path to carry from was without a
              \* book at some time since they knew it

history == <<quiet, settled, gone, hidden, away>>
vars == <<disk, faulty, index, at, scan, req, used, history>>

Nowhere == [p \in Paths |-> None]

Idle == [pc |-> "idle", sigs |-> Nowhere, walk |-> Nowhere, todo |-> {},
         partial |-> FALSE, left |-> {}, read |-> Nowhere]

NoReq == [pc |-> "idle", path |-> None, rows |-> {}, from |-> None, old |-> None,
          book |-> None, shared |-> FALSE, moved |-> FALSE]

Init ==
    /\ disk \in [Paths -> Books \union {None}]
    /\ \A b \in Books : Cardinality({p \in Paths : disk[p] = b}) = 1
    /\ faulty = {}
    /\ index = disk
    /\ at = [b \in Books |-> CHOOSE p \in Paths : disk[p] = b]
    /\ scan = Idle
    /\ req = [r \in Requests |-> NoReq]
    /\ used = [changes |-> 0, faults |-> 0, scans |-> 0, opens |-> 0]
    /\ quiet = FALSE /\ settled = TRUE
    /\ gone = {} /\ hidden = {} /\ away = {}

-----------------------------------------------------------------------------
(* The files.                                                               *)

(* fingerprintFile, and what enrich reads: nothing of a file that is gone   *)
(* or can't be opened.                                                      *)
Fingerprint(p) == IF disk[p] = None \/ p \in faulty THEN Unread ELSE disk[p]

Bug_BookOnDisk(p) == disk[p] # None /\ p \notin faulty

(* bookOnDisk: a path that can't be checked counts as present.              *)
BookOnDisk(p) == disk[p] # None \/ p \in faulty

(* The book found at p is still to be read, by the scan or a request.       *)
ToRead(p) ==
    \/ scan.pc = "walk"
    \/ scan.pc = "moves" /\ scan.walk[p] \notin {None, scan.sigs[p]}
    \/ scan.pc = "index" /\ p \in scan.todo
    \/ \E r \in Requests : req[r].path = p

(* A change of the files, by anyone.                                        *)
Change(new) ==
    /\ "race" \in Wild \/ \A p \in Paths : new[p] # disk[p] => ~ToRead(p)
    /\ used.changes < MaxChanges
    /\ used' = [used EXCEPT !.changes = @ + 1]
    /\ disk' = new
    /\ gone' = gone \union {p \in Paths : new[p] = None}
    /\ away' = away \union {r \in Requests : req[r].from # None /\ new[req[r].from] = None}
    /\ quiet' = FALSE /\ settled' = FALSE
    /\ UNCHANGED <<faulty, index, at, scan, req, hidden>>

(* The files of a folder that can't be read stay as they are.               *)
Still(p) == p \in faulty /\ "faults" \notin Wild

(* A path is free for a book when no other one is, or was, known there: a   *)
(* path is a book's identity, and another book put there takes its state.   *)
Free(p, b) ==
    /\ disk[p] = None /\ ~Still(p)
    /\ {index[p], scan.sigs[p], scan.read[p]} \subseteq {None, b}
    /\ \A other \in Books \ {b} : at[other] # p
    /\ \/ "race" \in Wild
       \/ \A r \in Requests : req[r].from = p => req[r].old \in {None, b}

(* The book at p is nowhere else.                                           *)
Only(p) == \A q \in Paths \ {p} : disk[q] # disk[p]

(* ... and a copy of it that was removed has left no trace.                 *)
Alone(p) ==
    /\ Only(p)
    /\ \A q \in Paths \ {p} : disk[p] \notin {index[q], scan.sigs[q], scan.read[q]}

(* ... and is indexed there, and no running scan saw it anywhere else.      *)
Placed(p) == index[p] = disk[p] /\ \A q \in Paths \ {p} : scan.walk[q] # disk[p]

Move(p, q) ==
    /\ disk[p] # None /\ ~Still(p) /\ Free(q, disk[p])
    /\ Alone(p) \/ "copies" \in Wild
    /\ Placed(p) \/ "again" \in Wild
    /\ Change([disk EXCEPT ![p] = None, ![q] = disk[p]])

Copy(p, q) ==
    /\ disk[p] # None /\ ~Still(p) /\ Free(q, disk[p])
    /\ Change([disk EXCEPT ![q] = disk[p]])

Remove(p) ==
    /\ disk[p] # None /\ ~Still(p)
    /\ Only(p) \/ at[disk[p]] # p \/ "copies" \in Wild
    /\ Change([disk EXCEPT ![p] = None])

(* There is a book at p, and the index and its readers know it as it is.    *)
Known(p) ==
    /\ disk[p] # None
    /\ index[p] = disk[p] /\ at[disk[p]] = p
    /\ scan.pc # "idle" => scan.sigs[p] = disk[p]
    /\ \A r \in Requests : req[r].path # p

(* A folder can't be read, and can again.                                   *)
Fault(p) ==
    /\ p \notin faulty
    /\ Known(p) \/ "faults" \in Wild
    /\ used.faults < MaxFaults
    /\ used' = [used EXCEPT !.faults = @ + 1]
    /\ faulty' = faulty \union {p} /\ hidden' = hidden \union {p}
    /\ quiet' = FALSE /\ settled' = FALSE
    /\ UNCHANGED <<disk, index, at, scan, req, gone, away>>

Heal(p) ==
    /\ p \in faulty
    /\ faulty' = faulty \ {p}
    /\ quiet' = FALSE /\ settled' = FALSE
    /\ UNCHANGED <<disk, index, at, scan, req, used, gone, hidden, away>>

-----------------------------------------------------------------------------
(* The catalog.                                                             *)

(* MoveDurableState: what is keyed on the old path is keyed on the new.     *)
MoveDurableState(from, to) ==
    at' = [b \in Books |-> IF at[b] = from THEN to ELSE at[b]]

-----------------------------------------------------------------------------
(* A full scan. Its worker runs one at a time (ScanQueue).                  *)

files == <<disk, faulty>>

StartScan ==
    /\ scan.pc = "idle" /\ used.scans < MaxScans
    /\ used' = [used EXCEPT !.scans = @ + 1]
    /\ scan' = [Idle EXCEPT !.pc = "walk", !.sigs = index, !.todo = Paths]
    /\ quiet' = (\A r \in Requests : req[r].pc = "idle")
    /\ gone' = {p \in Paths : disk[p] = None} /\ hidden' = faulty
    /\ UNCHANGED <<files, index, at, req, settled, away>>

(* discoverAuto lists folder after folder; one it can't read leaves the     *)
(* discovery partial.                                                       *)
Visit(p) ==
    /\ scan.pc = "walk" /\ p \in scan.todo
    /\ scan' = [scan EXCEPT !.todo = @ \ {p},
                            !.partial = @ \/ p \in faulty,
                            !.walk[p] = IF p \in faulty THEN None ELSE disk[p]]
    /\ UNCHANGED <<files, index, at, req, used, history>>

Found == {p \in Paths : scan.walk[p] # None}
Indexed == {p \in Paths : scan.sigs[p] # None}

(* Nothing found where books are indexed: a dropped mount, not a library    *)
(* emptied. Else the scan knows which paths are new and which disappeared.  *)
EndWalk ==
    /\ scan.pc = "walk" /\ scan.todo = {}
    /\ scan' = IF Found = {} /\ Indexed # {} THEN Idle
               ELSE [scan EXCEPT !.pc = "moves", !.todo = Found \ Indexed,
                                 !.left = {p \in Indexed \ Found : scan.sigs[p] # Unread}]
    /\ UNCHANGED <<files, index, at, req, used, history>>

(* detectMoves, one new book: its state comes from a disappeared path with  *)
(* its fingerprint.                                                         *)
DetectMove(p) ==
    /\ scan.pc = "moves" /\ p \in scan.todo
    /\ LET same == {q \in scan.left : scan.sigs[q] = Fingerprint(p)}
       IN  \/ /\ same = {}
              /\ scan' = [scan EXCEPT !.todo = @ \ {p}]
              /\ UNCHANGED at
           \/ \E q \in same :
                /\ scan' = [scan EXCEPT !.todo = @ \ {p}, !.left = @ \ {q}]
                /\ MoveDurableState(q, p)
    /\ UNCHANGED <<files, index, req, used, history>>

(* A book found as it is indexed is not read again.                         *)
EndMoves ==
    /\ scan.pc = "moves" /\ scan.todo = {}
    /\ scan' = [scan EXCEPT !.pc = "index",
                            !.todo = {p \in Found : scan.sigs[p] # scan.walk[p]}]
    /\ UNCHANGED <<files, index, at, req, used, history>>

(* enrich reads a book, on a goroutine of its own.                          *)
ReadBook(p) ==
    /\ scan.pc = "index" /\ p \in scan.todo
    /\ scan' = [scan EXCEPT !.todo = @ \ {p}, !.read[p] = Fingerprint(p)]
    /\ UNCHANGED <<files, index, at, req, used, history>>

(* writeNext and flush: its row is written later.                           *)
WriteBook(p) ==
    /\ scan.pc = "index" /\ scan.read[p] # None
    /\ index' = [index EXCEPT ![p] = scan.read[p]]
    /\ scan' = [scan EXCEPT !.read[p] = None]
    /\ UNCHANGED <<files, at, req, used, history>>

Bug_EndIndex ==
    /\ scan.pc = "index" /\ scan.todo = {} /\ scan.read = Nowhere
    /\ scan' = [scan EXCEPT !.pc = "prune"]
    /\ UNCHANGED <<files, index, at, req, used, history>>

(* After a partial discovery nothing is pruned.                             *)
EndIndex ==
    /\ scan.pc = "index" /\ scan.todo = {} /\ scan.read = Nowhere
    /\ scan' = IF scan.partial THEN Idle ELSE [scan EXCEPT !.pc = "prune"]
    /\ UNCHANGED <<files, index, at, req, used, history>>

Bug_LookToPrune ==
    /\ scan.pc = "prune"
    /\ scan' = [scan EXCEPT !.pc = "delete", !.todo = scan.left]
    /\ UNCHANGED <<files, index, at, req, used, history>>

(* DeleteBooksNotIn lists the rows now in the index that the walk didn't    *)
(* find...                                                                  *)
LookToPrune ==
    /\ scan.pc = "prune"
    /\ scan' = [scan EXCEPT !.pc = "delete", !.todo = {p \in Paths : index[p] # None} \ Found]
    /\ UNCHANGED <<files, index, at, req, used, history>>

(* ... and deletes them in one transaction.                                 *)
Prune ==
    /\ scan.pc = "delete"
    /\ index' = [p \in Paths |-> IF p \in scan.todo THEN None ELSE index[p]]
    /\ scan' = Idle
    /\ settled' = quiet
    /\ UNCHANGED <<files, at, req, used, quiet, gone, hidden, away>>

(* A Stop, the time limit, or a prune that fails: what was written stays.   *)
Stop ==
    /\ scan.pc # "idle"
    /\ scan' = Idle
    /\ UNCHANGED <<files, index, at, req, used, history>>

-----------------------------------------------------------------------------
(* On demand.                                                               *)

Empty(p) == p # None /\ disk[p] = None

StartRequest(r, new) ==
    /\ req[r].pc = "idle" /\ used.opens < MaxOpens
    /\ used' = [used EXCEPT !.opens = @ + 1]
    /\ disk[new.path] # None /\ new.path \notin faulty
    /\ req' = [req EXCEPT ![r] = new]
    /\ away' = IF Empty(new.from) THEN away \union {r} ELSE away
    /\ UNCHANGED <<files, index, at, scan, quiet, settled, gone, hidden>>

(* IndexPath; a second request for the path waits for the first             *)
(* (indexShared).                                                           *)
IndexPath(r, p) ==
    /\ \A other \in Requests : req[other].shared => req[other].path # p
    /\ StartRequest(r, [NoReq EXCEPT !.pc = "find", !.path = p, !.shared = TRUE])

(* IndexMoved, the Bridge's rescan: it says where the book was before, or   *)
(* nothing of one it left in its place.                                     *)
IndexMoved(r, p, from) ==
    /\ p # from
    /\ disk[p] # None
    /\ \/ "from" \in Wild
       \/ from = (IF disk[at[disk[p]]] = disk[p] THEN None ELSE at[disk[p]])
    /\ StartRequest(r, [NoReq EXCEPT !.pc = "carry", !.path = p, !.from = from])

(* nb.ContentHash, kept once it is known.                                   *)
ContentHash(q) ==
    LET read == Fingerprint(q.path)
    IN  IF q.book = None /\ read # Unread THEN read ELSE q.book

(* movedFrom: of a book not indexed yet, the indexed books with its         *)
(* fingerprint (MoveCandidates), ...                                        *)
MoveCandidates(r) ==
    LET p == req[r].path
        book == ContentHash(req[r])
    IN  /\ req[r].pc = "find"
        /\ req' = [req EXCEPT ![r] =
                      [@ EXCEPT !.pc = "look", !.book = book,
                                !.rows = {q \in Paths \ {p} : /\ book # None /\ index[p] = None
                                                              /\ index[q] = book}]]
        /\ UNCHANGED <<files, index, at, scan, used, history>>

Bug_MovedFrom(r) ==
    /\ req[r].pc = "look"
    /\ req' = [req EXCEPT ![r] = [@ EXCEPT !.pc = "carry", !.rows = {}]]
    /\ UNCHANGED <<files, index, at, scan, used, history>>

(* ... and one of them that is no longer on disk.                           *)
MovedFrom(r) ==
    LET was == {q \in req[r].rows : ~BookOnDisk(q)}
    IN  /\ req[r].pc = "look"
        /\ \E from \in IF was = {} THEN {None} ELSE was :
             /\ req' = [req EXCEPT ![r] = [@ EXCEPT !.pc = "carry", !.rows = {}, !.from = from]]
             /\ away' = IF Empty(from) THEN away \union {r} ELSE away
        /\ UNCHANGED <<files, index, at, scan, used, quiet, settled, gone, hidden>>

(* carryFrom, step after step, nothing locked between them: the old row...  *)
FindOld(r) ==
    LET old == IF req[r].from = None THEN None ELSE index[req[r].from]
    IN  /\ req[r].pc = "carry"
        /\ req' = [req EXCEPT ![r] = [@ EXCEPT !.pc = IF old = None THEN "read" ELSE "check",
                                             !.old = old]]
        /\ UNCHANGED <<files, index, at, scan, used, history>>

(* ... whose book must not be on disk any more...                           *)
CheckGone(r) ==
    /\ req[r].pc = "check"
    /\ req' = [req EXCEPT ![r] = IF BookOnDisk(@.from) THEN [@ EXCEPT !.pc = "read", !.old = None]
                                 ELSE [@ EXCEPT !.pc = "compare"]]
    /\ UNCHANGED <<files, index, at, scan, used, history>>

(* ... and be the one at the new path...                                    *)
Compare(r) ==
    LET book == ContentHash(req[r])
        same == book = req[r].old
    IN  /\ req[r].pc = "compare"
        /\ req' = [req EXCEPT ![r] = [@ EXCEPT !.pc = IF same THEN "move" ELSE "read",
                                             !.old = IF same THEN req[r].old ELSE None,
                                             !.book = book]]
        /\ UNCHANGED <<files, index, at, scan, used, history>>

(* ... then carryMove.                                                      *)
CarryMove(r) ==
    /\ req[r].pc = "move"
    /\ MoveDurableState(req[r].from, req[r].path)
    /\ req' = [req EXCEPT ![r] = [@ EXCEPT !.pc = "read", !.moved = TRUE]]
    /\ UNCHANGED <<files, index, scan, used, history>>

(* indexBook: enrich takes the fingerprint, unless it is known, ...         *)
Enrich(r) ==
    LET q == req[r]
    IN  /\ q.pc = "read"
        /\ req' = [req EXCEPT ![r] =
                      [q EXCEPT !.pc = "index",
                                !.book = IF q.book = None THEN Fingerprint(q.path) ELSE q.book]]
        /\ UNCHANGED <<files, index, at, scan, used, history>>

(* ... and its row is written; a book that moved then loses its old row.    *)
IndexBook(r) ==
    /\ req[r].pc = "index"
    /\ index' = [index EXCEPT ![req[r].path] = req[r].book]
    /\ req' = [req EXCEPT ![r] = IF @.moved THEN [@ EXCEPT !.pc = "drop"] ELSE NoReq]
    /\ away' = IF req[r].moved THEN away ELSE away \ {r}
    /\ UNCHANGED <<files, at, scan, used, quiet, settled, gone, hidden>>

(* A prune deletes the rows it listed: not one written here since.          *)
DeleteBookAt(r) ==
    /\ req[r].pc = "drop"
    /\ index' = [index EXCEPT ![req[r].from] = None]
    /\ scan' = IF scan.pc = "delete" THEN [scan EXCEPT !.todo = @ \ {req[r].from}] ELSE scan
    /\ req' = [req EXCEPT ![r] = NoReq]
    /\ away' = away \ {r}
    /\ UNCHANGED <<files, at, used, quiet, settled, gone, hidden>>

(* A request that ends takes its index with it, unless the state has moved. *)
Cancel(r) ==
    /\ req[r].pc # "idle" /\ ~req[r].moved
    /\ req' = [req EXCEPT ![r] = NoReq]
    /\ away' = away \ {r}
    /\ UNCHANGED <<files, index, at, scan, used, quiet, settled, gone, hidden>>

Next ==
    \/ \E p, q \in Paths : Move(p, q) \/ Copy(p, q)
    \/ \E p \in Paths : Remove(p) \/ Fault(p) \/ Heal(p)
    \/ StartScan \/ EndWalk \/ EndMoves \/ EndIndex \/ LookToPrune \/ Prune \/ Stop
    \/ \E p \in Paths : Visit(p) \/ DetectMove(p) \/ ReadBook(p) \/ WriteBook(p)
    \/ \E r \in Requests, p \in Paths :
         \/ IndexPath(r, p)
         \/ \E from \in Paths \union {None} : IndexMoved(r, p, from)
    \/ \E r \in Requests :
         \/ MoveCandidates(r) \/ MovedFrom(r) \/ FindOld(r) \/ CheckGone(r) \/ Compare(r)
         \/ CarryMove(r) \/ Enrich(r) \/ IndexBook(r) \/ DeleteBookAt(r) \/ Cancel(r)

Spec == Init /\ [][Next]_vars

-----------------------------------------------------------------------------
(* A scan that ran to its end over files nobody touched leaves exactly the  *)
(* books on disk in the index, whatever scans, stops, moves and on-demand   *)
(* requests came before or ran beside it.                                   *)
IndexMatchesDisk == settled => index = disk

(* ... and the state of every book on disk at a path where the book is: "a  *)
(* moved/renamed file keeps its state" (detectMoves).                       *)
StateWithBook ==
    settled => \A b \in Books : (\E p \in Paths : disk[p] = b) => disk[at[b]] = b

(* A prune removes no row of a book that was on disk all through its scan,  *)
(* a folder that couldn't be read included.                                 *)
PrunesOnlyGone ==
    [][scan.pc = "delete" /\ scan'.pc = "idle" =>
         \A p \in Paths : index[p] # None /\ index'[p] = None => p \in gone]_vars

(* State is carried away from a path only by one that could have seen no    *)
(* book there: a request when the path was without one since it knew of it  *)
(* ("a path it can't check keeps its state", bookOnDisk), a scan when it    *)
(* was so, or its folder couldn't be read, at some time of the scan. By the *)
(* time of the carry a book may be back: neither holds the files still.     *)
PresentKeepsState ==
    [][\A b \in Books : at'[b] # at[b] =>
         \/ \E r \in away : req'[r] # req[r] /\ req[r].from = at[b]
         \/ scan' # scan /\ at[b] \in gone \union hidden]_vars
=============================================================================
