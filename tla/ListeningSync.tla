---------------------------- MODULE ListeningSync ----------------------------
(* One listener's progress on one book, written from several devices:       *)
(* internal/catalog/listening_sync.go (Sync v2), reading_progress.go        *)
(* (ResolvePlace), listening.go (the legacy PUT) and progress_admin.go (an  *)
(* edit).                                                                   *)
(*                                                                          *)
(* Devices record events offline and post them in batches; a batch may come *)
(* late, be answered to nobody, or be posted again. Positions and times are *)
(* counted in units longer than every tolerance of the code (the slack of a *)
(* resume, the gap that joins two spans, the distance worth an offer), so a *)
(* place is "about" another exactly when they are equal.                    *)
EXTENDS Integers, Sequences, FiniteSets, SequencesExt, FiniteSetsExt

CONSTANTS
    Players,     \* devices that post listening events
    Accounts,    \* Audible accounts: devices whose batches are furthest-only
    End,         \* the book's length
    Starts,      \* how a span may start: "resume", "jump"
    OmitBase,    \* TRUE: some clients send no base version
    RejectAge,   \* syncRejectAge: an older event is rejected
    Retention,   \* SyncRetention: how long the event log keeps an id
    Ahead,       \* plausibleUpdatedAt: how far ahead a save may be dated
    MaxSkew,     \* bound: by how much two clock corrections may differ
    MaxBatch,    \* bound: events in a post
    MaxClock,    \* bound: the time
    MaxEvents,   \* bound: events ever recorded
    MaxVersion,  \* bound: the version a legacy save names
    MaxOthers    \* bound: legacy saves and edits

Devices == Players \union Accounts
Positions == 0 .. End

ASSUME SyncAssumption ==
    /\ Players \intersect Accounts = {}
    /\ Starts \subseteq {"resume", "jump"}
    /\ End \in Nat \ {0} /\ OmitBase \in BOOLEAN
    /\ RejectAge \in Nat /\ MaxSkew \in Nat /\ Ahead \in Nat
    /\ Retention \in Nat /\ Retention >= RejectAge + MaxSkew
    /\ MaxBatch \in Nat /\ MaxClock \in Nat
    /\ MaxEvents \in Nat /\ MaxVersion \in Nat /\ MaxOthers \in Nat

VARIABLES
    row,      \* the progress row (ver 0: none)
    log,      \* listening_events: [dev, n, ended], n the event's number on dev
    events,   \* events[d]: all that d has recorded, in order
    seen,     \* seen[d]: the row's version that d last received (0: none)
    clock,    \* the time
    others,   \* legacy saves and edits so far
    counted,  \* history: the listens added to sessions and history
    twice,    \* history: some listen was added twice
    latest,   \* history: the newest change of the finish state, by its time
    shown     \* history: the devices that received the offer now on the row

NoOffer == [pos |-> 0, dev |-> "", at |-> 0, ver |-> 0]
NoRow == [pos |-> 0, fin |-> FALSE, ver |-> 0, dev |-> "", at |-> 0,
          changed |-> 0, offer |-> NoOffer, span |-> 0]
NoBase == -1

vars == <<row, log, events, seen, clock, others, counted, twice, latest, shown>>

Init ==
    /\ row = NoRow /\ log = {} /\ counted = {} /\ twice = FALSE
    /\ latest = [at |-> 0, fin |-> FALSE]
    /\ events = [d \in Devices |-> << >>]
    /\ seen = [d \in Devices |-> 0]
    /\ clock = 1 /\ others = 0 /\ shown = {}

-----------------------------------------------------------------------------
(* Places.                                                                  *)

(* newerStamp: the later time wins, the version breaks a tie.               *)
NewerStamp(at, ver, storedAt, storedVer) ==
    at > storedAt \/ (at = storedAt /\ ver > storedVer)

Bug_ResolvePlace(stored, in, base) ==
    CASE stored.ver = 0 -> "apply"
      [] stored.ver # 0 /\ base = 0 ->
             IF in.pos > stored.pos THEN "apply_diverged" ELSE "keep_stored"
      [] OTHER -> IF NewerStamp(in.at, in.ver, stored.at, stored.ver)
                  THEN "apply" ELSE "stale"

(* ResolvePlace: a save made without seeing the row diverges, and then the  *)
(* further place is kept; any other save is last-write-wins.                *)
ResolvePlace(stored, in, base) ==
    CASE stored.ver = 0 -> "apply"
      [] /\ stored.ver # 0 /\ base # NoBase
         /\ base = 0 \/ (base # stored.ver /\ stored.dev # in.dev) ->
             IF in.pos > stored.pos THEN "apply_diverged" ELSE "keep_stored"
      [] OTHER -> IF NewerStamp(in.at, in.ver, stored.at, stored.ver)
                  THEN "apply" ELSE "stale"

(* laterStamp: the row's time never moves back.                             *)
Later(a, b) == IF a > b THEN a ELSE b

(* chainOf: the row is still as this device's last span, finish or unfinish *)
(* left it (span is dropped by every other writer).                         *)
Chained(r, d) == r.dev = d /\ r.span # 0

(* continues: the span starts when or where the chain ended.                *)
Continues(e, r) ==
    e.started >= r.span /\ (e.started = r.span \/ e.from = r.pos)

(* writePlace: the row takes the span's place; never the finish state.      *)
WritePlace(r, e, at, clear) ==
    [r EXCEPT !.pos = e.to, !.ver = @ + 1, !.dev = e.dev, !.at = at,
              !.span = e.ended, !.offer = IF clear THEN NoOffer ELSE @]

Offered(r, pos, dev, at, ver) ==
    [r EXCEPT !.offer = [pos |-> pos, dev |-> dev, at |-> at, ver |-> ver]]

-----------------------------------------------------------------------------
(* One event in the batch's transaction. s is the transaction's state: the  *)
(* row, the log, the version a base-0 span of this batch resolves on        *)
(* (written, 0 for none) and the histories.                                 *)

(* A replay whose event is the chain's newest link lets the device's later  *)
(* base-0 events chain on it.                                               *)
Replay(s, e) ==
    LET end == (CHOOSE l \in s.log : l.dev = e.dev /\ l.n = e.n).ended
        newest == /\ Chained(s.row, e.dev)
                  /\ \/ s.row.span = end
                     \/ e.kind # "listen" /\ s.row.changed = end
    IN  IF s.written = 0 /\ newest THEN [s EXCEPT !.written = s.row.ver] ELSE s

(* furthestListen: an account's place applies only when it is ahead of an   *)
(* unfinished row and newer than its last finish or unfinish.               *)
FurthestListen(s, e) ==
    LET r == s.row
        behind == r.ver # 0 /\ (r.fin \/ (r.changed # 0 /\ e.ended <= r.changed) \/ e.to <= r.pos)
    IN  IF behind THEN s
        ELSE [s EXCEPT !.row = WritePlace(r, e, Later(e.ended, r.at), FALSE),
                       !.written = r.ver + 1]

Bug_ClearsOffer(r, e) == r.offer # NoOffer /\ e.base >= r.offer.ver - 1

(* An applied span clears an offer that its device had seen: by the base as *)
(* the device sent it.                                                      *)
ClearsOffer(r, e) == r.offer # NoOffer /\ e.base >= r.offer.ver

(* resolveListen: the chain, the conflict rule, the backstop (a resume does *)
(* not move the place back) and the write they decide.                      *)
ResolveListen(s, e) ==
    LET r == s.row
        chained == Chained(r, e.dev)
        written == IF s.written = 0 /\ chained /\ Continues(e, r) THEN r.ver ELSE s.written
        base == IF e.base = 0 /\ written # 0 THEN written ELSE e.base
        stored == IF chained THEN [r EXCEPT !.at = r.span] ELSE r
        outcome == ResolvePlace(stored, [pos |-> e.to, dev |-> e.dev, at |-> e.ended,
                                         ver |-> r.ver + 1], base)
        diverged == outcome \in {"keep_stored", "apply_diverged"}
        at == Later(e.ended, r.at)
        apart == r.dev # e.dev /\ e.to # r.pos
        carriesOffer == r.offer # NoOffer /\ r.offer.dev = e.dev /\ e.from = r.offer.pos
        t == [s EXCEPT !.written = written]
    IN  CASE /\ e.start = "resume" /\ r.ver # 0 /\ ~r.fin /\ e.to < r.pos
             /\ ~(diverged /\ base > 0) ->
                 IF carriesOffer
                 THEN [t EXCEPT !.row = Offered(r, e.to, e.dev, e.ended, r.ver + 1)]
                 ELSE t
          [] OTHER ->
             CASE outcome = "stale" -> t
               [] outcome = "keep_stored" ->
                      IF apart
                      THEN [t EXCEPT !.row = Offered(r, e.to, e.dev, e.ended, r.ver + 1)]
                      ELSE t
               [] outcome = "apply_diverged" ->
                      LET new == WritePlace(r, e, at, FALSE)
                      IN  [t EXCEPT !.written = r.ver + 1,
                                    !.row = IF apart
                                            THEN Offered(new, r.pos, r.dev, r.at, r.ver + 1)
                                            ELSE new]
               [] outcome = "apply" ->
                      [t EXCEPT !.written = r.ver + 1,
                                !.row = WritePlace(r, e, at, ClearsOffer(r, e))]

(* listen: the place, then the listening, whatever the place did.           *)
Listen(s, e) ==
    IF e.dev \in Accounts THEN FurthestListen(s, e)
    ELSE LET t == ResolveListen(s, e)
         IN  [t EXCEPT !.twice = @ \/ <<e.dev, e.n>> \in t.counted,
                       !.counted = @ \union {<<e.dev, e.n>>}]

Bug_Older(r, e) == r.changed # 0 /\ e.ended < r.changed

(* A finish or unfinish at or before the row's last one changes nothing.    *)
Older(r, e) == r.changed # 0 /\ e.ended <= r.changed

(* finish: the row's finish state, and the chain when the row is left this  *)
(* device's.                                                                *)
Finish(s, e) ==
    LET r == s.row
        done == e.kind = "finish"
        at == Later(e.ended, r.at)
        takes == done \/ r.fin \/ r.dev = e.dev
        link == CASE ~takes -> 0
                  [] takes /\ Chained(r, e.dev) -> Later(e.ended, r.span)
                  [] OTHER -> IF at = e.ended THEN e.ended ELSE 0
        new == [r EXCEPT !.fin = done, !.ver = @ + 1, !.at = at,
                         !.changed = e.ended, !.span = link,
                         !.pos = IF done THEN End ELSE @,
                         !.dev = IF done \/ r.fin THEN e.dev ELSE @,
                         !.offer = IF done THEN NoOffer ELSE @]
        heard == [s EXCEPT !.latest = IF e.ended > @.at
                                      THEN [at |-> e.ended, fin |-> done] ELSE @]
    IN  CASE ~done /\ (e.dev \in Accounts \/ r.ver = 0) -> s
          [] Older(r, e) -> heard
          [] OTHER -> [heard EXCEPT !.row = new,
                                    !.written = IF takes THEN r.ver + 1 ELSE @]

(* apply: the dedupe, the kind's rule, the event in the log.                *)
Apply(s, e) ==
    IF \E l \in s.log : l.dev = e.dev /\ l.n = e.n THEN Replay(s, e)
    ELSE LET t == IF e.kind = "listen" THEN Listen(s, e) ELSE Finish(s, e)
         IN  [t EXCEPT !.log = @ \union {[dev |-> e.dev, n |-> e.n, ended |-> e.ended]}]

(* The clock: the batch's times move by its correction, and one past now is *)
(* pulled back to now with its span.                                        *)
Corrected(e, skew) ==
    IF e.ended + skew > clock
    THEN [e EXCEPT !.ended = clock, !.started = clock - (e.ended - e.started)]
    ELSE [e EXCEPT !.ended = @ + skew, !.started = @ + skew]

(* SyncListening: the events that are not too old, in one transaction and   *)
(* in the order of their ends, which is the order they were recorded in.    *)
SyncListening(batch, skew) ==
    LET prepared == SelectSeq([i \in DOMAIN batch |-> Corrected(batch[i], skew)],
                              LAMBDA e : e.ended >= clock - RejectAge)
    IN  FoldLeft(Apply, [row |-> row, log |-> log, written |-> 0, counted |-> counted,
                         twice |-> twice, latest |-> latest], prepared)

(* Who has received the offer on the row: nobody yet, for a new one.        *)
Received(new, who) ==
    shown' = CASE new.offer = NoOffer -> {}
               [] new.offer # NoOffer /\ new.offer = row.offer -> shown \union who
               [] OTHER -> who

-----------------------------------------------------------------------------
(* The devices.                                                             *)

Total == FoldSet(LAMBDA d, n : Len(events[d]) + n, 0, Devices)

(* A device records an event, on or off line, on the version it last saw (0 *)
(* when it was signed out and in since, NoBase from a client that sends     *)
(* none). Listening took the last unit of time; where a device listens, and *)
(* after what start, is its own business.                                   *)
NewEvent(d, e) ==
    /\ Total < MaxEvents
    /\ events' = [events EXCEPT ![d] = Append(@, e)]
    /\ UNCHANGED <<row, log, seen, clock, others, counted, twice, latest, shown>>

RecordListen(d, start, from, base) ==
    NewEvent(d, [dev |-> d, n |-> Len(events[d]) + 1, kind |-> "listen",
                 start |-> start, from |-> from, to |-> from + 1, base |-> base,
                 started |-> clock - 1, ended |-> clock])

RecordFinish(d, kind) ==
    NewEvent(d, [dev |-> d, n |-> Len(events[d]) + 1, kind |-> kind,
                 start |-> "", from |-> 0, to |-> 0, base |-> 0,
                 started |-> clock, ended |-> clock])

(* A post of recorded events reaches the server: for the first time, again  *)
(* because its answer was lost, or late behind a later post. The answer, if *)
(* it is heard, carries the row: that is Fetch.                             *)
Post(d, lo, hi, skew) ==
    LET t == SyncListening(SubSeq(events[d], lo, hi), skew)
    IN  /\ row' = t.row /\ log' = t.log /\ latest' = t.latest
        /\ counted' = t.counted /\ twice' = t.twice
        /\ Received(t.row, {})
        /\ UNCHANGED <<events, seen, clock, others>>

(* The device receives the row: GET progress, or a post's answer.           *)
Fetch(d) ==
    /\ row.ver # 0 /\ (seen[d] # row.ver \/ (row.offer # NoOffer /\ d \notin shown))
    /\ seen' = [seen EXCEPT ![d] = row.ver]
    /\ Received(row, {d})
    /\ UNCHANGED <<row, log, events, clock, others, counted, twice, latest>>

-----------------------------------------------------------------------------
(* The other writers.                                                       *)

Bug_FinishChangeStamp(t) == t

(* finishChangeStamp: the write's own time, never ahead of the clock.       *)
FinishChangeStamp(t) == IF t > clock THEN clock ELSE t

(* finishChangedSet: a write that flips the finish state dates the change.  *)
Flipped(new, t) ==
    /\ row' = [new EXCEPT !.changed = IF new.fin # row.fin THEN FinishChangeStamp(t) ELSE @]
    /\ latest' = IF new.fin # row.fin
                 THEN [at |-> FinishChangeStamp(t), fin |-> new.fin] ELSE latest
    /\ Received(new, {})
    /\ others < MaxOthers /\ others' = others + 1
    /\ UNCHANGED <<log, events, seen, clock, counted, twice>>

(* plausibleUpdatedAt: a time too far ahead of the clock is not believed.   *)
PlausibleUpdatedAt(t) == t <= clock + Ahead

(* SaveProgressFrom, the legacy PUT: last-write-wins, the finish state      *)
(* included; the offer stays, a chain ends. Its client names any version,   *)
(* which the row then has, lower than its own or not, or none (0), and any  *)
(* time; one that is not plausible becomes now.                             *)
SaveProgressFrom(pos, fin, updatedAt, ver) ==
    LET t == IF PlausibleUpdatedAt(updatedAt) THEN updatedAt ELSE clock
    IN  /\ NewerStamp(t, ver, row.at, row.ver)
        /\ Flipped([row EXCEPT !.pos = pos, !.fin = fin, !.dev = "old", !.at = t, !.span = 0,
                               !.ver = IF ver = 0 THEN @ + 1 ELSE ver], t)

(* EditProgress: stamped now; it chooses the place (a finish that names no  *)
(* place, the end), and takes it from an Audible account.                   *)
EditProgress(pos, fin) ==
    Flipped([row EXCEPT !.pos = pos, !.fin = fin, !.ver = @ + 1, !.at = clock, !.span = 0,
                        !.dev = IF @ \in Accounts THEN "" ELSE @,
                        !.offer = NoOffer], clock)

Bug_PruneListeningEvents ==
    /\ log' = {l \in log : l.ended >= clock - RejectAge}
    /\ log' # log
    /\ UNCHANGED <<row, events, seen, clock, others, counted, twice, latest, shown>>

(* PruneListeningEvents, from the launcher, daily.                          *)
PruneListeningEvents ==
    /\ log' = {l \in log : l.ended >= clock - Retention}
    /\ log' # log
    /\ UNCHANGED <<row, events, seen, clock, others, counted, twice, latest, shown>>

Tick ==
    /\ clock < MaxClock /\ clock' = clock + 1
    /\ UNCHANGED <<row, log, events, seen, others, counted, twice, latest, shown>>

Next ==
    \/ \E d \in Players, start \in Starts, from \in 0 .. End - 1 :
        \E base \in {0, seen[d]} \union (IF OmitBase THEN {NoBase} ELSE {}) :
          RecordListen(d, start, from, base)
    \/ \E d \in Accounts, from \in 0 .. End - 1 :
        RecordListen(d, "resume", from, NoBase)
    \/ \E d \in Devices, kind \in {"finish", "unfinish"} : RecordFinish(d, kind)
    \/ \E d \in Devices, skew \in 0 .. MaxSkew :
          \E lo \in 1 .. Len(events[d]) : \E hi \in lo .. Len(events[d]) :
            hi < lo + MaxBatch /\ Post(d, lo, hi, skew)
    \/ \E d \in Players : Fetch(d)
    \/ \E pos \in Positions, fin \in BOOLEAN, ver \in 0 .. MaxVersion :
          \E t \in 1 .. clock + Ahead + 1 : SaveProgressFrom(pos, fin, t, ver)
    \/ \E pos \in Positions, fin \in BOOLEAN : EditProgress(pos, fin)
    \/ PruneListeningEvents
    \/ Tick

Spec == Init /\ [][Next]_vars

-----------------------------------------------------------------------------
(* The row's parts have their types, and its times are in order whatever    *)
(* the devices' clocks say: a finish or unfinish is never dated ahead of    *)
(* the server's clock (one recorded just after it would be "older"), nor it *)
(* or the device's chain after the row's own time, which is ahead of the    *)
(* clock by no more than a save may be dated ahead.                         *)
RowInOrder ==
    /\ row.pos \in Positions /\ row.ver \in Nat
    /\ row.changed <= row.at /\ row.span <= row.at
    /\ row.changed <= clock /\ row.at <= clock + Ahead

(* However often and late an event is posted, its listening is added to the *)
(* sessions and the history once (the dedupe, syncRejectAge, SyncRetention).*)
CountedOnce == ~twice

(* Finishes and unfinishes that arrive in any order leave the book as the   *)
(* newest of them says, an old one never undoes a newer. An unfinish of a   *)
(* book without a row leaves nothing to be newer than, and doesn't count.   *)
FinishConverges == row.ver # 0 => row.fin = latest.fin

Posted(d) == log' # log /\ \A l \in log' \ log : l.dev = d

(* "A diverged save never moves the place back silently" (ResolvePlace): a  *)
(* batch of listens from a player that saw no version of the row, or        *)
(* another than the stored one, leaves the place at least where another     *)
(* device had put it, or keeps that place as the row's offer.               *)
DivergedNotSilent ==
    [][\A d \in Players :
         LET fresh == {l.n : l \in log' \ log}
         IN  /\ Posted(d) /\ row.ver # 0 /\ row.dev # d
             /\ \A n \in fresh : /\ events[d][n].kind = "listen"
                                  /\ events[d][n].base \notin {row.ver, NoBase}
             => row'.pos >= row.pos \/ row'.offer.pos = row.pos]_vars

(* "an offered place is cleared by a device that had seen it": listens drop *)
(* an offer only when they come from a device that has received it. (While  *)
(* versions only rise: a legacy save may lower the row's, and an offer made *)
(* then looks seen to a device that knows the earlier, higher version.)     *)
OfferSeen ==
    [][\A d \in Devices :
         /\ Posted(d) /\ row.offer # NoOffer /\ row'.offer = NoOffer
         /\ \A l \in log' \ log : events[d][l.n].kind = "listen"
         => d \in shown]_vars
=============================================================================
