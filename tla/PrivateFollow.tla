---------------------------- MODULE PrivateFollow ----------------------------
(* A listener's requests to follow private podcast feeds (one user, one     *)
(* library): internal/bridge/podcasts.go over the job queue of jobs.go. The *)
(* job is in the database; the feed's URL, a credential, is only in the     *)
(* server's memory, from the request until it ends, and goes to the Bridge  *)
(* with the claim. The ended job is folded into the catalog.                *)
(*                                                                          *)
(* secretFlowMu is held through a Subscribe, a claim and PruneSecrets; a    *)
(* cancel, a report, a lease's expiry and a library's deletion do not take  *)
(* it. A method reports what its transaction ended after the commit, so     *)
(* other steps come between. The process may die anywhere.                  *)
EXTENDS Naturals, FiniteSets

CONSTANTS
    Feeds,        \* the private feeds, by the hash of their URL
    MaxOpen,      \* maxOpenRequests
    MaxAttempts,  \* how many times a job may be claimed
    MaxJobs,      \* bound: jobs ever queued
    MaxBoots      \* bound: starts of the server

ASSUME FollowAssumption ==
    /\ MaxOpen \in Nat \ {0} /\ MaxAttempts \in Nat \ {0}
    /\ MaxJobs \in Nat /\ MaxBoots \in Nat \ {0}

VARIABLES
    jobs,      \* the podcast.subscribe rows, by id
    nextID,    \* the next id (never reused)
    urls,      \* privateURLs: the ids whose URL is in memory
    flow,      \* who holds secretFlowMu, and how far it is
    ending,    \* ids whose end has committed and is not reported yet
    folding,   \* ids about to be folded, by the report or by the sweep
    folded,    \* podcast_folded
    pruning,   \* a library was deleted, its PruneSecrets is to come
    claims,    \* what claims handed out: [id, attempt, url]
    up,        \* the server runs
    boots,     \* its starts so far
    on,        \* the podcasts module is on (a stored setting)
    old        \* ids that ended longer ago than EndedPodcasts looks back

vars == <<jobs, nextID, urls, flow, ending, folding, folded, pruning, claims, up, boots,
          on, old>>

Ids == 1 .. MaxJobs
OpenStates == {"queued", "claimed", "parked"}
EndedStates == {"done", "failed", "cancelled", "expired"}

(* "claimed" is also the running state, and "expired" is failed with the    *)
(* code request_expired.                                                    *)
(* lapsed: the lease ran out; acked: the Bridge reported on the claim, which*)
(* renewed its lease;                                                       *)
(* asked: history, the start of the server in which the request last came.  *)
Absent == [feed |-> "none", state |-> "absent", attempts |-> 0, cancel |-> FALSE,
           lapsed |-> FALSE, acked |-> FALSE, asked |-> 0]
NoFlow == [op |-> "none", id |-> 0, attempt |-> 0]

Open(j) == j.state \in OpenStates
Ended(j) == j.state \in EndedStates

Init ==
    /\ jobs = [i \in Ids |-> Absent] /\ nextID = 1
    /\ urls = {} /\ flow = NoFlow /\ ending = {} /\ folding = {} /\ folded = {}
    /\ pruning = FALSE /\ claims = {} /\ up = TRUE /\ boots = 1
    /\ on = TRUE /\ old = {}

-----------------------------------------------------------------------------
(* Transactions.                                                            *)

(* expireSQL on one row.                                                    *)
ExpireRow(j) ==
    IF ~(j.state = "claimed" /\ j.lapsed) THEN j
    ELSE [j EXCEPT !.lapsed = FALSE, !.acked = FALSE,
                   !.state = IF j.cancel THEN "cancelled"
                             ELSE IF j.attempts >= MaxAttempts THEN "failed"
                             ELSE "queued"]

Expired == [i \in Ids |-> ExpireRow(jobs[i])]

(* A commit: what it ended is to be reported (settle, report).              *)
Commit(new) ==
    /\ jobs' = new
    /\ ending' = ending \union {i \in Ids : Open(jobs[i]) /\ Ended(new[i])}

(* lostPrivateRequests: queued, and the server does not hold the URL.       *)
Lost(js) == {i \in Ids : js[i].state = "queued" /\ i \notin urls}

Bug_ExpirePrivate(js) == js

(* expirePrivateTx.                                                         *)
ExpirePrivate(js) ==
    [i \in Ids |-> IF i \in Lost(js) THEN [js[i] EXCEPT !.state = "expired"] ELSE js[i]]

-----------------------------------------------------------------------------
(* Subscribe, under secretFlowMu. The module's routes are closed while it is*)
(* off, but a request that had passed them goes on.                         *)

(* Enqueue's transaction: the open request for the feed is adopted, else a  *)
(* new one is queued.                                                       *)
SubscribeCommit(f) ==
    LET open == {i \in Ids : Open(Expired[i]) /\ Expired[i].feed = f}
    IN  /\ up /\ flow = NoFlow
        /\ \/ /\ open = {}
              /\ Cardinality({i \in Ids : Open(Expired[i])}) < MaxOpen
              /\ nextID <= MaxJobs
              /\ Commit([Expired EXCEPT ![nextID] =
                    [Absent EXCEPT !.feed = f, !.state = "queued", !.asked = boots]])
              /\ flow' = [NoFlow EXCEPT !.op = "store", !.id = nextID]
              /\ nextID' = nextID + 1
           \/ \E i \in open :
                 /\ Commit([Expired EXCEPT ![i].asked = boots])
                 /\ flow' = [NoFlow EXCEPT !.op = "store", !.id = i]
                 /\ UNCHANGED nextID
        /\ UNCHANGED <<urls, folding, folded, pruning, claims, up, boots, on, old>>

Bug_SubscribeStore ==
    /\ flow.op = "store"
    /\ urls' = urls \union {flow.id}
    /\ flow' = NoFlow
    /\ UNCHANGED <<jobs, nextID, ending, folding, folded, pruning, claims, up, boots, on, old>>

(* The URL is held...                                                       *)
SubscribeStore ==
    /\ flow.op = "store"
    /\ urls' = urls \union {flow.id}
    /\ flow' = [flow EXCEPT !.op = "look"]
    /\ UNCHANGED <<jobs, nextID, ending, folding, folded, pruning, claims, up, boots, on, old>>

(* ... and let go again if the job ended meanwhile (dropIfEnded).           *)
DropIfEnded ==
    /\ flow.op = "look"
    /\ urls' = IF Open(jobs[flow.id]) THEN urls ELSE urls \ {flow.id}
    /\ flow' = NoFlow
    /\ UNCHANGED <<jobs, nextID, ending, folding, folded, pruning, claims, up, boots, on, old>>

-----------------------------------------------------------------------------
(* Claims, under secretFlowMu, and the Bridge.                              *)

Bug_MayClaim == flow.op # "claim"

(* claimPriority waits for the lock.                                        *)
MayClaim == flow = NoFlow

(* claimStored's transaction: leases and lost requests expire, then the     *)
(* oldest queued request, if there is one, is claimed (while the module is  *)
(* on: nextQueued passes over a held job).                                  *)
Claim ==
    LET js == ExpirePrivate(Expired)
        queued == {i \in Ids : js[i].state = "queued" /\ on}
    IN  /\ up /\ MayClaim
        /\ \/ /\ queued = {} /\ js # jobs
              /\ Commit(js)
              /\ UNCHANGED flow
           \/ \E i \in queued :
                 /\ \A h \in queued : i <= h
                 /\ Commit([js EXCEPT ![i].state = "claimed", ![i].attempts = @ + 1,
                                      ![i].acked = FALSE, ![i].lapsed = FALSE])
                 /\ flow' = [op |-> "claim", id |-> i, attempt |-> js[i].attempts + 1]
        /\ UNCHANGED <<nextID, urls, folding, folded, pruning, claims, up, boots, on, old>>

(* The URL is read and the claim goes out (delivered or lost on its way).   *)
ClaimRead ==
    /\ flow.op = "claim"
    /\ claims' = claims \union {[id |-> flow.id, attempt |-> flow.attempt,
                                 url |-> flow.id \in urls]}
    /\ flow' = NoFlow
    /\ UNCHANGED <<jobs, nextID, urls, ending, folding, folded, pruning, up, boots, on, old>>

(* UpdateHeld: the Bridge reports on a job it holds, by the attempt (a      *)
(* failure that it reports ends the job as "done" does).                    *)
UpdateHeld(c, state) ==
    /\ up
    /\ Expired[c.id].state \in {"claimed", "parked"} /\ Expired[c.id].attempts = c.attempt
    /\ Commit([Expired EXCEPT ![c.id].state = state, ![c.id].acked = (state = "claimed"),
                              ![c.id].lapsed = FALSE])
    /\ UNCHANGED <<nextID, urls, flow, folding, folded, pruning, claims, up, boots, on, old>>

(* ReleaseUnsentClaim: the claim's reply was never sent.                    *)
ReleaseUnsentClaim(c) ==
    LET j == jobs[c.id]
    IN  /\ up
        /\ j.state = "claimed" /\ j.attempts = c.attempt /\ ~j.acked
        /\ Commit([jobs EXCEPT ![c.id] =
              [j EXCEPT !.state = IF j.cancel THEN "cancelled" ELSE "queued",
                        !.attempts = @ - 1, !.lapsed = FALSE]])
        /\ claims' = claims \ {c}
        /\ UNCHANGED <<nextID, urls, flow, folding, folded, pruning, up, boots, on, old>>

(* Two minutes without a report: longer than a claim takes to be answered.  *)
Lapse(i) ==
    /\ jobs[i].state = "claimed" /\ ~jobs[i].lapsed
    /\ ~(flow.op = "claim" /\ flow.id = i)
    /\ jobs' = [jobs EXCEPT ![i].lapsed = TRUE]
    /\ UNCHANGED <<nextID, urls, flow, ending, folding, folded, pruning, claims, up, boots, on, old>>

(* The read paths' expireDue.                                               *)
ExpireDue ==
    /\ up /\ Expired # jobs
    /\ Commit(Expired)
    /\ UNCHANGED <<nextID, urls, flow, folding, folded, pruning, claims, up, boots, on, old>>

(* Cancel by an admin: at once when no Bridge works on it, else asked for.  *)
Cancel(i) ==
    /\ up /\ Open(Expired[i])
    /\ Commit([Expired EXCEPT ![i].cancel = TRUE,
                              ![i].state = IF @ = "claimed" THEN @ ELSE "cancelled"])
    /\ UNCHANGED <<nextID, urls, flow, folding, folded, pruning, claims, up, boots, on, old>>

-----------------------------------------------------------------------------
(* Ends.                                                                    *)

(* reportEnded: the URL is let go, the job is to be folded (OnEnded).       *)
ReportEnded(i) ==
    /\ i \in ending
    /\ ending' = ending \ {i}
    /\ urls' = urls \ {i}
    /\ folding' = folding \union {i}
    /\ UNCHANGED <<jobs, nextID, flow, folded, pruning, claims, up, boots, on, old>>

Bug_EndedPodcasts(js) ==
    {i \in Ids \ (folded \union old) : js[i].state \in {"done", "failed"}}

(* EndedPodcasts: the ended jobs that are not folded, as far back as it     *)
(* looks (24 hours, for this kind).                                         *)
EndedPodcasts(js) == {i \in Ids \ (folded \union old) : Ended(js[i])}

(* SchedulerTick, while the module is on: leases expire, then the ended     *)
(* jobs are read and folded one by one.                                     *)
SchedulerTick ==
    /\ up /\ on /\ ~(EndedPodcasts(Expired) \subseteq folding)
    /\ Commit(Expired)
    /\ folding' = folding \union EndedPodcasts(Expired)
    /\ UNCHANGED <<nextID, urls, flow, folded, pruning, claims, up, boots, on, old>>

(* An admin turns the module off or on.                                     *)
SetModule ==
    /\ up /\ on' = ~on
    /\ UNCHANGED <<jobs, nextID, urls, flow, ending, folding, folded, pruning, claims, up, boots, old>>

(* A day passes over an end that is not folded (for one that is, it does    *)
(* not matter).                                                             *)
Age(i) ==
    /\ Ended(jobs[i]) /\ i \notin folded \union old
    /\ old' = old \union {i}
    /\ UNCHANGED <<jobs, nextID, urls, flow, ending, folding, folded, pruning, claims, up, boots, on>>

(* FoldPodcastJob: the outcome, once, with its marker... (An old end that   *)
(* is folded all the same, by its report, is folded.)                       *)
FoldPodcastJob(i) ==
    /\ i \in folding
    /\ folding' = folding \ {i}
    /\ folded' = folded \union {i}
    /\ old' = old \ {i}
    /\ UNCHANGED <<jobs, nextID, urls, flow, ending, pruning, claims, up, boots, on>>

(* ... or the transaction fails, or the sweep is cut short by the switch,   *)
(* and the job is left to the next tick.                                    *)
FoldFails(i) ==
    /\ i \in folding
    /\ folding' = folding \ {i}
    /\ UNCHANGED <<jobs, nextID, urls, flow, ending, folded, pruning, claims, up, boots, on, old>>

(* The library goes, its jobs with it...                                    *)
DeleteLibrary ==
    /\ up /\ \E i \in Ids : jobs[i] # Absent
    /\ jobs' = [i \in Ids |-> Absent]
    /\ pruning' = TRUE /\ old' = {}
    /\ UNCHANGED <<nextID, urls, flow, ending, folding, folded, claims, up, boots, on>>

(* ... and then, under secretFlowMu, the URLs of jobs that are not open.    *)
PruneSecrets ==
    /\ pruning /\ flow = NoFlow
    /\ pruning' = FALSE
    /\ urls' = {i \in urls : Open(jobs[i])}
    /\ UNCHANGED <<jobs, nextID, flow, ending, folding, folded, claims, up, boots, on, old>>

-----------------------------------------------------------------------------
(* The process.                                                             *)

Die ==
    /\ up /\ boots < MaxBoots
    /\ up' = FALSE
    /\ urls' = {} /\ flow' = NoFlow /\ ending' = {} /\ folding' = {} /\ pruning' = FALSE
    /\ UNCHANGED <<jobs, nextID, folded, claims, boots, on, old>>

(* SetBridge: ExpirePrivateRequests before the first request and before     *)
(* OnEnded is set; a failure is only logged.                                *)
Start ==
    /\ ~up
    /\ up' = TRUE /\ boots' = boots + 1
    /\ jobs' \in {jobs, ExpirePrivate(jobs)}
    /\ UNCHANGED <<nextID, urls, flow, ending, folding, folded, pruning, claims, on, old>>

Next ==
    \/ \E f \in Feeds : SubscribeCommit(f)
    \/ SubscribeStore \/ DropIfEnded
    \/ Claim \/ ClaimRead
    \/ \E c \in claims, state \in {"claimed", "parked", "done", "cancelled"} :
          UpdateHeld(c, state)
    \/ \E c \in claims : ReleaseUnsentClaim(c)
    \/ \E i \in Ids : Lapse(i) \/ Cancel(i) \/ ReportEnded(i) \/ Age(i)
    \/ ExpireDue
    \/ SchedulerTick \/ SetModule
    \/ \E i \in Ids : FoldPodcastJob(i) \/ FoldFails(i)
    \/ DeleteLibrary \/ PruneSecrets
    \/ Die \/ Start

Spec == Init /\ [][Next]_vars

(* The service manager starts the server again, the scheduler of a module   *)
(* that is on ticks every minute, and a fold that is tried again and again  *)
(* succeeds. Nothing is assumed of the switch or of how long a day is.      *)
FairSpec ==
    /\ Spec
    /\ WF_vars(Start) /\ WF_vars(SchedulerTick)
    /\ \A i \in Ids : SF_vars(FoldPodcastJob(i))

-----------------------------------------------------------------------------
(* The Bridge is never handed a private request without its URL, whatever   *)
(* restarts and expired leases came before ("It never hands out a private   *)
(* subscription whose credential was lost", ExpirePrivateRequests).         *)
HandedWithUrl == \A c \in claims : c.url

(* "a credential never outlives its request in memory" (PruneSecrets): a    *)
(* URL held for a job that is no longer open is about to be dropped, by the *)
(* report of its end, by the Subscribe that stored it or by the deletion.   *)
SecretEndsWithRequest ==
    \A i \in urls : \/ Open(jobs[i]) \/ i \in ending \/ pruning
                    \/ flow.op = "look" /\ flow.id = i

(* A request made to this run of the server is never expired as one whose   *)
(* URL was lost: "a freshly queued job cannot expire between the commit and *)
(* the memory write", and the URL "remains available for lease retries".    *)
LostOnlyByRestart ==
    [][\A i \in Ids : jobs[i].state # "expired" /\ jobs'[i].state = "expired" =>
          jobs[i].asked < boots']_vars

(* "EndedPodcasts recovers a crash between the job commit and folding": an  *)
(* ended request is folded in the end, unless its library goes, the module  *)
(* is turned off ("Turning the module off stops both scheduling and this    *)
(* recovery sweep") or a day passes first: an end that is older when the    *)
(* sweep next reads is never folded.                                        *)
EndsFolded ==
    \A i \in Ids : Ended(jobs[i]) ~> (i \in folded \/ jobs[i] = Absent \/ i \in old \/ ~on)
=============================================================================
