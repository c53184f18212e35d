----------------------------- MODULE ClaimWait ------------------------------
(***************************************************************************)
(* The Bridge's long-polled claims and the signal that wakes them          *)
(* (internal/bridge/jobs.go waitClaimPriority, claimStored, claimDue;      *)
(* internal/bridge/signal.go).  BridgeJobs has what a claim does to the    *)
(* rows; here is when it happens: a claim takes the signal's channel,      *)
(* looks at the queue on the reader pool, writes only when it saw something *)
(* to write, and otherwise sleeps until the channel is closed or its time  *)
(* is up.  Transactions commit first and fire the signal afterwards, and   *)
(* any number of other goroutines' steps may fall between.                 *)
(***************************************************************************)
EXTENDS Integers

CONSTANTS
    Waiters,     \* the goroutines serving the Bridge's claim loops
    MaxJobs,     \* bound: the jobs 1..MaxJobs, by priority and then age
    CanClaim,    \* [Waiters -> SUBSET 1..MaxJobs]: kinds asked for, priority floor
    NeedModule,  \* the jobs that need a module an admin may turn off
    MaxReturns,  \* bound: how often a claimed job goes back to the queue
    MaxPairings  \* bound: how often a Bridge is paired

VARIABLES
    job,       \* each job: not there, queued, claimed, lapsed (claimed, lease over), ended
    returns,   \* how often each went back to the queue
    moduleOn,
    live,      \* the paired Bridge's token, 0 for none
    pairings,  \* tokens issued so far
    pc,        \* where each claim is
    token,     \* the token each claim was authenticated with, 0 once it answered
    holder,    \* the token each claimed job was handed out on, 0 for the others
    closed,    \* whether each claim holds a channel that has been closed
    owed,      \* committed transactions that have yet to fire the signal
    quiet      \* jobs that became claimable with no signal since: a module turned on

vars == <<job, returns, moduleOn, live, pairings, pc, token, holder, closed, owed, quiet>>

Jobs == 1..MaxJobs

ASSUME ClaimWaitAssumption ==
    /\ MaxJobs \in Nat /\ MaxReturns \in Nat /\ MaxPairings \in Nat
    /\ CanClaim \in [Waiters -> SUBSET Jobs]
    /\ NeedModule \subseteq Jobs

-----------------------------------------------------------------------------
(* The queue as a claim sees it.                                           *)

Held(j) == j \in NeedModule /\ ~moduleOn
Lapsed  == {j \in Jobs : job[j] = "lapsed"}

\* nextQueued's candidates among the jobs queued in table t.
Claimable(t, w) == {j \in CanClaim[w] : t[j] = "queued" /\ ~Held(j)}

\* The table after expireTx: lapsed jobs are queued again, or failed on their
\* last attempt.
Expired == [j \in Jobs |-> IF job[j] # "lapsed" THEN job[j]
                           ELSE IF returns[j] < MaxReturns THEN "queued" ELSE "ended"]

ExpiredReturns == [j \in Jobs |-> IF job[j] = "lapsed" /\ returns[j] < MaxReturns
                                  THEN returns[j] + 1 ELSE returns[j]]

\* The holders of the jobs in table t, when no job is handed out.
Holders(t) == [j \in Jobs |-> IF t[j] \in {"claimed", "lapsed"} THEN holder[j] ELSE 0]

-----------------------------------------------------------------------------
(* A claim (waitClaimPriority).                                            *)

\* The claim moves on to step p, or ("idle") answers and is over.
Goto(w, p) ==
    /\ pc' = [pc EXCEPT ![w] = p]
    /\ token' = IF p = "idle" THEN [token EXCEPT ![w] = 0] ELSE token
    /\ closed' = IF p = "idle" THEN [closed EXCEPT ![w] = FALSE] ELSE closed

\* The Bridge polls; requireBridge checks its token, ClaimFor its heartbeat.
Poll(w) ==
    /\ pc[w] = "idle" /\ live # 0
    /\ token' = [token EXCEPT ![w] = live]
    /\ pc' = [pc EXCEPT ![w] = "take"]
    /\ UNCHANGED <<job, holder, returns, moduleOn, live, pairings, closed, owed, quiet>>

\* woken := s.wake.wait()
TakeChannel(w) ==
    /\ pc[w] = "take"
    /\ closed' = [closed EXCEPT ![w] = FALSE]
    /\ pc' = [pc EXCEPT ![w] = "lapsed?"]
    /\ UNCHANGED <<job, holder, returns, moduleOn, live, pairings, token, owed, quiet>>

\* Mutant: an idle claim does not look for lapsed leases.
Bug_SkipLapsed(w) ==
    /\ pc[w] = "lapsed?"
    /\ Goto(w, IF token[w] # live THEN "idle" ELSE "queued?")
    /\ UNCHANGED <<job, holder, returns, moduleOn, live, pairings, owed, quiet>>

\* claimDue's first reads: is the token the paired Bridge's, did a lease run out?
LookForLapsed(w) ==
    /\ pc[w] = "lapsed?"
    /\ Goto(w, IF token[w] # live THEN "idle" ELSE IF Lapsed # {} THEN "claim" ELSE "queued?")
    /\ UNCHANGED <<job, holder, returns, moduleOn, live, pairings, owed, quiet>>

\* claimDue's last read: is there a job to hand out?
LookForQueued(w) ==
    /\ pc[w] = "queued?"
    /\ Goto(w, IF Claimable(job, w) # {} THEN "claim" ELSE "wait")
    /\ UNCHANGED <<job, holder, returns, moduleOn, live, pairings, owed, quiet>>

\* The claim's transaction checks the token again (bridgeTokenLive).
Revoked(w) == token[w] # live

\* Mutant: a claim that got a job for itself wakes nobody for the others.
Bug_SettleWhenIdle(w) == Lapsed # {} /\ Claimable(Expired, w) = {}

\* Whether the claim's transaction owes a signal (settle): it ended a lease.
ClaimSettles(w) == Lapsed # {}

\* The claim's transaction found the token revoked and rolled back.
ClaimRefused(w) ==
    /\ pc[w] = "claim" /\ Revoked(w)
    /\ Goto(w, "idle")
    /\ UNCHANGED <<job, holder, returns, moduleOn, live, pairings, owed, quiet>>

\* The job a claim's transaction hands out: the first it can, of the table
\* the lapsed leases leave.
HandedOut(w) == {j \in Claimable(Expired, w) : \A h \in Claimable(Expired, w) : j <= h}

\* Mutant: a claim that hands nothing out rolls the ended leases back.
Bug_RollBackIdle(w) ==
    /\ pc[w] = "claim" /\ ~Revoked(w)
    /\ Goto(w, IF Claimable(Expired, w) # {} THEN "idle" ELSE "wait")
    /\ IF Claimable(Expired, w) = {} THEN UNCHANGED <<job, holder, returns, owed>>
       ELSE /\ job' = [j \in Jobs |-> IF j \in HandedOut(w) THEN "claimed" ELSE Expired[j]]
            /\ holder' = [j \in Jobs |-> IF j \in HandedOut(w) THEN token[w] ELSE Holders(Expired)[j]]
            /\ returns' = ExpiredReturns
            /\ owed' = IF ClaimSettles(w) THEN owed + 1 ELSE owed
    /\ UNCHANGED <<moduleOn, live, pairings, quiet>>

\* The claim's transaction: lapsed leases end, the first claimable job is
\* handed out; with none the claim waits.  It owes a signal for what it requeued.
Claim(w) ==
    /\ pc[w] = "claim" /\ ~Revoked(w)
    /\ job' = [j \in Jobs |-> IF j \in HandedOut(w) THEN "claimed" ELSE Expired[j]]
    /\ holder' = [j \in Jobs |-> IF j \in HandedOut(w) THEN token[w] ELSE Holders(Expired)[j]]
    /\ Goto(w, IF Claimable(Expired, w) # {} THEN "idle" ELSE "wait")
    /\ returns' = ExpiredReturns
    /\ owed' = IF ClaimSettles(w) THEN owed + 1 ELSE owed
    /\ UNCHANGED <<moduleOn, live, pairings, quiet>>

\* case <-woken
Wake(w) ==
    /\ pc[w] = "wait" /\ closed[w]
    /\ Goto(w, "take")
    /\ UNCHANGED <<job, holder, returns, moduleOn, live, pairings, owed, quiet>>

\* Mutant: the claim waits for the signal alone.
Bug_NoTimer(w) ==
    /\ pc[w] = "wait" /\ closed[w]
    /\ Goto(w, "idle")
    /\ UNCHANGED <<job, holder, returns, moduleOn, live, pairings, owed, quiet>>

\* case <-timer.C, case <-ctx.Done(): the claim answers with no job.
GiveUp(w) ==
    /\ pc[w] = "wait"
    /\ Goto(w, "idle")
    /\ UNCHANGED <<job, holder, returns, moduleOn, live, pairings, owed, quiet>>

-----------------------------------------------------------------------------
(* The queue's other writers.                                              *)

\* signal.fire, after the commit of a transaction that owes one: it closes the
\* channel every waiter holds.
Fire ==
    /\ owed > 0
    /\ owed' = owed - 1
    /\ closed' = [w \in Waiters |-> pc[w] \notin {"idle", "take"}]
    /\ quiet' = {}
    /\ UNCHANGED <<job, holder, returns, moduleOn, live, pairings, pc, token>>

\* Enqueue of a new job.
Enqueue(j) ==
    /\ job[j] = "none"
    /\ job' = [job EXCEPT ![j] = "queued"]
    /\ owed' = owed + 1
    /\ UNCHANGED <<holder, returns, moduleOn, live, pairings, pc, token, closed, quiet>>

\* expireDue of a read path, and every other transaction that begins with expireTx.
ExpireDue ==
    /\ Lapsed # {}
    /\ job' = Expired
    /\ holder' = Holders(Expired)
    /\ returns' = ExpiredReturns
    /\ owed' = owed + 1
    /\ UNCHANGED <<moduleOn, live, pairings, pc, token, closed, quiet>>

\* A claimed job's lease runs out; no goroutine notices by itself.
Lapse(j) ==
    /\ job[j] = "claimed"
    /\ job' = [job EXCEPT ![j] = "lapsed"]
    /\ UNCHANGED <<holder, returns, moduleOn, live, pairings, pc, token, closed, owed, quiet>>

\* A lease that nobody can renew any more.
LapseOfUnpaired(j) == holder[j] # live /\ Lapse(j)

\* The Bridge finishes the job.
Finish(j) ==
    /\ job[j] = "claimed"
    /\ job' = [job EXCEPT ![j] = "ended"]
    /\ holder' = [holder EXCEPT ![j] = 0]
    /\ UNCHANGED <<returns, moduleOn, live, pairings, pc, token, closed, owed, quiet>>

\* ReleaseUnsentClaim: the claim's reply was never sent.
ReleaseUnsentClaim(j) ==
    /\ job[j] = "claimed" /\ returns[j] < MaxReturns
    /\ job' = [job EXCEPT ![j] = "queued"]
    /\ holder' = [holder EXCEPT ![j] = 0]
    /\ returns' = [returns EXCEPT ![j] = @ + 1]
    /\ owed' = owed + 1
    /\ UNCHANGED <<moduleOn, live, pairings, pc, token, closed, quiet>>

\* An admin turns the module on or off: nothing signals the waiting claims.
SetModule ==
    /\ moduleOn' = ~moduleOn
    /\ quiet' = IF moduleOn THEN quiet ELSE quiet \cup {j \in NeedModule : job[j] = "queued"}
    /\ UNCHANGED <<job, holder, returns, live, pairings, pc, token, closed, owed>>

\* A Bridge is paired: its token replaces any other (ExchangeBridgeCode).
Pair ==
    /\ pairings < MaxPairings
    /\ pairings' = pairings + 1
    /\ live' = pairings + 1
    /\ UNCHANGED <<job, holder, returns, moduleOn, pc, token, closed, owed, quiet>>

\* An admin unpairs the Bridge: its token is revoked, a claim under way is not told.
Unpair ==
    /\ live # 0
    /\ live' = 0
    /\ UNCHANGED <<job, holder, returns, moduleOn, pairings, pc, token, closed, owed, quiet>>

-----------------------------------------------------------------------------

\* The Bridge with token 1 has just been unpaired (or no Bridge was ever
\* paired): what it held and its claims still asleep are left behind.
Init ==
    /\ job \in [Jobs -> {"none", "claimed"}]
    /\ returns = [j \in Jobs |-> 0]
    /\ moduleOn = TRUE
    /\ live = 0
    /\ pairings = 1
    /\ pc \in [Waiters -> {"idle", "wait"}]
    /\ token = [w \in Waiters |-> IF pc[w] = "wait" THEN 1 ELSE 0]
    /\ holder = [j \in Jobs |-> IF job[j] = "claimed" THEN 1 ELSE 0]
    /\ closed = [w \in Waiters |-> FALSE]
    /\ owed = 0
    /\ quiet = {}

\* A claim's own steps, between its poll and its answer.
Step(w) ==
    \/ TakeChannel(w) \/ LookForLapsed(w) \/ LookForQueued(w)
    \/ ClaimRefused(w) \/ Claim(w)
    \/ Wake(w) \/ GiveUp(w)

Next ==
    \/ \E w \in Waiters : Poll(w)
    \/ \E w \in Waiters : TakeChannel(w)
    \/ \E w \in Waiters : LookForLapsed(w)
    \/ \E w \in Waiters : LookForQueued(w)
    \/ \E w \in Waiters : ClaimRefused(w)
    \/ \E w \in Waiters : Claim(w)
    \/ \E w \in Waiters : Wake(w)
    \/ \E w \in Waiters : GiveUp(w)
    \/ Fire
    \/ \E j \in Jobs : Enqueue(j)
    \/ ExpireDue
    \/ \E j \in Jobs : Lapse(j)
    \/ \E j \in Jobs : Finish(j)
    \/ \E j \in Jobs : ReleaseUnsentClaim(j)
    \/ SetModule
    \/ Pair
    \/ Unpair

Spec == Init /\ [][Next]_vars

\* A goroutine that can run does; a claim's timer fires within MaxWait; a
\* committed transaction fires; a paired Bridge's claim loops poll again; and
\* the lease of a job in the hands of a Bridge no longer paired runs out, as
\* only the paired one's reports renew a lease.
Fairness ==
    /\ \A w \in Waiters : WF_vars(Poll(w)) /\ WF_vars(Step(w))
    /\ WF_vars(Fire)
    /\ \A j \in Jobs : WF_vars(LapseOfUnpaired(j))

FairSpec == Spec /\ Fairness

-----------------------------------------------------------------------------
(* Properties.                                                             *)

\* No wakeup is lost (signal: "a waiter always looks at the queue after taking
\* the channel and before waiting on it"; claimDue: "A write landing after
\* these reads is no loss"): once every committed transaction has fired, a
\* claim asleep on an open channel has nothing to claim but jobs a module
\* switch made claimable behind its back.
NoLostWakeup ==
    \A w \in Waiters :
        pc[w] = "wait" /\ ~closed[w] /\ owed = 0 => Claimable(job, w) \subseteq quiet

\* A queued job that some claim loop can run is eventually handed out, or its
\* module is turned off, or the Bridge unpaired: the claims' time limit covers
\* the module switch that signals nobody.
Served ==
    \A j \in Jobs : (\E w \in Waiters : j \in CanClaim[w]) =>
        (job[j] = "queued" /\ ~Held(j) /\ live # 0 ~> job[j] # "queued" \/ Held(j) \/ live = 0)

\* A lease that ran out is noticed although nothing watches for it: the next
\* claim of any kind ends it ("a lease that lapses later is due at the next
\* claim").
LapseNoticed ==
    \A j \in Jobs : job[j] = "lapsed" /\ live # 0 ~> job[j] # "lapsed" \/ live = 0

\* What an unpaired or replaced Bridge left behind comes to the next one: a job
\* it still holds is not cancelled or handed over by the pairing, and its
\* claims still asleep are not told (bridgeTokenLive: they learn it at their
\* next look).  Yet the job ends or is handed out on the paired token, unless
\* its module is off or no Bridge is paired.
Recovered ==
    \A j \in Jobs : (\E w \in Waiters : j \in CanClaim[w]) =>
        (job[j] \in {"claimed", "lapsed"} /\ holder[j] # live /\ live # 0
         ~> \/ job[j] = "ended"
            \/ job[j] = "claimed" /\ holder[j] = live
            \/ Held(j) \/ live = 0)

=============================================================================
