--------------------------- MODULE ClaimWaitProofs ---------------------------
(***************************************************************************)
(* Proofs about ClaimWait, for any number of claim loops, jobs, kinds they  *)
(* ask for, returns and pairings.  NoLostWakeup needs no more than the      *)
(* shapes of the variables: a claim goes to sleep only on a queue it has    *)
(* just found empty, and every step that could fill the queue afterwards    *)
(* owes the signal, or is the module switch that owes none.                 *)
(***************************************************************************)
EXTENDS ClaimWait, TLAPS

JobStates == {"none", "queued", "claimed", "lapsed", "ended"}
Places == {"idle", "take", "lapsed?", "queued?", "claim", "wait"}

Shapes ==
    /\ job \in [Jobs -> JobStates] /\ returns \in [Jobs -> Nat]
    /\ moduleOn \in BOOLEAN
    /\ live \in Nat /\ pairings \in Nat /\ owed \in Nat
    /\ pc \in [Waiters -> Places] /\ token \in [Waiters -> Nat]
    /\ closed \in [Waiters -> BOOLEAN]
    /\ quiet \subseteq Jobs

IInv == Shapes /\ NoLostWakeup

LEMMA InitInv == Init => IInv
<1> SUFFICES ASSUME Init PROVE IInv
  OBVIOUS
<1>1. Shapes
  BY DEF Init, Shapes, JobStates, Places
<1>2. NoLostWakeup
  <2>1. \A w \in Waiters : Claimable(job, w) = {}
    BY ClaimWaitAssumption DEF Init, Claimable
  <2> QED
    BY <2>1 DEF NoLostWakeup
<1> QED
  BY <1>1, <1>2 DEF IInv

-----------------------------------------------------------------------------
(* Jobs.                                                                   *)

\* expireTx only ends leases.
LEMMA ExpiredTable ==
  ASSUME Shapes
  PROVE  /\ Expired \in [Jobs -> JobStates] /\ ExpiredReturns \in [Jobs -> Nat]
         /\ Lapsed = {} => Expired = job
<1>1. Expired \in [Jobs -> JobStates]
  BY DEF Shapes, Expired, JobStates
<1>2. ExpiredReturns \in [Jobs -> Nat]
  BY DEF Shapes, ExpiredReturns
<1>3. Lapsed = {} => Expired = job
  BY DEF Shapes, Expired, Lapsed
<1> QED
  BY <1>1, <1>2, <1>3

\* A step that queues nothing, wakes nobody and puts nobody to sleep leaves every
\* sleeper with nothing to claim.
LEMMA SleepersKept ==
  ASSUME IInv,
         \A j \in Jobs : job'[j] = "queued" => job[j] = "queued",
         \A w \in Waiters : pc'[w] = "wait" => pc[w] = "wait",
         \A w \in Waiters : pc'[w] = "wait" /\ ~closed'[w] => ~closed[w],
         UNCHANGED <<moduleOn, owed, quiet>>
  PROVE  NoLostWakeup'
<1> SUFFICES ASSUME NEW w \in Waiters, pc'[w] = "wait", ~closed'[w], owed' = 0,
                    NEW j \in CanClaim[w], job'[j] = "queued", ~Held(j)'
             PROVE  j \in quiet'
  BY DEF NoLostWakeup, Claimable
<1>1. j \in Jobs
  BY ClaimWaitAssumption
<1>2. j \in Claimable(job, w)
  BY <1>1 DEF Claimable, Held
<1> QED
  BY <1>2 DEF IInv, NoLostWakeup

\* A step that owes a signal promises no sleeper anything yet.
LEMMA SignalOwed ==
  ASSUME Shapes, owed' = owed + 1
  PROVE  NoLostWakeup'
BY DEF Shapes, NoLostWakeup

-----------------------------------------------------------------------------
(* A claim.                                                                *)

\* The steps of a claim that neither write nor end in sleep.
LEMMA StepReads ==
  ASSUME IInv, NEW w \in Waiters,
         \/ Poll(w) \/ TakeChannel(w) \/ LookForLapsed(w)
         \/ ClaimRefused(w) \/ Wake(w) \/ GiveUp(w)
  PROVE  IInv'
<1> USE DEF Poll, TakeChannel, LookForLapsed, ClaimRefused, Wake, GiveUp, Goto
<1>1. Shapes'
  <2>1. pc' \in [Waiters -> Places]
    BY DEF IInv, Shapes, Places
  <2>2. token' \in [Waiters -> Nat]
    BY DEF IInv, Shapes
  <2>3. closed' \in [Waiters -> BOOLEAN]
    BY DEF IInv, Shapes
  <2>4. UNCHANGED <<job, returns, moduleOn, live, pairings, owed, quiet>>
    OBVIOUS
  <2> QED
    BY <2>1, <2>2, <2>3, <2>4 DEF IInv, Shapes
<1>2. \A v \in Waiters : pc'[v] = "wait" => pc[v] = "wait"
  BY DEF IInv, Shapes
<1>3. \A v \in Waiters : pc'[v] = "wait" /\ ~closed'[v] => ~closed[v]
  BY DEF IInv, Shapes
<1>4. NoLostWakeup'
  BY <1>2, <1>3, SleepersKept
<1> QED
  BY <1>1, <1>4 DEF IInv

\* A claim that finds nothing goes to sleep.
LEMMA StepLookForQueued ==
  ASSUME IInv, NEW w \in Waiters, LookForQueued(w)
  PROVE  IInv'
<1> USE DEF LookForQueued, Goto
<1>1. Shapes'
  BY DEF IInv, Shapes, Places
<1>2. NoLostWakeup'
  <2> SUFFICES ASSUME NEW v \in Waiters, pc'[v] = "wait", ~closed[v], owed = 0
               PROVE  Claimable(job, v) \subseteq quiet
    BY DEF NoLostWakeup, Claimable, Held
  <2>1. CASE v = w
    BY <2>1 DEF IInv, Shapes
  <2>2. CASE v # w
    BY <2>2 DEF IInv, Shapes, NoLostWakeup
  <2> QED
    BY <2>1, <2>2
<1> QED
  BY <1>1, <1>2 DEF IInv

\* A claim that ended leases owes the signal; one that ended none queues nothing.
LEMMA StepClaim ==
  ASSUME IInv, NEW w \in Waiters, Claim(w)
  PROVE  IInv'
<1>1. /\ job' = [j \in Jobs |-> IF j \in HandedOut(w) THEN "claimed" ELSE Expired[j]]
      /\ Goto(w, IF Claimable(Expired, w) # {} THEN "idle" ELSE "wait")
      /\ returns' = ExpiredReturns
      /\ owed' = IF Lapsed # {} THEN owed + 1 ELSE owed
      /\ UNCHANGED <<moduleOn, live, pairings, quiet>>
  BY DEF Claim, ClaimSettles
<1>2. /\ Expired \in [Jobs -> JobStates] /\ ExpiredReturns \in [Jobs -> Nat]
      /\ Lapsed = {} => Expired = job
  BY ExpiredTable DEF IInv
<1>3. Shapes'
  <2>1. job' \in [Jobs -> JobStates]
    <3>1. "claimed" \in JobStates
      BY DEF JobStates
    <3> QED
      BY <1>1, <1>2, <3>1
  <2>2. pc' \in [Waiters -> Places] /\ token' \in [Waiters -> Nat] /\ closed' \in [Waiters -> BOOLEAN]
    BY <1>1 DEF IInv, Shapes, Places, Goto
  <2> QED
    BY <1>1, <1>2, <2>1, <2>2 DEF IInv, Shapes
<1>4. CASE Lapsed # {}
  BY <1>1, <1>3, <1>4, SignalOwed DEF IInv
<1>5. CASE Lapsed = {}
  <2>1. \A j \in Jobs : job'[j] = "queued" => job[j] = "queued"
    BY <1>1, <1>2, <1>5
  <2>0. \A v \in Waiters : pc'[v] = "wait" => closed'[v] = closed[v]
    BY <1>1 DEF IInv, Shapes, Goto
  <2> SUFFICES ASSUME NEW v \in Waiters, pc'[v] = "wait", ~closed[v], owed = 0,
                      NEW j \in CanClaim[v], job'[j] = "queued", ~Held(j)
               PROVE  j \in quiet
    BY <1>1, <1>3, <1>5, <2>0 DEF IInv, NoLostWakeup, Claimable, Held
  <2>2. j \in Jobs
    BY ClaimWaitAssumption
  <2>3. j \in Claimable(job, v)
    BY <2>1, <2>2 DEF Claimable
  <2>4. CASE v = w
    BY <1>1, <1>2, <1>5, <2>3, <2>4 DEF IInv, Shapes, Goto
  <2>5. CASE v # w
    BY <1>1, <2>3, <2>5 DEF IInv, Shapes, NoLostWakeup, Goto
  <2> QED
    BY <2>4, <2>5
<1> QED
  BY <1>4, <1>5

-----------------------------------------------------------------------------
(* The queue's other writers.                                              *)

\* The signal closes every channel.
LEMMA StepFire ==
  ASSUME IInv, Fire
  PROVE  IInv'
<1>1. Shapes'
  BY DEF IInv, Shapes, Fire
<1>2. NoLostWakeup'
  BY DEF Fire, NoLostWakeup
<1> QED
  BY <1>1, <1>2 DEF IInv

\* Whatever queues a job owes a signal.
LEMMA StepQueues ==
  ASSUME IInv, ExpireDue \/ \E j \in Jobs : Enqueue(j) \/ ReleaseUnsentClaim(j)
  PROVE  IInv'
<1> USE DEF ExpireDue, Enqueue, ReleaseUnsentClaim
<1>1. owed' = owed + 1
  OBVIOUS
<1>2. job' \in [Jobs -> JobStates] /\ returns' \in [Jobs -> Nat]
  BY ExpiredTable DEF IInv, Shapes, JobStates
<1>3. Shapes'
  BY <1>1, <1>2 DEF IInv, Shapes
<1> QED
  BY <1>1, <1>3, SignalOwed DEF IInv

LEMMA StepLeaves ==
  ASSUME IInv, NEW j \in Jobs, Lapse(j) \/ Finish(j)
  PROVE  IInv'
<1> USE DEF Lapse, Finish
<1>1. Shapes'
  BY DEF IInv, Shapes, JobStates
<1>2. \A h \in Jobs : job'[h] = "queued" => job[h] = "queued"
  BY DEF IInv, Shapes
<1>3. NoLostWakeup'
  BY <1>2, SleepersKept
<1> QED
  BY <1>1, <1>3 DEF IInv

\* What the switch makes claimable is what NoLostWakeup leaves out.
LEMMA StepSetModule ==
  ASSUME IInv, SetModule
  PROVE  IInv'
<1>1. Shapes'
  BY ClaimWaitAssumption DEF IInv, Shapes, SetModule
<1>2. NoLostWakeup'
  <2> SUFFICES ASSUME NEW w \in Waiters, pc[w] = "wait", ~closed[w], owed = 0,
                      NEW j \in CanClaim[w], job[j] = "queued", ~Held(j)'
               PROVE  j \in quiet'
    BY DEF SetModule, NoLostWakeup, Claimable
  <2>1. CASE j \in Claimable(job, w)
    BY <2>1 DEF IInv, NoLostWakeup, SetModule
  <2>2. CASE j \notin Claimable(job, w)
    BY <2>2 DEF Claimable, Held, SetModule
  <2> QED
    BY <2>1, <2>2
<1> QED
  BY <1>1, <1>2 DEF IInv

LEMMA StepPairs ==
  ASSUME IInv, Pair \/ Unpair
  PROVE  IInv'
<1>1. Shapes'
  BY DEF IInv, Shapes, Pair, Unpair
<1>2. NoLostWakeup'
  BY SleepersKept DEF Pair, Unpair
<1> QED
  BY <1>1, <1>2 DEF IInv

LEMMA Stutters ==
  ASSUME IInv, UNCHANGED vars
  PROVE  IInv'
<1>1. Shapes'
  BY DEF IInv, Shapes, vars
<1>2. NoLostWakeup'
  BY SleepersKept DEF vars
<1> QED
  BY <1>1, <1>2 DEF IInv

-----------------------------------------------------------------------------
(* The theorems.                                                           *)

\* The invariant holds in every state of the claims, the signal and the queue
\* (waitClaimPriority, signal).
THEOREM Inductive == Spec => []IInv
<1>1. IInv /\ [Next]_vars => IInv'
  <2> SUFFICES ASSUME IInv, [Next]_vars PROVE IInv'
    OBVIOUS
  <2>1. CASE \E w \in Waiters : \/ Poll(w) \/ TakeChannel(w) \/ LookForLapsed(w)
                                \/ ClaimRefused(w) \/ Wake(w) \/ GiveUp(w)
    BY <2>1, StepReads
  <2>2. CASE \E w \in Waiters : LookForQueued(w) \/ Claim(w)
    BY <2>2, StepLookForQueued, StepClaim
  <2>3. CASE Fire
    BY <2>3, StepFire
  <2>4. CASE ExpireDue \/ \E j \in Jobs : Enqueue(j) \/ ReleaseUnsentClaim(j)
    BY <2>4, StepQueues
  <2>5. CASE \E j \in Jobs : Lapse(j) \/ Finish(j)
    BY <2>5, StepLeaves
  <2>6. CASE SetModule
    BY <2>6, StepSetModule
  <2>7. CASE Pair \/ Unpair
    BY <2>7, StepPairs
  <2>8. CASE UNCHANGED vars
    BY <2>8, Stutters
  <2> QED
    BY <2>1, <2>2, <2>3, <2>4, <2>5, <2>6, <2>7, <2>8 DEF Next
<1> QED
  BY <1>1, InitInv, PTL DEF Spec

\* No wakeup is lost between a claim's look at the queue and its sleep, for any
\* number of claim loops (signal.wait, claimDue).
THEOREM WakeupsKept == Spec => []NoLostWakeup
<1>1. IInv => NoLostWakeup
  BY DEF IInv
<1> QED
  BY <1>1, Inductive, PTL
=============================================================================
