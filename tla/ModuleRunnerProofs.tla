------------------------- MODULE ModuleRunnerProofs -------------------------
(***************************************************************************)
(* Proofs about ModuleRunner, for any modules and any number of runs.      *)
(* OneRunAtATime is not inductive: that a run which begins finds no other  *)
(* working needs that the run it waited for was the last to return (Chain),*)
(* and that Stop may wait for the last runs only rests on the same fact.   *)
(***************************************************************************)
EXTENDS ModuleRunner, TLAPS

\* A run that began or returned follows runs that have all returned (launch:
\* done closes only after every earlier run's).
Chain ==
    \A m \in Mods : \A i, j \in Runs :
        j < i /\ pc[m][i] \in {"working", "done"} => pc[m][j] = "done"

\* A Sync to come has room for a run of each module.
Room ==
    /\ ctx = "nil" => \A m \in Mods : last[m] = 0
    /\ syncing => \A m \in Mods : last[m] < MaxRuns

\* Stop waits for each module's last run, and no other follows it.
Awaiting ==
    /\ stopper # "idle" =>
          /\ ctx = "ended"
          /\ \A m \in Mods : last[m] # 0 =>
                <<m, last[m]>> \in awaited \/ pc[m][last[m]] = "done"
    /\ stopper = "returned" => awaited = {}

IInv == TypeOK /\ Chain /\ Room /\ Awaiting

\* The runner starts with no run and nobody stopping it.
LEMMA InitInv == Init => IInv
<1> SUFFICES ASSUME Init PROVE IInv
  OBVIOUS
<1>1. \A m \in Mods, i \in Runs : last[m] = 0 /\ pc[m][i] = "none" /\ i > 0
  BY MaxRunsAssumption DEF Init, Runs
<1>2. last \in [Mods -> 0..MaxRuns]
  BY MaxRunsAssumption DEF Init
<1>3. pc \in [Mods -> [Runs -> {"none", "waiting", "working", "done"}]]
  BY DEF Init
<1>4. stopped \in [Mods -> [Runs -> BOOLEAN]]
  BY DEF Init
<1>5. TypeOK
  BY <1>1, <1>2, <1>3, <1>4 DEF Init, TypeOK
<1>6. Chain
  BY <1>1 DEF Chain
<1>7. Room /\ Awaiting
  BY <1>1 DEF Init, Room, Awaiting
<1> QED
  BY <1>5, <1>6, <1>7 DEF IInv

\* A step of a run's goroutine: run i of module m moves on, in its turn.
LEMMA MovesOn ==
  ASSUME IInv, NEW m \in Mods, NEW i \in Runs, NEW p \in {"working", "done"},
         pc[m][i] \in {"waiting", "working"},
         pc[m][i] = "waiting" => Turn(m, i),
         pc[m][i] = "working" => p = "done",
         pc' = [pc EXCEPT ![m] = [@ EXCEPT ![i] = p]],
         UNCHANGED <<ctx, on, syncing, last, stopped, stopper, awaited>>
  PROVE  IInv'
<1>1. TypeOK /\ Chain /\ Room /\ Awaiting
  BY DEF IInv
<1>2. /\ pc'[m][i] = p
      /\ \A k \in Runs : k # i => pc'[m][k] = pc[m][k]
      /\ \A n \in Mods : n # m => pc'[n] = pc[n]
      /\ pc' \in [Mods -> [Runs -> {"none", "waiting", "working", "done"}]]
  BY <1>1 DEF TypeOK
<1>3. TypeOK'
  <2>1. \A n \in Mods, k \in Runs : pc'[n][k] = "none" <=> pc[n][k] = "none"
    BY <1>1, <1>2 DEF TypeOK
  <2> QED
    BY <1>1, <1>2, <2>1 DEF TypeOK
<1>4. \A k \in Runs : k < i => pc[m][k] = "done"
  <2>1. CASE pc[m][i] = "working"
    BY <1>1, <2>1 DEF Chain
  <2>2. CASE pc[m][i] = "waiting"
    <3>1. i > 1 => i - 1 \in Runs /\ pc[m][i - 1] = "done"
      BY <2>2, MaxRunsAssumption DEF Turn, Runs
    <3> QED
      BY <1>1, <3>1 DEF Chain, Runs
  <2> QED
    BY <2>1, <2>2
<1>5. Chain'
  <2> SUFFICES ASSUME NEW n \in Mods, NEW k \in Runs, NEW j \in Runs,
                      j < k, pc'[n][k] \in {"working", "done"}
               PROVE  pc'[n][j] = "done"
    BY DEF Chain
  <2>1. CASE n # m
    BY <1>1, <1>2, <2>1 DEF Chain
  <2>2. CASE n = m /\ k = i
    BY <1>2, <1>4, <2>2 DEF Runs
  <2>3. CASE n = m /\ k # i
    \* A later run cannot have begun, so j is not the run that moves.
    BY <1>1, <1>2, <2>3 DEF Chain
  <2> QED
    BY <2>1, <2>2, <2>3
<1>6. Room' /\ Awaiting'
  <2>1. \A n \in Mods, k \in Runs : pc[n][k] = "done" => pc'[n][k] = "done"
    BY <1>1, <1>2
  <2>2. \A n \in Mods : last[n] # 0 => last[n] \in Runs
    BY <1>1, MaxRunsAssumption DEF TypeOK, Runs
  <2> QED
    BY <1>1, <2>1, <2>2 DEF Room, Awaiting
<1> QED
  BY <1>3, <1>5, <1>6 DEF IInv

\* Sync keeps the invariant: a run it launches waits its turn, and it launches
\* nothing once the context ended.
LEMMA SyncInv == IInv /\ Sync => IInv'
<1> SUFFICES ASSUME IInv, Sync PROVE IInv'
  OBVIOUS
<1>1. TypeOK /\ Chain /\ Room /\ Awaiting
  BY DEF IInv
<1>2. CASE ctx # "live"
  <2>1. syncing' = FALSE /\ UNCHANGED <<ctx, on, last, pc, stopped, stopper, awaited>>
    BY <1>2 DEF Sync
  <2>2. TypeOK'
    BY <1>1, <2>1 DEF TypeOK
  <2>3. Chain' /\ Room' /\ Awaiting'
    BY <1>1, <2>1 DEF Chain, Room, Awaiting
  <2> QED
    BY <2>2, <2>3 DEF IInv
<1>3. CASE ctx = "live"
  <2>1. /\ last' = [m \in Mods |-> IF Launches(m) THEN last[m] + 1 ELSE last[m]]
        /\ pc' = [m \in Mods |-> [i \in Runs |->
                    IF Launches(m) /\ i = last[m] + 1 THEN "waiting" ELSE pc[m][i]]]
        /\ stopped' = [m \in Mods |-> [i \in Runs |->
                    stopped[m][i] \/ (Cancels(m) /\ i = last[m])]]
        /\ ctx' = "live" /\ syncing /\ syncing' = FALSE
        /\ UNCHANGED <<on, stopper, awaited>>
    BY <1>3 DEF Sync
  <2>2. \A m \in Mods : last[m] \in Nat /\ last[m] < MaxRuns
    BY <1>1, <2>1 DEF Room, TypeOK
  <2>3. last' \in [Mods -> 0..MaxRuns]
    BY <2>1, <2>2, MaxRunsAssumption
  <2>4. \A m \in Mods, i \in Runs :
          pc'[m][i] = IF Launches(m) /\ i = last[m] + 1 THEN "waiting" ELSE pc[m][i]
    BY <2>1
  <2>5. pc' \in [Mods -> [Runs -> {"none", "waiting", "working", "done"}]]
    BY <1>1, <2>1 DEF TypeOK
  <2>6. \A m \in Mods, i \in Runs : pc'[m][i] = "none" <=> i > last'[m]
    <3> SUFFICES ASSUME NEW m \in Mods, NEW i \in Runs
                 PROVE  pc'[m][i] = "none" <=> i > last'[m]
      OBVIOUS
    <3>1. pc[m][i] = "none" <=> i > last[m]
      BY <1>1 DEF TypeOK
    <3>2. last'[m] = IF Launches(m) THEN last[m] + 1 ELSE last[m]
      BY <2>1
    <3>3. last[m] \in Nat /\ i \in Nat
      BY <2>2, MaxRunsAssumption DEF Runs
    <3>4. CASE ~Launches(m)
      BY <2>4, <3>1, <3>2, <3>4
    <3>5. CASE Launches(m) /\ i = last[m] + 1
      BY <2>4, <3>2, <3>3, <3>5
    <3>6. CASE Launches(m) /\ i # last[m] + 1
      BY <2>4, <3>1, <3>2, <3>3, <3>6
    <3> QED
      BY <3>4, <3>5, <3>6
  <2>7. stopped' \in [Mods -> [Runs -> BOOLEAN]]
    BY <2>1
  <2>8. TypeOK'
    BY <1>1, <2>1, <2>3, <2>5, <2>6, <2>7 DEF TypeOK
  <2>9. Chain'
    <3> SUFFICES ASSUME NEW m \in Mods, NEW i \in Runs, NEW j \in Runs,
                        j < i, pc'[m][i] \in {"working", "done"}
                 PROVE  pc'[m][j] = "done"
      BY DEF Chain
    <3>1. pc[m][i] \in {"working", "done"} /\ pc[m][i] # "none"
      BY <2>4
    <3>2. i <= last[m] /\ j < last[m] + 1
      BY <1>1, <2>2, <3>1, MaxRunsAssumption DEF TypeOK, Runs
    <3>3. pc'[m][j] = pc[m][j]
      BY <2>2, <2>4, <3>2, MaxRunsAssumption DEF Runs
    <3> QED
      BY <1>1, <3>1, <3>3 DEF Chain
  <2>10. Room' /\ Awaiting'
    BY <1>1, <1>3, <2>1 DEF Room, Awaiting
  <2> QED
    BY <2>8, <2>9, <2>10 DEF IInv
<1> QED
  BY <1>2, <1>3

\* Every step keeps the invariant.
LEMMA NextInv == IInv /\ [Next]_vars => IInv'
<1> SUFFICES ASSUME IInv, [Next]_vars PROVE IInv'
  OBVIOUS
<1> USE MaxRunsAssumption
<1>1. CASE Start
  BY <1>1 DEF Start, IInv, TypeOK, Chain, Room, Awaiting
<1>2. CASE \E m \in Mods : SaveSettings(m)
  <2> PICK m \in Mods : SaveSettings(m)
    BY <1>2
  <2>1. on' \in [Mods -> BOOLEAN]
    BY DEF SaveSettings, IInv, TypeOK
  <2> QED
    BY <2>1 DEF SaveSettings, IInv, TypeOK, Chain, Room, Awaiting
<1>3. CASE Sync
  BY <1>3, SyncInv
<1>4. CASE ServerStops
  BY <1>4 DEF ServerStops, IInv, TypeOK, Chain, Room, Awaiting
<1>5. CASE Stop
  <2>1. awaited' \subseteq Mods \X Runs
    BY <1>5 DEF Stop, lastRuns
  <2>2. \A m \in Mods : last[m] # 0 => <<m, last[m]>> \in awaited'
    BY <1>5 DEF Stop, lastRuns, IInv, TypeOK, Runs
  <2> QED
    BY <1>5, <2>1, <2>2 DEF Stop, IInv, TypeOK, Chain, Room, Awaiting
<1>6. CASE \E r \in awaited : StopAwaits(r)
  <2> PICK r \in awaited : StopAwaits(r)
    BY <1>6
  <2>1. \A m \in Mods : <<m, last[m]>> = r => pc[m][last[m]] = "done"
    BY DEF StopAwaits, ended
  <2> QED
    BY <2>1 DEF StopAwaits, IInv, TypeOK, Chain, Room, Awaiting
<1>7. CASE StopReturns
  BY <1>7 DEF StopReturns, IInv, TypeOK, Chain, Room, Awaiting
<1>8. CASE \E m \in Mods, i \in Runs : Begin(m, i)
  <2> PICK m \in Mods, i \in Runs : Begin(m, i)
    BY <1>8
  <2>1. CASE cancelled(m, i)
    BY <2>1, MovesOn DEF Begin
  <2>2. CASE ~cancelled(m, i)
    BY <2>2, MovesOn DEF Begin
  <2> QED
    BY <2>1, <2>2
<1>9. CASE \E m \in Mods, i \in Runs : Obeys(m, i)
  BY <1>9, MovesOn DEF Obeys
<1>10. CASE \E m \in Mods, i \in Runs : EndsItself(m, i)
  BY <1>10, MovesOn DEF EndsItself
<1>11. CASE UNCHANGED vars
  BY <1>11 DEF vars, IInv, TypeOK, Chain, Room, Awaiting
<1> QED
  BY <1>1, <1>2, <1>3, <1>4, <1>5, <1>6, <1>7, <1>8, <1>9, <1>10, <1>11 DEF Next

\* The inductive invariant holds of every behaviour of the runner.
THEOREM Inductive == Spec => []IInv
  BY InitInv, NextInv, PTL DEF Spec

\* Two runs of one module never overlap, whatever the saves, panics and
\* returns (Sync, launch).
THEOREM NoTwoRuns == Spec => []OneRunAtATime
<1>1. IInv => OneRunAtATime
  <2> SUFFICES ASSUME IInv, NEW m \in Mods, NEW i \in Runs, NEW j \in Runs,
                      pc[m][i] = "working", pc[m][j] = "working"
               PROVE  i = j
    BY DEF OneRunAtATime
  <2>1. ~(j < i) /\ ~(i < j)
    BY DEF IInv, Chain
  <2> QED
    BY <2>1, MaxRunsAssumption DEF Runs
<1> QED
  BY <1>1, Inductive, PTL

\* When Stop returns no run of any module is left (Stop, before the launcher
\* closes the database).
THEOREM QuietAfterStop == Spec => []StoppedIsQuiet
<1>1. IInv => StoppedIsQuiet
  <2> SUFFICES ASSUME IInv, stopper = "returned", NEW m \in Mods, NEW i \in Runs
               PROVE  pc[m][i] \in {"none", "done"}
    BY DEF StoppedIsQuiet
  <2>1. last[m] \in 0..MaxRuns /\ (pc[m][i] = "none" <=> i > last[m])
    BY DEF IInv, TypeOK
  <2>2. last[m] # 0 => pc[m][last[m]] = "done"
    BY DEF IInv, Awaiting
  <2>3. CASE i > last[m]
    BY <2>1, <2>3
  <2>4. CASE i = last[m]
    BY <2>2, <2>4, MaxRunsAssumption DEF Runs
  <2>5. CASE i < last[m]
    BY <2>1, <2>2, <2>5, MaxRunsAssumption DEF IInv, Chain, Runs
  <2> QED
    BY <2>1, <2>3, <2>4, <2>5, MaxRunsAssumption DEF Runs
<1> QED
  BY <1>1, Inductive, PTL

=============================================================================
