---------------------------- MODULE ModuleRunner ----------------------------
(***************************************************************************)
(* The runner of the modules' background work (internal/modules/runner.go) *)
(* and the settings save that drives it (internal/api/modules.go,          *)
(* handlers_settings.go).  Sync, Stop and launch hold Runner.mu, so each   *)
(* is one step; the goroutines of the runs, the saves and the stopping     *)
(* launcher interleave.  A run is named by its module and its number: run  *)
(* i waits for run i - 1, which is the one its launch was given.           *)
(***************************************************************************)
EXTENDS Naturals

CONSTANTS
    Mods,       \* modules with background work
    MaxRuns     \* bound: runs of a module

ASSUME MaxRunsAssumption == MaxRuns \in Nat \ {0}

VARIABLES
    ctx,       \* Runner.ctx: "nil" until Start, "live", then "ended"
    on,        \* the live config's toggles
    syncing,   \* a Start or a settings save has yet to call Sync
    last,      \* Runner.runs: the number of each module's last run, 0 for none
    pc,        \* where each run's goroutine is
    stopped,   \* run.stopped: cancelled by Sync
    stopper,   \* the caller of Stop
    awaited    \* the runs whose done channel Stop still waits on

vars == <<ctx, on, syncing, last, pc, stopped, stopper, awaited>>

Runs == 1..MaxRuns

Init ==
    /\ ctx = "nil"
    /\ on \in [Mods -> BOOLEAN]
    /\ syncing = FALSE
    /\ last = [m \in Mods |-> 0]
    /\ pc = [m \in Mods |-> [i \in Runs |-> "none"]]
    /\ stopped = [m \in Mods |-> [i \in Runs |-> FALSE]]
    /\ stopper = "idle"
    /\ awaited = {}

-----------------------------------------------------------------------------

\* Start, up to its Sync.
Start ==
    /\ ctx = "nil"
    /\ ctx' = "live"
    /\ syncing' = TRUE
    /\ UNCHANGED <<on, last, pc, stopped, stopper, awaited>>

\* A settings save swaps the live config (one save at a time: settingsMu), and
\* calls Sync next.  The API serves once StartModules returned.
SaveSettings(m) ==
    /\ ctx # "nil" /\ ~syncing
    /\ \A k \in Mods : last[k] < MaxRuns
    /\ on' = [on EXCEPT ![m] = ~@]
    /\ syncing' = TRUE
    /\ UNCHANGED <<ctx, last, pc, stopped, stopper, awaited>>

\* run.ended: done is closed.
ended(m, i) == pc[m][i] = "done"

\* Mutant: a run still stopping counts as the module's run.
Bug_Launches(m) == on[m] /\ (last[m] = 0 \/ ended(m, last[m]))
\* Sync starts a module that is on and has no run, a stopped or an ended one.
Launches(m) == on[m] /\ (last[m] = 0 \/ stopped[m][last[m]] \/ ended(m, last[m]))

\* Mutant: a run that has yet to begin is not cancelled.
Bug_Cancels(m) == ~on[m] /\ last[m] # 0 /\ ~stopped[m][last[m]] /\ pc[m][last[m]] = "working"
\* Sync cancels the run of a module that is off.
Cancels(m) == ~on[m] /\ last[m] # 0 /\ ~stopped[m][last[m]]

\* Sync, and launch: nothing before Start or once the context ended.
Sync ==
    /\ syncing
    /\ syncing' = FALSE
    /\ IF ctx = "live"
       THEN /\ last' = [m \in Mods |-> IF Launches(m) THEN last[m] + 1 ELSE last[m]]
            /\ pc' = [m \in Mods |-> [i \in Runs |->
                        IF Launches(m) /\ i = last[m] + 1 THEN "waiting" ELSE pc[m][i]]]
            /\ stopped' = [m \in Mods |-> [i \in Runs |->
                        stopped[m][i] \/ (Cancels(m) /\ i = last[m])]]
       ELSE UNCHANGED <<last, pc, stopped>>
    /\ UNCHANGED <<ctx, on, stopper, awaited>>

\* The context Start was given ends: the server is stopping.
ServerStops ==
    /\ ctx = "live"
    /\ ctx' = "ended"
    /\ UNCHANGED <<on, syncing, last, pc, stopped, stopper, awaited>>

\* Mutant: Stop waits only for the runs Sync did not cancel.
Bug_lastRuns == {r \in Mods \X Runs : r[2] = last[r[1]] /\ ~stopped[r[1]][r[2]]}
\* The runs Stop waits for: the last of each module.
lastRuns == {r \in Mods \X Runs : r[2] = last[r[1]]}

\* Stop: end the context, then wait for the runs.
Stop ==
    /\ stopper = "idle"
    /\ ctx # "nil"
    /\ ctx' = "ended"
    /\ stopper' = "waiting"
    /\ awaited' = lastRuns
    /\ UNCHANGED <<on, syncing, last, pc, stopped>>

\* <-d for one of them.
StopAwaits(r) ==
    /\ r \in awaited
    /\ ended(r[1], r[2])
    /\ awaited' = awaited \ {r}
    /\ UNCHANGED <<ctx, on, syncing, last, pc, stopped, stopper>>

StopReturns ==
    /\ stopper = "waiting"
    /\ awaited = {}
    /\ stopper' = "returned"
    /\ UNCHANGED <<ctx, on, syncing, last, pc, stopped, awaited>>

-----------------------------------------------------------------------------
(* A run's goroutine.                                                      *)

\* Mutant: a run's context is not the Runner's child.
Bug_cancelled(m, i) == stopped[m][i]
\* A run's context: its own cancel, or the Runner's end.
cancelled(m, i) == stopped[m][i] \/ ctx = "ended"

\* Mutant: a run cancelled while it waits does not wait for the one before.
Bug_Turn(m, i) == i > 1 /\ ~cancelled(m, i) => pc[m][i - 1] = "done"
\* <-prev.done.
Turn(m, i) == i > 1 => pc[m][i - 1] = "done"

\* The earlier run returned: begin, unless the context ended meanwhile.
Begin(m, i) ==
    /\ pc[m][i] = "waiting"
    /\ Turn(m, i)
    /\ pc' = [pc EXCEPT ![m] = [@ EXCEPT ![i] = IF cancelled(m, i) THEN "done" ELSE "working"]]
    /\ UNCHANGED <<ctx, on, syncing, last, stopped, stopper, awaited>>

\* Module.Start returns because its context ended.
Obeys(m, i) ==
    /\ pc[m][i] = "working"
    /\ cancelled(m, i)
    /\ pc' = [pc EXCEPT ![m] = [@ EXCEPT ![i] = "done"]]
    /\ UNCHANGED <<ctx, on, syncing, last, stopped, stopper, awaited>>

\* Module.Start returns by itself, or panics and is recovered.
EndsItself(m, i) ==
    /\ pc[m][i] = "working"
    /\ ~cancelled(m, i)
    /\ pc' = [pc EXCEPT ![m] = [@ EXCEPT ![i] = "done"]]
    /\ UNCHANGED <<ctx, on, syncing, last, stopped, stopper, awaited>>

-----------------------------------------------------------------------------

Next ==
    \/ Start
    \/ \E m \in Mods : SaveSettings(m)
    \/ Sync
    \/ ServerStops
    \/ Stop
    \/ \E r \in awaited : StopAwaits(r)
    \/ StopReturns
    \/ \E m \in Mods, i \in Runs : Begin(m, i)
    \/ \E m \in Mods, i \in Runs : Obeys(m, i)
    \/ \E m \in Mods, i \in Runs : EndsItself(m, i)

Spec == Init /\ [][Next]_vars

\* Goroutines are scheduled, a save calls Sync, Stop goes on waiting, and a
\* module's Start returns when its context is cancelled (Module.Start's
\* contract).  Nothing need turn a module on, stop the server or end by itself.
Fairness ==
    /\ WF_vars(Sync)
    /\ WF_vars(\E r \in awaited : StopAwaits(r))
    /\ WF_vars(StopReturns)
    /\ \A m \in Mods, i \in Runs : WF_vars(Begin(m, i)) /\ WF_vars(Obeys(m, i))

FairSpec == Spec /\ Fairness

-----------------------------------------------------------------------------
(* Properties.                                                             *)

\* The runner's fields have their types, and a module's runs are numbered
\* without a gap up to its last.
TypeOK ==
    /\ ctx \in {"nil", "live", "ended"}
    /\ on \in [Mods -> BOOLEAN]
    /\ syncing \in BOOLEAN
    /\ last \in [Mods -> 0..MaxRuns]
    /\ pc \in [Mods -> [Runs -> {"none", "waiting", "working", "done"}]]
    /\ stopped \in [Mods -> [Runs -> BOOLEAN]]
    /\ stopper \in {"idle", "waiting", "returned"}
    /\ awaited \subseteq Mods \X Runs
    /\ \A m \in Mods, i \in Runs : pc[m][i] = "none" <=> i > last[m]

\* Two runs of one module never overlap (Sync's promise), however often it is
\* turned off and on while an old run is still returning.
OneRunAtATime ==
    \A m \in Mods : \A i, j \in Runs :
        pc[m][i] = "working" /\ pc[m][j] = "working" => i = j

\* Once Stop returned every run of every module has returned, though it waited
\* only for each module's last: nothing uses the database the launcher closes next.
StoppedIsQuiet ==
    stopper = "returned" => \A m \in Mods, i \in Runs : pc[m][i] \in {"none", "done"}

\* A module that is on gets a run that starts, once the runs before it are
\* over, unless it is turned off or the server stops first; the run may end by
\* itself (Sync).
OnRuns ==
    \A m \in Mods :
        (on[m] /\ ctx = "live") ~>
            \/ ~on[m] \/ ctx = "ended"
            \/ /\ last[m] # 0
               /\ ~stopped[m][last[m]]
               /\ pc[m][last[m]] \in {"working", "done"}

\* A module turned off is quiet in the end, unless it is turned on again.
OffQuiets ==
    \A m \in Mods :
        (~on[m] /\ ctx # "nil") ~> (on[m] \/ \A i \in Runs : pc[m][i] \in {"none", "done"})

\* Stop returns: no cycle of runs waiting for one another holds it (launch).
StopEnds == (stopper = "waiting") ~> (stopper = "returned")

=============================================================================
