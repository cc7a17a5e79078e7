----------------------------- MODULE Experiment -----------------------------
(***************************************************************************)
(* An experiment from EXP_SET to the last sample of its run: the runtime   *)
(* of the simulated node (SimNode), the only node that has one, and what   *)
(* the gateway keeps of it: the run it believes active, by which it tags   *)
(* the samples it commits, and the runs table.                             *)
(*                                                                         *)
(* Both live in one asyncio process.  A frame to the node is handled inside*)
(* link.send_frame; a frame from the node waits in its outbox for the pump.*)
(* The node is one record, because a trigger runs several of its methods in*)
(* a row.  EVENT frames change nothing here and are left out, and so are   *)
(* the trigger actions set_state, set_gpio and mark.                       *)
(***************************************************************************)
EXTENDS Integers, Sequences

CONSTANTS
    Specs,        \* experiment specs an operator may push
    BurstTicks,   \* length of a burst
    BacklogDepth, \* _MAX_BACKLOG: samples kept while the link is dropped
    OutboxDepth,  \* bound: frames between node and gateway
    MaxOps,       \* bound: operator requests and reboots
    MaxRuns,      \* bound: runs
    Horizon       \* bound: clocks stop here, past every time a spec speaks of

\* What a spec says: how it starts, after how many ticks it ends (0: never), and
\* its trigger; what it declares of its channel is a rate.  at is the uptime at which
\* an at_ms spec starts.  Nothing looks at on_trigger: such a spec behaves like a
\* manual one.
Mode == {"manual", "on_boot", "at_ms"}
TriggerAction == {"set_rate", "burst", "stop", "reboot"}
Experiments ==
    [mode : Mode, persist : BOOLEAN, at : Nat, duration : Nat,
     once : BOOLEAN, for : Nat, do : Seq(TriggerAction)]

ASSUME SpecsAssumption ==
    /\ Specs \subseteq Experiments
    /\ BurstTicks \in Nat \ {0} /\ BacklogDepth \in Nat \ {0} /\ OutboxDepth \in Nat \ {0}
    /\ MaxOps \in Nat /\ MaxRuns \in Nat /\ Horizon \in Nat
    /\ \A s \in Specs : s.at <= Horizon /\ s.duration <= Horizon /\ s.for <= Horizon

VARIABLES
    node,        \* the SimNode
    active_run,  \* GatewayRuntime._active_run of this node
    runs,        \* the runs table
    samples,     \* the samples table: tag, and the truth about the sample (run, sent,
                 \* replay: see Sampled)
    ops,         \* operator requests and reboots so far
    interrupted, \* history: a run was cut short by a reboot or by a new spec
    trigger      \* history: what the trigger saw and did in this run

gateway == <<active_run, runs, samples>>
vars == <<node, gateway, ops, interrupted, trigger>>

None == -1
NoSpec == [none |-> TRUE]
NoRun == 0      \* run_id "" (the node) and no active run (the gateway)
Run == 0 .. MaxRuns

Later(clock) == IF clock < Horizon THEN clock + 1 ELSE clock

-----------------------------------------------------------------------------
(* Plausible mistakes.                                                     *)

\* The debounce window is one tick short.
HeldLongEnoughOffByOne(since, for) == since + 1 >= for

\* A burst upon a burst remembers the rate of the burst.
SavedRateAgain(n) == n.rate

\* duration_ms is not looked at.
DurationOverNever(n) == FALSE

-----------------------------------------------------------------------------
(* SimNode.                                                                *)

ExpState(n) == [kind |-> "EXP_STATE", run |-> n.run_id, state |-> n.run_state]

EmitExpState(n) == [n EXCEPT !.outbox = Append(@, ExpState(n))]

\* _apply_channel_overrides: every channel back to its NDB rate, then what the
\* spec declares for it.
ApplyOverrides(n, spec) ==
    IF spec = NoSpec THEN [n EXCEPT !.rate = "declared"]
    ELSE [n EXCEPT !.rate = "experiment"]

\* _start_run.
StartRun(n) ==
    EmitExpState(ApplyOverrides(
        [n EXCEPT !.run_seq = @ + 1, !.run_id = n.run_seq + 1, !.run_state = "running",
                  !.elapsed = 0, !.since = None, !.fired = FALSE], n.spec))

\* The three ends of a run: duration, exp.stop, the trigger action stop.
EndRun(n) == EmitExpState(ApplyOverrides([n EXCEPT !.run_state = "done"], NoSpec))

StartsOnBoot(spec) == spec # NoSpec /\ spec.persist /\ spec.mode = "on_boot"

\* _do_reboot: nothing reports the end of the run, and neither rates nor a
\* pending burst are reset.
Reboot(n) ==
    LET m == [n EXCEPT !.run_state = "idle", !.uptime = 0]
    IN IF StartsOnBoot(n.spec) THEN StartRun(m) ELSE m

\* The rate to give back after a burst: a burst upon a burst keeps the first one.
SavedRate(n) == IF n.saved = "none" THEN n.rate ELSE n.saved

\* One action of the do list of a trigger.
Perform(n, action) ==
    CASE action = "set_rate" -> [n EXCEPT !.rate = "triggered"]
      [] action = "burst" ->
            [n EXCEPT !.saved = SavedRate(n),
                      !.rate = "burst", !.burst_left = BurstTicks]
      [] action = "stop" -> EndRun(n)
      [] action = "reboot" -> Reboot(n)

\* _fire_trigger: the actions of the do list, one after the other.
FireTrigger(n) ==
    LET after[i \in 0 .. Len(n.spec.do)] ==
            IF i = 0 THEN [n EXCEPT !.since = None, !.fired = TRUE]
            ELSE Perform(after[i - 1], n.spec.do[i])
    IN after[Len(n.spec.do)]

HeldLongEnough(since, for) == since >= for

Spent(n) == n.spec.once /\ n.fired

Fires(n, cond) ==
    /\ ~Spent(n)
    /\ cond
    /\ HeldLongEnough(IF n.since = None THEN 0 ELSE n.since, n.spec.for)

\* _evaluate_triggers, for one trigger; since counts the ticks it has held.
EvaluateTrigger(n, cond) ==
    IF Spent(n) THEN n
    ELSE IF ~cond THEN [n EXCEPT !.since = None]
    ELSE IF ~Fires(n, cond) THEN [n EXCEPT !.since = IF @ = None THEN 0 ELSE @]
    ELSE FireTrigger(n)

DurationOver(n) == n.spec.duration > 0 /\ n.elapsed >= n.spec.duration

\* _advance_experiment.
Advance(n, cond) == IF DurationOver(n) THEN EndRun(n) ELSE EvaluateTrigger(n, cond)

\* _evaluate_burst_expiry: a burst over gives back the rate it replaced.
ExpireBurst(n) ==
    IF n.saved # "none" /\ n.burst_left = 0
    THEN [n EXCEPT !.rate = n.saved, !.saved = "none"] ELSE n

\* The run in progress, if any.
Current(n) == IF n.run_state = "running" THEN n.run_id ELSE NoRun

\* A TELEMETRY frame.  The replay flag is on the wire.  The rest is history: run is
\* the run in progress when the frame was sent, of tells for each of its samples the
\* run it was taken in.  One frame stands for all the frames of a replay, which follow
\* one another in one call.
Telemetry(n, of, replay) ==
    [kind |-> "TELEMETRY", run |-> Current(n), of |-> of, replay |-> replay]

\* The oldest sample goes when there is no more room for all.
Newest(q) == IF Len(q) > BacklogDepth THEN Tail(q) ELSE q

\* _collect_due_samples and _emit_samples: while the link is dropped the sample stays
\* in the backlog, which goes out before the next live one.  EXP_STATE does not wait
\* for the link (_send).
Sampled(n, due) ==
    IF ~due THEN n
    ELSE IF n.link_dropped THEN [n EXCEPT !.backlog = Newest(Append(@, Current(n)))]
    ELSE LET held == IF n.backlog = <<>> THEN <<>> ELSE <<Telemetry(n, n.backlog, TRUE)>>
         IN [n EXCEPT !.backlog = <<>>,
                      !.outbox = @ \o held \o <<Telemetry(n, <<Current(n)>>, FALSE)>>]

\* Time passes: what the clocks of the node show at its next tick.
Aged(n) ==
    LET Runs(clock) == IF n.run_state = "running" /\ clock # None THEN Later(clock)
                       ELSE clock
    IN [n EXCEPT !.uptime = Later(@), !.elapsed = Runs(@), !.since = Runs(@),
                 !.burst_left = IF @ = 0 THEN 0 ELSE @ - 1]

\* The second half of an iteration: bursts that are over, then the run.
Lifecycle(n, cond) ==
    LET m == ExpireBurst(n)
    IN IF m.run_state = "running" THEN Advance(m, cond)
       ELSE IF m.run_state = "armed" /\ m.spec.mode = "at_ms" /\ m.uptime >= m.spec.at
            THEN StartRun(m)
       ELSE m

\* Mistake: the end of a run is reported before the samples that belong to it.
IteratedLate(n, due, cond) ==
    LET m == Lifecycle(n, cond)
        taken == Sampled([n EXCEPT !.outbox = <<>>], due)
    IN [m EXCEPT !.outbox = @ \o taken.outbox, !.backlog = taken.backlog]

\* One iteration of _master_loop: the samples that are due, then the rest.
Iterated(n, due, cond) == Lifecycle(Sampled(n, due), cond)

-----------------------------------------------------------------------------
Init ==
    /\ node = [spec |-> NoSpec, run_state |-> "idle", run_id |-> NoRun, run_seq |-> 0,
               uptime |-> 0, elapsed |-> 0, since |-> None, fired |-> FALSE,
               rate |-> "declared", saved |-> "none",
               burst_left |-> 0, link_dropped |-> FALSE, backlog |-> <<>>,
               outbox |-> <<>>]
    /\ active_run = NoRun
    /\ runs = [r \in {} |-> TRUE]
    /\ samples = {}
    /\ ops = 0
    /\ interrupted = FALSE
    /\ trigger = [held |-> 0, shots |-> 0, inStreak |-> 0, early |-> FALSE]

\* What the trigger sees and does in a step from n, evaluated with cond.
Observe(n, cond) ==
    IF n.run_state # "running" \/ DurationOver(n) THEN trigger
    ELSE LET f == IF Fires(n, cond) THEN 1 ELSE 0
             held == IF cond THEN Later(trigger.held) ELSE 0
             Cap(k) == IF k > 2 THEN 2 ELSE k
         IN [held |-> held,
             shots |-> Cap(trigger.shots + f),
             inStreak |-> IF cond THEN Cap(trigger.inStreak + f) ELSE 0,
             early |-> trigger.early \/ (f = 1 /\ trigger.held < n.spec.for)]

\* From n to m a run ended without reaching its end.
CutShort(n, m) ==
    /\ n.run_state = "running" /\ m.run_state # "done"
    /\ m.run_state # "running" \/ m.run_id # n.run_id

NoTrigger == [held |-> 0, shots |-> 0, inStreak |-> 0, early |-> FALSE]

\* The next iteration of _master_loop.
Tick ==
    /\ \E due, cond \in BOOLEAN :
          LET n == Aged(node)
          IN /\ node' = Iterated(n, due, cond)
             /\ trigger' = IF node'.run_id # n.run_id THEN NoTrigger ELSE Observe(n, cond)
             /\ interrupted' = (interrupted \/ CutShort(n, node'))
    /\ node'.run_seq <= MaxRuns /\ Len(node'.outbox) <= OutboxDepth
    /\ UNCHANGED <<gateway, ops>>

\* apply_fault("link_drop") with drop = false: the link comes back.
LinkRestore ==
    /\ node.link_dropped
    /\ node' = [node EXCEPT !.link_dropped = FALSE]
    /\ UNCHANGED <<gateway, ops, interrupted, trigger>>

\* The operator's requests.
Request ==
    /\ ops < MaxOps
    /\ Len(node.outbox) + 2 <= OutboxDepth
    /\ ops' = ops + 1
    /\ UNCHANGED gateway

\* push_experiment and _handle_exp_set: an accepted spec replaces the installed
\* one, whatever the node is doing.
PushExperiment(spec) ==
    /\ Request
    /\ LET armed == EmitExpState([node EXCEPT !.spec = spec, !.run_state = "armed"])
       IN node' = IF spec.mode = "on_boot" THEN StartRun(armed) ELSE armed
    /\ node'.run_seq <= MaxRuns
    /\ interrupted' = (interrupted \/ node.run_state = "running")
    /\ trigger' = NoTrigger

\* The node refuses a spec: the previous one stays installed.
PushRejected ==
    /\ Request
    /\ node' = EmitExpState(node)
    /\ UNCHANGED <<interrupted, trigger>>

\* CMD exp.start: refused without a spec ("no_spec") and during a run ("busy").
MayStart(n) == n.spec # NoSpec /\ n.run_state # "running"

CmdStart ==
    /\ Request
    /\ MayStart(node)
    /\ node.run_seq < MaxRuns
    /\ node' = StartRun(node)
    /\ trigger' = NoTrigger
    /\ UNCHANGED interrupted

\* CMD exp.stop: refused without a run ("not_running").
CmdStop ==
    /\ Request
    /\ node.run_state = "running"
    /\ node' = EndRun(node)
    /\ UNCHANGED <<interrupted, trigger>>

\* CMD exp.state: the node reports.
CmdState ==
    /\ Request
    /\ node' = EmitExpState(node)
    /\ UNCHANGED <<interrupted, trigger>>

\* apply_fault("link_drop"), asked for by an operator of the simulator.
LinkDrop ==
    /\ Request
    /\ ~node.link_dropped
    /\ node' = [node EXCEPT !.link_dropped = TRUE]
    /\ UNCHANGED <<interrupted, trigger>>

\* CMD store.erase: the samples held back are forgotten.
CmdErase ==
    /\ Request
    /\ node' = [node EXCEPT !.backlog = <<>>]
    /\ UNCHANGED <<interrupted, trigger>>

\* CMD node.reboot.
CmdReboot ==
    /\ Request
    /\ node' = Reboot(node)
    /\ node'.run_seq <= MaxRuns
    /\ interrupted' = (interrupted \/ node.run_state = "running")
    /\ trigger' = NoTrigger

-----------------------------------------------------------------------------
(* The gateway.                                                            *)

\* _on_telemetry: every sample is tagged with the run believed active, replayed or not.
OnTelemetry ==
    /\ node.outbox # <<>>
    /\ Head(node.outbox).kind = "TELEMETRY"
    /\ LET f == Head(node.outbox)
       IN samples' = samples \cup
            {[tag |-> active_run, run |-> f.of[i], sent |-> f.run, replay |-> f.replay] :
                i \in DOMAIN f.of}
    /\ node' = [node EXCEPT !.outbox = Tail(@)]
    /\ UNCHANGED <<active_run, runs, ops, interrupted, trigger>>

Final == {"done", "aborted"}

\* ended_at = COALESCE(excluded.ended_at, runs.ended_at)
StillEnded(old, new) == old \/ new

\* upsert_run: the state is replaced, the end of a run stays noted.
Upsert(r, state) ==
    [q \in DOMAIN runs \cup {r} |->
        IF q # r THEN runs[q]
        ELSE [state |-> state,
              ended |-> StillEnded(q \in DOMAIN runs /\ runs[q].ended, state \in Final)]]

\* _on_exp_state.
OnExpState ==
    /\ node.outbox # <<>>
    /\ Head(node.outbox).kind = "EXP_STATE"
    /\ LET s == Head(node.outbox)
       IN /\ active_run' = IF s.state = "running" THEN s.run
                           ELSE IF active_run = s.run /\ s.state \in Final THEN NoRun
                           ELSE active_run
          /\ runs' = Upsert(s.run, s.state)
    /\ node' = [node EXCEPT !.outbox = Tail(@)]
    /\ UNCHANGED <<samples, ops, interrupted, trigger>>

-----------------------------------------------------------------------------
operator == \/ \E s \in Specs : PushExperiment(s)
            \/ PushRejected \/ CmdStart \/ CmdStop \/ CmdState \/ CmdErase \/ CmdReboot
            \/ LinkDrop
pump == OnTelemetry \/ OnExpState

Next == Tick \/ LinkRestore \/ operator \/ pump

Spec == Init /\ [][Next]_vars

\* The master loop ticks for ever and the pump takes every frame.
FairSpec == Spec /\ WF_vars(Tick) /\ WF_vars(pump)

-----------------------------------------------------------------------------
\* The type of every variable; in it, no burst is ever remembered as the rate
\* to give back after a burst (_burst_saved_rate).
TypeOK ==
    /\ node.spec \in Specs \cup {NoSpec}
    /\ node.run_state \in {"idle", "armed", "running", "done"}
    /\ node.run_id \in Run /\ node.run_seq \in Run
    /\ node.uptime \in 0 .. Horizon /\ node.elapsed \in 0 .. Horizon
    /\ node.since \in 0 .. Horizon \cup {None}
    /\ node.rate \in {"declared", "experiment", "triggered", "burst"}
    /\ node.saved \in {"none", "declared", "experiment", "triggered"}
    /\ node.burst_left \in 0 .. BurstTicks
    /\ node.link_dropped \in BOOLEAN
    /\ Len(node.backlog) <= BacklogDepth
    /\ \A i \in DOMAIN node.backlog : node.backlog[i] \in Run
    /\ \A i \in DOMAIN node.outbox : node.outbox[i].run \in Run
    /\ active_run \in Run
    /\ DOMAIN runs \subseteq Run
    /\ ops \in 0 .. MaxOps

\* As long as no run was cut short, a sample sent as it was taken is filed under the
\* run it was taken in, and under none outside of runs: EXP_STATE and TELEMETRY overtake
\* each other neither at the start of a run nor at its end, with a backlog between them
\* or not.  A sample held back while the link was dropped is the exception: it is filed
\* under the run in progress when it is sent (_emit_samples, _on_telemetry).
SamplesFiledUnderTheirRun ==
    ~interrupted => \A s \in samples : s.tag = IF s.replay THEN s.sent ELSE s.run

\* "every sample the station commits is tagged with it", the run (EXPERIMENTS.md,
\* Lifecycle): of a run that was not cut short, no sample is filed elsewhere.  Not so:
\* _emit_samples holds samples back while the link is dropped, EXP_STATE is sent all the
\* same, so those replayed after the end of the run are filed under none or the next.
EverySampleTagged ==
    ~interrupted => \A s \in samples : s.run # NoRun => s.tag = s.run

\* A trigger fires only when its condition has held for its whole debounce
\* time, and one with once = true fires once in a run.
TriggerDebounced ==
    /\ ~trigger.early
    /\ node.run_state = "running" /\ node.spec.once => trigger.shots <= 1

\* "Debounced condition satisfied: fire once, then require the condition to go
\* false before it can fire again" (_evaluate_triggers).
FiresOncePerExcursion == trigger.inStreak <= 1

\* "Every transition emits EXP_STATE" (EXPERIMENTS.md, Lifecycle): once the
\* station has seen all of them, it knows the state of the run.
EveryTransitionReported ==
    /\ node.run_id # NoRun
    /\ \A i \in DOMAIN node.outbox : node.outbox[i].kind # "EXP_STATE"
    => runs[node.run_id].state = node.run_state

\* A run with a duration ends, and the station learns of it, unless the run
\* was cut short.
TimedRunsAreClosed ==
    \A r \in Run \ {NoRun} :
        (node.run_id = r /\ node.run_state = "running" /\ node.spec.duration > 0)
            ~> (interrupted \/ (r \in DOMAIN runs /\ runs[r].ended))
=============================================================================
