---------------------------- MODULE WorkflowRun ----------------------------
(***************************************************************************)
(* Runs of one workflow: what starts them, how the engine executes them,   *)
(* and the human approval.                                                 *)
(*                                                                         *)
(* The GUI server has one connection under one lock.  Its handlers (run,   *)
(* approve) insert or mark the row in one locked section and take the lock *)
(* again for run_workflow, which keeps it to the end.  A handler is        *)
(* dropped where it waits when its client goes away.  The cron tick works  *)
(* on a connection of its own, beside them.                                *)
(*                                                                         *)
(* The clock is left out: what the 70 s windows of the cron tick decide is *)
(* the order in which a firing and a run leave them, and that is kept.     *)
(* A step costs one unit; outputs and their interpolation are left out.    *)
(***************************************************************************)
EXTENDS WorkflowOrder

CONSTANTS
    Handlers,       \* HTTP requests: manual runs and approvals
    Cron,           \* the cron tick
    NoGate,         \* no human_approval_at
    NoWorkflow,     \* the workflow is deleted
    Definitions,    \* bound: the YAML texts an operator may save
    MaxRuns,        \* bound: rows of workflow_runs
    MaxFirings,     \* bound: instants of the cron expression
    MaxEdits,       \* bound: saves and deletions of the workflow
    MaxApprovals    \* bound: approvals of one run

Callers == Handlers \cup {Cron}
Nobody == "nobody"

(* WorkflowYaml: the gate may name a step that does not exist.             *)
Definition == [deps : Dependencies, gate : Steps \cup {Missing, NoGate}, limit : Nat]

ASSUME WorkflowAssumption ==
    /\ Definitions \subseteq Definition
    /\ NoWorkflow \notin Definition /\ NoGate \notin Steps
    /\ Cron \notin Handlers /\ Nobody \notin Handlers
    /\ MaxRuns \in Nat /\ MaxFirings \in Nat /\ MaxEdits \in Nat /\ MaxApprovals \in Nat

Status == {"running", "waiting_human", "success", "failed", "aborted"}

(* A row of workflow_runs with its step logs: the state of the last log of *)
(* each step.  A deleted run keeps its place.                              *)
Run == [status : Status \cup {"deleted"},
        source : {"manual", "cron"},
        since  : SUBSET (1..MaxFirings),       \* firings due when it started
        log    : [Steps -> {"none", "running", "success", "failed"}]]

VARIABLES
    workflow,   \* the row of workflows
    runs,       \* the rows of workflow_runs, in the order of started_at
    lock,       \* the handler that holds the lock over run_workflow
    exec,       \* what each caller is doing
    due,        \* firings of the last 70 s
    fired,      \* firings so far
    edits,      \* how often the workflow was saved or deleted
    approvals,  \* history: how often each run was approved
    cut         \* history: runs whose execution was cut off

vars == <<workflow, runs, lock, exec, due, fired, edits, approvals, cut>>
history == <<approvals, cut>>
world == <<due, fired, edits>>

Idle == [pc |-> "idle", run |-> 0, def |-> NoWorkflow, search |-> NoSearch, left |-> <<>>,
         done |-> {}, cost |-> 0]

(* In run_workflow.                                                        *)
InEngine(c) == exec[c].pc \in {"entered", "between", "executing"}

(* Types; a handler in the engine holds the lock.                          *)
TypeOK ==
    /\ workflow \in Definitions \cup {NoWorkflow}
    /\ runs \in Seq(Run) /\ Len(runs) <= MaxRuns
    /\ lock \in Handlers \cup {Nobody}
    /\ exec \in [Callers -> [pc : {"idle", "collected", "ready", "entered", "between", "executing"},
                             run : 0..MaxRuns, def : Definitions \cup {NoWorkflow},
                             search : Search, left : Seq(Steps), done : SUBSET Steps, cost : Nat]]
    /\ \A c \in Callers : exec[c].pc \notin {"idle", "collected"} => exec[c].run \in DOMAIN runs
    /\ \A c \in Handlers : (lock = c) <=> InEngine(c)
    /\ due \subseteq 1..MaxFirings /\ fired \in 0..MaxFirings /\ edits \in 0..MaxEdits
    /\ approvals \in [1..MaxRuns -> Nat] /\ cut \subseteq 1..MaxRuns

Init ==
    /\ workflow \in Definitions
    /\ runs = <<>>
    /\ lock = Nobody
    /\ exec = [c \in Callers |-> Idle]
    /\ due = {} /\ fired = 0 /\ edits = 0
    /\ approvals = [r \in 1..MaxRuns |-> 0]
    /\ cut = {}

(***************************************************************************)
(* Starting a run.                                                         *)
(***************************************************************************)
Free == lock = Nobody

(* INSERT INTO workflow_runs: the foreign key refuses a deleted workflow.  *)
Inserted(source) ==
    Append(runs, [status |-> "running", source |-> source, since |-> due,
                  log |-> [s \in Steps |-> "none"]])

Ready(c, r) == exec' = [exec EXCEPT ![c] = [Idle EXCEPT !.pc = "ready", !.run = r, !.def = workflow]]

ManualRun(c) ==
    /\ exec[c].pc = "idle" /\ Free
    /\ workflow # NoWorkflow /\ Len(runs) < MaxRuns
    /\ runs' = Inserted("manual")
    /\ Ready(c, Len(runs'))
    /\ UNCHANGED <<workflow, lock, world, history>>

(* Mutant: only a run that still runs keeps the tick from firing again.    *)
RunningRun(r) == runs[r].status = "running" /\ runs[r].since \cap due # {}

(* Runs whose started_at is not 70 s old: those that started when a firing *)
(* was due that still is.  (One that started just before the firing is     *)
(* recent for a part of that time: the tick may pass without firing.)      *)
RecentRun(r) == runs[r].status # "deleted" /\ runs[r].since \cap due # {}

(* workflow_cron_tick, its first locked section: the definition is taken   *)
(* along if a firing is due and no run is recent.                          *)
CronCollect ==
    /\ exec[Cron].pc = "idle"
    /\ workflow # NoWorkflow /\ due # {}
    /\ \A r \in DOMAIN runs : ~RecentRun(r)
    /\ exec' = [exec EXCEPT ![Cron] = [Idle EXCEPT !.pc = "collected", !.def = workflow]]
    /\ UNCHANGED <<workflow, runs, lock, world, history>>

(* The second one: the run is inserted, if the workflow is still there,    *)
(* and executed.                                                           *)
CronFire ==
    /\ exec[Cron].pc = "collected"
    /\ IF workflow = NoWorkflow
       THEN exec' = [exec EXCEPT ![Cron] = Idle] /\ UNCHANGED runs
       ELSE /\ Len(runs) < MaxRuns
            /\ runs' = Inserted("cron")
            /\ exec' = [exec EXCEPT ![Cron].pc = "entered", ![Cron].run = Len(runs')]
    /\ UNCHANGED <<workflow, lock, world, history>>

(* Mutants: approving leaves the status to the engine; approving marks the *)
(* run with a status nobody knows.                                         *)
ApproveKeepsStatus(c, r) ==
    /\ exec[c].pc = "idle" /\ Free
    /\ runs[r].status = "waiting_human" /\ approvals[r] < MaxApprovals
    /\ approvals' = [approvals EXCEPT ![r] = @ + 1]
    /\ Ready(c, r)
    /\ UNCHANGED <<workflow, runs, lock, world, cut>>

(* gui_workflow_run_approve: only a run that waits, and it waits no more.  *)
Approve(c, r) ==
    /\ exec[c].pc = "idle" /\ Free
    /\ runs[r].status = "waiting_human" /\ approvals[r] < MaxApprovals
    /\ runs' = [runs EXCEPT ![r].status = "running"]
    /\ approvals' = [approvals EXCEPT ![r] = @ + 1]
    /\ Ready(c, r)
    /\ UNCHANGED <<workflow, lock, world, cut>>

(***************************************************************************)
(* run_workflow.  An UPDATE of a run that was deleted meanwhile changes    *)
(* nothing, and its step logs are refused; the steps run all the same.     *)
(***************************************************************************)
SetStatus(r, status) ==
    IF runs[r].status = "deleted" THEN runs ELSE [runs EXCEPT ![r].status = status]

SetLog(table, r, s, status) ==
    IF table[r].status = "deleted" THEN table ELSE [table EXCEPT ![r].log[s] = status]

Finish(c) ==
    /\ lock' = IF lock = c THEN Nobody ELSE lock
    /\ exec' = [exec EXCEPT ![c] = Idle]

(* A handler takes the lock again.                                         *)
Enters(c) ==
    /\ exec[c].pc = "ready" /\ Free
    /\ lock' = c
    /\ exec' = [exec EXCEPT ![c].pc = "entered"]
    /\ UNCHANGED <<workflow, runs, world, history>>

(* topo_sort: a call of visit, and its end.                                *)
Deps(c) == exec[c].def.deps

Visits(c) ==
    /\ exec[c].pc = "entered"
    /\ \E id \in Visitable(Deps(c), exec[c].search) :
          exec' = [exec EXCEPT ![c].search = Visit(@, id)]
    /\ UNCHANGED <<workflow, runs, lock, world, history>>

Returns(c) ==
    /\ exec[c].pc = "entered" /\ Returning(Deps(c), exec[c].search)
    /\ exec' = [exec EXCEPT ![c].search = Return(@)]
    /\ UNCHANGED <<workflow, runs, lock, world, history>>

(* A cycle or a step that does not exist: no step is executed.             *)
Refuses(c) ==
    /\ exec[c].pc = "entered" /\ Refused(Deps(c), exec[c].search)
    /\ runs' = SetStatus(exec[c].run, "failed")
    /\ Finish(c)
    /\ UNCHANGED <<workflow, world, history>>

Sorted(c) ==
    /\ exec[c].pc = "entered" /\ Complete(Deps(c), exec[c].search)
    /\ exec' = [exec EXCEPT ![c].pc = "between", ![c].left = exec[c].search.order,
                            ![c].search = NoSearch]
    /\ UNCHANGED <<workflow, runs, lock, world, history>>

Sort(c) == Visits(c) \/ Returns(c) \/ Refuses(c) \/ Sorted(c)

(* Mutant: the engine stops after the step that is to be approved.         *)
PastGate(c) == exec[c].def.gate \in exec[c].done

AtGate(c) == exec[c].left # <<>> /\ Head(exec[c].left) = exec[c].def.gate

Waits(c) ==
    /\ exec[c].pc = "between" /\ AtGate(c)
    /\ runs' = SetStatus(exec[c].run, "waiting_human")
    /\ Finish(c)
    /\ UNCHANGED <<workflow, world, history>>

Current(c) == Head(exec[c].left)

(* The step is logged as running, and what it does outside begins.         *)
StepStarts(c) ==
    /\ exec[c].pc = "between" /\ exec[c].left # <<>> /\ ~AtGate(c)
    /\ runs' = SetLog(runs, exec[c].run, Current(c), "running")
    /\ exec' = [exec EXCEPT ![c].pc = "executing"]
    /\ UNCHANGED <<workflow, lock, world, history>>

OverLimit(c) == exec[c].cost + 1 > exec[c].def.limit

(* The log of the step that went over the limit stays "running".           *)
StepOk(c) ==
    LET r == exec[c].run IN
    /\ exec[c].pc = "executing"
    /\ IF OverLimit(c)
       THEN runs' = SetStatus(r, "aborted") /\ Finish(c)
       ELSE /\ runs' = SetLog(runs, r, Current(c), "success")
            /\ exec' = [exec EXCEPT ![c].pc = "between", ![c].left = Tail(@),
                                    ![c].done = @ \cup {Current(c)}, ![c].cost = @ + 1]
            /\ UNCHANGED lock
    /\ UNCHANGED <<workflow, world, history>>

(* Mutant: the engine goes on with the next step.                          *)
StepFailsGoesOn(c) ==
    LET r == exec[c].run IN
    /\ exec[c].pc = "executing"
    /\ runs' = SetLog(runs, r, Current(c), "failed")
    /\ exec' = [exec EXCEPT ![c].pc = "between", ![c].left = Tail(@)]
    /\ UNCHANGED <<workflow, lock, world, history>>

(* Mutant: only the log says that the step failed.                         *)
StepFailsSilently(c) ==
    LET r == exec[c].run IN
    /\ exec[c].pc = "executing"
    /\ runs' = SetLog(runs, r, Current(c), "failed")
    /\ Finish(c)
    /\ UNCHANGED <<workflow, world, history>>

StepFails(c) ==
    LET r == exec[c].run IN
    /\ exec[c].pc = "executing"
    /\ runs' = SetLog(SetStatus(r, "failed"), r, Current(c), "failed")
    /\ Finish(c)
    /\ UNCHANGED <<workflow, world, history>>

Ends(c) ==
    /\ exec[c].pc = "between" /\ exec[c].left = <<>>
    /\ runs' = SetStatus(exec[c].run, "success")
    /\ Finish(c)
    /\ UNCHANGED <<workflow, world, history>>

(* The client of a handler goes away: its future is dropped where it       *)
(* waits, for the lock or inside a step.                                   *)
Dropped(c) ==
    /\ exec[c].pc \in {"ready", "executing"}
    /\ Finish(c)
    /\ cut' = cut \cup {exec[c].run}
    /\ UNCHANGED <<workflow, runs, world, approvals>>

Restart ==
    /\ \E c \in Callers : exec[c] # Idle
    /\ exec' = [c \in Callers |-> Idle]
    /\ lock' = Nobody
    /\ cut' = cut \cup ({exec[c].run : c \in Callers} \ {0})
    /\ UNCHANGED <<workflow, runs, world, approvals>>

(***************************************************************************)
(* The workflow itself, and time.  A save keeps the cron expression.       *)
(***************************************************************************)
Save(def) ==
    /\ Free /\ edits < MaxEdits
    /\ workflow' = def
    /\ edits' = edits + 1
    /\ UNCHANGED <<runs, lock, exec, due, fired, history>>

Delete ==
    /\ Free /\ edits < MaxEdits
    /\ workflow' = NoWorkflow
    /\ runs' = [r \in DOMAIN runs |-> [runs[r] EXCEPT !.status = "deleted"]]
    /\ edits' = edits + 1
    /\ UNCHANGED <<lock, exec, due, fired, history>>

Fires ==
    /\ fired < MaxFirings
    /\ fired' = fired + 1
    /\ due' = due \cup {fired'}
    /\ UNCHANGED <<workflow, runs, lock, exec, edits, history>>

(* 70 s after a firing; a run that started while it was due stays recent   *)
(* until then.                                                             *)
Passed(f) ==
    /\ \A g \in due : f <= g
    /\ due' = due \ {f}
    /\ UNCHANGED <<workflow, runs, lock, exec, fired, edits, history>>

Engine(c) == Sort(c) \/ Waits(c) \/ StepStarts(c) \/ StepOk(c) \/ StepFails(c) \/ Ends(c)

Next ==
    \/ CronCollect \/ CronFire
    \/ \E c \in Handlers :
          ManualRun(c) \/ Enters(c) \/ Dropped(c) \/ \E r \in DOMAIN runs : Approve(c, r)
    \/ \E c \in Callers : Engine(c)
    \/ Restart \/ Delete \/ \E def \in Definitions : Save(def)
    \/ Fires \/ \E f \in due : Passed(f)

Spec == Init /\ [][Next]_vars

(* The lock is fair and every await of a step has a time limit.            *)
Fairness ==
    /\ \A c \in Callers : WF_vars(Engine(c))
    /\ \A c \in Handlers : SF_vars(Enters(c))

FairSpec == Spec /\ Fairness

(***************************************************************************)
(* Properties.                                                             *)
(***************************************************************************)
(* topo_sort puts every step behind all it depends on, and fails only if   *)
(* there is no such order, whatever the order of the lists in the YAML.    *)
OrderIsRight ==
    \A c \in Callers : exec[c].pc = "entered" =>
       /\ Complete(Deps(c), exec[c].search) => IsOrder(Deps(c), exec[c].search.order)
       /\ Refused(Deps(c), exec[c].search) => ~Orderable(Deps(c))

(* A step and what it depends on, directly or not: what every set has that *)
(* has the step and, with each step, what that depends on.                 *)
Closed(deps, S) == \A d \in S \cap Steps : deps[d] \subseteq S

Before(deps, s) ==
    {d \in Steps \cup {Missing} :
        \A S \in SUBSET (Steps \cup {Missing}) : s \in S /\ Closed(deps, S) => d \in S}

(* human_approval_at: neither the gate nor a step behind it is executed in *)
(* a run that nobody approved, whichever of the callers executes it.       *)
GateHolds ==
    \A c \in Callers :
        exec[c].pc = "executing" =>
            \/ approvals[exec[c].run] > 0
            \/ exec[c].def.gate \notin Before(exec[c].def.deps, Current(c))

(* A run is executed by one caller at a time: two approvals at once, or an *)
(* approval of a run that is still going on, do not start it twice.        *)
OneEngine ==
    \A c, d \in Callers : c # d /\ exec[c].run = exec[d].run => exec[c].run = 0

(* The windows of successive ticks overlap (70 s every 60 s), and still no *)
(* firing is the reason of two runs.                                       *)
CronOnce ==
    Cardinality({r \in DOMAIN runs : runs[r].source = "cron" /\ runs[r].status # "deleted"})
        <= fired

(* A run is a success only if the last log of every step is one, also      *)
(* after a gate, an approval and an edit of the workflow in between.       *)
SuccessMeansAll ==
    \A r \in DOMAIN runs :
        runs[r].status = "success" => \A s \in Steps : runs[r].log[s] = "success"

Running(r) == r \in DOMAIN runs /\ runs[r].status = "running"

(* Every run that nothing cuts off leaves "running" (the comment in the    *)
(* trigger tick promises it of the runs it starts).                        *)
RunsEnd == \A r \in 1..MaxRuns : Running(r) ~> (~Running(r) \/ r \in cut)
=============================================================================
