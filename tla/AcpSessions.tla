---------------------------- MODULE AcpSessions ----------------------------
(***************************************************************************)
(* The ACP sessions of a daemon: the table of sessions that the GUI and    *)
(* other agents address, the registry of agent processes behind it, the    *)
(* requests that create, prompt and close sessions, and the reaper.        *)
(*                                                                         *)
(* Two locks are held across an await: that of the table while a prompt    *)
(* spawns the agent of its session, and that of the registry for a whole   *)
(* turn.  A request is a program counter that moves once between two       *)
(* awaits.  The handler of a request whose client goes away is dropped     *)
(* where it waits; a prompt, a heartbeat and the reaper are tasks of the   *)
(* daemon.                                                                 *)
(*                                                                         *)
(* What a turn does is in AcpRpc: it answers, fails, or, with an agent     *)
(* that died before, never ends.                                           *)
(***************************************************************************)
EXTENDS Naturals, FiniteSets

CONSTANTS
    Requests,   \* calls and tasks in the daemon
    Labels,     \* agents that are local peers: session labels
    None,       \* no label, no request
    ClientsLeave,   \* clients go away before they have their answer
    MaxSessions,    \* bound: sessions made
    MaxAgents,  \* bound: agents spawned
    MaxDeaths,  \* bound: agents that die by themselves
    MaxAsks     \* bound: agents that ask another agent during a turn

ASSUME AcpAssumption ==
    /\ IsFiniteSet(Requests) /\ None \notin Requests /\ None \notin Labels
    /\ ClientsLeave \in BOOLEAN
    /\ MaxSessions \in Nat /\ MaxAgents \in Nat /\ MaxDeaths \in Nat /\ MaxAsks \in Nat

Sids == 1..MaxSessions
Handles == 1..MaxAgents
NoId == 0

Kinds == {"create", "prompt", "task", "heartbeat", "close", "reap"}

VARIABLES
    sessions,   \* AcpHttpState.next_session: how many were made
    spawned,    \* AcpToolsInner.next_agent: how many were spawned
    session,    \* AcpHttpState.sessions
    proc,       \* the agent processes
    agents,     \* AcpToolsInner.agents
    table,      \* the request that holds the lock of sessions across an await
    turn,       \* the request that holds the lock of agents: its turn runs
    req,        \* the requests
    peers,      \* session_identifier and session_status of the labels' rows
    owed,       \* history: requests whose answer is not yet recorded
    orphans,    \* history: agents whose request was dropped before a session
                \* had them, or after
    stuck,      \* history: sessions whose request was dropped before the guard
    deaths, asks

ids == <<sessions, spawned>>
left == <<orphans, stuck>>
rest == <<left, deaths, asks>>
vars == <<ids, session, proc, agents, table, turn, req, peers, owed, rest>>

Session == [open : BOOLEAN, label : Labels \cup {None}, handle : Handles \cup {NoId},
            busy : BOOLEAN, stale : BOOLEAN]

Closed == [open |-> FALSE, label |-> None, handle |-> NoId, busy |-> FALSE, stale |-> FALSE]

Stages == {"idle", "find", "spawn", "register", "insert", "bridge", "admit", "rebridge",
           "queue", "turn", "record", "remove", "unbridge", "kill", "reap"}

Request == [kind : Kinds, pc : Stages, label : Labels \cup {None}, always : BOOLEAN,
            sid : Sids \cup {NoId}, handle : Handles \cup {NoId}, todo : SUBSET Sids,
            parent : Requests \cup {None}]

Idle == [kind |-> "create", pc |-> "idle", label |-> None, always |-> FALSE,
         sid |-> NoId, handle |-> NoId, todo |-> {}, parent |-> None]

(* A session that is not open has no data.                                 *)
TypeOK ==
    /\ sessions \in 0..MaxSessions /\ spawned \in 0..MaxAgents
    /\ session \in [Sids -> Session]
    /\ \A s \in Sids : ~session[s].open => session[s] = Closed
    /\ proc \in [Handles -> {"free", "up", "failed", "dead"}]
    /\ agents \subseteq Handles
    /\ table \in Requests \cup {None} /\ turn \in Requests \cup {None}
    /\ req \in [Requests -> Request]
    /\ peers \in [Labels -> [marker : Sids \cup {NoId}, active : BOOLEAN]]
    /\ owed \subseteq Requests /\ orphans \subseteq Handles /\ stuck \subseteq Sids
    /\ deaths \in 0..MaxDeaths /\ asks \in 0..MaxAsks

Init ==
    /\ sessions = 0 /\ spawned = 0
    /\ session = [s \in Sids |-> Closed]
    /\ proc = [h \in Handles |-> "free"]
    /\ agents = {}
    /\ table = None /\ turn = None
    /\ req = [r \in Requests |-> Idle]
    /\ peers = [l \in Labels |-> [marker |-> NoId, active |-> FALSE]]
    /\ owed = {} /\ orphans = {} /\ stuck = {}
    /\ deaths = 0 /\ asks = 0

At(r, stage) == req[r].pc = stage
Goes(r, stage) == req' = [req EXCEPT ![r].pc = stage]

(* The request ends; a reaper goes on with its list.                       *)
Ended(q) == IF q.kind = "reap" THEN [Idle EXCEPT !.kind = "reap", !.pc = "reap", !.todo = q.todo]
            ELSE Idle
Ends(r) == req' = [req EXCEPT ![r] = Ended(@)]

(* Sessions that may still be made: those that requests are about to make  *)
(* are counted, so that the bound stops nobody half way.                   *)
Making == {r \in Requests : req[r].pc \in {"find", "spawn", "register", "insert"} /\ table # r}
Room == sessions + Cardinality(Making) < MaxSessions

(***************************************************************************)
(* Requests come in.                                                       *)
(***************************************************************************)
Begin(r, q) ==
    /\ At(r, "idle")
    /\ req' = [req EXCEPT ![r] = q]
    /\ owed' = owed \ {r}
    /\ UNCHANGED <<ids, session, proc, agents, table, turn, peers>>

(* POST /v1/acp/sessions                                                   *)
CreateComes(r) ==
    /\ Room
    /\ \E l \in Labels \cup {None}, always \in BOOLEAN :
          Begin(r, [Idle EXCEPT !.pc = "find", !.label = l, !.always = always])
    /\ UNCHANGED rest

(* POST /v1/acp/sessions/{id}/prompt                                       *)
PromptComes(r) ==
    /\ \E s \in Sids :
          session[s].open /\ Begin(r, [Idle EXCEPT !.kind = "prompt", !.pc = "admit", !.sid = s])
    /\ UNCHANGED rest

(* handle_task, in a session it names or in that of the agent.             *)
Task(r, parent) ==
    \E l \in Labels :
       LET q == [Idle EXCEPT !.kind = "task", !.label = l, !.always = TRUE, !.parent = parent]
       IN \/ Room /\ Begin(r, [q EXCEPT !.pc = "find"])
          \/ \E s \in Sids :
                /\ session[s].open /\ session[s].label = l /\ table = None
                /\ Begin(r, [q EXCEPT !.pc = "admit", !.sid = s])

TaskComes(r) == Task(r, None) /\ UNCHANGED rest

(* ask_agent: the agent of a running turn waits for the answer.            *)
Ask(r) ==
    /\ asks < MaxAsks
    /\ turn # None /\ At(turn, "turn") /\ proc[req[turn].handle] = "up"
    /\ Task(r, turn)
    /\ asks' = asks + 1
    /\ UNCHANGED <<left, deaths>>

(* The daemon has one heartbeat and one reaper.                            *)
NoOther(kind) == \A q \in Requests : req[q].kind # kind

(* heartbeat_wake                                                          *)
HeartbeatComes(r) ==
    /\ Room /\ NoOther("heartbeat")
    /\ Begin(r, [Idle EXCEPT !.kind = "heartbeat", !.pc = "spawn", !.always = TRUE])
    /\ UNCHANGED rest

(* DELETE, close:<id>, close_by_label                                      *)
CloseComes(r) ==
    /\ \E s \in Sids :
          session[s].open /\ Begin(r, [Idle EXCEPT !.kind = "close", !.pc = "remove", !.sid = s])
    /\ UNCHANGED rest

(* reap_idle: the list is made under the lock and used without it.         *)
Stale(s) == session[s].open /\ session[s].handle # NoId /\ session[s].stale /\ ~session[s].busy

ReapComes(r) ==
    /\ table = None /\ NoOther("reap")
    /\ \E s \in Sids : Stale(s)
    /\ Begin(r, [Idle EXCEPT !.kind = "reap", !.pc = "reap", !.todo = {s \in Sids : Stale(s)}])
    /\ UNCHANGED rest

Arrives(r) ==
    \/ CreateComes(r) \/ PromptComes(r) \/ TaskComes(r) \/ Ask(r)
    \/ HeartbeatComes(r) \/ CloseComes(r) \/ ReapComes(r)

(***************************************************************************)
(* create_session                                                          *)
(***************************************************************************)
(* Mutant: one that was idle for long passes for dead.                     *)
ReusableUnlessStale(s) ==
    session[s].handle = NoId \/ (proc[session[s].handle] = "up" /\ ~session[s].stale)

(* The session of the label is used again if its agent lives, or is not    *)
(* yet spawned; one whose agent is dead is taken out of the table.         *)
Reusable(s) == session[s].handle = NoId \/ proc[session[s].handle] = "up"

Find(r) ==
    /\ At(r, "find") /\ table = None
    /\ LET next == IF req[r].always THEN "spawn" ELSE "insert"
           same == {s \in Sids : session[s].open /\ session[s].label = req[r].label}
       IN IF req[r].label = None \/ same = {}
          THEN Goes(r, next) /\ UNCHANGED session
          ELSE \E s \in same :
                  IF Reusable(s)
                  THEN /\ session' = [session EXCEPT ![s].stale = FALSE]
                       /\ IF req[r].kind = "task"
                          THEN req' = [req EXCEPT ![r].pc = "admit", ![r].sid = s]
                          ELSE Ends(r)
                  ELSE session' = [session EXCEPT ![s] = Closed] /\ Goes(r, next)
    /\ UNCHANGED <<ids, proc, agents, table, turn, peers, owed, rest>>

(* spawn_handle: a process is started and initialized, or it fails.        *)
Spawn(r) ==
    /\ At(r, "spawn")
    /\ spawned' = spawned + 1 /\ spawned' \in Handles
    /\ proc' = [proc EXCEPT ![spawned'] = "up"]
    /\ req' = [req EXCEPT ![r].pc = "register", ![r].handle = spawned']
    /\ UNCHANGED <<sessions, session, agents, table, turn, peers, owed, rest>>

(* Mutant: the table stays locked.                                         *)
SpawnFailsLocked(r) ==
    /\ At(r, "spawn")
    /\ Ends(r)
    /\ UNCHANGED <<ids, session, proc, agents, table, turn, peers, owed, rest>>

SpawnFails(r) ==
    /\ At(r, "spawn")
    /\ Ends(r)
    /\ table' = IF table = r THEN None ELSE table
    /\ UNCHANGED <<ids, session, proc, agents, turn, peers, owed, rest>>

Admitted(s, h) == [session EXCEPT ![s].handle = h, ![s].busy = TRUE, ![s].stale = FALSE]

(* It is registered, which waits for a turn to end.  A prompt that holds   *)
(* the table enters the handle and marks its session.                      *)
Register(r) ==
    /\ At(r, "register") /\ turn = None
    /\ agents' = agents \cup {req[r].handle}
    /\ IF table = r
       THEN /\ session' = Admitted(req[r].sid, req[r].handle)
            /\ table' = None
            /\ Goes(r, "rebridge")
       ELSE Goes(r, "insert") /\ UNCHANGED <<session, table>>
    /\ UNCHANGED <<ids, proc, turn, peers, owed, rest>>

Insert(r) ==
    /\ At(r, "insert") /\ table = None
    /\ sessions' = sessions + 1
    /\ session' = [session EXCEPT ![sessions'] =
          [Closed EXCEPT !.open = TRUE, !.label = req[r].label, !.handle = req[r].handle]]
    /\ req' = [req EXCEPT ![r].pc = "bridge", ![r].sid = sessions']
    /\ UNCHANGED <<spawned, proc, agents, table, turn, peers, owed, rest>>

(* bridge_session_as_peer                                                  *)
Bridged(r) ==
    IF req[r].label = None THEN peers
    ELSE [peers EXCEPT ![req[r].label] = [marker |-> req[r].sid, active |-> TRUE]]

Bridge(r) ==
    /\ At(r, "bridge")
    /\ peers' = Bridged(r)
    /\ IF req[r].kind = "create" THEN Ends(r)
       ELSE req' = [req EXCEPT ![r].pc = "admit", ![r].handle = NoId]
    /\ UNCHANGED <<ids, session, proc, agents, table, turn, owed, rest>>

(***************************************************************************)
(* prompt                                                                  *)
(***************************************************************************)
(* A heartbeat closes its session however its prompt ended.                *)
PromptOver(q) == IF q.kind = "heartbeat" THEN [q EXCEPT !.pc = "remove", !.handle = NoId]
                 ELSE Ended(q)

(* The session is looked up.  One without an agent gets it under the lock. *)
Admit(r) ==
    /\ At(r, "admit") /\ table = None
    /\ LET s == req[r].sid
           q == [req[r] EXCEPT !.label = session[s].label, !.handle = session[s].handle]
       IN IF ~session[s].open
          THEN req' = [req EXCEPT ![r] = PromptOver(@)] /\ UNCHANGED <<session, table>>
          ELSE IF session[s].handle = NoId
          THEN /\ req' = [req EXCEPT ![r] = [q EXCEPT !.pc = "spawn"]]
               /\ table' = r
               /\ UNCHANGED session
          ELSE /\ session' = Admitted(s, session[s].handle)
               /\ req' = [req EXCEPT ![r] = [q EXCEPT !.pc = "queue"]]
               /\ UNCHANGED table
    /\ UNCHANGED <<ids, proc, agents, turn, peers, owed, rest>>

(* The peer row again, after the lock; only now is the guard built that    *)
(* clears the mark.                                                        *)
Rebridge(r) ==
    /\ At(r, "rebridge")
    /\ peers' = Bridged(r)
    /\ Goes(r, "queue")
    /\ UNCHANGED <<ids, session, proc, agents, table, turn, owed, rest>>

(* Mutant: only a turn that went well clears the mark.                     *)
UnmarkedIfWell(r) ==
    IF proc[req[r].handle] = "up" THEN [session EXCEPT ![req[r].sid].busy = FALSE] ELSE session

(* InFlightGuard is dropped: the mark is one bit of the session.           *)
Unmarked(r) == [session EXCEPT ![req[r].sid].busy = FALSE]

(* acp_prompt_streaming: the agent is looked up under the lock that the    *)
(* turn then holds.                                                        *)
StartTurn(r) ==
    /\ At(r, "queue") /\ turn = None
    /\ IF req[r].handle \in agents
       THEN turn' = r /\ Goes(r, "turn") /\ UNCHANGED session
       ELSE /\ session' = Unmarked(r)
            /\ req' = [req EXCEPT ![r] = PromptOver(@)]
            /\ UNCHANGED turn
    /\ UNCHANGED <<ids, proc, agents, table, peers, owed, rest>>

(* The agent has answered; it does not while it waits for another one.     *)
Waits(r) == \E q \in Requests : req[q].parent = r

TurnAnswered(r) ==
    /\ At(r, "turn") /\ proc[req[r].handle] = "up" /\ ~Waits(r)
    /\ turn' = None
    /\ session' = Unmarked(r)
    /\ IF req[r].kind = "heartbeat" \/ req[r].label = None
       THEN req' = [req EXCEPT ![r] = PromptOver(@)] /\ UNCHANGED owed
       ELSE Goes(r, "record") /\ owed' = owed \cup {r}
    /\ UNCHANGED <<ids, proc, agents, table, peers, rest>>

(* The turn of r is gone, with the agent's question if it had one.         *)
Becomes(r, q) ==
    req' = [x \in Requests |-> IF x = r THEN q
                               ELSE IF req[x].parent = r THEN [req[x] EXCEPT !.parent = None]
                               ELSE req[x]]

Buried(h) == [proc EXCEPT ![h] = IF @ = "failed" THEN "dead" ELSE @]

(* It has died in the turn, or reported an error.                          *)
TurnFails(r) ==
    /\ At(r, "turn")
    /\ LET p == proc[req[r].handle] IN p = "failed" \/ (p = "up" /\ ~Waits(r))
    /\ turn' = None
    /\ session' = Unmarked(r)
    /\ proc' = Buried(req[r].handle)
    /\ Becomes(r, PromptOver(req[r]))
    /\ UNCHANGED <<ids, agents, table, peers, owed, rest>>

(* Mutant: handle_task looks for its session too.                          *)
RecordIfOpen(r) ==
    /\ At(r, "record") /\ table = None
    /\ owed' = IF session[req[r].sid].open THEN owed \ {r} ELSE owed
    /\ Ends(r)
    /\ UNCHANGED <<ids, session, proc, agents, table, turn, peers, rest>>

(* run_acp_turn looks for the label of its session again; handle_task has  *)
(* kept it.                                                                *)
Record(r) ==
    /\ At(r, "record")
    /\ \/ /\ req[r].kind = "task"
          /\ owed' = owed \ {r}
       \/ /\ req[r].kind = "prompt" /\ table = None
          /\ owed' = IF session[req[r].sid].open THEN owed \ {r} ELSE owed
    /\ Ends(r)
    /\ UNCHANGED <<ids, session, proc, agents, table, turn, peers, rest>>

(***************************************************************************)
(* close                                                                   *)
(***************************************************************************)
(* reap_idle: the next session of the list.                                *)
ReapNext(r) ==
    /\ At(r, "reap")
    /\ IF req[r].todo = {} THEN req' = [req EXCEPT ![r] = Idle]
       ELSE \E s \in req[r].todo :
               req' = [req EXCEPT ![r].pc = "remove", ![r].sid = s, ![r].todo = @ \ {s}]
    /\ UNCHANGED <<ids, session, proc, agents, table, turn, peers, owed, rest>>

Remove(r) ==
    /\ At(r, "remove") /\ table = None
    /\ LET s == req[r].sid IN
       IF session[s].open
       THEN /\ session' = [session EXCEPT ![s] = Closed]
            /\ req' = [req EXCEPT ![r].pc = "unbridge", ![r].label = session[s].label,
                                  ![r].handle = session[s].handle]
       ELSE Ends(r) /\ UNCHANGED session
    /\ UNCHANGED <<ids, proc, agents, table, turn, peers, owed, rest>>

(* unbridge_session_peer: the marker goes if it is that of the session.    *)
Unbridge(r) ==
    /\ At(r, "unbridge")
    /\ peers' = IF req[r].label = None THEN peers
                ELSE [peers EXCEPT ![req[r].label] =
                        [marker |-> IF @.marker = req[r].sid THEN NoId ELSE @.marker,
                         active |-> FALSE]]
    /\ IF req[r].handle = NoId THEN Ends(r) ELSE Goes(r, "kill")
    /\ UNCHANGED <<ids, session, proc, agents, table, turn, owed, rest>>

(* Mutant: the agent is killed at once.                                    *)
KillAtOnce(r) ==
    /\ At(r, "kill")
    /\ agents' = agents \ {req[r].handle}
    /\ proc' = [proc EXCEPT ![req[r].handle] = "free"]
    /\ Ends(r)
    /\ UNCHANGED <<ids, session, table, turn, peers, owed, rest>>

(* acp_close waits for the turn that runs.                                 *)
Kill(r) ==
    /\ At(r, "kill") /\ turn = None
    /\ agents' = agents \ {req[r].handle}
    /\ proc' = [proc EXCEPT ![req[r].handle] = "free"]
    /\ Ends(r)
    /\ UNCHANGED <<ids, session, table, turn, peers, owed, rest>>

(***************************************************************************)
(* A client goes away: its handler is dropped where it waits, and with it  *)
(* the locks and guards it has, and an agent that is not yet registered.   *)
(***************************************************************************)
Droppable(r) ==
    /\ req[r].kind \in {"create", "task", "close"} /\ ~At(r, "idle")
    /\ req[r].parent # None => proc[req[req[r].parent].handle] # "up"

Drop(r) ==
    /\ ClientsLeave /\ Droppable(r)
    /\ proc' = IF At(r, "register") THEN [proc EXCEPT ![req[r].handle] = "free"]
               ELSE IF At(r, "turn") THEN Buried(req[r].handle) ELSE proc
    /\ session' = IF At(r, "queue") \/ At(r, "turn") THEN Unmarked(r) ELSE session
    /\ table' = IF table = r THEN None ELSE table
    /\ turn' = IF turn = r THEN None ELSE turn
    /\ Becomes(r, Idle)
    /\ owed' = owed \ {r}
    /\ orphans' = IF req[r].pc \in {"insert", "unbridge", "kill"} /\ req[r].handle # NoId
                  THEN orphans \cup {req[r].handle} ELSE orphans
    /\ stuck' = IF At(r, "rebridge") THEN stuck \cup {req[r].sid} ELSE stuck
    /\ UNCHANGED <<ids, agents, peers, deaths, asks>>

(***************************************************************************)
(* The world.                                                              *)
(***************************************************************************)
(* An agent dies.  A turn that runs on it fails; a later one never ends.   *)
AgentDies(h) ==
    /\ proc[h] = "up" /\ deaths < MaxDeaths /\ h \in agents
    /\ deaths' = deaths + 1
    /\ proc' = [proc EXCEPT ![h] = IF turn # None /\ req[turn].handle = h
                                   THEN "failed" ELSE "dead"]
    /\ UNCHANGED <<ids, session, agents, table, turn, req, peers, owed, left, asks>>

(* The idle time of a session runs out, also during a long turn.           *)
GoesIdle(s) ==
    /\ session[s].open /\ ~session[s].stale
    /\ session' = [session EXCEPT ![s].stale = TRUE]
    /\ UNCHANGED <<ids, proc, agents, table, turn, req, peers, owed, rest>>

Step(r) ==
    \/ Find(r) \/ Spawn(r) \/ SpawnFails(r) \/ Register(r) \/ Insert(r) \/ Bridge(r)
    \/ Admit(r) \/ Rebridge(r) \/ StartTurn(r) \/ TurnAnswered(r) \/ TurnFails(r) \/ Record(r)
    \/ ReapNext(r) \/ Remove(r) \/ Unbridge(r) \/ Kill(r)

Next ==
    \/ \E r \in Requests : Arrives(r) \/ Step(r) \/ Drop(r)
    \/ \E h \in Handles : AgentDies(h)
    \/ \E s \in Sids : GoesIdle(s)

Spec == Init /\ [][Next]_vars

(* The locks are first in, first out: whoever waits for one gets it if it  *)
(* is free again and again.  Turns end.                                    *)
FairSpec == Spec /\ \A r \in Requests : SF_vars(Step(r))

(***************************************************************************)
(* Properties.                                                             *)
(***************************************************************************)
(* The agent of a turn stays registered until the turn is over: nobody     *)
(* kills it meanwhile, not even the reaper (daemon_gui_acp.rs:364).        *)
TurnOnRegistered ==
    turn # None => At(turn, "turn") /\ req[turn].handle \in agents

(* An agent that lives belongs to an open session, or a request has it in  *)
(* hand (docs/research/acp-core-integration.md:164): but for those that a  *)
(* client left behind between the registry and the table, nobody's agent   *)
(* lives on.                                                               *)
Holding == {"register", "insert", "unbridge", "kill"}
LiveAgentsOwned ==
    \A h \in Handles : proc[h] = "up" =>
        \/ \E s \in Sids : session[s].open /\ session[s].handle = h
        \/ \E r \in Requests : req[r].pc \in Holding /\ req[r].handle = h
        \/ h \in orphans

(* Only a session that a prompt uses is marked, so that the reaper gets    *)
(* the others (daemon_gui_acp.rs:100): but for those whose client left     *)
(* between mark and guard, no way to end a prompt leaves a mark.           *)
NoStuckBusy ==
    \A s \in Sids : session[s].busy =>
        \/ \E r \in Requests : req[r].pc \in {"rebridge", "queue", "turn"} /\ req[r].sid = s
        \/ s \in stuck

(* A task's answer is in the thread when the task is over, also if its     *)
(* session was closed meanwhile (daemon_gui_a2a.rs:889).                   *)
TaskAnswersKept ==
    [][\A r \in Requests : At(r, "record") /\ req[r].kind = "task" /\ ~At(r, "record")'
                               => r \notin owed']_vars

(* Every request ends: nobody waits for ever for the table, the registry,  *)
(* or a session, unless a turn has the registry that cannot end, its agent *)
(* dead before it began or waiting for another one.                        *)
Blocked == IF turn = None THEN FALSE ELSE proc[req[turn].handle] = "dead" \/ Waits(turn)
RequestsEnd == \A r \in Requests : ~At(r, "idle") ~> At(r, "idle") \/ Blocked
=============================================================================
