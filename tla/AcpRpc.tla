------------------------------- MODULE AcpRpc -------------------------------
(***************************************************************************)
(* The JSON-RPC peer of one ACP agent, a child process: a writer task that *)
(* feeds its stdin, a reader task that parses its stdout, the dispatch     *)
(* loop that routes what was read, and the turns that use them             *)
(* (session/new, a listener for the updates of the session, then           *)
(* session/prompt).                                                        *)
(*                                                                         *)
(* A channel and the pipe behind it are one queue.  The lock over the      *)
(* agents allows one turn at a time; a turn whose caller goes away is      *)
(* dropped where it waits, and the agent still works on it when the next   *)
(* one begins.  initialize is over; cancel is a notification, and an agent *)
(* may end its prompt early without one.                                   *)
(***************************************************************************)
EXTENDS Naturals, Sequences, FiniteSets

CONSTANTS
    MaxIds,     \* bound: requests
    MaxUpdates, \* bound: updates of one prompt
    MaxGarbled  \* bound: lines on stdout that are no JSON

ASSUME RpcAssumption == MaxIds \in Nat /\ MaxUpdates \in Nat /\ MaxGarbled \in Nat

(* A session has the id of the session/new that opened it.                 *)
Ids == 1..MaxIds
Unset == 0

(* A frame carries a request id, or the session and the number of an       *)
(* update; number 0 is an update from before the prompt.                   *)
ToAgent == [kind : {"new", "prompt", "allow"}, id : Ids, session : Ids \cup {Unset}]
FromAgent ==
    [kind : {"result", "error", "ask"}, id : Ids] \cup [kind : {"garbled"}]
      \cup [kind : {"update"}, session : Ids, number : 0..MaxUpdates]

VARIABLES
    alive,      \* the agent process
    stdin,      \* frames on their way to it
    stdout,     \* frames on their way from it
    writing,    \* the writer task runs
    dispatching,\* the dispatch loop runs
    nextId,     \* next_id
    pending,    \* ids with a oneshot sender in the pending map
    outcome,    \* what the oneshot of each id received
    listeners,  \* sessions with a listener
    updates,    \* updates that wait in the receiver of the turn's session
    serving,    \* sessions whose permission request a spawned task serves
    rpcTurn,    \* the turn
    work,       \* the agent's sessions: the prompt, how far it is
    garbled,    \* lines on stdout that were no JSON
    answered    \* history: ids the agent answered

rpcVars == <<alive, stdin, stdout, writing, dispatching, nextId, pending, outcome,
             listeners, updates, serving, rpcTurn, work, garbled, answered>>

NoTurn == [pc |-> "idle", id |-> Unset, session |-> Unset, collected |-> <<>>]
NoWork == [stage |-> "none", prompt |-> Unset, emitted |-> 0]

(* Types; an id is parked at most until its oneshot received something.    *)
RpcTypeOK ==
    /\ {alive, writing, dispatching} \subseteq BOOLEAN
    /\ stdin \in Seq(ToAgent) /\ stdout \in Seq(FromAgent)
    /\ nextId \in 1..(MaxIds + 1)
    /\ pending \subseteq 1..(nextId - 1)
    /\ outcome \in [Ids -> {"none", "result", "error", "gone"}]
    /\ \A i \in pending : outcome[i] = "none"
    /\ listeners \subseteq Ids /\ serving \subseteq Ids
    /\ updates \in Seq(0..MaxUpdates)
    /\ rpcTurn \in [pc : {"idle", "opening", "opened", "prompting", "done"}, id : Ids \cup {Unset},
                    session : Ids \cup {Unset}, collected : Seq(0..MaxUpdates)]
    /\ work \in [Ids -> [stage : {"none", "open", "prompting", "asking"},
                         prompt : Ids \cup {Unset}, emitted : 0..MaxUpdates]]
    /\ garbled \in 0..MaxGarbled
    /\ answered \subseteq 1..(nextId - 1)

RpcInit ==
    /\ alive = TRUE /\ writing = TRUE /\ dispatching = TRUE
    /\ stdin = <<>> /\ stdout = <<>>
    /\ nextId = 1
    /\ pending = {}
    /\ outcome = [i \in Ids |-> "none"]
    /\ listeners = {} /\ updates = <<>> /\ serving = {}
    /\ rpcTurn = NoTurn
    /\ work = [s \in Ids |-> NoWork]
    /\ garbled = 0
    /\ answered = {}

peer == <<pending, outcome, listeners, updates>>
agent == <<alive, work, garbled, answered>>

(***************************************************************************)
(* A turn.                                                                 *)
(***************************************************************************)
(* RpcPeer::request: the id is parked, then the frame goes to the writer;  *)
(* a writer that has ended makes the request fail at once.                 *)
RpcRequest(kind, session) ==
    /\ nextId \in Ids
    /\ nextId' = nextId + 1
    /\ IF writing
       THEN /\ pending' = pending \cup {nextId}
            /\ stdin' = Append(stdin, [kind |-> kind, id |-> nextId, session |-> session])
       ELSE UNCHANGED <<pending, stdin>>

(* AcpClient::session_new                                                  *)
BeginTurn ==
    /\ rpcTurn.pc \in {"idle", "done"}
    /\ RpcRequest("new", Unset)
    /\ rpcTurn' = IF writing THEN [NoTurn EXCEPT !.pc = "opening", !.id = nextId] ELSE NoTurn
    /\ updates' = <<>>
    /\ UNCHANGED <<agent, stdout, writing, dispatching, outcome, listeners, serving>>

(* AcpSession::new: the session has a listener only now.                   *)
Open ==
    /\ rpcTurn.pc = "opening" /\ outcome[rpcTurn.id] = "result"
    /\ rpcTurn' = [rpcTurn EXCEPT !.pc = "opened", !.session = rpcTurn.id]
    /\ listeners' = listeners \cup {rpcTurn.id}
    /\ UNCHANGED <<agent, stdin, stdout, writing, dispatching, nextId, pending, outcome,
                   updates, serving>>

(* AcpSession::prompt_streaming                                            *)
Prompt ==
    /\ rpcTurn.pc = "opened"
    /\ RpcRequest("prompt", rpcTurn.session)
    /\ rpcTurn' = IF writing THEN [rpcTurn EXCEPT !.pc = "prompting", !.id = nextId] ELSE NoTurn
    /\ UNCHANGED <<agent, stdout, writing, dispatching, outcome, listeners, updates, serving>>

(* One side of its select!: an update is collected.                        *)
Collect ==
    /\ rpcTurn.pc = "prompting" /\ updates # <<>>
    /\ rpcTurn' = [rpcTurn EXCEPT !.collected = Append(@, Head(updates))]
    /\ updates' = Tail(updates)
    /\ UNCHANGED <<agent, stdin, stdout, writing, dispatching, nextId, pending, outcome,
                   listeners, serving>>

(* Mutant: what waits in the receiver is left there.                       *)
FinishAtOnce ==
    /\ rpcTurn.pc = "prompting" /\ outcome[rpcTurn.id] = "result"
    /\ rpcTurn' = [rpcTurn EXCEPT !.pc = "done"]
    /\ UNCHANGED <<agent, stdin, stdout, writing, dispatching, nextId, pending, outcome,
                   listeners, updates, serving>>

(* The other side: the prompt is answered, what waits is collected too.    *)
Finish ==
    /\ rpcTurn.pc = "prompting" /\ outcome[rpcTurn.id] = "result"
    /\ rpcTurn' = [rpcTurn EXCEPT !.pc = "done", !.collected = @ \o updates]
    /\ updates' = <<>>
    /\ UNCHANGED <<agent, stdin, stdout, writing, dispatching, nextId, pending, outcome,
                   listeners, serving>>

(* AgentExited, or the error that the agent answered                       *)
Fail ==
    /\ rpcTurn.pc \in {"opening", "prompting"} /\ outcome[rpcTurn.id] \in {"error", "gone"}
    /\ rpcTurn' = NoTurn
    /\ updates' = <<>>
    /\ UNCHANGED <<agent, stdin, stdout, writing, dispatching, nextId, pending, outcome,
                   listeners, serving>>

(* The caller goes away: the turn is dropped where it waits, and leaves    *)
(* its id in the pending map.                                              *)
DropTurn ==
    /\ rpcTurn.pc \in {"opening", "opened", "prompting"}
    /\ rpcTurn' = NoTurn
    /\ updates' = <<>>
    /\ UNCHANGED <<agent, stdin, stdout, writing, dispatching, nextId, pending, outcome,
                   listeners, serving>>

(* AcpSession::drop removes its listener on a task of its own.             *)
DropListener ==
    /\ \E s \in listeners :
          /\ s # rpcTurn.session \/ rpcTurn.pc = "done"
          /\ listeners' = listeners \ {s}
    /\ UNCHANGED <<agent, stdin, stdout, writing, dispatching, nextId, pending, outcome,
                   updates, serving, rpcTurn>>

(***************************************************************************)
(* The dispatch loop.                                                      *)
(***************************************************************************)
(* Mutant: a result goes to the request that is waiting, whatever its id.  *)
ResultToNewest(f) ==
    /\ f.kind \in {"result", "error"}
    /\ LET i == IF pending = {} THEN f.id ELSE CHOOSE j \in pending : \A k \in pending : k <= j
       IN /\ pending' = pending \ {i}
          /\ outcome' = IF i \in pending THEN [outcome EXCEPT ![i] = f.kind] ELSE outcome
    /\ UNCHANGED <<updates, serving>>

(* dispatch_response: an id that is not parked is logged and ignored.      *)
Result(f) ==
    /\ f.kind \in {"result", "error"}
    /\ pending' = pending \ {f.id}
    /\ outcome' = IF f.id \in pending THEN [outcome EXCEPT ![f.id] = f.kind] ELSE outcome
    /\ UNCHANGED <<updates, serving>>

(* dispatch_notification: an update for a session without a listener is    *)
(* dropped.  The receiver of a session whose turn is over is gone.         *)
Update(f) ==
    /\ f.kind = "update"
    /\ updates' = IF f.session \in listeners /\ f.session = rpcTurn.session
                  THEN Append(updates, f.number) ELSE updates
    /\ UNCHANGED <<pending, outcome, serving>>

(* dispatch_request: a task of its own serves it.                          *)
Permission(f) ==
    /\ f.kind = "ask"
    /\ serving' = serving \cup {f.id}
    /\ UNCHANGED <<pending, outcome, updates>>

Route ==
    /\ dispatching /\ stdout # <<>>
    /\ LET f == Head(stdout) IN Result(f) \/ Update(f) \/ Permission(f)
    /\ stdout' = Tail(stdout)
    /\ UNCHANGED <<agent, stdin, writing, dispatching, nextId, listeners, rpcTurn>>

(* Mutant: the loop ends without a word.                                   *)
EndQuietly == UNCHANGED <<pending, outcome>>

(* Every request in the map fails, once.                                   *)
FailPending ==
    /\ pending' = {}
    /\ outcome' = [i \in Ids |-> IF i \in pending THEN "gone" ELSE outcome[i]]

(* The loop ends with the stream, or at a line that is no JSON.            *)
EndDispatch ==
    /\ dispatching
    /\ \/ stdout = <<>> /\ ~alive
       \/ stdout # <<>> /\ Head(stdout).kind = "garbled"
    /\ dispatching' = FALSE
    /\ stdout' = <<>>
    /\ FailPending
    /\ UNCHANGED <<agent, stdin, writing, nextId, listeners, updates, serving, rpcTurn>>

(* The handler's task answers the agent.                                   *)
Serve ==
    /\ \E s \in serving :
          /\ serving' = serving \ {s}
          /\ stdin' = IF writing THEN Append(stdin, [kind |-> "allow", id |-> s, session |-> s])
                                 ELSE stdin
    /\ UNCHANGED <<agent, stdout, writing, dispatching, nextId, peer, rpcTurn>>

(* The writer task ends at its first write to a pipe without a reader.     *)
WriteFails ==
    /\ ~alive /\ writing /\ stdin # <<>>
    /\ writing' = FALSE
    /\ stdin' = <<>>
    /\ UNCHANGED <<agent, stdout, dispatching, nextId, peer, serving, rpcTurn>>

(***************************************************************************)
(* The agent (its code is not part of the repository).  It keeps to the    *)
(* protocol, but may print a line that is no JSON, and may die.            *)
(***************************************************************************)
Printed(frames) == stdout' = IF dispatching THEN stdout \o frames ELSE stdout

Answer(i) == [kind |-> "result", id |-> i]
Refusal(i) == [kind |-> "error", id |-> i]
Updated(s, n) == [kind |-> "update", session |-> s, number |-> n]

(* It takes the next frame.  An opened session may be followed by updates. *)
AgentReads ==
    /\ alive /\ stdin # <<>>
    /\ LET f == Head(stdin) IN
       \/ /\ f.kind = "new"
          /\ answered' = answered \cup {f.id}
          /\ Printed(<<Refusal(f.id)>>)
          /\ UNCHANGED work
       \/ /\ f.kind = "new"
          /\ work' = [work EXCEPT ![f.id].stage = "open"]
          /\ answered' = answered \cup {f.id}
          /\ \E frames \in {<<Answer(f.id)>>, <<Answer(f.id), Updated(f.id, 0)>>} :
                Printed(frames)
       \/ /\ f.kind = "prompt"
          /\ work' = [work EXCEPT ![f.session].stage = "prompting", ![f.session].prompt = f.id]
          /\ UNCHANGED <<stdout, answered>>
       \/ /\ f.kind = "allow"
          /\ work' = [work EXCEPT ![f.session].stage = "prompting"]
          /\ UNCHANGED <<stdout, answered>>
    /\ stdin' = Tail(stdin)
    /\ UNCHANGED <<alive, garbled, writing, dispatching, nextId, peer, serving, rpcTurn>>

Working(s) == alive /\ work[s].stage = "prompting"
AgentOnly == UNCHANGED <<alive, stdin, writing, dispatching, nextId, peer, serving, rpcTurn>>

(* It works on a prompt: an update, with a tool call it asks permission.   *)
AgentUpdates(s) ==
    /\ Working(s) /\ work[s].emitted < MaxUpdates
    /\ LET n == work[s].emitted + 1 IN
       \/ /\ work' = [work EXCEPT ![s].emitted = n]
          /\ Printed(<<Updated(s, n)>>)
       \/ /\ work' = [work EXCEPT ![s].emitted = n, ![s].stage = "asking"]
          /\ Printed(<<Updated(s, n), [kind |-> "ask", id |-> s]>>)
    /\ UNCHANGED <<garbled, answered>> /\ AgentOnly

AgentEnds(s) ==
    /\ Working(s)
    /\ work' = [work EXCEPT ![s].stage = "none"]
    /\ answered' = answered \cup {work[s].prompt}
    /\ \E end \in {Answer(work[s].prompt), Refusal(work[s].prompt)} : Printed(<<end>>)
    /\ UNCHANGED garbled /\ AgentOnly

AgentGarbles ==
    /\ alive /\ garbled < MaxGarbled
    /\ garbled' = garbled + 1
    /\ Printed(<<[kind |-> "garbled"]>>)
    /\ UNCHANGED <<work, answered>> /\ AgentOnly

(* What it had not read is lost with its pipe, or still with the writer.   *)
AgentExits ==
    /\ alive
    /\ alive' = FALSE
    /\ \E n \in 0..Len(stdin) : stdin' = SubSeq(stdin, n + 1, Len(stdin))
    /\ UNCHANGED <<stdout, writing, dispatching, nextId, peer, serving, rpcTurn, work, garbled,
                   answered>>

AgentWorks == AgentReads \/ \E s \in Ids : AgentUpdates(s) \/ AgentEnds(s)

RpcNext ==
    \/ BeginTurn \/ Open \/ Prompt \/ Collect \/ Finish \/ Fail \/ DropTurn \/ DropListener
    \/ Route \/ EndDispatch \/ Serve \/ WriteFails
    \/ AgentWorks \/ AgentGarbles \/ AgentExits

RpcSpec == RpcInit /\ [][RpcNext]_rpcVars

(* Tasks that can run do, and an agent that lives answers what it reads.   *)
FairRpc ==
    /\ RpcSpec
    /\ WF_rpcVars(Open) /\ WF_rpcVars(Prompt) /\ WF_rpcVars(Finish) /\ WF_rpcVars(Fail)
    /\ WF_rpcVars(Route) /\ WF_rpcVars(EndDispatch) /\ WF_rpcVars(Serve) /\ WF_rpcVars(WriteFails)
    /\ WF_rpcVars(AgentReads) /\ \A s \in Ids : WF_rpcVars(AgentEnds(s))

(***************************************************************************)
(* Properties.                                                             *)
(***************************************************************************)
(* A turn that ended well has every update the agent sent during its       *)
(* prompt, in order and once, also those that came right before the answer *)
(* (session.rs:157); ahead of them at most the one from before the prompt. *)
UpdatesCollected ==
    rpcTurn.pc = "done" =>
        \E first \in {0, 1} :
           /\ Len(rpcTurn.collected) = work[rpcTurn.session].emitted + 1 - first
           /\ \A i \in DOMAIN rpcTurn.collected : rpcTurn.collected[i] = first + i - 1

(* A request has the agent's answer to itself, and not the late answer to  *)
(* a turn that was dropped (rpc.rs:194).                                   *)
AnswerIsOwn == \A i \in Ids : outcome[i] \in {"result", "error"} => i \in answered

(* A request that is parked while the dispatch loop runs is answered or    *)
(* fails: the agent's death, or a line that is no JSON, fails them all,    *)
(* and the agent never waits for a permission in vain (rpc.rs:154).        *)
ParkedEnd == \A i \in Ids : (i \in pending /\ dispatching) ~> (i \notin pending)
=============================================================================
