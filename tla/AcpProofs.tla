------------------------------ MODULE AcpProofs ------------------------------
(***************************************************************************)
(* Proofs about AcpSessions and AcpRpc, for any value of their constants.  *)
(*                                                                         *)
(* The first part is about the session manager: any number of requests,    *)
(* labels, sessions, agents, deaths and questions, with clients that leave *)
(* or do not.  A step moves one request.  What the invariant says of the   *)
(* others stands (Quiet...): left to prove is, action by action, what      *)
(* becomes of what the request had: its agent, its mark, its locks, the    *)
(* room it was given.                                                      *)
(*                                                                         *)
(* The second part (from Made on) is about the JSON-RPC peer of one agent: *)
(* what is on the two pipes is tied to what the agent works on and to what *)
(* the turn waits for.                                                     *)
(***************************************************************************)
EXTENDS AcpSessions, AcpRpc, SequenceTheorems, FiniteSetTheorems, TLAPS

(* The stages in which a request works on a session it has.                *)
Sided == {"bridge", "admit", "rebridge", "queue", "turn", "record", "remove", "unbridge", "kill"}

Staged(q) ==
    /\ q.pc \in Sided => q.sid \in Sids
    /\ q.pc = "register" => q.handle \in Handles

StageOK == \A r \in Requests : Staged(req[r])

(* The table is held across an await only by a prompt that spawns the      *)
(* agent of its session: the session is still there and has none.          *)
TableOK ==
    table # None =>
       /\ req[table].pc \in {"spawn", "register"} /\ req[table].sid \in Sids
       /\ session[req[table].sid].open /\ session[req[table].sid].handle = NoId

(* A number that was not given out is not in use.                          *)
Unused == \A s \in Sids : session[s].open => s <= sessions

(* There is room for every session that is being made.                     *)
RoomOK == sessions + Cardinality(Making) <= MaxSessions

(* The inductive invariant.                                                *)
IInv ==
    /\ TypeOK /\ StageOK /\ TableOK /\ Unused /\ RoomOK
    /\ TurnOnRegistered /\ LiveAgentsOwned /\ NoStuckBusy

-----------------------------------------------------------------------------
LEMMA Basics ==
  /\ NoId = 0 /\ MaxSessions \in Nat /\ MaxAgents \in Nat
  /\ NoId \notin Sids /\ NoId \notin Handles
  /\ Sids = 1..MaxSessions /\ Handles = 1..MaxAgents
  /\ None \notin Requests /\ IsFiniteSet(Requests)
  BY AcpAssumption DEF NoId, Sids, Handles

(* Only r moves.  Another request may lose the one that asked for it.      *)
Moves(r) ==
    /\ req' \in [Requests -> Request]
    /\ \A x \in Requests : x # r =>
          /\ req'[x].pc = req[x].pc /\ req'[x].sid = req[x].sid
          /\ req'[x].handle = req[x].handle /\ req'[x].kind = req[x].kind

LEMMA Put ==
  ASSUME TypeOK, NEW r \in Requests, NEW q \in Request, req' = [req EXCEPT ![r] = q]
  PROVE  Moves(r) /\ req'[r] = q
  BY DEF TypeOK, Moves

LEMMA Become ==
  ASSUME TypeOK, NEW r \in Requests, NEW q \in Request, Becomes(r, q)
  PROVE  Moves(r) /\ req'[r] = q
  <1>1. req \in [Requests -> Request]
    BY DEF TypeOK
  <1>2. \A x \in Requests : [req[x] EXCEPT !.parent = None] \in Request
    BY <1>1 DEF Request
  <1>3. req' = [x \in Requests |-> IF x = r THEN q
                                   ELSE IF req[x].parent = r THEN [req[x] EXCEPT !.parent = None]
                                   ELSE req[x]]
    BY DEF Becomes
  <1>4. req' \in [Requests -> Request]
    BY <1>1, <1>2, <1>3
  <1>5. \A x \in Requests : x # r => req'[x] = req[x] \/ req'[x] = [req[x] EXCEPT !.parent = None]
    BY <1>3
  <1>. QED  BY <1>1, <1>3, <1>4, <1>5 DEF Moves, Request

LEMMA Go ==
  ASSUME TypeOK, NEW r \in Requests, NEW stage \in Stages, Goes(r, stage)
  PROVE  /\ Moves(r) /\ req'[r].pc = stage /\ req'[r].sid = req[r].sid
         /\ req'[r].handle = req[r].handle
  <1>1. req[r] \in Request /\ [req[r] EXCEPT !.pc = stage] \in Request
    BY DEF TypeOK, Request
  <1>2. req' = [req EXCEPT ![r] = [req[r] EXCEPT !.pc = stage]]
    BY DEF Goes
  <1>3. Moves(r) /\ req'[r] = [req[r] EXCEPT !.pc = stage]
    BY <1>1, <1>2, Put
  <1>. QED  BY <1>1, <1>3 DEF Request

LEMMA Idles == Idle \in Request /\ Idle.pc = "idle"
  BY Basics DEF Idle, Request, Kinds, Stages

LEMMA EndedIs ==
  ASSUME NEW q \in Request PROVE Ended(q) \in Request /\ Ended(q).pc \in {"idle", "reap"}
  <1>1. CASE q.kind = "reap"
    <2>1. Ended(q) = [Idle EXCEPT !.kind = "reap", !.pc = "reap", !.todo = q.todo]
      BY <1>1 DEF Ended
    <2>2. q.todo \in SUBSET Sids
      BY DEF Request
    <2>. QED  BY <2>1, <2>2 DEF Idle, Request, Kinds, Stages
  <1>2. CASE q.kind # "reap"
    BY <1>2, Idles DEF Ended
  <1>. QED  BY <1>1, <1>2

LEMMA End ==
  ASSUME TypeOK, NEW r \in Requests, Ends(r)
  PROVE  Moves(r) /\ req'[r].pc \in {"idle", "reap"}
  <1>1. req[r] \in Request
    BY DEF TypeOK
  <1>2. req' = [req EXCEPT ![r] = Ended(req[r])]
    BY DEF Ends
  <1>. QED  BY <1>1, <1>2, EndedIs, Put

LEMMA OverIs ==
  ASSUME NEW q \in Request
  PROVE  /\ PromptOver(q) \in Request /\ PromptOver(q).pc \in {"idle", "reap", "remove"}
         /\ PromptOver(q).pc = "remove" => PromptOver(q).sid = q.sid
  <1>1. CASE q.kind = "heartbeat"
    <2>1. PromptOver(q) = [q EXCEPT !.pc = "remove", !.handle = NoId]
      BY <1>1 DEF PromptOver
    <2>. QED  BY <2>1 DEF Request, Stages
  <1>2. CASE q.kind # "heartbeat"
    BY <1>2, EndedIs DEF PromptOver
  <1>. QED  BY <1>1, <1>2

-----------------------------------------------------------------------------
(* What a step does not disturb.                                           *)
SameShape ==
    \A s \in Sids : session'[s].open = session[s].open /\ session'[s].handle = session[s].handle

Marking == {"rebridge", "queue", "turn"}
InHand == {"find", "spawn", "register", "insert"}

LEMMA QuietStage ==
  ASSUME StageOK, NEW r \in Requests, Moves(r), Staged(req'[r])
  PROVE  StageOK'
  BY DEF StageOK, Staged, Moves

(* An agent that lives still has its owner.                                *)
LEMMA QuietLive ==
  ASSUME LiveAgentsOwned, NEW r \in Requests, Moves(r), SameShape,
         \A h \in Handles : proc'[h] = "up" => proc[h] = "up",
         orphans \subseteq orphans',
         req[r].pc \in Holding =>
            \/ req'[r].pc \in Holding /\ req'[r].handle = req[r].handle
            \/ req[r].handle \in orphans' \/ req[r].handle \notin Handles
            \/ proc'[req[r].handle] # "up"
  PROVE  LiveAgentsOwned'
  <1>. SUFFICES ASSUME NEW h \in Handles, proc'[h] = "up"
                PROVE  \/ \E s \in Sids : session'[s].open /\ session'[s].handle = h
                       \/ \E x \in Requests : req'[x].pc \in Holding /\ req'[x].handle = h
                       \/ h \in orphans'
    BY DEF LiveAgentsOwned
  <1>1. CASE \E s \in Sids : session[s].open /\ session[s].handle = h
    BY <1>1 DEF SameShape
  <1>2. ASSUME NEW x \in Requests, req[x].pc \in Holding, req[x].handle = h
        PROVE  (\E y \in Requests : req'[y].pc \in Holding /\ req'[y].handle = h) \/ h \in orphans'
    <2>1. CASE x = r
      BY <1>2, <2>1
    <2>2. CASE x # r
      BY <1>2, <2>2 DEF Moves
    <2>. QED  BY <2>1, <2>2
  <1>3. CASE h \in orphans
    BY <1>3
  <1>. QED  BY <1>1, <1>2, <1>3 DEF LiveAgentsOwned

(* A mark still has its prompt.                                            *)
LEMMA QuietBusy ==
  ASSUME NoStuckBusy, NEW r \in Requests, Moves(r),
         \A s \in Sids : session'[s].busy => session[s].busy,
         stuck \subseteq stuck',
         req[r].pc \in Marking =>
            \/ req'[r].pc \in Marking /\ req'[r].sid = req[r].sid
            \/ req[r].sid \in stuck' \/ req[r].sid \notin Sids
            \/ ~session'[req[r].sid].busy
  PROVE  NoStuckBusy'
  <1>. SUFFICES ASSUME NEW s \in Sids, session'[s].busy
                PROVE  \/ \E x \in Requests : req'[x].pc \in Marking /\ req'[x].sid = s
                       \/ s \in stuck'
    BY DEF NoStuckBusy, Marking
  <1>1. ASSUME NEW x \in Requests, req[x].pc \in Marking, req[x].sid = s
        PROVE  (\E y \in Requests : req'[y].pc \in Marking /\ req'[y].sid = s) \/ s \in stuck'
    <2>1. CASE x = r
      BY <1>1, <2>1
    <2>2. CASE x # r
      BY <1>1, <2>2 DEF Moves
    <2>. QED  BY <2>1, <2>2
  <1>. QED  BY <1>1 DEF NoStuckBusy, Marking

(* Nobody else gets ahead of the bound.                                    *)
LEMMA MakingFinite == IsFiniteSet(Making) /\ Cardinality(Making) \in Nat
  <1>1. IsFiniteSet(Making)
    BY Basics, FS_Subset DEF Making
  <1>. QED  BY <1>1, FS_CardinalityType

LEMMA QuietRoom ==
  ASSUME TypeOK, RoomOK, NEW r \in Requests, Moves(r), sessions' = sessions,
         req'[r].pc \in InHand /\ table' # r => req[r].pc \in InHand /\ table # r,
         \A x \in Requests : x # r /\ table = x => table' = x
  PROVE  RoomOK'
  <1>1. Making' \subseteq Making
    BY DEF Making, Moves, InHand
  <1>2. IsFiniteSet(Making') /\ Cardinality(Making') <= Cardinality(Making)
    BY <1>1, MakingFinite, FS_Subset
  <1>3. Cardinality(Making') \in Nat /\ Cardinality(Making) \in Nat
    BY <1>2, MakingFinite, FS_CardinalityType
  <1>. QED  BY <1>2, <1>3, Basics DEF RoomOK, TypeOK

LEMMA QuietTurn ==
  ASSUME TurnOnRegistered, NEW r \in Requests, Moves(r), turn \in Requests \cup {None},
         turn' = None \/ (turn' = turn /\ turn # r /\ agents \subseteq agents')
  PROVE  TurnOnRegistered'
  BY DEF TurnOnRegistered, Moves, At

(* The table keeps its holder, or is released.                             *)
LEMMA QuietTable ==
  ASSUME TypeOK, TableOK, NEW r \in Requests, Moves(r),
         table' = None \/ (table' = table /\ table # r /\ SameShape)
  PROVE  TableOK'
  BY DEF TypeOK, TableOK, Moves, SameShape

LEMMA QuietUnused ==
  ASSUME TypeOK, Unused, SameShape, sessions' = sessions PROVE Unused'
  BY DEF Unused, SameShape

(* A step that opens and closes no session and gives none an agent.        *)
LEMMA Quiet ==
  ASSUME IInv, TypeOK', RoomOK', NEW r \in Requests, Moves(r), Staged(req'[r]),
         SameShape, sessions' = sessions,
         table' = None \/ (table' = table /\ table # r),
         turn' = None \/ (turn' = turn /\ turn # r /\ agents \subseteq agents'),
         \A h \in Handles : proc'[h] = "up" => proc[h] = "up",
         orphans \subseteq orphans', stuck \subseteq stuck',
         req[r].pc \in Holding =>
            \/ req'[r].pc \in Holding /\ req'[r].handle = req[r].handle
            \/ req[r].handle \in orphans' \/ req[r].handle \notin Handles
            \/ proc'[req[r].handle] # "up",
         \A s \in Sids : session'[s].busy => session[s].busy,
         req[r].pc \in Marking =>
            \/ req'[r].pc \in Marking /\ req'[r].sid = req[r].sid
            \/ req[r].sid \in stuck' \/ req[r].sid \notin Sids
            \/ ~session'[req[r].sid].busy
  PROVE  IInv'
  <1>1. TypeOK /\ StageOK /\ TableOK /\ Unused /\ TurnOnRegistered /\ LiveAgentsOwned /\ NoStuckBusy
    BY DEF IInv
  <1>2. turn \in Requests \cup {None}
    BY <1>1 DEF TypeOK
  <1>3. StageOK'
    BY <1>1, QuietStage
  <1>4. TableOK'
    BY <1>1, QuietTable
  <1>5. Unused'
    BY <1>1, QuietUnused
  <1>6. TurnOnRegistered'
    BY <1>1, <1>2, QuietTurn
  <1>7. LiveAgentsOwned'
    BY <1>1, QuietLive
  <1>8. NoStuckBusy'
    BY <1>1, QuietBusy
  <1>. QED  BY <1>3, <1>4, <1>5, <1>6, <1>7, <1>8 DEF IInv

(* What a request at a stage is not.                                       *)
LEMMA Where ==
  ASSUME IInv, NEW r \in Requests
  PROVE  /\ req[r] \in Request /\ Staged(req[r])
         /\ req[r].pc \notin {"spawn", "register"} => table # r
         /\ req[r].pc # "turn" => turn # r
  <1>1. TypeOK /\ StageOK /\ TableOK /\ TurnOnRegistered
    BY DEF IInv
  <1>2. req[r] \in Request
    BY <1>1 DEF TypeOK
  <1>3. req[r].pc # "turn" => turn # r
    BY <1>1, Basics DEF TurnOnRegistered, At
  <1>. QED  BY <1>1, <1>2, <1>3, Basics DEF StageOK, TableOK

LEMMA Same == UNCHANGED session => SameShape /\ \A s \in Sids : session'[s].busy => session[s].busy
  BY DEF SameShape

-----------------------------------------------------------------------------
(* Requests come in.  One that will make a session finds room for it.      *)
LEMMA BeginStep ==
  ASSUME IInv, NEW r \in Requests, NEW q \in Request, Begin(r, q), Staged(q),
         q.pc \in InHand => Room,
         left' = left, deaths' \in 0..MaxDeaths, asks' \in 0..MaxAsks
  PROVE  IInv'
  <1>1. /\ req[r].pc = "idle" /\ req' = [req EXCEPT ![r] = q] /\ owed' \subseteq owed
        /\ UNCHANGED <<ids, session, proc, agents, table, turn, peers, orphans, stuck>>
    BY DEF Begin, At, left
  <1>2. Moves(r) /\ req'[r] = q
    BY <1>1, Put DEF IInv
  <1>3. TypeOK'
    BY <1>1, <1>2 DEF IInv, TypeOK, Moves, ids
  <1>4. RoomOK'
    <2>1. CASE q.pc \in InHand
      <3>1. Making' \subseteq Making \cup {r}
        BY <1>1, <1>2 DEF Making, Moves
      <3>2. IsFiniteSet(Making \cup {r}) /\ Cardinality(Making \cup {r}) <= Cardinality(Making) + 1
        <4>1. /\ IsFiniteSet(Making \cup {r})
              /\ Cardinality(Making \cup {r})
                   = IF r \in Making THEN Cardinality(Making) ELSE Cardinality(Making) + 1
          BY MakingFinite, FS_AddElement, Zenon
        <4>. QED  BY <4>1, MakingFinite
      <3>3. IsFiniteSet(Making') /\ Cardinality(Making') <= Cardinality(Making \cup {r})
        BY <3>1, <3>2, FS_Subset
      <3>4. /\ Cardinality(Making') \in Nat /\ Cardinality(Making) \in Nat
            /\ Cardinality(Making \cup {r}) \in Nat
        BY <3>2, <3>3, MakingFinite, FS_CardinalityType
      <3>5. sessions' = sessions /\ sessions \in Nat /\ sessions + Cardinality(Making) < MaxSessions
        BY <1>1, <2>1 DEF Room, IInv, TypeOK, ids
      <3>. QED  BY <3>2, <3>3, <3>4, <3>5, Basics DEF RoomOK
    <2>2. CASE q.pc \notin InHand
      BY <1>1, <1>2, <2>2, QuietRoom DEF IInv, ids
    <2>. QED  BY <2>1, <2>2
  <1>5. table # r /\ turn # r
    BY <1>1, Where
  <1>6. SameShape /\ \A s \in Sids : session'[s].busy => session[s].busy
    BY <1>1, Same
  <1>7. sessions' = sessions /\ table' = table /\ turn' = turn /\ agents' = agents /\ proc' = proc
        /\ orphans' = orphans /\ stuck' = stuck
    BY <1>1 DEF ids
  <1>. QED  BY <1>1, <1>2, <1>3, <1>4, <1>5, <1>6, <1>7, Quiet DEF Holding, Marking

LEMMA TaskStep ==
  ASSUME IInv, NEW r \in Requests, NEW parent \in Requests \cup {None}, Task(r, parent),
         left' = left, deaths' \in 0..MaxDeaths, asks' \in 0..MaxAsks
  PROVE  IInv'
  <1>1. PICK l \in Labels :
          LET q == [Idle EXCEPT !.kind = "task", !.label = l, !.always = TRUE, !.parent = parent]
          IN \/ Room /\ Begin(r, [q EXCEPT !.pc = "find"])
             \/ \E s \in Sids : Begin(r, [q EXCEPT !.pc = "admit", !.sid = s])
    BY DEF Task
  <1>. DEFINE q == [Idle EXCEPT !.kind = "task", !.label = l, !.always = TRUE, !.parent = parent]
  <1>2. q \in Request
    BY Basics DEF Idle, Request, Kinds, Stages
  <1>. HIDE DEF q
  <1>3. CASE Room /\ Begin(r, [q EXCEPT !.pc = "find"])
    <2>1. /\ [q EXCEPT !.pc = "find"] \in Request /\ [q EXCEPT !.pc = "find"].pc = "find"
      BY <1>2 DEF Request, Stages
    <2>. QED  BY <1>3, <2>1, BeginStep DEF Staged, Sided
  <1>4. ASSUME NEW s \in Sids, Begin(r, [q EXCEPT !.pc = "admit", !.sid = s]) PROVE IInv'
    <2>. DEFINE p == [q EXCEPT !.pc = "admit", !.sid = s]
    <2>1. p \in Request /\ p.pc = "admit" /\ p.sid = s
      BY <1>2 DEF Request, Stages
    <2>. HIDE DEF p
    <2>2. Begin(r, p)
      BY <1>4 DEF p
    <2>3. Staged(p) /\ p.pc \notin InHand
      BY <2>1 DEF Staged, Sided, InHand
    <2>. QED  BY <2>1, <2>2, <2>3, BeginStep
  <1>. QED  BY <1>1, <1>3, <1>4 DEF q

LEMMA ArrivesStep ==
  ASSUME IInv, NEW r \in Requests, Arrives(r) PROVE IInv'
  <1>1. deaths \in 0..MaxDeaths /\ asks \in 0..MaxAsks
    BY DEF IInv, TypeOK
  <1>2. UNCHANGED rest => left' = left /\ deaths' \in 0..MaxDeaths /\ asks' \in 0..MaxAsks
    BY <1>1 DEF rest
  <1>3. CASE CreateComes(r)
    <2>1. PICK l \in Labels \cup {None}, always \in BOOLEAN :
             Begin(r, [Idle EXCEPT !.pc = "find", !.label = l, !.always = always])
      BY <1>3 DEF CreateComes
    <2>. DEFINE p == [Idle EXCEPT !.pc = "find", !.label = l, !.always = always]
    <2>2. p \in Request /\ p.pc = "find"
      BY Basics DEF Idle, Request, Kinds, Stages
    <2>3. Begin(r, p) /\ Room /\ UNCHANGED rest
      BY <1>3, <2>1 DEF CreateComes
    <2>. HIDE DEF p
    <2>. QED  BY <1>2, <2>2, <2>3, BeginStep DEF Staged, Sided
  <1>4. CASE PromptComes(r)
    <2>1. PICK s \in Sids : Begin(r, [Idle EXCEPT !.kind = "prompt", !.pc = "admit", !.sid = s])
      BY <1>4 DEF PromptComes
    <2>. DEFINE p == [Idle EXCEPT !.kind = "prompt", !.pc = "admit", !.sid = s]
    <2>2. p \in Request /\ p.pc = "admit" /\ p.sid = s
      BY Basics DEF Idle, Request, Kinds, Stages
    <2>3. Begin(r, p) /\ UNCHANGED rest
      BY <1>4, <2>1 DEF PromptComes
    <2>. HIDE DEF p
    <2>. QED  BY <1>2, <2>2, <2>3, BeginStep DEF Staged, Sided, InHand
  <1>5. CASE TaskComes(r)
    BY <1>2, <1>5, TaskStep DEF TaskComes
  <1>6. CASE Ask(r)
    <2>1. turn \in Requests \cup {None} /\ left' = left /\ deaths' \in 0..MaxDeaths
      BY <1>1, <1>6 DEF Ask, IInv, TypeOK
    <2>2. asks' \in 0..MaxAsks
      BY <1>1, <1>6, AcpAssumption DEF Ask
    <2>. QED  BY <1>6, <2>1, <2>2, TaskStep DEF Ask
  <1>7. CASE HeartbeatComes(r)
    <2>. DEFINE p == [Idle EXCEPT !.kind = "heartbeat", !.pc = "spawn", !.always = TRUE]
    <2>1. p \in Request /\ p.pc = "spawn"
      BY Basics DEF Idle, Request, Kinds, Stages
    <2>2. Begin(r, p) /\ Room /\ UNCHANGED rest
      BY <1>7 DEF HeartbeatComes
    <2>. HIDE DEF p
    <2>. QED  BY <1>2, <2>1, <2>2, BeginStep DEF Staged, Sided
  <1>8. CASE CloseComes(r)
    <2>1. PICK s \in Sids : Begin(r, [Idle EXCEPT !.kind = "close", !.pc = "remove", !.sid = s])
      BY <1>8 DEF CloseComes
    <2>. DEFINE p == [Idle EXCEPT !.kind = "close", !.pc = "remove", !.sid = s]
    <2>2. p \in Request /\ p.pc = "remove" /\ p.sid = s
      BY Basics DEF Idle, Request, Kinds, Stages
    <2>3. Begin(r, p) /\ UNCHANGED rest
      BY <1>8, <2>1 DEF CloseComes
    <2>. HIDE DEF p
    <2>. QED  BY <1>2, <2>2, <2>3, BeginStep DEF Staged, Sided, InHand
  <1>9. CASE ReapComes(r)
    <2>. DEFINE p == [Idle EXCEPT !.kind = "reap", !.pc = "reap", !.todo = {s \in Sids : Stale(s)}]
    <2>1. {s \in Sids : Stale(s)} \in SUBSET Sids
      OBVIOUS
    <2>2. p \in Request /\ p.pc = "reap"
      BY <2>1, Basics DEF Idle, Request, Kinds, Stages
    <2>3. Begin(r, p) /\ UNCHANGED rest
      BY <1>9 DEF ReapComes
    <2>. HIDE DEF p
    <2>. QED  BY <1>2, <2>2, <2>3, BeginStep DEF Staged, Sided, InHand
  <1>. QED  BY <1>3, <1>4, <1>5, <1>6, <1>7, <1>8, <1>9 DEF Arrives

-----------------------------------------------------------------------------
(* An agent is spawned: r has it in hand.                                  *)
LEMMA SpawnStep ==
  ASSUME IInv, NEW r \in Requests, Spawn(r) PROVE IInv'
  <1>1. /\ req[r].pc = "spawn" /\ spawned' \in Handles
        /\ proc' = [proc EXCEPT ![spawned'] = "up"]
        /\ req' = [req EXCEPT ![r] = [req[r] EXCEPT !.pc = "register", !.handle = spawned']]
        /\ UNCHANGED <<sessions, session, agents, table, turn, peers, owed, rest>>
    BY DEF Spawn, At
  <1>. DEFINE q == [req[r] EXCEPT !.pc = "register", !.handle = spawned']
  <1>2. req[r] \in Request
    BY Where
  <1>3. q \in Request /\ q.pc = "register" /\ q.handle = spawned' /\ q.sid = req[r].sid
    BY <1>1, <1>2 DEF Request, Stages
  <1>. HIDE DEF q
  <1>4. Moves(r) /\ req'[r] = q
    BY <1>1, <1>3, Put DEF IInv, q
  <1>5. TypeOK'
    BY <1>1, <1>4, Basics DEF IInv, TypeOK, Moves, rest, left
  <1>6. StageOK'
    BY <1>1, <1>3, <1>4, QuietStage DEF IInv, Staged, Sided
  <1>7. TableOK'
    BY <1>1, <1>3, <1>4 DEF IInv, TableOK, Moves, TypeOK
  <1>8. Unused' /\ TurnOnRegistered'
    <2>1. turn # r /\ turn \in Requests \cup {None}
      BY <1>1, Where DEF IInv, TypeOK
    <2>. QED  BY <1>1, <1>4, <2>1, QuietTurn DEF IInv, Unused
  <1>9. RoomOK'
    BY <1>1, <1>4, QuietRoom DEF IInv, InHand
  <1>10. LiveAgentsOwned'
    <2>. SUFFICES ASSUME NEW h \in Handles, proc'[h] = "up"
                  PROVE  \/ \E s \in Sids : session'[s].open /\ session'[s].handle = h
                         \/ \E x \in Requests : req'[x].pc \in Holding /\ req'[x].handle = h
                         \/ h \in orphans'
      BY DEF LiveAgentsOwned
    <2>1. CASE h = spawned'
      BY <1>3, <1>4, <2>1 DEF Holding
    <2>2. CASE h # spawned'
      <3>1. proc[h] = "up"
        BY <1>1, <2>2 DEF IInv, TypeOK
      <3>2. \A x \in Requests : req[x].pc \in Holding => x # r
        BY <1>1 DEF Holding
      <3>3. session' = session /\ orphans' = orphans
        BY <1>1 DEF rest, left
      <3>. QED  BY <1>4, <3>1, <3>2, <3>3 DEF IInv, LiveAgentsOwned, Moves
    <2>. QED  BY <2>1, <2>2
  <1>11. NoStuckBusy'
    BY <1>1, <1>4, QuietBusy DEF IInv, Marking, rest, left
  <1>. QED  BY <1>5, <1>6, <1>7, <1>8, <1>9, <1>10, <1>11 DEF IInv

(* It fails: r ends, with the lock if it had it.                           *)
LEMMA SpawnFailsStep ==
  ASSUME IInv, NEW r \in Requests, SpawnFails(r) PROVE IInv'
  <1>1. /\ req[r].pc = "spawn" /\ Ends(r) /\ table' = IF table = r THEN None ELSE table
        /\ UNCHANGED <<sessions, spawned, session, proc, agents, turn, peers, owed, orphans, stuck,
                       deaths, asks>>
    BY DEF SpawnFails, At, ids, rest, left
  <1>2. Moves(r) /\ req'[r].pc \in {"idle", "reap"}
    BY <1>1, End DEF IInv
  <1>3. TypeOK'
    BY <1>1, <1>2 DEF IInv, TypeOK, Moves
  <1>4. RoomOK'
    BY <1>1, <1>2, QuietRoom DEF IInv, InHand
  <1>5. turn # r /\ SameShape /\ \A s \in Sids : session'[s].busy => session[s].busy
    BY <1>1, Where, Same
  <1>6. Staged(req'[r]) /\ (table' = None \/ (table' = table /\ table # r))
    BY <1>1, <1>2 DEF Staged, Sided
  <1>. QED  BY <1>1, <1>2, <1>3, <1>4, <1>5, <1>6, Quiet DEF Holding, Marking

(* A step of r that changes no session, no process and no lock, with       *)
(* nothing in hand before it, or the same after it.                        *)
LEMMA Onward ==
  ASSUME IInv, NEW r \in Requests, Moves(r), TypeOK', Staged(req'[r]),
         req[r].pc \notin {"spawn", "register", "turn"},
         req'[r].pc \in InHand => req[r].pc \in InHand,
         req[r].pc \in Holding =>
            \/ req'[r].pc \in Holding /\ req'[r].handle = req[r].handle
            \/ req[r].handle = NoId,
         req[r].pc \in Marking => req'[r].pc \in Marking /\ req'[r].sid = req[r].sid,
         sessions' = sessions, session' = session, proc' = proc, agents' = agents,
         table' = table, turn' = turn, left' = left
  PROVE  IInv'
  <1>1. table # r /\ turn # r /\ SameShape /\ \A s \in Sids : session'[s].busy => session[s].busy
    BY Where, Same
  <1>2. RoomOK'
    BY <1>1, QuietRoom DEF IInv
  <1>3. orphans' = orphans /\ stuck' = stuck
    BY DEF left
  <1>4. req[r].pc \in Holding =>
            \/ req'[r].pc \in Holding /\ req'[r].handle = req[r].handle
            \/ req[r].handle \notin Handles
    BY Basics
  <1>. QED  BY <1>1, <1>2, <1>3, <1>4, Quiet

LEMMA BridgedTyped ==
  ASSUME TypeOK, NEW r \in Requests
  PROVE  Bridged(r) \in [Labels -> [marker : Sids \cup {NoId}, active : BOOLEAN]]
  <1>1. req[r].sid \in Sids \cup {NoId} /\ req[r].label \in Labels \cup {None}
    BY DEF TypeOK, Request
  <1>. QED  BY <1>1, AcpAssumption DEF TypeOK, Bridged

LEMMA BridgeStep ==
  ASSUME IInv, NEW r \in Requests, Bridge(r) PROVE IInv'
  <1>1. /\ req[r].pc = "bridge" /\ peers' = Bridged(r)
        /\ UNCHANGED <<sessions, spawned, session, proc, agents, table, turn, owed, left, deaths, asks>>
    BY DEF Bridge, At, ids, rest
  <1>2. req[r] \in Request /\ req[r].sid \in Sids
    BY <1>1, Where DEF Staged, Sided
  <1>3. Moves(r) /\ req'[r].pc \in {"idle", "reap", "admit"}
        /\ (req'[r].pc = "admit" => req'[r].sid \in Sids)
    <2>1. CASE req[r].kind = "create"
      BY <1>1, <2>1, End DEF Bridge, IInv
    <2>2. CASE req[r].kind # "create"
      <3>. DEFINE q == [req[r] EXCEPT !.pc = "admit", !.handle = NoId]
      <3>1. q \in Request /\ q.pc = "admit" /\ q.sid = req[r].sid
        BY <1>2 DEF Request, Stages
      <3>2. req' = [req EXCEPT ![r] = q]
        BY <2>2 DEF Bridge
      <3>. HIDE DEF q
      <3>. QED  BY <1>2, <3>1, <3>2, Put DEF IInv
    <2>. QED  BY <2>1, <2>2
  <1>4. TypeOK'
    BY <1>1, <1>3, BridgedTyped DEF IInv, TypeOK, Moves, left
  <1>. QED  BY <1>1, <1>3, <1>4, Onward DEF Staged, Sided, InHand, Holding, Marking

LEMMA RebridgeStep ==
  ASSUME IInv, NEW r \in Requests, Rebridge(r) PROVE IInv'
  <1>1. /\ req[r].pc = "rebridge" /\ peers' = Bridged(r) /\ Goes(r, "queue")
        /\ UNCHANGED <<sessions, spawned, session, proc, agents, table, turn, owed, left, deaths, asks>>
    BY DEF Rebridge, At, ids, rest
  <1>2. Moves(r) /\ req'[r].pc = "queue" /\ req'[r].sid = req[r].sid /\ req[r].sid \in Sids
    BY <1>1, Go, Where DEF IInv, Stages, Staged, Sided
  <1>3. TypeOK'
    BY <1>1, <1>2, BridgedTyped DEF IInv, TypeOK, Moves, left
  <1>. QED  BY <1>1, <1>2, <1>3, Onward DEF Staged, Sided, InHand, Holding, Marking

LEMMA RecordStep ==
  ASSUME IInv, NEW r \in Requests, Record(r) PROVE IInv'
  <1>1. /\ req[r].pc = "record" /\ Ends(r) /\ owed' \subseteq owed
        /\ UNCHANGED <<sessions, spawned, session, proc, agents, table, turn, peers, left, deaths, asks>>
    BY DEF Record, At, ids, rest
  <1>2. Moves(r) /\ req'[r].pc \in {"idle", "reap"}
    BY <1>1, End DEF IInv
  <1>3. TypeOK'
    BY <1>1, <1>2 DEF IInv, TypeOK, Moves, left
  <1>. QED  BY <1>1, <1>2, <1>3, Onward DEF Staged, Sided, InHand, Holding, Marking

LEMMA ReapNextStep ==
  ASSUME IInv, NEW r \in Requests, ReapNext(r) PROVE IInv'
  <1>1. /\ req[r].pc = "reap"
        /\ UNCHANGED <<sessions, spawned, session, proc, agents, table, turn, peers, owed, left,
                       deaths, asks>>
    BY DEF ReapNext, At, ids, rest
  <1>2. req[r] \in Request
    BY Where
  <1>3. Moves(r) /\ req'[r].pc \in {"idle", "remove"} /\ (req'[r].pc = "remove" => req'[r].sid \in Sids)
    <2>1. CASE req' = [req EXCEPT ![r] = Idle]
      BY <2>1, Idles, Put DEF IInv
    <2>2. ASSUME NEW s \in req[r].todo,
                 req' = [req EXCEPT ![r].pc = "remove", ![r].sid = s, ![r].todo = @ \ {s}]
          PROVE  Moves(r) /\ req'[r].pc = "remove" /\ req'[r].sid \in Sids
      <3>. DEFINE q == [req[r] EXCEPT !.pc = "remove", !.sid = s, !.todo = req[r].todo \ {s}]
      <3>1. s \in Sids /\ req[r].todo \ {s} \in SUBSET Sids
        BY <1>2 DEF Request
      <3>2. q \in Request /\ q.pc = "remove" /\ q.sid = s
        BY <1>2, <3>1 DEF Request, Stages
      <3>3. req' = [req EXCEPT ![r] = q]
        BY <2>2 DEF IInv, TypeOK
      <3>. HIDE DEF q
      <3>. QED  BY <3>1, <3>2, <3>3, Put DEF IInv
    <2>. QED  BY <2>1, <2>2 DEF ReapNext
  <1>4. TypeOK'
    BY <1>1, <1>3 DEF IInv, TypeOK, Moves, left
  <1>. QED  BY <1>1, <1>3, <1>4, Onward DEF Staged, Sided, InHand, Holding, Marking

LEMMA UnbridgeStep ==
  ASSUME IInv, NEW r \in Requests, Unbridge(r) PROVE IInv'
  <1>1. /\ req[r].pc = "unbridge"
        /\ UNCHANGED <<sessions, spawned, session, proc, agents, table, turn, owed, left, deaths, asks>>
    BY DEF Unbridge, At, ids, rest
  <1>2. req[r] \in Request /\ req[r].sid \in Sids
    BY <1>1, Where DEF Staged, Sided
  <1>3. Moves(r) /\ \/ req[r].handle = NoId /\ req'[r].pc \in {"idle", "reap"}
                    \/ req'[r].pc = "kill" /\ req'[r].sid = req[r].sid /\ req'[r].handle = req[r].handle
    BY <1>1, End, Go DEF Unbridge, IInv, Stages
  <1>4. peers' \in [Labels -> [marker : Sids \cup {NoId}, active : BOOLEAN]]
    BY <1>2, AcpAssumption DEF Unbridge, IInv, TypeOK, Request
  <1>5. TypeOK'
    BY <1>1, <1>3, <1>4 DEF IInv, TypeOK, Moves, left
  <1>. QED  BY <1>1, <1>2, <1>3, <1>5, Onward DEF Staged, Sided, InHand, Holding, Marking

-----------------------------------------------------------------------------
(* Turns.  The mark goes with the guard, and agents stay where they are.   *)
Sessions == [Sids -> Session]
Clear == \A s \in Sids : ~session[s].open => session[s] = Closed

LEMMA Blank ==
  ASSUME NEW x \in Session, ~x.open, x.label = None, x.handle = NoId, ~x.busy, ~x.stale
  PROVE  x = Closed
  BY DEF Session, Closed

LEMMA UnmarkedIs ==
  ASSUME TypeOK, NEW r \in Requests, req[r].sid \in Sids, session' = Unmarked(r)
  PROVE  /\ session' \in Sessions /\ Clear' /\ SameShape
         /\ \A s \in Sids : session'[s].busy => session[s].busy
         /\ ~session'[req[r].sid].busy
  <1>. DEFINE t == req[r].sid
              u == [session[t] EXCEPT !.busy = FALSE]
  <1>1. session \in Sessions /\ t \in Sids /\ session[t] \in Session /\ Clear
    BY DEF TypeOK, Sessions, Clear
  <1>2. session' = [session EXCEPT ![t] = u]
    BY DEF Unmarked
  <1>3. /\ u \in Session /\ u.open = session[t].open /\ u.handle = session[t].handle /\ ~u.busy
        /\ session[t] = Closed => u = Closed
    <2>1. u \in Session /\ u.open = session[t].open /\ u.handle = session[t].handle /\ ~u.busy
      BY <1>1 DEF Session
    <2>2. u.label = session[t].label /\ u.stale = session[t].stale
      BY <1>1 DEF Session
    <2>3. ASSUME session[t] = Closed PROVE u = Closed
      <3>1. ~u.open /\ u.label = None /\ u.handle = NoId /\ ~u.busy /\ ~u.stale
        BY <2>1, <2>2, <2>3 DEF Closed
      <3>. HIDE DEF u
      <3>. QED  BY <2>1, <3>1, Blank
    <2>. QED  BY <2>1, <2>2, <2>3
  <1>. HIDE DEF u
  <1>4. session'[t] = u /\ \A s \in Sids : s # t => session'[s] = session[s]
    BY <1>1, <1>2 DEF Sessions
  <1>. QED  BY <1>1, <1>2, <1>3, <1>4 DEF Sessions, Clear, SameShape

LEMMA StartTurnStep ==
  ASSUME IInv, NEW r \in Requests, StartTurn(r) PROVE IInv'
  <1>1. /\ req[r].pc = "queue" /\ turn = None
        /\ UNCHANGED <<sessions, spawned, proc, agents, table, peers, owed, orphans, stuck, deaths, asks>>
    BY DEF StartTurn, At, ids, rest, left
  <1>2. req[r] \in Request /\ req[r].sid \in Sids /\ table # r
    BY <1>1, Where DEF Staged, Sided
  <1>3. CASE req[r].handle \in agents
    <2>1. turn' = r /\ Goes(r, "turn") /\ session' = session
      BY <1>3 DEF StartTurn
    <2>2. Moves(r) /\ req'[r].pc = "turn" /\ req'[r].sid = req[r].sid /\ req'[r].handle = req[r].handle
      BY <2>1, Go DEF IInv, Stages
    <2>3. TypeOK'
      BY <1>1, <2>1, <2>2 DEF IInv, TypeOK, Moves
    <2>4. StageOK'
      BY <1>2, <2>2, QuietStage DEF IInv, Staged, Sided
    <2>5. TableOK' /\ Unused'
      BY <1>1, <1>2, <2>1, <2>2, Same, QuietTable, QuietUnused DEF IInv
    <2>6. TurnOnRegistered'
      BY <1>1, <1>3, <2>1, <2>2 DEF TurnOnRegistered, At
    <2>7. RoomOK'
      BY <1>1, <2>2, QuietRoom DEF IInv, InHand
    <2>8. LiveAgentsOwned'
      BY <1>1, <2>1, <2>2, Same, QuietLive DEF IInv, Holding
    <2>9. NoStuckBusy'
      BY <1>1, <2>1, <2>2, Same, QuietBusy DEF IInv, Marking
    <2>. QED  BY <2>3, <2>4, <2>5, <2>6, <2>7, <2>8, <2>9 DEF IInv
  <1>4. CASE req[r].handle \notin agents
    <2>1. session' = Unmarked(r) /\ req' = [req EXCEPT ![r] = PromptOver(req[r])] /\ turn' = turn
      BY <1>4 DEF StartTurn
    <2>2. /\ Moves(r) /\ req'[r].pc \in {"idle", "reap", "remove"}
          /\ req'[r].pc = "remove" => req'[r].sid = req[r].sid
      BY <1>2, <2>1, OverIs, Put DEF IInv
    <2>3. /\ session' \in Sessions /\ Clear' /\ SameShape
          /\ \A s \in Sids : session'[s].busy => session[s].busy
          /\ ~session'[req[r].sid].busy
      BY <1>2, <2>1, UnmarkedIs DEF IInv
    <2>4. TypeOK'
      BY <1>1, <2>1, <2>2, <2>3 DEF IInv, TypeOK, Moves, Sessions, Clear
    <2>5. RoomOK'
      BY <1>1, <2>2, QuietRoom DEF IInv, InHand
    <2>6. Staged(req'[r]) /\ turn' = None
      BY <1>1, <1>2, <2>1, <2>2 DEF Staged, Sided
    <2>. QED  BY <1>1, <1>2, <2>2, <2>3, <2>4, <2>5, <2>6, Quiet DEF Holding, Marking
  <1>. QED  BY <1>3, <1>4

(* The turn is over: what it had is released.                              *)
LEMMA TurnOver ==
  ASSUME IInv, NEW r \in Requests, req[r].pc = "turn", Moves(r),
         req'[r].pc \in {"idle", "reap", "remove", "record"},
         req'[r].pc \in {"remove", "record"} => req'[r].sid = req[r].sid,
         turn' = None, session' = Unmarked(r),
         proc' \in [Handles -> {"free", "up", "failed", "dead"}],
         \A h \in Handles : proc'[h] = "up" => proc[h] = "up",
         owed' \subseteq Requests,
         UNCHANGED <<sessions, spawned, agents, table, peers, orphans, stuck, deaths, asks>>
  PROVE  IInv'
  <1>1. req[r] \in Request /\ req[r].sid \in Sids /\ table # r
    BY Where DEF Staged, Sided
  <1>2. /\ session' \in Sessions /\ Clear' /\ SameShape
        /\ \A s \in Sids : session'[s].busy => session[s].busy
        /\ ~session'[req[r].sid].busy
    BY <1>1, UnmarkedIs DEF IInv
  <1>3. TypeOK'
    BY <1>2 DEF IInv, TypeOK, Moves, Sessions, Clear
  <1>4. RoomOK'
    BY QuietRoom DEF IInv, InHand
  <1>5. Staged(req'[r])
    BY <1>1 DEF Staged, Sided
  <1>. QED  BY <1>1, <1>2, <1>3, <1>4, <1>5, Quiet DEF Holding, Marking

LEMMA TurnAnsweredStep ==
  ASSUME IInv, NEW r \in Requests, TurnAnswered(r) PROVE IInv'
  <1>1. /\ req[r].pc = "turn" /\ turn' = None /\ session' = Unmarked(r)
        /\ UNCHANGED <<sessions, spawned, proc, agents, table, peers, orphans, stuck, deaths, asks>>
    BY DEF TurnAnswered, At, ids, rest, left
  <1>2. req[r] \in Request
    BY Where
  <1>3. /\ Moves(r) /\ req'[r].pc \in {"idle", "reap", "remove", "record"}
        /\ req'[r].pc \in {"remove", "record"} => req'[r].sid = req[r].sid
        /\ owed' \subseteq Requests
    <2>1. CASE req' = [req EXCEPT ![r] = PromptOver(req[r])] /\ owed' = owed
      BY <1>2, <2>1, OverIs, Put DEF IInv, TypeOK
    <2>2. CASE Goes(r, "record") /\ owed' = owed \cup {r}
      BY <2>2, Go DEF IInv, TypeOK, Stages
    <2>. QED  BY <2>1, <2>2 DEF TurnAnswered
  <1>4. /\ proc' \in [Handles -> {"free", "up", "failed", "dead"}]
        /\ \A h \in Handles : proc'[h] = "up" => proc[h] = "up"
    BY <1>1 DEF IInv, TypeOK
  <1>. QED  BY <1>1, <1>3, <1>4, TurnOver

LEMMA BuriedIs ==
  ASSUME TypeOK, NEW h
  PROVE  /\ Buried(h) \in [Handles -> {"free", "up", "failed", "dead"}]
         /\ \A g \in Handles : Buried(h)[g] = "up" => proc[g] = "up"
  <1>1. proc \in [Handles -> {"free", "up", "failed", "dead"}]
    BY DEF TypeOK
  <1>. QED  BY <1>1 DEF Buried

LEMMA TurnFailsStep ==
  ASSUME IInv, NEW r \in Requests, TurnFails(r) PROVE IInv'
  <1>1. /\ req[r].pc = "turn" /\ turn' = None /\ session' = Unmarked(r)
        /\ proc' = Buried(req[r].handle) /\ Becomes(r, PromptOver(req[r]))
        /\ UNCHANGED <<sessions, spawned, agents, table, peers, owed, orphans, stuck, deaths, asks>>
    BY DEF TurnFails, At, ids, rest, left
  <1>2. req[r] \in Request
    BY Where
  <1>3. /\ Moves(r) /\ req'[r].pc \in {"idle", "reap", "remove"}
        /\ req'[r].pc = "remove" => req'[r].sid = req[r].sid
    BY <1>1, <1>2, OverIs, Become DEF IInv
  <1>4. /\ proc' \in [Handles -> {"free", "up", "failed", "dead"}]
        /\ \A h \in Handles : proc'[h] = "up" => proc[h] = "up"
        /\ owed' \subseteq Requests
    BY <1>1, BuriedIs DEF IInv, TypeOK
  <1>. QED  BY <1>1, <1>3, <1>4, TurnOver

(* acp_close: no turn runs.                                                *)
LEMMA KillStep ==
  ASSUME IInv, NEW r \in Requests, Kill(r) PROVE IInv'
  <1>1. /\ req[r].pc = "kill" /\ turn = None /\ agents' = agents \ {req[r].handle}
        /\ proc' = [proc EXCEPT ![req[r].handle] = "free"] /\ Ends(r)
        /\ UNCHANGED <<sessions, spawned, session, table, turn, peers, owed, orphans, stuck, deaths, asks>>
    BY DEF Kill, At, ids, rest, left
  <1>2. Moves(r) /\ req'[r].pc \in {"idle", "reap"} /\ table # r
    BY <1>1, End, Where DEF IInv
  <1>3. /\ proc' \in [Handles -> {"free", "up", "failed", "dead"}]
        /\ \A h \in Handles : proc'[h] = "up" => proc[h] = "up"
        /\ req[r].handle \in Handles => proc'[req[r].handle] # "up"
    BY <1>1 DEF IInv, TypeOK
  <1>4. TypeOK'
    BY <1>1, <1>2, <1>3 DEF IInv, TypeOK, Moves
  <1>5. RoomOK'
    BY <1>1, <1>2, QuietRoom DEF IInv, InHand
  <1>6. SameShape /\ \A s \in Sids : session'[s].busy => session[s].busy
    BY <1>1, Same
  <1>7. Staged(req'[r])
    BY <1>2 DEF Staged, Sided
  <1>. QED  BY <1>1, <1>2, <1>3, <1>4, <1>5, <1>6, <1>7, Quiet DEF Marking

(* A client leaves.  What it had in hand is freed, released, or named in   *)
(* orphans and stuck.                                                      *)
LEMMA DropStep ==
  ASSUME IInv, NEW r \in Requests, Drop(r) PROVE IInv'
  <1>1. /\ proc' = IF At(r, "register") THEN [proc EXCEPT ![req[r].handle] = "free"]
                   ELSE IF At(r, "turn") THEN Buried(req[r].handle) ELSE proc
        /\ session' = IF At(r, "queue") \/ At(r, "turn") THEN Unmarked(r) ELSE session
        /\ table' = IF table = r THEN None ELSE table
        /\ turn' = IF turn = r THEN None ELSE turn
        /\ Becomes(r, Idle)
        /\ owed' = owed \ {r}
        /\ orphans' = IF req[r].pc \in {"insert", "unbridge", "kill"} /\ req[r].handle # NoId
                      THEN orphans \cup {req[r].handle} ELSE orphans
        /\ stuck' = IF At(r, "rebridge") THEN stuck \cup {req[r].sid} ELSE stuck
        /\ UNCHANGED <<sessions, spawned, agents, peers, deaths, asks>>
    BY DEF Drop, ids
  <1>2. req[r] \in Request /\ Staged(req[r])
    BY Where
  <1>3. Moves(r) /\ req'[r].pc = "idle"
    BY <1>1, Idles, Become DEF IInv
  <1>4. /\ proc' \in [Handles -> {"free", "up", "failed", "dead"}]
        /\ \A h \in Handles : proc'[h] = "up" => proc[h] = "up"
        /\ req[r].pc = "register" => proc'[req[r].handle] # "up"
    <2>1. CASE req[r].pc = "register"
      <3>1. proc' = [proc EXCEPT ![req[r].handle] = "free"] /\ req[r].handle \in Handles
        BY <1>1, <1>2, <2>1 DEF At, Staged
      <3>. QED  BY <3>1 DEF IInv, TypeOK
    <2>2. CASE req[r].pc = "turn"
      BY <1>1, <2>2, BuriedIs DEF IInv, At
    <2>3. CASE req[r].pc \notin {"register", "turn"}
      BY <1>1, <2>3 DEF IInv, TypeOK, At
    <2>. QED  BY <2>1, <2>2, <2>3
  <1>5. /\ session' \in Sessions /\ Clear' /\ SameShape
        /\ \A s \in Sids : session'[s].busy => session[s].busy
        /\ req[r].pc \in {"queue", "turn"} => ~session'[req[r].sid].busy
    <2>1. CASE req[r].pc \in {"queue", "turn"}
      BY <1>1, <1>2, <2>1, UnmarkedIs DEF IInv, At, Staged, Sided
    <2>2. CASE req[r].pc \notin {"queue", "turn"}
      BY <1>1, <2>2, Same DEF IInv, TypeOK, At, Sessions, Clear
    <2>. QED  BY <2>1, <2>2
  <1>6. /\ orphans \subseteq orphans' /\ orphans' \subseteq Handles
        /\ stuck \subseteq stuck' /\ stuck' \subseteq Sids
    <2>1. req[r].handle # NoId => req[r].handle \in Handles
      BY <1>2 DEF Request
    <2>2. req[r].pc = "rebridge" => req[r].sid \in Sids
      BY <1>2 DEF Staged, Sided
    <2>. QED  BY <1>1, <2>1, <2>2 DEF IInv, TypeOK, At
  <1>7. TypeOK'
    BY <1>1, <1>3, <1>4, <1>5, <1>6 DEF IInv, TypeOK, Moves, Sessions, Clear
  <1>8. RoomOK'
    BY <1>1, <1>3, QuietRoom DEF IInv, InHand
  <1>9. req[r].pc \in Holding =>
            req[r].handle \in orphans' \/ req[r].handle \notin Handles \/ proc'[req[r].handle] # "up"
    BY <1>1, <1>4, Basics DEF Holding
  <1>10. req[r].pc \in Marking =>
            req[r].sid \in stuck' \/ ~session'[req[r].sid].busy
    BY <1>1, <1>5 DEF Marking, At
  <1>11. /\ table' = None \/ (table' = table /\ table # r)
         /\ turn' = None \/ (turn' = turn /\ turn # r /\ agents \subseteq agents')
         /\ sessions' = sessions /\ Staged(req'[r])
    BY <1>1, <1>3 DEF Staged, Sided
  <1>. QED  BY <1>3, <1>4, <1>5, <1>6, <1>7, <1>8, <1>9, <1>10, <1>11, Quiet

-----------------------------------------------------------------------------
(* Steps that open and close sessions, or give them their agent.  All but  *)
(* Register have the table unlocked.                                       *)
LEMMA OneSession ==
  ASSUME TypeOK, NEW s \in Sids, NEW x \in Session, ~x.open => x = Closed,
         session' = [session EXCEPT ![s] = x]
  PROVE  /\ session' \in Sessions /\ Clear' /\ session'[s] = x
         /\ \A t \in Sids : t # s => session'[t] = session[t]
  BY DEF TypeOK, Sessions, Clear

LEMMA ClosedIs == Closed \in Session /\ ~Closed.open /\ ~Closed.busy
  BY Basics DEF Closed, Session

(* A session is closed whose agent is dead, or which r has in hand now.    *)
LEMMA CloseStep ==
  ASSUME IInv, TypeOK', NEW r \in Requests, Moves(r), Staged(req'[r]), table = None,
         NEW s \in Sids, session' = [session EXCEPT ![s] = Closed],
         req[r].pc \in {"find", "remove"},
         req'[r].pc \in InHand => req[r].pc = "find",
         req'[r].pc # "turn",
         \/ session[s].handle \in Handles => proc[session[s].handle] # "up"
         \/ req'[r].pc \in Holding /\ req'[r].handle = session[s].handle,
         UNCHANGED <<sessions, proc, agents, table, turn, orphans, stuck>>
  PROVE  IInv'
  <1>1. /\ session'[s] = Closed /\ \A t \in Sids : t # s => session'[t] = session[t]
    BY ClosedIs, OneSession DEF IInv
  <1>2. StageOK'
    BY QuietStage DEF IInv
  <1>3. TableOK' /\ Unused'
    BY <1>1, ClosedIs DEF TableOK, Unused, IInv
  <1>4. TurnOnRegistered'
    <2>1. turn \in Requests \cup {None} /\ turn # r
      BY Where DEF IInv, TypeOK
    <2>. QED  BY <2>1, QuietTurn DEF IInv
  <1>5. RoomOK'
    <2>1. table # r
      BY Basics
    <2>. QED  BY <2>1, QuietRoom DEF IInv, InHand
  <1>6. LiveAgentsOwned'
    <2>. SUFFICES ASSUME NEW h \in Handles, proc'[h] = "up"
                  PROVE  \/ \E t \in Sids : session'[t].open /\ session'[t].handle = h
                         \/ \E x \in Requests : req'[x].pc \in Holding /\ req'[x].handle = h
                         \/ h \in orphans'
      BY DEF LiveAgentsOwned
    <2>1. ASSUME NEW t \in Sids, session[t].open, session[t].handle = h
          PROVE  \/ \E q \in Sids : session'[q].open /\ session'[q].handle = h
                 \/ \E x \in Requests : req'[x].pc \in Holding /\ req'[x].handle = h
      BY <1>1, <2>1
    <2>2. ASSUME NEW x \in Requests, req[x].pc \in Holding, req[x].handle = h
          PROVE  req'[x].pc \in Holding /\ req'[x].handle = h
      BY <2>2 DEF Moves, Holding
    <2>3. proc[h] = "up" /\ orphans' = orphans
      OBVIOUS
    <2>. QED  BY <2>1, <2>2, <2>3 DEF IInv, LiveAgentsOwned
  <1>7. NoStuckBusy'
    <2>1. \A t \in Sids : session'[t].busy => session[t].busy
      BY <1>1, ClosedIs
    <2>. QED  BY <2>1, QuietBusy DEF IInv, Marking
  <1>. QED  BY <1>2, <1>3, <1>4, <1>5, <1>6, <1>7 DEF IInv

LEMMA RemoveStep ==
  ASSUME IInv, NEW r \in Requests, Remove(r) PROVE IInv'
  <1>1. /\ req[r].pc = "remove" /\ table = None
        /\ UNCHANGED <<sessions, spawned, proc, agents, table, turn, peers, owed, left, orphans,
                       stuck, deaths, asks>>
    BY DEF Remove, At, ids, rest, left
  <1>2. req[r] \in Request /\ req[r].sid \in Sids
    BY <1>1, Where DEF Staged, Sided
  <1>3. CASE session[req[r].sid].open
    <2>. DEFINE s == req[r].sid
                q == [req[r] EXCEPT !.pc = "unbridge", !.label = session[s].label,
                                    !.handle = session[s].handle]
    <2>1. session[s] \in Session
      BY <1>2 DEF IInv, TypeOK
    <2>2. q \in Request /\ q.pc = "unbridge" /\ q.sid = s /\ q.handle = session[s].handle
      BY <1>2, <2>1 DEF Request, Session, Stages
    <2>3. req' = [req EXCEPT ![r] = q] /\ session' = [session EXCEPT ![s] = Closed]
      BY <1>3 DEF Remove
    <2>. HIDE DEF q
    <2>4. Moves(r) /\ req'[r] = q
      BY <2>2, <2>3, Put DEF IInv
    <2>5. session' \in Sessions /\ Clear'
      BY <1>2, <2>3, ClosedIs, OneSession DEF IInv
    <2>6. TypeOK'
      BY <1>1, <2>4, <2>5 DEF IInv, TypeOK, Moves, Sessions, Clear
    <2>. QED  BY <1>1, <1>2, <2>2, <2>3, <2>4, <2>6, CloseStep DEF Staged, Sided, Holding, InHand
  <1>4. CASE ~session[req[r].sid].open
    <2>1. Ends(r) /\ session' = session
      BY <1>4 DEF Remove
    <2>2. Moves(r) /\ req'[r].pc \in {"idle", "reap"}
      BY <2>1, End DEF IInv
    <2>3. TypeOK'
      BY <1>1, <2>1, <2>2 DEF IInv, TypeOK, Moves
    <2>. QED  BY <1>1, <2>1, <2>2, <2>3, Onward DEF Staged, Sided, InHand, Holding, Marking
  <1>. QED  BY <1>3, <1>4

LEMMA FindStep ==
  ASSUME IInv, NEW r \in Requests, Find(r) PROVE IInv'
  <1>. DEFINE next == IF req[r].always THEN "spawn" ELSE "insert"
              same == {s \in Sids : session[s].open /\ session[s].label = req[r].label}
  <1>1. /\ req[r].pc = "find" /\ table = None
        /\ UNCHANGED <<sessions, spawned, proc, agents, table, turn, peers, owed, left, orphans,
                       stuck, deaths, asks>>
    BY DEF Find, At, ids, rest, left
  <1>2. req[r] \in Request /\ next \in {"spawn", "insert"} /\ next \in Stages /\ turn # r
    BY <1>1, Where DEF Stages
  <1>3. CASE Goes(r, next) /\ session' = session
    <2>1. Moves(r) /\ req'[r].pc = next
      BY <1>2, <1>3, Go DEF IInv
    <2>2. TypeOK'
      BY <1>1, <1>3, <2>1 DEF IInv, TypeOK, Moves
    <2>. QED  BY <1>1, <1>2, <1>3, <2>1, <2>2, Onward DEF Staged, Sided, InHand, Holding, Marking
  <1>4. ASSUME NEW s \in same, Reusable(s),
               session' = [session EXCEPT ![s].stale = FALSE],
               IF req[r].kind = "task"
               THEN req' = [req EXCEPT ![r].pc = "admit", ![r].sid = s] ELSE Ends(r)
        PROVE  IInv'
    <2>. DEFINE x == [session[s] EXCEPT !.stale = FALSE]
                q == [req[r] EXCEPT !.pc = "admit", !.sid = s]
    <2>1. session[s] \in Session /\ session[s].open /\ s \in Sids
      BY DEF IInv, TypeOK
    <2>2. /\ x \in Session /\ x.open = session[s].open /\ x.open /\ x.handle = session[s].handle
         /\ (x.busy => session[s].busy)
      BY <2>1 DEF Session
    <2>3. session' = [session EXCEPT ![s] = x]
      BY <1>4
    <2>. HIDE DEF x
    <2>4. /\ session' \in Sessions /\ Clear' /\ session'[s] = x
          /\ \A t \in Sids : t # s => session'[t] = session[t]
      BY <2>1, <2>2, <2>3, OneSession DEF IInv
    <2>5. SameShape /\ \A t \in Sids : session'[t].busy => session[t].busy
      BY <2>1, <2>2, <2>4 DEF SameShape
    <2>6. /\ Moves(r) /\ req'[r].pc \in {"idle", "reap", "admit"}
          /\ req'[r].pc = "admit" => req'[r].sid \in Sids
      <3>1. CASE req[r].kind = "task"
        <4>1. q \in Request /\ q.pc = "admit" /\ q.sid = s
          BY <1>2, <2>1 DEF Request, Stages
        <4>2. req' = [req EXCEPT ![r] = q]
          BY <1>4, <3>1
        <4>. HIDE DEF q
        <4>. QED  BY <2>1, <4>1, <4>2, Put DEF IInv
      <3>2. CASE req[r].kind # "task"
        BY <1>4, <3>2, End DEF IInv
      <3>. QED  BY <3>1, <3>2
    <2>7. TypeOK'
      BY <1>1, <2>4, <2>6 DEF IInv, TypeOK, Moves, Sessions, Clear
    <2>8. RoomOK'
      BY <1>1, <2>6, QuietRoom DEF IInv, InHand
    <2>9. Staged(req'[r])
      BY <2>6 DEF Staged, Sided
    <2>. QED  BY <1>1, <1>2, <2>5, <2>6, <2>7, <2>8, <2>9, Quiet DEF Holding, Marking
  <1>5. ASSUME NEW s \in same, ~Reusable(s),
               session' = [session EXCEPT ![s] = Closed], Goes(r, next)
        PROVE  IInv'
    <2>1. s \in Sids
      OBVIOUS
    <2>2. Moves(r) /\ req'[r].pc = next
      BY <1>2, <1>5, Go DEF IInv
    <2>3. session' \in Sessions /\ Clear'
      BY <1>5, <2>1, ClosedIs, OneSession DEF IInv
    <2>4. TypeOK'
      BY <1>1, <2>2, <2>3 DEF IInv, TypeOK, Moves, Sessions, Clear
    <2>5. proc[session[s].handle] # "up"
      BY <1>5 DEF Reusable
    <2>6. Staged(req'[r]) /\ req'[r].pc \notin {"turn"}
      BY <1>2, <2>2 DEF Staged, Sided
    <2>. QED  BY <1>1, <1>5, <2>1, <2>2, <2>4, <2>5, <2>6, CloseStep
  <1>. QED  BY <1>3, <1>4, <1>5 DEF Find

-----------------------------------------------------------------------------
(* A session is made: its number is new, and the room of r is used up.     *)
LEMMA InsertStep ==
  ASSUME IInv, NEW r \in Requests, Insert(r) PROVE IInv'
  <1>. DEFINE x == [Closed EXCEPT !.open = TRUE, !.label = req[r].label, !.handle = req[r].handle]
              q == [req[r] EXCEPT !.pc = "bridge", !.sid = sessions']
  <1>1. /\ req[r].pc = "insert" /\ table = None /\ sessions' = sessions + 1
        /\ session' = [session EXCEPT ![sessions'] = x] /\ req' = [req EXCEPT ![r] = q]
        /\ UNCHANGED <<spawned, proc, agents, table, turn, peers, owed, orphans, stuck, deaths, asks>>
    BY DEF Insert, At, rest, left
  <1>2. req[r] \in Request /\ turn # r /\ turn \in Requests \cup {None}
    BY <1>1, Where DEF IInv, TypeOK
  <1>3. r \in Making /\ Making' \subseteq Making \ {r}
    <2>1. r \in Making
      BY <1>1, Basics DEF Making
    <2>2. req'[r].pc = "bridge" /\ \A y \in Requests : y # r => req'[y] = req[y]
      BY <1>1, <1>2 DEF IInv, TypeOK, Request
    <2>. QED  BY <1>1, <2>1, <2>2 DEF Making
  <1>4. /\ sessions \in Nat /\ sessions + 1 \in Sids
        /\ Cardinality(Making') \in Nat /\ sessions + 1 + Cardinality(Making') <= MaxSessions
    <2>1. IsFiniteSet(Making \ {r}) /\ Cardinality(Making \ {r}) = Cardinality(Making) - 1
      <3>1. /\ IsFiniteSet(Making \ {r})
            /\ Cardinality(Making \ {r})
                 = IF r \in Making THEN Cardinality(Making) - 1 ELSE Cardinality(Making)
        BY MakingFinite, FS_RemoveElement, Zenon
      <3>. QED  BY <1>3, <3>1
    <2>2. IsFiniteSet(Making') /\ Cardinality(Making') <= Cardinality(Making \ {r})
      BY <1>3, <2>1, FS_Subset
    <2>3. Cardinality(Making') \in Nat /\ Cardinality(Making) \in Nat
      BY <2>2, MakingFinite, FS_CardinalityType
    <2>4. sessions \in Nat /\ sessions + Cardinality(Making) <= MaxSessions
      BY DEF IInv, TypeOK, RoomOK
    <2>. QED  BY <2>1, <2>2, <2>3, <2>4, Basics
  <1>5. x \in Session /\ x.open /\ x.handle = req[r].handle /\ ~x.busy
    BY <1>2, Basics DEF Closed, Session, Request
  <1>6. q \in Request /\ q.pc = "bridge" /\ q.sid = sessions + 1 /\ q.handle = req[r].handle
    BY <1>1, <1>2, <1>4 DEF Request, Stages
  <1>. HIDE DEF x, q
  <1>7. Moves(r) /\ req'[r] = q
    BY <1>1, <1>6, Put DEF IInv
  <1>8. /\ session' \in Sessions /\ Clear' /\ session'[sessions + 1] = x
        /\ \A t \in Sids : t # sessions + 1 => session'[t] = session[t]
    BY <1>1, <1>4, <1>5, OneSession DEF IInv
  <1>9. TypeOK'
    BY <1>1, <1>4, <1>7, <1>8, Basics DEF IInv, TypeOK, Moves, Sessions, Clear
  <1>10. StageOK'
    BY <1>4, <1>6, <1>7, QuietStage DEF IInv, Staged
  <1>11. TableOK'
    BY <1>1 DEF TableOK
  <1>12. Unused'
    <2>. SUFFICES ASSUME NEW t \in Sids, session'[t].open PROVE t <= sessions + 1
      BY <1>1 DEF Unused
    <2>1. CASE t = sessions + 1
      BY <1>4, <2>1, Basics
    <2>2. CASE t # sessions + 1
      <3>1. t <= sessions
        BY <1>8, <2>2 DEF IInv, Unused
      <3>. QED  BY <1>4, <3>1, Basics
    <2>. QED  BY <2>1, <2>2
  <1>13. RoomOK'
    BY <1>1, <1>4 DEF RoomOK
  <1>14. TurnOnRegistered'
    BY <1>1, <1>2, <1>7, QuietTurn DEF IInv
  <1>15. LiveAgentsOwned'
    <2>. SUFFICES ASSUME NEW h \in Handles, proc'[h] = "up"
                  PROVE  \/ \E t \in Sids : session'[t].open /\ session'[t].handle = h
                         \/ \E y \in Requests : req'[y].pc \in Holding /\ req'[y].handle = h
                         \/ h \in orphans'
      BY DEF LiveAgentsOwned
    <2>1. ASSUME NEW t \in Sids, session[t].open, session[t].handle = h
          PROVE  session'[t].open /\ session'[t].handle = h
      <3>1. t <= sessions
        BY <2>1 DEF IInv, Unused
      <3>2. t # sessions + 1
        BY <1>4, <3>1, Basics
      <3>. QED  BY <1>8, <2>1, <3>2
    <2>2. ASSUME NEW y \in Requests, req[y].pc \in Holding, req[y].handle = h
          PROVE  \/ \E t \in Sids : session'[t].open /\ session'[t].handle = h
                 \/ \E z \in Requests : req'[z].pc \in Holding /\ req'[z].handle = h
      <3>1. CASE y = r
        BY <1>4, <1>5, <1>8, <2>2, <3>1
      <3>2. CASE y # r
        BY <1>7, <2>2, <3>2 DEF Moves
      <3>. QED  BY <3>1, <3>2
    <2>3. proc[h] = "up" /\ orphans' = orphans
      BY <1>1
    <2>. QED  BY <2>1, <2>2, <2>3 DEF IInv, LiveAgentsOwned
  <1>16. NoStuckBusy'
    <2>1. \A t \in Sids : session'[t].busy => session[t].busy
      BY <1>4, <1>5, <1>8
    <2>. QED  BY <1>1, <1>7, <2>1, QuietBusy DEF IInv, Marking
  <1>. QED  BY <1>9, <1>10, <1>11, <1>12, <1>13, <1>14, <1>15, <1>16 DEF IInv

(* A session is marked: the prompt that marks it goes on to its guard.     *)
LEMMA AdmittedIs ==
  ASSUME TypeOK, NEW s \in Sids, session[s].open, NEW h \in Handles, session' = Admitted(s, h)
  PROVE  /\ session' \in Sessions /\ Clear'
         /\ session'[s].open = session[s].open /\ session'[s].handle = h
         /\ \A t \in Sids : t # s => session'[t] = session[t]
  <1>. DEFINE x == [session[s] EXCEPT !.handle = h, !.busy = TRUE, !.stale = FALSE]
  <1>1. session[s] \in Session
    BY DEF TypeOK
  <1>2. x \in Session /\ x.open = session[s].open /\ x.handle = h /\ x.open
    BY <1>1 DEF Session
  <1>3. session' = [session EXCEPT ![s] = x]
    BY DEF Admitted
  <1>. HIDE DEF x
  <1>. QED  BY <1>2, <1>3, OneSession

LEMMA MarkedBusy ==
  ASSUME NoStuckBusy, NEW r \in Requests, Moves(r), req[r].pc \notin Marking, NEW s \in Sids,
         \A t \in Sids : t # s => session'[t] = session[t],
         req'[r].pc \in Marking, req'[r].sid = s, stuck' = stuck
  PROVE  NoStuckBusy'
  <1>. SUFFICES ASSUME NEW t \in Sids, session'[t].busy
                PROVE  \/ \E x \in Requests : req'[x].pc \in Marking /\ req'[x].sid = t
                       \/ t \in stuck'
    BY DEF NoStuckBusy, Marking
  <1>1. CASE t = s
    BY <1>1
  <1>2. CASE t # s
    <2>1. (\E x \in Requests : req[x].pc \in Marking /\ req[x].sid = t) \/ t \in stuck
      BY <1>2 DEF NoStuckBusy, Marking
    <2>2. ASSUME NEW x \in Requests, req[x].pc \in Marking, req[x].sid = t
          PROVE  req'[x].pc \in Marking /\ req'[x].sid = t
      BY <2>2 DEF Moves
    <2>. QED  BY <2>1, <2>2
  <1>. QED  BY <1>1, <1>2

LEMMA AdmitStep ==
  ASSUME IInv, NEW r \in Requests, Admit(r) PROVE IInv'
  <1>. DEFINE s == req[r].sid
              q == [req[r] EXCEPT !.label = session[s].label, !.handle = session[s].handle]
  <1>1. /\ req[r].pc = "admit" /\ table = None
        /\ UNCHANGED <<sessions, spawned, proc, agents, turn, peers, owed, left, orphans, stuck,
                       deaths, asks>>
    BY DEF Admit, At, ids, rest, left
  <1>2. /\ req[r] \in Request /\ s \in Sids /\ session[s] \in Session
        /\ turn # r /\ turn \in Requests \cup {None}
    BY <1>1, Where DEF Staged, Sided, IInv, TypeOK
  <1>3. q \in Request /\ q.sid = s /\ q.handle = session[s].handle
    BY <1>2 DEF Request, Session
  <1>4. CASE ~session[s].open
    <2>1. req' = [req EXCEPT ![r] = PromptOver(req[r])] /\ session' = session /\ table' = table
      BY <1>4 DEF Admit
    <2>2. /\ Moves(r) /\ req'[r].pc \in {"idle", "reap", "remove"}
          /\ req'[r].pc = "remove" => req'[r].sid = s
      BY <1>2, <2>1, OverIs, Put DEF IInv
    <2>3. TypeOK'
      BY <1>1, <2>1, <2>2 DEF IInv, TypeOK, Moves
    <2>. QED  BY <1>1, <1>2, <2>1, <2>2, <2>3, Onward DEF Staged, Sided, InHand, Holding, Marking
  <1>5. CASE session[s].open /\ session[s].handle = NoId
    <2>. DEFINE p == [q EXCEPT !.pc = "spawn"]
    <2>1. p \in Request /\ p.pc = "spawn" /\ p.sid = s
      BY <1>3 DEF Request, Stages
    <2>2. req' = [req EXCEPT ![r] = p] /\ table' = r /\ session' = session
      BY <1>5 DEF Admit
    <2>. HIDE DEF p, q
    <2>3. Moves(r) /\ req'[r] = p
      BY <2>1, <2>2, Put DEF IInv
    <2>4. TypeOK'
      BY <1>1, <2>2, <2>3 DEF IInv, TypeOK, Moves
    <2>5. StageOK'
      BY <2>1, <2>3, QuietStage DEF IInv, Staged, Sided
    <2>6. TableOK' /\ Unused'
      BY <1>1, <1>2, <1>5, <2>1, <2>2, <2>3 DEF IInv, TableOK, Unused
    <2>7. RoomOK'
      BY <1>1, <2>2, <2>3, Basics, QuietRoom DEF IInv
    <2>8. TurnOnRegistered'
      BY <1>1, <1>2, <2>3, QuietTurn DEF IInv
    <2>9. LiveAgentsOwned'
      BY <1>1, <2>2, <2>3, Same, QuietLive DEF IInv, Holding
    <2>10. NoStuckBusy'
      BY <1>1, <2>2, <2>3, Same, QuietBusy DEF IInv, Marking
    <2>. QED  BY <2>4, <2>5, <2>6, <2>7, <2>8, <2>9, <2>10 DEF IInv
  <1>6. CASE session[s].open /\ session[s].handle # NoId
    <2>. DEFINE p == [q EXCEPT !.pc = "queue"]
    <2>1. p \in Request /\ p.pc = "queue" /\ p.sid = s
      BY <1>3 DEF Request, Stages
    <2>2. /\ req' = [req EXCEPT ![r] = p] /\ table' = table
          /\ session' = Admitted(s, session[s].handle)
      BY <1>6 DEF Admit
    <2>3. session[s].handle \in Handles
      BY <1>2, <1>6 DEF Session
    <2>. HIDE DEF p, q
    <2>4. Moves(r) /\ req'[r] = p
      BY <2>1, <2>2, Put DEF IInv
    <2>5. /\ session' \in Sessions /\ Clear'
          /\ session'[s].open = session[s].open /\ session'[s].handle = session[s].handle
          /\ \A t \in Sids : t # s => session'[t] = session[t]
      BY <1>2, <1>6, <2>2, <2>3, AdmittedIs DEF IInv
    <2>6. SameShape
      BY <2>5 DEF SameShape
    <2>7. TypeOK'
      BY <1>1, <2>2, <2>4, <2>5 DEF IInv, TypeOK, Moves, Sessions, Clear
    <2>8. StageOK'
      BY <1>2, <2>1, <2>4, QuietStage DEF IInv, Staged, Sided
    <2>9. TableOK' /\ Unused'
      BY <1>1, <2>2, <2>6, QuietUnused DEF IInv, TableOK
    <2>10. RoomOK'
      BY <1>1, <2>1, <2>2, <2>4, QuietRoom DEF IInv, InHand
    <2>11. TurnOnRegistered'
      BY <1>1, <1>2, <2>4, QuietTurn DEF IInv
    <2>12. LiveAgentsOwned'
      BY <1>1, <2>4, <2>6, QuietLive DEF IInv, Holding
    <2>13. NoStuckBusy'
      BY <1>1, <1>2, <2>1, <2>4, <2>5, MarkedBusy DEF IInv, Marking
    <2>. QED  BY <2>7, <2>8, <2>9, <2>10, <2>11, <2>12, <2>13 DEF IInv
  <1>. QED  BY <1>4, <1>5, <1>6

(* An agent is registered.  A prompt enters it in its session, which has   *)
(* waited for it under the lock of the table.                              *)
LEMMA RegisterStep ==
  ASSUME IInv, NEW r \in Requests, Register(r) PROVE IInv'
  <1>1. /\ req[r].pc = "register" /\ turn = None /\ agents' = agents \cup {req[r].handle}
        /\ UNCHANGED <<sessions, spawned, proc, turn, peers, owed, orphans, stuck, deaths, asks>>
    BY DEF Register, At, ids, rest, left
  <1>2. req[r] \in Request /\ req[r].handle \in Handles
    BY <1>1, Where DEF Staged
  <1>3. CASE table # r
    <2>1. Goes(r, "insert") /\ session' = session /\ table' = table
      BY <1>3 DEF Register
    <2>2. /\ Moves(r) /\ req'[r].pc = "insert" /\ req'[r].handle = req[r].handle
      BY <2>1, Go DEF IInv, Stages
    <2>3. TypeOK'
      BY <1>1, <1>2, <2>1, <2>2 DEF IInv, TypeOK, Moves
    <2>4. RoomOK'
      BY <1>1, <1>3, <2>1, <2>2, QuietRoom DEF IInv, InHand
    <2>5. SameShape /\ \A t \in Sids : session'[t].busy => session[t].busy
      BY <2>1, Same
    <2>6. Staged(req'[r]) /\ turn' = None
      BY <1>1, <2>2 DEF Staged, Sided
    <2>. QED  BY <1>1, <1>3, <2>1, <2>2, <2>3, <2>4, <2>5, <2>6, Quiet DEF Holding, Marking
  <1>4. CASE table = r
    <2>. DEFINE s == req[r].sid
                h == req[r].handle
    <2>1. session' = Admitted(s, h) /\ table' = None /\ Goes(r, "rebridge")
      BY <1>4 DEF Register
    <2>2. s \in Sids /\ session[s].open /\ session[s].handle = NoId
      BY <1>4, Basics DEF IInv, TableOK
    <2>3. /\ Moves(r) /\ req'[r].pc = "rebridge" /\ req'[r].sid = s
      BY <2>1, Go DEF IInv, Stages
    <2>4. /\ session' \in Sessions /\ Clear'
          /\ session'[s].open = session[s].open /\ session'[s].handle = h
          /\ \A t \in Sids : t # s => session'[t] = session[t]
      BY <1>2, <2>1, <2>2, AdmittedIs DEF IInv
    <2>5. TypeOK'
      BY <1>1, <1>2, <2>1, <2>3, <2>4 DEF IInv, TypeOK, Moves, Sessions, Clear
    <2>6. StageOK'
      BY <2>2, <2>3, QuietStage DEF IInv, Staged, Sided
    <2>7. TableOK' /\ Unused'
      BY <1>1, <2>1, <2>2, <2>4 DEF IInv, TableOK, Unused
    <2>8. RoomOK'
      BY <1>1, <1>4, <2>3, QuietRoom DEF IInv, InHand
    <2>9. TurnOnRegistered'
      BY <1>1 DEF TurnOnRegistered
    <2>10. LiveAgentsOwned'
      <3>. SUFFICES ASSUME NEW g \in Handles, proc'[g] = "up"
                    PROVE  \/ \E t \in Sids : session'[t].open /\ session'[t].handle = g
                           \/ \E x \in Requests : req'[x].pc \in Holding /\ req'[x].handle = g
                           \/ g \in orphans'
        BY DEF LiveAgentsOwned
      <3>1. ASSUME NEW t \in Sids, session[t].open, session[t].handle = g
            PROVE  session'[t].open /\ session'[t].handle = g
        BY <2>2, <2>4, <3>1, Basics
      <3>2. ASSUME NEW x \in Requests, req[x].pc \in Holding, req[x].handle = g
            PROVE  \/ \E t \in Sids : session'[t].open /\ session'[t].handle = g
                   \/ \E y \in Requests : req'[y].pc \in Holding /\ req'[y].handle = g
        <4>1. CASE x = r
          BY <2>2, <2>4, <3>2, <4>1
        <4>2. CASE x # r
          BY <2>3, <3>2, <4>2 DEF Moves
        <4>. QED  BY <4>1, <4>2
      <3>3. proc[g] = "up" /\ orphans' = orphans
        BY <1>1
      <3>. QED  BY <3>1, <3>2, <3>3 DEF IInv, LiveAgentsOwned
    <2>11. NoStuckBusy'
      BY <1>1, <2>2, <2>3, <2>4, MarkedBusy DEF IInv, Marking
    <2>. QED  BY <2>5, <2>6, <2>7, <2>8, <2>9, <2>10, <2>11 DEF IInv
  <1>. QED  BY <1>3, <1>4

-----------------------------------------------------------------------------
(* The world: an agent dies, a session goes idle.                          *)
LEMMA AgentDiesStep ==
  ASSUME IInv, NEW h \in Handles, AgentDies(h) PROVE IInv'
  <1>1. /\ deaths < MaxDeaths /\ deaths' = deaths + 1
        /\ proc' = [proc EXCEPT ![h] = IF turn # None /\ req[turn].handle = h
                                       THEN "failed" ELSE "dead"]
        /\ UNCHANGED <<sessions, spawned, session, agents, table, turn, req, peers, owed, orphans,
                       stuck, asks>>
    BY DEF AgentDies, ids, left
  <1>2. TypeOK' /\ \A g \in Handles : proc'[g] = "up" => proc[g] = "up"
    BY <1>1, AcpAssumption DEF IInv, TypeOK
  <1>3. StageOK' /\ TableOK' /\ Unused' /\ TurnOnRegistered' /\ NoStuckBusy'
    BY <1>1 DEF IInv, StageOK, Staged, TableOK, Unused, TurnOnRegistered, NoStuckBusy, At
  <1>4. RoomOK'
    BY <1>1 DEF IInv, RoomOK, Making
  <1>5. LiveAgentsOwned'
    BY <1>1, <1>2 DEF IInv, LiveAgentsOwned
  <1>. QED  BY <1>2, <1>3, <1>4, <1>5 DEF IInv

LEMMA GoesIdleStep ==
  ASSUME IInv, NEW s \in Sids, GoesIdle(s) PROVE IInv'
  <1>. DEFINE x == [session[s] EXCEPT !.stale = TRUE]
  <1>1. /\ session[s].open /\ session' = [session EXCEPT ![s] = x]
        /\ UNCHANGED <<sessions, spawned, proc, agents, table, turn, req, peers, owed, orphans,
                       stuck, deaths, asks>>
    BY DEF GoesIdle, ids, rest, left
  <1>2. session[s] \in Session
    BY DEF IInv, TypeOK
  <1>3. /\ x \in Session /\ x.open = session[s].open /\ x.handle = session[s].handle
        /\ x.open /\ (x.busy => session[s].busy)
    BY <1>1, <1>2 DEF Session
  <1>. HIDE DEF x
  <1>4. /\ session' \in Sessions /\ Clear' /\ session'[s] = x
        /\ \A t \in Sids : t # s => session'[t] = session[t]
    BY <1>1, <1>3, OneSession DEF IInv
  <1>5. SameShape /\ \A t \in Sids : session'[t].busy => session[t].busy
    BY <1>3, <1>4 DEF SameShape
  <1>6. TypeOK'
    BY <1>1, <1>4 DEF IInv, TypeOK, Sessions, Clear
  <1>7. StageOK' /\ TurnOnRegistered'
    BY <1>1 DEF IInv, StageOK, Staged, TurnOnRegistered, At
  <1>8. TableOK' /\ Unused'
    BY <1>1, <1>5 DEF IInv, TableOK, Unused, SameShape
  <1>9. RoomOK'
    BY <1>1 DEF IInv, RoomOK, Making
  <1>10. LiveAgentsOwned' /\ NoStuckBusy'
    BY <1>1, <1>5 DEF IInv, LiveAgentsOwned, NoStuckBusy, SameShape
  <1>. QED  BY <1>6, <1>7, <1>8, <1>9, <1>10 DEF IInv

LEMMA InitInv == Init => IInv
  <1>. SUFFICES ASSUME Init PROVE IInv
    OBVIOUS
  <1>1. TypeOK
    BY Basics, AcpAssumption, Idles, ClosedIs DEF Init, TypeOK
  <1>2. StageOK /\ TableOK /\ Unused /\ TurnOnRegistered /\ LiveAgentsOwned /\ NoStuckBusy
    BY Idles, ClosedIs DEF Init, StageOK, Staged, Sided, TableOK, Unused, TurnOnRegistered,
       LiveAgentsOwned, NoStuckBusy
  <1>3. RoomOK
    <2>1. Making = {}
      BY Idles DEF Init, Making
    <2>2. Cardinality(Making) = 0
      BY <2>1, FS_EmptySet
    <2>. QED  BY <2>2, Basics DEF Init, RoomOK
  <1>. QED  BY <1>1, <1>2, <1>3 DEF IInv

LEMMA NextStep == IInv /\ [Next]_vars => IInv'
  <1>. SUFFICES ASSUME IInv, [Next]_vars PROVE IInv'
    OBVIOUS
  <1>1. CASE UNCHANGED vars
    BY <1>1 DEF vars, ids, rest, left, IInv, TypeOK, StageOK, Staged, TableOK, Unused, RoomOK,
       Making, TurnOnRegistered, LiveAgentsOwned, NoStuckBusy, At
  <1>2. ASSUME NEW r \in Requests, Step(r) PROVE IInv'
    BY <1>2, FindStep, SpawnStep, SpawnFailsStep, RegisterStep, InsertStep, BridgeStep, AdmitStep,
       RebridgeStep, StartTurnStep, TurnAnsweredStep, TurnFailsStep, RecordStep, ReapNextStep,
       RemoveStep, UnbridgeStep, KillStep DEF Step
  <1>. QED  BY <1>1, <1>2, ArrivesStep, DropStep, AgentDiesStep, GoesIdleStep DEF Next

LEMMA Invariance == Spec => []IInv
  BY InitInv, NextStep, PTL DEF Spec

-----------------------------------------------------------------------------
(* Every variable keeps its type, and the counters their bounds.           *)
THEOREM TypeCorrect == Spec => []TypeOK
  <1>1. IInv => TypeOK
    BY DEF IInv
  <1>. QED  BY <1>1, Invariance, PTL

(* Nobody kills the agent of a turn while the turn runs: not a close, not  *)
(* the reaper, nor a client that goes away (daemon_gui_acp.rs:364).        *)
THEOREM AgentOfTurnStays == Spec => []TurnOnRegistered
  <1>1. IInv => TurnOnRegistered
    BY DEF IInv
  <1>. QED  BY <1>1, Invariance, PTL

(* No agent lives on unowned, but for those whose client left between the  *)
(* registry and the table: there is no other leak.                         *)
THEOREM NoOtherOrphans == Spec => []LiveAgentsOwned
  <1>1. IInv => LiveAgentsOwned
    BY DEF IInv
  <1>. QED  BY <1>1, Invariance, PTL

(* No mark outlives its prompt, but where the client left before the guard *)
(* was built (daemon_gui_acp.rs:100).                                      *)
THEOREM MarksAreCleared == Spec => []NoStuckBusy
  <1>1. IInv => NoStuckBusy
    BY DEF IInv
  <1>. QED  BY <1>1, Invariance, PTL

(* A request that waits for the registry with the table in hand is a       *)
(* prompt whose session is open and has no agent: nobody can have closed   *)
(* it meanwhile, or given it another.                                      *)
THEOREM TableHeldForSpawn == Spec => []TableOK
  <1>1. IInv => TableOK
    BY DEF IInv
  <1>. QED  BY <1>1, Invariance, PTL

(* A request at a stage stays there while others move.                     *)
LEMMA OthersStay ==
  ASSUME IInv, NEW r \in Requests, NEW x \in Requests, x # r, Arrives(r) \/ Step(r) \/ Drop(r)
  PROVE  req'[x].pc = req[x].pc
  <1>1. req \in [Requests -> Request]
    BY DEF IInv, TypeOK
  <1>2. \A q : Becomes(r, q) => req'[x].pc = req[x].pc
    <2>1. [req[x] EXCEPT !.parent = None].pc = req[x].pc
      BY <1>1 DEF Request
    <2>. QED  BY <2>1 DEF Becomes
  <1>3. \A stage : Goes(r, stage) => req'[x].pc = req[x].pc
    BY <1>1 DEF Goes
  <1>4. Ends(r) => req'[x].pc = req[x].pc
    BY <1>1 DEF Ends
  <1>5. \A q : Begin(r, q) => req'[x].pc = req[x].pc
    BY <1>1 DEF Begin
  <1>6. CASE Arrives(r)
    BY <1>5, <1>6 DEF Arrives, CreateComes, PromptComes, TaskComes, Ask, Task, HeartbeatComes,
       CloseComes, ReapComes
  <1>7. CASE Drop(r)
    BY <1>2, <1>7 DEF Drop
  <1>8. CASE Find(r) \/ Spawn(r) \/ SpawnFails(r) \/ Register(r) \/ Insert(r) \/ Bridge(r)
    BY <1>1, <1>3, <1>4, <1>8 DEF Find, Spawn, SpawnFails, Register, Insert, Bridge
  <1>9. CASE Admit(r) \/ Rebridge(r) \/ StartTurn(r) \/ TurnAnswered(r) \/ TurnFails(r) \/ Record(r)
    BY <1>1, <1>2, <1>3, <1>4, <1>9 DEF Admit, Rebridge, StartTurn, TurnAnswered, TurnFails, Record
  <1>10. CASE ReapNext(r) \/ Remove(r) \/ Unbridge(r) \/ Kill(r)
    BY <1>1, <1>3, <1>4, <1>10 DEF ReapNext, Remove, Unbridge, Kill
  <1>. QED  BY <1>6, <1>7, <1>8, <1>9, <1>10 DEF Step

(* An answered task is recorded, whatever became of its session.           *)
THEOREM AnswersRecorded == Spec => TaskAnswersKept
  <1>. DEFINE Kept == \A r \in Requests :
                 At(r, "record") /\ req[r].kind = "task" /\ ~At(r, "record")' => r \notin owed'
  <1>1. IInv /\ [Next]_vars => [Kept]_vars
    <2>. SUFFICES ASSUME IInv, Next, NEW r \in Requests, req[r].pc = "record",
                         req[r].kind = "task", req'[r].pc # "record"
                  PROVE  r \notin owed'
      BY DEF At
    <2>1. ASSUME NEW x \in Requests, Arrives(x) \/ Step(x) \/ Drop(x) PROVE r \notin owed'
      <3>1. x = r
        BY <2>1, OthersStay
      <3>2. CASE Record(r)
        BY <3>2 DEF Record
      <3>3. CASE Drop(r)
        BY <3>3 DEF Drop
      <3>4. CASE Arrives(r)
        BY <3>4 DEF Arrives, CreateComes, PromptComes, TaskComes, Ask, Task, HeartbeatComes,
           CloseComes, ReapComes, Begin
      <3>5. ASSUME Step(r) PROVE Record(r)
        BY <3>5 DEF Step, Find, Spawn, SpawnFails, Register, Insert, Bridge, Admit, Rebridge,
           StartTurn, TurnAnswered, TurnFails, ReapNext, Remove, Unbridge, Kill, At
      <3>. QED  BY <2>1, <3>1, <3>2, <3>3, <3>4, <3>5
    <2>2. (\A h \in Handles : ~AgentDies(h)) /\ (\A s \in Sids : ~GoesIdle(s))
      BY DEF AgentDies, GoesIdle
    <2>. QED  BY <2>1, <2>2 DEF Next
  <1>. QED  BY <1>1, Invariance, PTL DEF Spec, TaskAnswersKept

-----------------------------------------------------------------------------
(* Nobody waits in a ring.  For that: an agent gets its number once, so    *)
(* the one that a request is about to register is its own and lives, and   *)
(* a registered one is freed by nobody who does not unregister it.         *)
Handed ==
    /\ \A h \in agents : h <= spawned /\ proc[h] # "free"
    /\ \A s \in Sids : session[s].handle <= spawned
    /\ \A r \in Requests :
          /\ req[r].handle <= spawned
          /\ req[r].pc = "turn" => turn = r
          /\ req[r].pc = "register" =>
                /\ req[r].handle \notin agents /\ proc[req[r].handle] = "up"
                /\ \A q \in Requests : q # r => req[q].handle # req[r].handle
                /\ \A s \in Sids : session[s].handle # req[r].handle

(* Each stage is that of its kinds of requests.                            *)
Prompters == {"prompt", "task", "heartbeat"}
Suits(q) ==
    /\ q.pc \in {"admit", "rebridge", "queue", "turn"} => q.kind \in Prompters
    /\ q.pc = "record" => q.kind \in {"prompt", "task"}
    /\ q.pc \in {"find", "spawn", "register", "insert", "bridge"} => q.kind \in Prompters \cup {"create"}

Suited == \A r \in Requests : Suits(req[r]) /\ (table = r => req[r].kind \in Prompters)

Lent == Handed /\ Suited

(* What r may have taken over: its agent, or that of a session.            *)
Had(r, h) == h = NoId \/ h = req[r].handle \/ \E s \in Sids : h = session[s].handle

LEMMA HadOld ==
  ASSUME IInv, Handed, NEW r \in Requests, NEW h, Had(r, h)
  PROVE  /\ h <= spawned
         /\ \A x \in Requests : x # r /\ req[x].pc = "register" => h # req[x].handle
  <1>1. spawned \in Nat /\ 0 <= spawned
    BY Basics DEF IInv, TypeOK
  <1>2. \A x \in Requests : req[x].pc = "register" => req[x].handle # NoId
    BY Basics DEF IInv, StageOK, Staged
  <1>. QED  BY <1>1, <1>2, Basics DEF Had, Handed

(* A step of r that spawns no agent.                                       *)
LEMMA Lends ==
  ASSUME IInv, Lent, NEW r \in Requests, Moves(r), spawned' = spawned,
         Suits(req'[r]), req'[r].pc # "register",
         table' = r => req'[r].kind \in Prompters,
         \A x \in Requests : x # r /\ table' = x => table = x,
         \A x \in Requests : x # r /\ turn = x => turn' = x,
         req'[r].pc = "turn" => turn' = r,
         Had(r, req'[r].handle), \A s \in Sids : Had(r, session'[s].handle),
         \A h \in agents' : (h \in agents \/ h = req[r].handle) /\ proc'[h] # "free",
         \A x \in Requests : x # r /\ req[x].pc = "register" => proc'[req[x].handle] = "up"
  PROVE  Lent'
  <1>1. Suited'
    BY DEF Lent, Suited, Suits, Moves
  <1>2. \A h \in agents' : h <= spawned' /\ proc'[h] # "free"
    BY DEF Lent, Handed
  <1>3. \A s \in Sids : session'[s].handle <= spawned'
    BY HadOld DEF Lent
  <1>4. ASSUME NEW x \in Requests
        PROVE  /\ req'[x].handle <= spawned'
               /\ req'[x].pc = "turn" => turn' = x
               /\ req'[x].pc = "register" =>
                     /\ req'[x].handle \notin agents' /\ proc'[req'[x].handle] = "up"
                     /\ \A q \in Requests : q # x => req'[q].handle # req'[x].handle
                     /\ \A s \in Sids : session'[s].handle # req'[x].handle
    <2>1. CASE x = r
      BY <2>1, HadOld DEF Lent
    <2>2. CASE x # r
      <3>1. /\ req'[x].handle = req[x].handle /\ req'[x].pc = req[x].pc
        BY <2>2 DEF Moves
      <3>2. req'[x].handle <= spawned' /\ (req'[x].pc = "turn" => turn' = x)
        BY <2>2, <3>1 DEF Lent, Handed
      <3>3. ASSUME req[x].pc = "register"
            PROVE  /\ req[x].handle \notin agents' /\ proc'[req[x].handle] = "up"
                   /\ \A q \in Requests : q # x => req'[q].handle # req[x].handle
                   /\ \A s \in Sids : session'[s].handle # req[x].handle
        <4>1. req[x].handle \notin agents' /\ proc'[req[x].handle] = "up"
          BY <2>2, <3>3 DEF Lent, Handed
        <4>2. \A s \in Sids : session'[s].handle # req[x].handle
          BY <2>2, <3>3, HadOld DEF Lent
        <4>3. req'[r].handle # req[x].handle
          BY <2>2, <3>3, HadOld DEF Lent
        <4>4. ASSUME NEW q \in Requests, q # x, q # r PROVE req'[q].handle # req[x].handle
          BY <3>3, <4>4 DEF Lent, Handed, Moves
        <4>. QED  BY <4>1, <4>2, <4>3, <4>4
      <3>. QED  BY <3>1, <3>2, <3>3
    <2>. QED  BY <2>1, <2>2
  <1>. QED  BY <1>1, <1>2, <1>3, <1>4 DEF Lent, Handed

(* A request that is over has nothing.                                     *)
Spent(q) == q.pc \in {"idle", "reap", "remove"} /\ q.handle = NoId

LEMMA OverNow ==
  ASSUME NEW q \in Request
  PROVE  /\ Ended(q) \in Request /\ Spent(Ended(q))
         /\ PromptOver(q) \in Request /\ Spent(PromptOver(q))
         /\ Idle \in Request /\ Spent(Idle)
  <1>1. Idle \in Request /\ Spent(Idle)
    BY Idles DEF Idle, Spent
  <1>2. Ended(q) \in Request /\ Spent(Ended(q))
    BY EndedIs DEF Ended, Idle, Spent
  <1>3. PromptOver(q) \in Request /\ Spent(PromptOver(q))
    <2>1. CASE q.kind = "heartbeat"
      BY <2>1, OverIs DEF PromptOver, Spent, Request
    <2>2. CASE q.kind # "heartbeat"
      BY <1>2, <2>2 DEF PromptOver
    <2>. QED  BY <2>1, <2>2
  <1>. QED  BY <1>1, <1>2, <1>3

LEMMA EndsOver ==
  ASSUME IInv, NEW r \in Requests, Ends(r) PROVE Moves(r) /\ Spent(req'[r])
  <1>1. req[r] \in Request
    BY Where
  <1>2. req' = [req EXCEPT ![r] = Ended(req[r])]
    BY DEF Ends
  <1>. QED  BY <1>1, <1>2, OverNow, Put DEF IInv

LEMMA PromptEnds ==
  ASSUME IInv, NEW r \in Requests,
         req' = [req EXCEPT ![r] = PromptOver(@)] \/ Becomes(r, PromptOver(req[r])) \/ Becomes(r, Idle)
  PROVE  Moves(r) /\ Spent(req'[r])
  <1>1. req[r] \in Request
    BY Where
  <1>2. CASE req' = [req EXCEPT ![r] = PromptOver(@)]
    <2>1. req' = [req EXCEPT ![r] = PromptOver(req[r])]
      BY <1>2
    <2>. QED  BY <1>1, <2>1, OverNow, Put DEF IInv
  <1>3. CASE Becomes(r, PromptOver(req[r])) \/ Becomes(r, Idle)
    BY <1>1, <1>3, OverNow, Become DEF IInv
  <1>. QED  BY <1>2, <1>3

LEMMA StaysItself ==
  ASSUME IInv, NEW r \in Requests, NEW stage \in Stages, Goes(r, stage)
  PROVE  /\ Moves(r) /\ req'[r].pc = stage
         /\ req'[r].handle = req[r].handle /\ req'[r].kind = req[r].kind
  <1>1. /\ req[r] \in Request /\ [req[r] EXCEPT !.pc = stage] \in Request
        /\ [req[r] EXCEPT !.pc = stage].kind = req[r].kind
    BY DEF IInv, TypeOK, Request
  <1>2. req' = [req EXCEPT ![r] = [req[r] EXCEPT !.pc = stage]]
    BY DEF Goes
  <1>. QED  BY <1>1, <1>2, Go, Put DEF IInv

(* r is over, with or without its locks.                                   *)
LEMMA OverLends ==
  ASSUME IInv, Lent, NEW r \in Requests, Moves(r), Spent(req'[r]), spawned' = spawned,
         table' # r, \A x \in Requests : x # r /\ table' = x => table = x,
         \A x \in Requests : x # r /\ turn = x => turn' = x,
         \A s \in Sids : Had(r, session'[s].handle),
         \A h \in agents' : h \in agents /\ proc'[h] # "free",
         \A x \in Requests : x # r /\ req[x].pc = "register" => proc'[req[x].handle] = "up"
  PROVE  Lent'
  <1>1. Suits(req'[r]) /\ req'[r].pc \notin {"register", "turn"} /\ Had(r, req'[r].handle)
    BY DEF Spent, Suits, Had
  <1>. QED  BY <1>1, Lends

(* What stays as it is.                                                    *)
LEMMA SameAgents ==
  ASSUME IInv, Lent, agents' = agents, proc' = proc
  PROVE  /\ \A h \in agents' : h \in agents /\ proc'[h] # "free"
         /\ \A x \in Requests : req[x].pc = "register" => proc'[req[x].handle] = "up"
  BY DEF Lent, Handed

LEMMA SameHandles ==
  ASSUME NEW r \in Requests, SameShape \/ session' = session
  PROVE  \A s \in Sids : Had(r, session'[s].handle)
  BY DEF SameShape, Had

LEMMA BeginLends ==
  ASSUME IInv, Lent, NEW r \in Requests, NEW q \in Request, Begin(r, q),
         q.pc \notin {"register", "turn"}, Suits(q), q.handle = NoId
  PROVE  Lent'
  <1>1. /\ req[r].pc = "idle" /\ req' = [req EXCEPT ![r] = q]
        /\ UNCHANGED <<sessions, spawned, session, proc, agents, table, turn, peers>>
    BY DEF Begin, At, ids
  <1>2. Moves(r) /\ req'[r] = q
    BY <1>1, Put DEF IInv
  <1>3. table # r
    BY <1>1, Where
  <1>4. Had(r, req'[r].handle)
    BY <1>2 DEF Had
  <1>. QED  BY <1>1, <1>2, <1>3, <1>4, SameAgents, SameHandles, Lends

LEMMA TaskLends ==
  ASSUME IInv, Lent, NEW r \in Requests, NEW parent \in Requests \cup {None}, Task(r, parent)
  PROVE  Lent'
  <1>1. PICK l \in Labels :
          LET q == [Idle EXCEPT !.kind = "task", !.label = l, !.always = TRUE, !.parent = parent]
          IN \/ Begin(r, [q EXCEPT !.pc = "find"])
             \/ \E s \in Sids : Begin(r, [q EXCEPT !.pc = "admit", !.sid = s])
    BY DEF Task
  <1>. DEFINE q == [Idle EXCEPT !.kind = "task", !.label = l, !.always = TRUE, !.parent = parent]
  <1>2. q \in Request /\ q.kind = "task" /\ q.handle = NoId
    BY Basics DEF Idle, Request, Kinds, Stages
  <1>. HIDE DEF q
  <1>3. CASE Begin(r, [q EXCEPT !.pc = "find"])
    <2>. DEFINE p == [q EXCEPT !.pc = "find"]
    <2>1. p \in Request /\ p.pc = "find" /\ p.kind = "task" /\ p.handle = NoId
      BY <1>2 DEF Request, Stages
    <2>. HIDE DEF p
    <2>2. Suits(p) /\ Begin(r, p)
      BY <1>3, <2>1 DEF Suits, Prompters, p
    <2>. QED  BY <2>1, <2>2, BeginLends
  <1>4. ASSUME NEW s \in Sids, Begin(r, [q EXCEPT !.pc = "admit", !.sid = s]) PROVE Lent'
    <2>. DEFINE p == [q EXCEPT !.pc = "admit", !.sid = s]
    <2>1. p \in Request /\ p.pc = "admit" /\ p.kind = "task" /\ p.handle = NoId
      BY <1>2 DEF Request, Stages
    <2>. HIDE DEF p
    <2>2. Suits(p) /\ Begin(r, p)
      BY <1>4, <2>1 DEF Suits, Prompters, p
    <2>. QED  BY <2>1, <2>2, BeginLends
  <1>. QED  BY <1>1, <1>3, <1>4 DEF q

LEMMA ArrivesLends ==
  ASSUME IInv, Lent, NEW r \in Requests, Arrives(r) PROVE Lent'
  <1>1. CASE CreateComes(r)
    <2>1. PICK l \in Labels \cup {None}, always \in BOOLEAN :
             Begin(r, [Idle EXCEPT !.pc = "find", !.label = l, !.always = always])
      BY <1>1 DEF CreateComes
    <2>. DEFINE p == [Idle EXCEPT !.pc = "find", !.label = l, !.always = always]
    <2>2. p \in Request /\ p.pc = "find" /\ p.kind = "create" /\ p.handle = NoId
      BY Basics DEF Idle, Request, Kinds, Stages
    <2>3. Begin(r, p)
      BY <2>1
    <2>. HIDE DEF p
    <2>. QED  BY <2>2, <2>3, BeginLends DEF Suits
  <1>2. CASE PromptComes(r)
    <2>1. PICK s \in Sids : Begin(r, [Idle EXCEPT !.kind = "prompt", !.pc = "admit", !.sid = s])
      BY <1>2 DEF PromptComes
    <2>. DEFINE p == [Idle EXCEPT !.kind = "prompt", !.pc = "admit", !.sid = s]
    <2>2. p \in Request /\ p.pc = "admit" /\ p.kind = "prompt" /\ p.handle = NoId
      BY Basics DEF Idle, Request, Kinds, Stages
    <2>3. Begin(r, p)
      BY <2>1
    <2>. HIDE DEF p
    <2>. QED  BY <2>2, <2>3, BeginLends DEF Suits, Prompters
  <1>3. CASE TaskComes(r) \/ Ask(r)
    BY <1>3, TaskLends DEF TaskComes, Ask, IInv, TypeOK
  <1>4. CASE HeartbeatComes(r)
    <2>. DEFINE p == [Idle EXCEPT !.kind = "heartbeat", !.pc = "spawn", !.always = TRUE]
    <2>1. p \in Request /\ p.pc = "spawn" /\ p.kind = "heartbeat" /\ p.handle = NoId
      BY Basics DEF Idle, Request, Kinds, Stages
    <2>2. Begin(r, p)
      BY <1>4 DEF HeartbeatComes
    <2>. HIDE DEF p
    <2>. QED  BY <2>1, <2>2, BeginLends DEF Suits, Prompters
  <1>5. CASE CloseComes(r)
    <2>1. PICK s \in Sids : Begin(r, [Idle EXCEPT !.kind = "close", !.pc = "remove", !.sid = s])
      BY <1>5 DEF CloseComes
    <2>. DEFINE p == [Idle EXCEPT !.kind = "close", !.pc = "remove", !.sid = s]
    <2>2. p \in Request /\ p.pc = "remove" /\ p.handle = NoId
      BY Basics DEF Idle, Request, Kinds, Stages
    <2>3. Begin(r, p)
      BY <2>1
    <2>. HIDE DEF p
    <2>. QED  BY <2>2, <2>3, BeginLends DEF Suits
  <1>6. CASE ReapComes(r)
    <2>. DEFINE p == [Idle EXCEPT !.kind = "reap", !.pc = "reap", !.todo = {s \in Sids : Stale(s)}]
    <2>1. {s \in Sids : Stale(s)} \in SUBSET Sids
      OBVIOUS
    <2>2. p \in Request /\ p.pc = "reap" /\ p.handle = NoId
      BY <2>1, Basics DEF Idle, Request, Kinds, Stages
    <2>3. Begin(r, p)
      BY <1>6 DEF ReapComes
    <2>. HIDE DEF p
    <2>. QED  BY <2>2, <2>3, BeginLends DEF Suits
  <1>. QED  BY <1>1, <1>2, <1>3, <1>4, <1>5, <1>6 DEF Arrives

(* One session changes.                                                    *)
LEMMA OneHandle ==
  ASSUME IInv, NEW r \in Requests, NEW s, NEW x, session' = [session EXCEPT ![s] = x],
         Had(r, x.handle)
  PROVE  \A t \in Sids : Had(r, session'[t].handle)
  <1>1. session \in [Sids -> Session]
    BY DEF IInv, TypeOK
  <1>2. \A t \in Sids : session'[t] = x \/ session'[t] = session[t]
    BY <1>1
  <1>. QED  BY <1>2 DEF Had

LEMMA FindLends ==
  ASSUME IInv, Lent, NEW r \in Requests, Find(r) PROVE Lent'
  <1>. DEFINE next == IF req[r].always THEN "spawn" ELSE "insert"
  <1>1. /\ req[r].pc = "find" /\ table = None /\ table' = None /\ turn' = turn
        /\ UNCHANGED <<spawned, proc, agents>>
    BY DEF Find, At, ids
  <1>2. req[r] \in Request /\ next \in {"spawn", "insert"} /\ next \in Stages
        /\ req[r].kind \in Prompters \cup {"create"} /\ table' # r
    BY <1>1, Where, Basics DEF Stages, Lent, Suited, Suits
  <1>3. \A s \in Sids : Had(r, session'[s].handle)
    <2>1. CASE session' = session
      BY <2>1, SameHandles
    <2>2. ASSUME NEW s \in Sids, session' = [session EXCEPT ![s].stale = FALSE]
          PROVE  SameShape
      <3>1. session \in [Sids -> Session] /\ session[s] \in Session
        BY DEF IInv, TypeOK
      <3>2. /\ [session[s] EXCEPT !.stale = FALSE].open = session[s].open
            /\ [session[s] EXCEPT !.stale = FALSE].handle = session[s].handle
        BY <3>1 DEF Session
      <3>. QED  BY <2>2, <3>1, <3>2 DEF SameShape
    <2>3. ASSUME NEW s \in Sids, session' = [session EXCEPT ![s] = Closed]
          PROVE  \A t \in Sids : Had(r, session'[t].handle)
      BY <2>3, OneHandle DEF Closed, Had
    <2>4. \/ session' = session
          \/ \E s \in Sids : session' = [session EXCEPT ![s].stale = FALSE]
          \/ \E s \in Sids : session' = [session EXCEPT ![s] = Closed]
      BY DEF Find
    <2>. QED  BY <2>1, <2>2, <2>3, <2>4, SameHandles
  <1>4. CASE Goes(r, next)
    <2>1. /\ Moves(r) /\ req'[r].pc \in {"spawn", "insert"} /\ req'[r].handle = req[r].handle
          /\ req'[r].kind = req[r].kind
      BY <1>2, <1>4, StaysItself
    <2>2. Suits(req'[r]) /\ Had(r, req'[r].handle)
      BY <1>2, <2>1 DEF Suits, Had
    <2>. QED  BY <1>1, <1>2, <1>3, <2>1, <2>2, SameAgents, Lends
  <1>5. CASE Ends(r)
    BY <1>1, <1>2, <1>3, <1>5, EndsOver, SameAgents, OverLends
  <1>6. ASSUME NEW s \in Sids, req[r].kind = "task",
               req' = [req EXCEPT ![r].pc = "admit", ![r].sid = s]
        PROVE  Lent'
    <2>. DEFINE q == [req[r] EXCEPT !.pc = "admit", !.sid = s]
    <2>1. q \in Request /\ q.pc = "admit" /\ q.kind = "task" /\ q.handle = req[r].handle
      BY <1>2, <1>6 DEF Request, Stages
    <2>2. req' = [req EXCEPT ![r] = q]
      BY <1>6
    <2>. HIDE DEF q
    <2>3. Moves(r) /\ req'[r] = q
      BY <2>1, <2>2, Put DEF IInv
    <2>4. Suits(q) /\ Had(r, q.handle)
      BY <2>1 DEF Suits, Prompters, Had
    <2>. QED  BY <1>1, <1>2, <1>3, <2>1, <2>3, <2>4, SameAgents, Lends
  <1>. QED  BY <1>4, <1>5, <1>6 DEF Find

(* A new number: nobody has it.                                            *)
LEMMA SpawnLends ==
  ASSUME IInv, Lent, NEW r \in Requests, Spawn(r) PROVE Lent'
  <1>1. /\ req[r].pc = "spawn" /\ spawned' = spawned + 1 /\ spawned' \in Handles
        /\ proc' = [proc EXCEPT ![spawned'] = "up"]
        /\ req' = [req EXCEPT ![r] = [req[r] EXCEPT !.pc = "register", !.handle = spawned']]
        /\ UNCHANGED <<session, agents, table, turn>>
    BY DEF Spawn, At
  <1>. DEFINE q == [req[r] EXCEPT !.pc = "register", !.handle = spawned']
  <1>2. /\ req[r] \in Request /\ spawned \in Nat /\ agents \subseteq Handles
        /\ \A s \in Sids : session[s].handle \in Handles \cup {NoId}
        /\ \A x \in Requests : req[x].handle \in Handles \cup {NoId}
    BY DEF IInv, TypeOK, Session, Request
  <1>3. q \in Request /\ q.pc = "register" /\ q.handle = spawned' /\ q.kind = req[r].kind
    BY <1>1, <1>2 DEF Request, Stages
  <1>. HIDE DEF q
  <1>4. Moves(r) /\ req'[r] = q
    BY <1>1, <1>3, Put DEF IInv, q
  <1>5. Suited'
    BY <1>1, <1>3, <1>4 DEF Lent, Suited, Suits, Moves
  <1>6. /\ proc'[spawned'] = "up" /\ \A h \in Handles : h # spawned' => proc'[h] = proc[h]
    BY <1>1 DEF IInv, TypeOK
  <1>7. /\ \A h \in agents : h <= spawned /\ h # spawned' /\ h <= spawned'
        /\ \A s \in Sids : session[s].handle # spawned' /\ session[s].handle <= spawned'
        /\ \A x \in Requests : req[x].handle # spawned' /\ req[x].handle <= spawned'
    BY <1>1, <1>2, Basics DEF Lent, Handed
  <1>8. \A h \in agents' : h <= spawned' /\ proc'[h] # "free"
    BY <1>1, <1>2, <1>6, <1>7 DEF Lent, Handed
  <1>9. ASSUME NEW x \in Requests
        PROVE  /\ req'[x].handle <= spawned'
               /\ req'[x].pc = "turn" => turn' = x
               /\ req'[x].pc = "register" =>
                     /\ req'[x].handle \notin agents' /\ proc'[req'[x].handle] = "up"
                     /\ \A y \in Requests : y # x => req'[y].handle # req'[x].handle
                     /\ \A s \in Sids : session'[s].handle # req'[x].handle
    <2>1. CASE x = r
      <3>1. req'[x].handle <= spawned' /\ req'[x].pc = "register"
        BY <1>1, <1>2, <1>3, <1>4, <2>1
      <3>2. \A y \in Requests : y # x => req'[y].handle # req'[x].handle
        BY <1>3, <1>4, <1>7, <2>1 DEF Moves
      <3>. QED  BY <1>1, <1>3, <1>4, <1>6, <1>7, <2>1, <3>1, <3>2
    <2>2. CASE x # r
      <3>1. req'[x].handle = req[x].handle /\ req'[x].pc = req[x].pc
        BY <1>4, <2>2 DEF Moves
      <3>2. req'[x].handle <= spawned' /\ (req'[x].pc = "turn" => turn' = x)
        BY <1>1, <1>7, <3>1 DEF Lent, Handed
      <3>3. ASSUME req[x].pc = "register"
            PROVE  /\ req[x].handle \notin agents' /\ proc'[req[x].handle] = "up"
                   /\ \A y \in Requests : y # x => req'[y].handle # req[x].handle
                   /\ \A s \in Sids : session'[s].handle # req[x].handle
        <4>1. req[x].handle \in Handles
          BY <3>3 DEF IInv, StageOK, Staged
        <4>2. req[x].handle \notin agents' /\ proc'[req[x].handle] = "up"
          BY <1>1, <1>6, <1>7, <3>3, <4>1 DEF Lent, Handed
        <4>3. \A s \in Sids : session'[s].handle # req[x].handle
          BY <1>1, <3>3 DEF Lent, Handed
        <4>4. ASSUME NEW y \in Requests, y # x PROVE req'[y].handle # req[x].handle
          <5>1. CASE y = r
            BY <1>3, <1>4, <1>7, <5>1
          <5>2. CASE y # r
            BY <1>4, <3>3, <4>4, <5>2 DEF Lent, Handed, Moves
          <5>. QED  BY <5>1, <5>2
        <4>. QED  BY <4>2, <4>3, <4>4
      <3>. QED  BY <3>1, <3>2, <3>3
    <2>. QED  BY <2>1, <2>2
  <1>. QED  BY <1>1, <1>5, <1>7, <1>8, <1>9 DEF Lent, Handed

LEMMA SpawnFailsLends ==
  ASSUME IInv, Lent, NEW r \in Requests, SpawnFails(r) PROVE Lent'
  <1>1. /\ Ends(r) /\ table' = IF table = r THEN None ELSE table
        /\ UNCHANGED <<spawned, session, proc, agents, turn>>
    BY DEF SpawnFails, ids
  <1>2. table' # r /\ \A x \in Requests : table' = x => table = x
    BY <1>1, Basics
  <1>. QED  BY <1>1, <1>2, EndsOver, SameHandles, SameAgents, OverLends

LEMMA RegisterLends ==
  ASSUME IInv, Lent, NEW r \in Requests, Register(r) PROVE Lent'
  <1>1. /\ req[r].pc = "register" /\ agents' = agents \cup {req[r].handle}
        /\ UNCHANGED <<spawned, proc, turn>>
    BY DEF Register, At, ids
  <1>2. /\ \A h \in agents' : (h \in agents \/ h = req[r].handle) /\ proc'[h] # "free"
        /\ \A x \in Requests : req[x].pc = "register" => proc'[req[x].handle] = "up"
    BY <1>1 DEF Lent, Handed
  <1>3. CASE table # r
    <2>1. Goes(r, "insert") /\ session' = session /\ table' = table
      BY <1>3 DEF Register
    <2>2. /\ Moves(r) /\ req'[r].pc = "insert" /\ req'[r].handle = req[r].handle
          /\ req'[r].kind = req[r].kind
      BY <2>1, StaysItself DEF Stages
    <2>3. Suits(req'[r]) /\ Had(r, req'[r].handle)
      BY <1>1, <2>2 DEF Lent, Suited, Suits, Had
    <2>. QED  BY <1>1, <1>2, <1>3, <2>1, <2>2, <2>3, SameHandles, Lends
  <1>4. CASE table = r
    <2>1. session' = Admitted(req[r].sid, req[r].handle) /\ table' = None /\ Goes(r, "rebridge")
      BY <1>4 DEF Register
    <2>2. req[r].sid \in Sids /\ session[req[r].sid].open /\ req[r].handle \in Handles
      BY <1>1, <1>4, Where, Basics DEF IInv, TableOK, Staged
    <2>3. \A s \in Sids : Had(r, session'[s].handle)
      BY <2>1, <2>2, AdmittedIs DEF IInv, Had
    <2>4. /\ Moves(r) /\ req'[r].pc = "rebridge" /\ req'[r].handle = req[r].handle
          /\ req'[r].kind = req[r].kind
      BY <2>1, StaysItself DEF Stages
    <2>5. Suits(req'[r]) /\ Had(r, req'[r].handle)
      BY <1>4, <2>4 DEF Lent, Suited, Suits, Had
    <2>6. table' # r /\ \A x \in Requests : table' = x => table = x
      BY <2>1, Basics
    <2>. QED  BY <1>1, <1>2, <2>3, <2>4, <2>5, <2>6, Lends
  <1>. QED  BY <1>3, <1>4

LEMMA InsertLends ==
  ASSUME IInv, Lent, NEW r \in Requests, Insert(r) PROVE Lent'
  <1>. DEFINE x == [Closed EXCEPT !.open = TRUE, !.label = req[r].label, !.handle = req[r].handle]
              q == [req[r] EXCEPT !.pc = "bridge", !.sid = sessions']
  <1>1. /\ req[r].pc = "insert" /\ session' = [session EXCEPT ![sessions'] = x]
        /\ req' = [req EXCEPT ![r] = q]
        /\ UNCHANGED <<spawned, proc, agents, table, turn>>
    BY DEF Insert, At
  <1>2. sessions' \in Sids
    <2>1. IInv'
      BY InsertStep
    <2>2. sessions' = sessions + 1 /\ sessions \in Nat /\ sessions' \in 0..MaxSessions
      BY <2>1 DEF Insert, IInv, TypeOK
    <2>. QED  BY <2>2, Basics
  <1>3. req[r] \in Request /\ table # r
    BY <1>1, Where
  <1>4. q \in Request /\ q.pc = "bridge" /\ q.handle = req[r].handle /\ q.kind = req[r].kind
    BY <1>2, <1>3 DEF Request, Stages
  <1>5. x.handle = req[r].handle
    BY DEF Closed
  <1>. HIDE DEF x, q
  <1>6. Moves(r) /\ req'[r] = q
    BY <1>1, <1>4, Put DEF IInv
  <1>7. Suits(q) /\ Had(r, q.handle) /\ Had(r, x.handle)
    BY <1>1, <1>4, <1>5 DEF Lent, Suited, Suits, Had
  <1>8. \A s \in Sids : Had(r, session'[s].handle)
    BY <1>1, <1>7, OneHandle
  <1>. QED  BY <1>1, <1>3, <1>4, <1>6, <1>7, <1>8, SameAgents, Lends

LEMMA BridgeLends ==
  ASSUME IInv, Lent, NEW r \in Requests, Bridge(r) PROVE Lent'
  <1>1. req[r].pc = "bridge" /\ UNCHANGED <<spawned, session, proc, agents, table, turn>>
    BY DEF Bridge, At, ids
  <1>2. req[r] \in Request /\ table # r
    BY <1>1, Where
  <1>3. CASE req[r].kind = "create"
    <2>1. Ends(r)
      BY <1>3 DEF Bridge
    <2>. QED  BY <1>1, <1>2, <2>1, EndsOver, SameHandles, SameAgents, OverLends
  <1>4. CASE req[r].kind # "create"
    <2>. DEFINE q == [req[r] EXCEPT !.pc = "admit", !.handle = NoId]
    <2>1. q \in Request /\ q.pc = "admit" /\ q.handle = NoId /\ q.kind = req[r].kind
      BY <1>2 DEF Request, Stages
    <2>2. req' = [req EXCEPT ![r] = q]
      BY <1>4 DEF Bridge
    <2>. HIDE DEF q
    <2>3. Moves(r) /\ req'[r] = q
      BY <2>1, <2>2, Put DEF IInv
    <2>4. Suits(q) /\ Had(r, q.handle)
      BY <1>1, <1>4, <2>1 DEF Lent, Suited, Suits, Had
    <2>. QED  BY <1>1, <1>2, <2>1, <2>3, <2>4, SameHandles, SameAgents, Lends
  <1>. QED  BY <1>3, <1>4

LEMMA AdmitLends ==
  ASSUME IInv, Lent, NEW r \in Requests, Admit(r) PROVE Lent'
  <1>. DEFINE s == req[r].sid
              q == [req[r] EXCEPT !.label = session[s].label, !.handle = session[s].handle]
  <1>1. req[r].pc = "admit" /\ table = None /\ UNCHANGED <<spawned, proc, agents, turn>>
    BY DEF Admit, At, ids
  <1>2. /\ req[r] \in Request /\ s \in Sids /\ session[s] \in Session
        /\ req[r].kind \in Prompters /\ \A x \in Requests : table # x
    BY <1>1, Where, Basics DEF Staged, Sided, IInv, TypeOK, Lent, Suited, Suits
  <1>3. q \in Request /\ q.handle = session[s].handle /\ q.kind = req[r].kind
    BY <1>2 DEF Request, Session
  <1>4. CASE ~session[s].open
    <2>1. req' = [req EXCEPT ![r] = PromptOver(@)] /\ session' = session /\ table' = table
      BY <1>4 DEF Admit
    <2>. QED  BY <1>1, <1>2, <2>1, PromptEnds, SameHandles, SameAgents, OverLends
  <1>5. CASE session[s].open /\ session[s].handle = NoId
    <2>. DEFINE p == [q EXCEPT !.pc = "spawn"]
    <2>1. p \in Request /\ p.pc = "spawn" /\ p.handle = session[s].handle /\ p.kind = req[r].kind
      BY <1>3 DEF Request, Stages
    <2>2. req' = [req EXCEPT ![r] = p] /\ table' = r /\ session' = session
      BY <1>5 DEF Admit
    <2>. HIDE DEF p, q
    <2>3. Moves(r) /\ req'[r] = p
      BY <2>1, <2>2, Put DEF IInv
    <2>4. Suits(p) /\ Had(r, p.handle)
      BY <1>2, <2>1 DEF Suits, Had
    <2>. QED  BY <1>1, <1>2, <2>1, <2>2, <2>3, <2>4, SameHandles, SameAgents, Lends
  <1>6. CASE session[s].open /\ session[s].handle # NoId
    <2>. DEFINE p == [q EXCEPT !.pc = "queue"]
    <2>1. p \in Request /\ p.pc = "queue" /\ p.handle = session[s].handle /\ p.kind = req[r].kind
      BY <1>3 DEF Request, Stages
    <2>2. /\ req' = [req EXCEPT ![r] = p] /\ table' = table
          /\ session' = Admitted(s, session[s].handle)
      BY <1>6 DEF Admit
    <2>. HIDE DEF p, q
    <2>3. Moves(r) /\ req'[r] = p
      BY <2>1, <2>2, Put DEF IInv
    <2>4. Suits(p) /\ Had(r, p.handle)
      BY <1>2, <2>1 DEF Suits, Had
    <2>5. SameShape
      <3>1. session[s].handle \in Handles
        BY <1>2, <1>6 DEF Session
      <3>. DEFINE h == session[s].handle
      <3>2. s \in Sids /\ session[s].open /\ h \in Handles /\ session' = Admitted(s, h) /\ TypeOK
        BY <1>2, <1>6, <2>2, <3>1 DEF IInv
      <3>. HIDE DEF s, h
      <3>3. /\ session'[s].open = session[s].open /\ session'[s].handle = h
            /\ \A t \in Sids : t # s => session'[t] = session[t]
        BY <3>2, AdmittedIs
      <3>. QED  BY <3>3 DEF SameShape, h
    <2>. QED  BY <1>1, <1>2, <2>1, <2>2, <2>3, <2>4, <2>5, SameHandles, SameAgents, Lends
  <1>. QED  BY <1>4, <1>5, <1>6

LEMMA RebridgeLends ==
  ASSUME IInv, Lent, NEW r \in Requests, Rebridge(r) PROVE Lent'
  <1>1. /\ req[r].pc = "rebridge" /\ Goes(r, "queue")
        /\ UNCHANGED <<spawned, session, proc, agents, table, turn>>
    BY DEF Rebridge, At, ids
  <1>2. /\ Moves(r) /\ req'[r].pc = "queue" /\ req'[r].handle = req[r].handle
        /\ req'[r].kind = req[r].kind /\ table # r
    BY <1>1, Where, StaysItself DEF Stages
  <1>3. Suits(req'[r]) /\ Had(r, req'[r].handle)
    BY <1>1, <1>2 DEF Lent, Suited, Suits, Had
  <1>. QED  BY <1>1, <1>2, <1>3, SameHandles, SameAgents, Lends

LEMMA StartTurnLends ==
  ASSUME IInv, Lent, NEW r \in Requests, StartTurn(r) PROVE Lent'
  <1>1. /\ req[r].pc = "queue" /\ turn = None /\ UNCHANGED <<spawned, proc, agents, table>>
    BY DEF StartTurn, At, ids
  <1>2. /\ req[r].sid \in Sids /\ table # r /\ \A x \in Requests : turn # x
    BY <1>1, Where, Basics DEF Staged, Sided
  <1>3. CASE req[r].handle \in agents
    <2>1. turn' = r /\ Goes(r, "turn") /\ session' = session
      BY <1>3 DEF StartTurn
    <2>2. /\ Moves(r) /\ req'[r].pc = "turn" /\ req'[r].handle = req[r].handle
          /\ req'[r].kind = req[r].kind
      BY <2>1, StaysItself DEF Stages
    <2>3. Suits(req'[r]) /\ Had(r, req'[r].handle)
      BY <1>1, <2>2 DEF Lent, Suited, Suits, Had
    <2>. QED  BY <1>1, <1>2, <2>1, <2>2, <2>3, SameHandles, SameAgents, Lends
  <1>4. CASE req[r].handle \notin agents
    <2>1. session' = Unmarked(r) /\ req' = [req EXCEPT ![r] = PromptOver(@)] /\ turn' = turn
      BY <1>4 DEF StartTurn
    <2>2. SameShape
      BY <1>2, <2>1, UnmarkedIs DEF IInv
    <2>. QED  BY <1>1, <1>2, <2>1, <2>2, PromptEnds, SameHandles, SameAgents, OverLends
  <1>. QED  BY <1>3, <1>4

LEMMA TurnAnsweredLends ==
  ASSUME IInv, Lent, NEW r \in Requests, TurnAnswered(r) PROVE Lent'
  <1>1. /\ req[r].pc = "turn" /\ session' = Unmarked(r)
        /\ UNCHANGED <<spawned, proc, agents, table>>
    BY DEF TurnAnswered, At, ids
  <1>2. /\ req[r].sid \in Sids /\ table # r /\ turn = r /\ req[r].kind \in Prompters
    BY <1>1, Where DEF Staged, Sided, Lent, Handed, Suited, Suits
  <1>3. SameShape
    BY <1>1, <1>2, UnmarkedIs DEF IInv
  <1>4. CASE req[r].kind = "heartbeat" \/ req[r].label = None
    <2>1. req' = [req EXCEPT ![r] = PromptOver(@)]
      BY <1>4 DEF TurnAnswered
    <2>. QED  BY <1>1, <1>2, <1>3, <2>1, PromptEnds, SameHandles, SameAgents, OverLends
  <1>5. CASE ~(req[r].kind = "heartbeat" \/ req[r].label = None)
    <2>1. Goes(r, "record")
      BY <1>5 DEF TurnAnswered
    <2>2. /\ Moves(r) /\ req'[r].pc = "record" /\ req'[r].handle = req[r].handle
          /\ req'[r].kind = req[r].kind
      BY <2>1, StaysItself DEF Stages
    <2>3. Suits(req'[r]) /\ Had(r, req'[r].handle)
      BY <1>2, <1>5, <2>2 DEF Suits, Prompters, Had
    <2>. QED  BY <1>1, <1>2, <1>3, <2>2, <2>3, SameHandles, SameAgents, Lends
  <1>. QED  BY <1>4, <1>5

(* Only what has failed is buried.                                         *)
LEMMA BuriedLends ==
  ASSUME IInv, Lent, NEW h, proc' = Buried(h), agents' = agents
  PROVE  /\ \A g \in agents' : g \in agents /\ proc'[g] # "free"
         /\ \A x \in Requests : req[x].pc = "register" => proc'[req[x].handle] = "up"
  <1>1. /\ proc \in [Handles -> {"free", "up", "failed", "dead"}] /\ agents \subseteq Handles
        /\ \A x \in Requests : req[x].pc = "register" => req[x].handle \in Handles
    BY DEF IInv, TypeOK, StageOK, Staged
  <1>2. \A g \in Handles : /\ proc[g] # "free" => proc'[g] # "free"
                           /\ proc[g] = "up" => proc'[g] = "up"
    BY <1>1 DEF Buried
  <1>. QED  BY <1>1, <1>2 DEF Lent, Handed

LEMMA TurnFailsLends ==
  ASSUME IInv, Lent, NEW r \in Requests, TurnFails(r) PROVE Lent'
  <1>1. /\ req[r].pc = "turn" /\ session' = Unmarked(r) /\ proc' = Buried(req[r].handle)
        /\ Becomes(r, PromptOver(req[r]))
        /\ UNCHANGED <<spawned, agents, table>>
    BY DEF TurnFails, At, ids
  <1>2. req[r].sid \in Sids /\ table # r /\ turn = r
    BY <1>1, Where DEF Staged, Sided, Lent, Handed
  <1>3. SameShape
    BY <1>1, <1>2, UnmarkedIs DEF IInv
  <1>. QED  BY <1>1, <1>2, <1>3, PromptEnds, SameHandles, BuriedLends, OverLends

LEMMA RecordLends ==
  ASSUME IInv, Lent, NEW r \in Requests, Record(r) PROVE Lent'
  <1>1. /\ req[r].pc = "record" /\ Ends(r)
        /\ UNCHANGED <<spawned, session, proc, agents, table, turn>>
    BY DEF Record, At, ids
  <1>2. table # r
    BY <1>1, Where
  <1>. QED  BY <1>1, <1>2, EndsOver, SameHandles, SameAgents, OverLends

LEMMA ReapNextLends ==
  ASSUME IInv, Lent, NEW r \in Requests, ReapNext(r) PROVE Lent'
  <1>1. req[r].pc = "reap" /\ UNCHANGED <<spawned, session, proc, agents, table, turn>>
    BY DEF ReapNext, At, ids
  <1>2. req[r] \in Request /\ table # r
    BY <1>1, Where
  <1>3. CASE req' = [req EXCEPT ![r] = Idle]
    <2>1. Moves(r) /\ Spent(req'[r])
      BY <1>2, <1>3, OverNow, Put DEF IInv
    <2>. QED  BY <1>1, <1>2, <2>1, SameHandles, SameAgents, OverLends
  <1>4. ASSUME NEW s \in req[r].todo,
               req' = [req EXCEPT ![r].pc = "remove", ![r].sid = s, ![r].todo = @ \ {s}]
        PROVE  Lent'
    <2>. DEFINE q == [req[r] EXCEPT !.pc = "remove", !.sid = s, !.todo = req[r].todo \ {s}]
    <2>1. s \in Sids /\ req[r].todo \ {s} \in SUBSET Sids
      BY <1>2 DEF Request
    <2>2. q \in Request /\ q.pc = "remove" /\ q.handle = req[r].handle
      BY <1>2, <2>1 DEF Request, Stages
    <2>3. req' = [req EXCEPT ![r] = q]
      BY <1>4 DEF IInv, TypeOK
    <2>. HIDE DEF q
    <2>4. Moves(r) /\ req'[r] = q
      BY <2>2, <2>3, Put DEF IInv
    <2>5. Suits(q) /\ Had(r, q.handle)
      BY <2>2 DEF Suits, Had
    <2>. QED  BY <1>1, <1>2, <2>2, <2>4, <2>5, SameHandles, SameAgents, Lends
  <1>. QED  BY <1>3, <1>4 DEF ReapNext

LEMMA RemoveLends ==
  ASSUME IInv, Lent, NEW r \in Requests, Remove(r) PROVE Lent'
  <1>1. req[r].pc = "remove" /\ UNCHANGED <<spawned, proc, agents, table, turn>>
    BY DEF Remove, At, ids
  <1>2. req[r] \in Request /\ req[r].sid \in Sids /\ table # r
    BY <1>1, Where DEF Staged, Sided
  <1>3. CASE session[req[r].sid].open
    <2>. DEFINE s == req[r].sid
                q == [req[r] EXCEPT !.pc = "unbridge", !.label = session[s].label,
                                    !.handle = session[s].handle]
    <2>1. session[s] \in Session
      BY <1>2 DEF IInv, TypeOK
    <2>2. q \in Request /\ q.pc = "unbridge" /\ q.handle = session[s].handle
      BY <1>2, <2>1 DEF Request, Session, Stages
    <2>3. req' = [req EXCEPT ![r] = q] /\ session' = [session EXCEPT ![s] = Closed]
      BY <1>3 DEF Remove
    <2>. HIDE DEF q
    <2>4. Moves(r) /\ req'[r] = q
      BY <2>2, <2>3, Put DEF IInv
    <2>5. Suits(q) /\ Had(r, q.handle) /\ Had(r, Closed.handle)
      BY <1>2, <2>2 DEF Suits, Had, Closed
    <2>6. \A t \in Sids : Had(r, session'[t].handle)
      BY <2>3, <2>5, OneHandle
    <2>. QED  BY <1>1, <1>2, <2>2, <2>4, <2>5, <2>6, SameAgents, Lends
  <1>4. CASE ~session[req[r].sid].open
    <2>1. Ends(r) /\ session' = session
      BY <1>4 DEF Remove
    <2>. QED  BY <1>1, <1>2, <2>1, EndsOver, SameHandles, SameAgents, OverLends
  <1>. QED  BY <1>3, <1>4

LEMMA UnbridgeLends ==
  ASSUME IInv, Lent, NEW r \in Requests, Unbridge(r) PROVE Lent'
  <1>1. req[r].pc = "unbridge" /\ UNCHANGED <<spawned, session, proc, agents, table, turn>>
    BY DEF Unbridge, At, ids
  <1>2. table # r
    BY <1>1, Where
  <1>3. CASE Ends(r)
    BY <1>1, <1>2, <1>3, EndsOver, SameHandles, SameAgents, OverLends
  <1>4. CASE Goes(r, "kill")
    <2>1. Moves(r) /\ req'[r].pc = "kill" /\ req'[r].handle = req[r].handle
      BY <1>4, StaysItself DEF Stages
    <2>2. Suits(req'[r]) /\ Had(r, req'[r].handle)
      BY <2>1 DEF Suits, Had
    <2>. QED  BY <1>1, <1>2, <2>1, <2>2, SameHandles, SameAgents, Lends
  <1>. QED  BY <1>3, <1>4 DEF Unbridge

(* The agent that goes is none that is about to be registered.             *)
LEMMA KillLends ==
  ASSUME IInv, Lent, NEW r \in Requests, Kill(r) PROVE Lent'
  <1>1. /\ req[r].pc = "kill" /\ agents' = agents \ {req[r].handle}
        /\ proc' = [proc EXCEPT ![req[r].handle] = "free"] /\ Ends(r)
        /\ UNCHANGED <<spawned, session, table, turn>>
    BY DEF Kill, At, ids
  <1>2. /\ table # r /\ proc \in [Handles -> {"free", "up", "failed", "dead"}]
        /\ agents \subseteq Handles
        /\ \A x \in Requests : req[x].pc = "register" => req[x].handle \in Handles
    BY <1>1, Where DEF IInv, TypeOK, StageOK, Staged
  <1>3. \A h \in Handles : h # req[r].handle => proc'[h] = proc[h]
    BY <1>1, <1>2
  <1>4. \A h \in agents' : h \in agents /\ proc'[h] # "free"
    BY <1>1, <1>2, <1>3 DEF Lent, Handed
  <1>5. ASSUME NEW x \in Requests, x # r, req[x].pc = "register" PROVE proc'[req[x].handle] = "up"
    BY <1>2, <1>3, <1>5 DEF Lent, Handed
  <1>. QED  BY <1>1, <1>2, <1>4, <1>5, EndsOver, SameHandles, OverLends

LEMMA DropLends ==
  ASSUME IInv, Lent, NEW r \in Requests, Drop(r) PROVE Lent'
  <1>1. /\ proc' = IF At(r, "register") THEN [proc EXCEPT ![req[r].handle] = "free"]
                   ELSE IF At(r, "turn") THEN Buried(req[r].handle) ELSE proc
        /\ session' = IF At(r, "queue") \/ At(r, "turn") THEN Unmarked(r) ELSE session
        /\ table' = IF table = r THEN None ELSE table
        /\ turn' = IF turn = r THEN None ELSE turn
        /\ Becomes(r, Idle) /\ UNCHANGED <<spawned, agents>>
    BY DEF Drop, ids
  <1>2. SameShape \/ session' = session
    <2>1. CASE At(r, "queue") \/ At(r, "turn")
      <3>1. req[r].sid \in Sids
        BY <2>1, Where DEF At, Staged, Sided
      <3>. QED  BY <1>1, <2>1, <3>1, UnmarkedIs DEF IInv
    <2>2. CASE ~(At(r, "queue") \/ At(r, "turn"))
      BY <1>1, <2>2
    <2>. QED  BY <2>1, <2>2
  <1>3. /\ \A h \in agents' : h \in agents /\ proc'[h] # "free"
        /\ \A x \in Requests : x # r /\ req[x].pc = "register" => proc'[req[x].handle] = "up"
    <2>1. CASE At(r, "register")
      <3>1. /\ proc \in [Handles -> {"free", "up", "failed", "dead"}] /\ agents \subseteq Handles
            /\ \A x \in Requests : req[x].pc = "register" => req[x].handle \in Handles
        BY DEF IInv, TypeOK, StageOK, Staged
      <3>2. \A h \in Handles : h # req[r].handle => proc'[h] = proc[h]
        BY <1>1, <2>1, <3>1
      <3>3. req[r].handle \notin agents
        BY <2>1 DEF Lent, Handed, At
      <3>4. \A h \in agents' : h \in agents /\ proc'[h] # "free"
        BY <1>1, <3>1, <3>2, <3>3 DEF Lent, Handed
      <3>5. ASSUME NEW x \in Requests, x # r, req[x].pc = "register"
            PROVE  proc'[req[x].handle] = "up"
        BY <3>1, <3>2, <3>5 DEF Lent, Handed
      <3>. QED  BY <3>4, <3>5
    <2>2. CASE ~At(r, "register") /\ At(r, "turn")
      BY <1>1, <2>2, BuriedLends
    <2>3. CASE ~At(r, "register") /\ ~At(r, "turn")
      BY <1>1, <2>3, SameAgents
    <2>. QED  BY <2>1, <2>2, <2>3
  <1>4. table' # r /\ \A x \in Requests : x # r => (table' = x => table = x) /\ (turn = x => turn' = x)
    BY <1>1, Basics
  <1>. QED  BY <1>1, <1>2, <1>3, <1>4, PromptEnds, SameHandles, OverLends

(* An agent dies that is registered, not one that is about to be.          *)
LEMMA AgentDiesLends ==
  ASSUME IInv, Lent, NEW h \in Handles, AgentDies(h) PROVE Lent'
  <1>1. /\ h \in agents
        /\ proc' = [proc EXCEPT ![h] = IF turn # None /\ req[turn].handle = h
                                       THEN "failed" ELSE "dead"]
        /\ UNCHANGED <<spawned, session, agents, table, turn, req>>
    BY DEF AgentDies, ids
  <1>2. \A g \in Handles : /\ g # h => proc'[g] = proc[g]
                           /\ g = h => proc'[g] # "free"
    BY <1>1 DEF IInv, TypeOK
  <1>3. /\ agents \subseteq Handles
        /\ \A x \in Requests : req[x].pc = "register" => req[x].handle \in Handles \ agents
    BY DEF IInv, TypeOK, StageOK, Staged, Lent, Handed
  <1>4. Suited'
    BY <1>1 DEF Lent, Suited
  <1>. QED  BY <1>1, <1>2, <1>3, <1>4 DEF Lent, Handed

LEMMA GoesIdleLends ==
  ASSUME IInv, Lent, NEW s \in Sids, GoesIdle(s) PROVE Lent'
  <1>1. /\ session' = [session EXCEPT ![s].stale = TRUE]
        /\ UNCHANGED <<spawned, proc, agents, table, turn, req>>
    BY DEF GoesIdle, ids
  <1>2. session \in [Sids -> Session]
    BY DEF IInv, TypeOK
  <1>3. \A t \in Sids : session'[t].handle = session[t].handle
    BY <1>1, <1>2 DEF Session
  <1>. QED  BY <1>1, <1>3 DEF Lent, Handed, Suited

LEMMA InitLends == Init => Lent
  <1>1. Idle.pc = "idle" /\ Idle.handle = 0 /\ Closed.handle = 0
    BY Basics DEF Idle, Closed
  <1>2. Init => /\ spawned = 0 /\ agents = {} /\ table = None /\ turn = None
                /\ \A s \in Sids : session[s] = Closed
                /\ \A r \in Requests : req[r] = Idle
    BY DEF Init
  <1>. QED  BY <1>1, <1>2, Basics DEF Lent, Handed, Suited, Suits

LEMMA NextLends == IInv /\ Lent /\ [Next]_vars => Lent'
  <1>. SUFFICES ASSUME IInv, Lent, [Next]_vars PROVE Lent'
    OBVIOUS
  <1>1. CASE UNCHANGED vars
    BY <1>1 DEF vars, ids, Lent, Handed, Suited
  <1>2. ASSUME NEW r \in Requests, Step(r) PROVE Lent'
    BY <1>2, FindLends, SpawnLends, SpawnFailsLends, RegisterLends, InsertLends, BridgeLends,
       AdmitLends, RebridgeLends, StartTurnLends, TurnAnsweredLends, TurnFailsLends, RecordLends,
       ReapNextLends, RemoveLends, UnbridgeLends, KillLends DEF Step
  <1>. QED  BY <1>1, <1>2, ArrivesLends, DropLends, AgentDiesLends, GoesIdleLends DEF Next

LEMMA LentAlways == Spec => []Lent
  BY Invariance, InitLends, NextLends, PTL DEF Spec

-----------------------------------------------------------------------------
(* What r needs from others before its next step: nothing, the table, the  *)
(* registry, or that its agent answers.                                    *)
CanGo(r) ==
    \/ req[r].pc \in {"spawn", "bridge", "rebridge", "unbridge", "reap"}
    \/ req[r].pc \in {"find", "insert", "admit", "remove"} /\ table = None
    \/ req[r].pc \in {"register", "queue", "kill"} /\ turn = None
    \/ At(r, "turn") /\ LET p == proc[req[r].handle] IN p = "failed" \/ (p = "up" /\ ~Waits(r))
    \/ At(r, "record") /\ (req[r].kind = "task" \/ table = None)

(* A request that waits does so for one that can go on.                    *)
NoRing ==
    Blocked \/ \A r \in Requests : ~At(r, "idle") =>
       CanGo(r) \/ (table # None /\ CanGo(table)) \/ (turn # None /\ CanGo(turn))

LEMMA Rings == IInv /\ Lent => NoRing
  <1>. SUFFICES ASSUME IInv, Lent, ~Blocked, NEW r \in Requests, ~At(r, "idle"),
                       table # None => ~CanGo(table), turn # None => ~CanGo(turn)
                PROVE  CanGo(r)
    BY DEF NoRing
  <1>1. turn = None
    <2>. SUFFICES ASSUME turn # None PROVE FALSE
      OBVIOUS
    <2>1. req[turn].pc = "turn" /\ req[turn].handle \in agents /\ agents \subseteq Handles
      BY DEF IInv, TurnOnRegistered, TypeOK, At
    <2>2. proc[req[turn].handle] \in {"up", "failed", "dead"}
      BY <2>1 DEF Lent, Handed, IInv, TypeOK
    <2>3. proc[req[turn].handle] # "dead" /\ ~Waits(turn)
      BY DEF Blocked
    <2>4. CanGo(turn)
      BY <2>1, <2>2, <2>3 DEF CanGo, At
    <2>. QED  BY <2>4
  <1>2. table = None
    <2>. SUFFICES ASSUME table # None PROVE FALSE
      OBVIOUS
    <2>1. req[table].pc \in {"spawn", "register"}
      BY DEF IInv, TableOK
    <2>. QED  BY <1>1, <2>1 DEF CanGo
  <1>3. req[r].pc \in Stages /\ req[r].pc # "idle" /\ req[r].pc # "turn"
    BY <1>1, Basics DEF IInv, TypeOK, Request, At, Lent, Handed
  <1>. QED  BY <1>1, <1>2, <1>3 DEF Stages, CanGo, At

(* The two locks that are held across an await, AcpHttpState.sessions and  *)
(* AcpToolsInner.agents, never close a ring: but for a turn that cannot    *)
(* end (Blocked), whoever waits does so for one that can take its step.    *)
THEOREM NobodyWaitsInARing == Spec => []NoRing
  BY Invariance, LentAlways, Rings, PTL

-----------------------------------------------------------------------------
(***************************************************************************)
(* The JSON-RPC peer.                                                      *)
(***************************************************************************)
(* The requests made so far, the frames of a queue, and how far a session  *)
(* is with its prompt.                                                     *)
Made == 1..(nextId - 1)
In(q) == {q[i] : i \in DOMAIN q}
Engaged(s) == work[s].stage \in {"prompting", "asking"}
PromptSent(s) == \E f \in In(stdin) : f.kind = "prompt" /\ f.session = s
Untouched(s) == ~Engaged(s) /\ work[s].emitted = 0 /\ ~PromptSent(s)
Over(s) == ~Engaged(s) /\ ~PromptSent(s)
About(f, s) == f.kind = "update" /\ f.session = s

(* Whatever is on its way belongs to a request that was made.              *)
FramesKnown ==
    /\ \A f \in In(stdin) : f.id \in Made /\ (f.kind # "new" => f.session \in Made)
    /\ \A f \in In(stdout) :
          /\ f.kind \in {"result", "error"} => f.id \in answered
          /\ f.kind = "ask" => f.id \in Made
          /\ f.kind = "update" => /\ f.session \in answered
                                  /\ f.number <= work[f.session].emitted
    /\ serving \subseteq Made
    /\ \A s \in Ids : /\ Engaged(s) => work[s].prompt \in Made
                      /\ s \notin answered => work[s] = NoWork
    /\ \A i \in Ids \ Made : outcome[i] = "none"

(* The agent gets each request once, in the order of their ids, and one    *)
(* prompt for a session, which has not begun.                              *)
RequestsInOrder ==
    /\ \A i, j \in DOMAIN stdin :
          /\ (i < j /\ stdin[i].kind # "allow" /\ stdin[j].kind # "allow")
                => stdin[i].id < stdin[j].id
          /\ (i # j /\ stdin[i].kind = "prompt" /\ stdin[j].kind = "prompt")
                => stdin[i].session # stdin[j].session
    /\ \A f \in In(stdin) :
          /\ f.kind # "allow" => f.id \notin answered
          /\ f.kind = "prompt" => /\ f.session \in answered
                                  /\ ~Engaged(f.session) /\ work[f.session].emitted = 0

(* The permission that the agent waits for is in one place: with the       *)
(* dispatch loop, with the task that serves it, or on its way back.        *)
OnePermission ==
    /\ \A i \in DOMAIN stdin : stdin[i].kind = "allow" =>
          /\ work[stdin[i].session].stage = "asking"
          /\ stdin[i].session \notin serving
          /\ \A j \in DOMAIN stdout : stdout[j].kind = "ask" => stdout[j].id # stdin[i].session
          /\ \A j \in DOMAIN stdin :
                stdin[j].kind = "allow" /\ stdin[j].session = stdin[i].session => i = j
    /\ \A i \in DOMAIN stdout : stdout[i].kind = "ask" =>
          /\ work[stdout[i].id].stage = "asking"
          /\ stdout[i].id \notin serving
          /\ \A j \in DOMAIN stdout :
                stdout[j].kind = "ask" /\ stdout[j].id = stdout[i].id => i = j
    /\ \A s \in serving : work[s].stage = "asking"

(* A prompt that the agent works on is not answered yet, and is its own.   *)
OnePrompt ==
    \A s \in Ids : Engaged(s) =>
       /\ work[s].prompt \notin answered
       /\ \A f \in In(stdin) : f.kind # "allow" => f.id # work[s].prompt
       /\ \A t \in Ids : Engaged(t) /\ work[s].prompt = work[t].prompt => s = t

(* How the turn stands to what the agent does.                             *)
Waiting ==
    /\ rpcTurn.id \in Made
    /\ \A f \in In(stdin) : /\ f.kind = "new" => f.id # rpcTurn.id
                            /\ f.kind = "prompt" => (f.id = rpcTurn.id <=> f.session = rpcTurn.session)
    /\ \A s \in Ids : Engaged(s) => (work[s].prompt = rpcTurn.id <=> s = rpcTurn.session)
    /\ rpcTurn.id \in answered => Over(rpcTurn.session)
    /\ \A i, j \in DOMAIN stdout :
          (i < j /\ stdout[i].kind = "result" /\ stdout[i].id = rpcTurn.id)
             => ~About(stdout[j], rpcTurn.session)
    /\ outcome[rpcTurn.id] = "result" => \A f \in In(stdout) : ~About(f, rpcTurn.session)

TurnInStep ==
    /\ rpcTurn.pc = "idle" => rpcTurn = NoTurn
    /\ rpcTurn.pc = "opening" => /\ rpcTurn.id \in Made /\ rpcTurn.session = Unset
                                 /\ updates = <<>> /\ Untouched(rpcTurn.id)
    /\ rpcTurn.pc \in {"opening", "opened"} => rpcTurn.collected = <<>>
    /\ rpcTurn.pc \in {"opened", "prompting"} => rpcTurn.session \in listeners \cap answered
    /\ rpcTurn.pc = "opened" => Untouched(rpcTurn.session)
    /\ rpcTurn.pc = "prompting" => Waiting
    /\ rpcTurn.pc = "done" => rpcTurn.session \in answered /\ Over(rpcTurn.session)

(* The updates of a session follow each other without a gap.               *)
NoGaps ==
    /\ ~dispatching => stdout = <<>>
    /\ \A i, j \in DOMAIN stdout :
          (i < j /\ stdout[i].kind = "update" /\ About(stdout[j], stdout[i].session))
             => stdout[i].number < stdout[j].number
    /\ \A f \in In(stdout) :
          (f.kind = "update" /\ f.number < work[f.session].emitted)
             => Updated(f.session, f.number + 1) \in In(stdout)

Got == Len(rpcTurn.collected) + Len(updates)

Stream(first) ==
    /\ first = 0 => Got > 0
    /\ \A i \in DOMAIN rpcTurn.collected : rpcTurn.collected[i] = first + i - 1
    /\ \A i \in DOMAIN updates : updates[i] = first + Len(rpcTurn.collected) + i - 1
    /\ first + Got - 1 <= work[rpcTurn.session].emitted
    /\ \A f \in In(stdout) : About(f, rpcTurn.session) =>
          f.number > first + Got - 1 \/ (f.number = 0 /\ Got = 0)
    /\ first + Got - 1 < work[rpcTurn.session].emitted =>
          Updated(rpcTurn.session, first + Got) \in In(stdout)

Streaming ==
    \/ rpcTurn.pc = "opened" /\ dispatching
    \/ rpcTurn.pc = "prompting" /\ (dispatching \/ outcome[rpcTurn.id] = "result")

NoneLost == Streaming => \E first \in {0, 1} : Stream(first)

RpcIInv ==
    /\ RpcTypeOK /\ AnswerIsOwn /\ UpdatesCollected
    /\ FramesKnown /\ RequestsInOrder /\ OnePermission /\ OnePrompt
    /\ TurnInStep /\ NoGaps /\ NoneLost

-----------------------------------------------------------------------------
(* Queues.                                                                 *)
LEMMA Appended ==
    ASSUME NEW S, NEW q \in Seq(S), NEW f \in S
    PROVE  /\ Append(q, f) \in Seq(S)
           /\ Len(q) \in Nat /\ Len(Append(q, f)) = Len(q) + 1
           /\ DOMAIN q = 1..Len(q) /\ DOMAIN Append(q, f) = 1..(Len(q) + 1)
           /\ \A i \in DOMAIN q : Append(q, f)[i] = q[i]
           /\ Append(q, f)[Len(q) + 1] = f
           /\ In(Append(q, f)) = In(q) \cup {f}
<1>1. /\ Append(q, f) \in Seq(S) /\ Len(q) \in Nat
      /\ Len(Append(q, f)) = Len(q) + 1
      /\ DOMAIN q = 1..Len(q) /\ DOMAIN Append(q, f) = 1..(Len(q) + 1)
      /\ \A i \in DOMAIN q : Append(q, f)[i] = q[i]
      /\ Append(q, f)[Len(q) + 1] = f
  OBVIOUS
<1>2. In(Append(q, f)) = In(q) \cup {f}
  BY <1>1 DEF In
<1> QED BY <1>1, <1>2

LEMMA Shortened ==
    ASSUME NEW S, NEW q, NEW n, NEW r,
           q \in Seq(S), n \in 0..Len(q), r = SubSeq(q, n + 1, Len(q))
    PROVE  /\ r \in Seq(S)
           /\ DOMAIN q = 1..Len(q) /\ DOMAIN r = 1..(Len(q) - n)
           /\ \A i \in DOMAIN r : i + n \in DOMAIN q /\ r[i] = q[i + n]
           /\ In(r) \subseteq In(q)
<1>1. /\ r \in Seq(S) /\ Len(q) \in Nat
      /\ DOMAIN q = 1..Len(q) /\ DOMAIN r = 1..(Len(q) - n)
      /\ \A i \in DOMAIN r : i + n \in DOMAIN q /\ r[i] = q[i + n]
  <2>1. Len(q) \in Nat /\ \A i \in (n + 1)..Len(q) : q[i] \in S
    OBVIOUS
  <2>2. r \in Seq(S) /\ Len(r) = Len(q) - n /\ \A i \in 1..(Len(q) - n) : r[i] = q[i + n]
    BY <2>1, SubSeqProperties
  <2> QED BY <2>1, <2>2
<1>2. In(r) \subseteq In(q)
  BY <1>1 DEF In
<1> QED BY <1>1, <1>2

LEMMA TailOf ==
    ASSUME NEW S, NEW q \in Seq(S), q # <<>>
    PROVE  /\ Tail(q) = SubSeq(q, 1 + 1, Len(q)) /\ 1 \in 0..Len(q)
           /\ 1 \in DOMAIN q /\ Head(q) = q[1] /\ Head(q) \in S /\ Head(q) \in In(q)
           /\ In(q) = {Head(q)} \cup In(Tail(q))
<1>1. Tail(q) = SubSeq(q, 1 + 1, Len(q))
  BY TailIsSubSeq
<1>2. /\ 1 \in 0..Len(q) /\ 1 \in DOMAIN q /\ Head(q) = q[1] /\ Head(q) \in S
      /\ DOMAIN q = 1..Len(q) /\ Len(q) \in Nat
  OBVIOUS
<1>3. DOMAIN Tail(q) = 1..(Len(q) - 1) /\ \A i \in DOMAIN Tail(q) : Tail(q)[i] = q[i + 1]
  BY <1>1, <1>2, Shortened
<1>4. ASSUME NEW i \in DOMAIN q
      PROVE  q[i] \in {Head(q)} \cup In(Tail(q))
  <2>1. i # 1 => i - 1 \in DOMAIN Tail(q) /\ Tail(q)[i - 1] = q[i]
    BY <1>2, <1>3
  <2> QED BY <2>1, <1>2 DEF In
<1>5. In(Tail(q)) \subseteq In(q)
  BY <1>1, <1>2, Shortened
<1> QED BY <1>1, <1>2, <1>4, <1>5 DEF In

LEMMA FrameIs ==
    ASSUME NEW f \in FromAgent
    PROVE  /\ f.kind \in {"result", "error", "ask", "garbled", "update"}
           /\ f.kind \in {"result", "error", "ask"} => f.id \in Ids
           /\ f.kind = "update" => /\ f.session \in Ids /\ f.number \in 0..MaxUpdates
                                   /\ f = Updated(f.session, f.number)
BY DEF FromAgent, Updated

(***************************************************************************)
(* Steps of the turn: they change only what the turn has.                  *)
(***************************************************************************)
Wire == <<stdin, stdout, work, answered, nextId, serving, outcome, dispatching>>

LEMMA QuietWire ==
    ASSUME RpcIInv, UNCHANGED Wire
    PROVE  /\ AnswerIsOwn' /\ FramesKnown' /\ RequestsInOrder' /\ OnePermission'
           /\ OnePrompt' /\ NoGaps'
<1> USE DEF RpcIInv, Wire, In
<1>1. AnswerIsOwn'
  BY DEF AnswerIsOwn
<1>2. FramesKnown'
  BY DEF FramesKnown, Made, Engaged
<1>3. RequestsInOrder'
  BY DEF RequestsInOrder, Engaged
<1>4. OnePermission'
  BY DEF OnePermission
<1>5. OnePrompt'
  BY DEF OnePrompt, Engaged
<1>6. NoGaps'
  BY DEF NoGaps, About, Updated
<1> QED BY <1>1, <1>2, <1>3, <1>4, <1>5, <1>6

LEMMA TurnIs ==
    ASSUME RpcTypeOK
    PROVE  /\ rpcTurn.collected \in Seq(0..MaxUpdates) /\ updates \in Seq(0..MaxUpdates)
           /\ Len(rpcTurn.collected) \in Nat /\ Len(updates) \in Nat /\ Got \in Nat
           /\ DOMAIN rpcTurn.collected = 1..Len(rpcTurn.collected)
           /\ DOMAIN updates = 1..Len(updates)
           /\ nextId \in Nat /\ MaxIds \in Nat /\ MaxUpdates \in Nat
           /\ Unset \notin Ids /\ Made \subseteq Ids /\ answered \subseteq Made
           /\ \A s \in Ids : work[s].emitted \in 0..MaxUpdates
<1> USE RpcAssumption DEF RpcTypeOK
<1>1. rpcTurn.collected \in Seq(0..MaxUpdates) /\ updates \in Seq(0..MaxUpdates)
  OBVIOUS
<1>2. \A s \in Ids : work[s].emitted \in 0..MaxUpdates
  OBVIOUS
<1>3. /\ nextId \in Nat /\ MaxIds \in Nat /\ MaxUpdates \in Nat
      /\ Unset \notin Ids /\ Made \subseteq Ids /\ answered \subseteq Made
  BY DEF Ids, Unset, Made
<1> HIDE DEF RpcTypeOK
<1> QED BY <1>1, <1>2, <1>3 DEF Got

LEMMA NoTurnIs ==
    /\ NoTurn.pc = "idle" /\ NoTurn.collected = <<>> /\ NoTurn.session = Unset
    /\ NoTurn \in [pc : {"idle", "opening", "opened", "prompting", "done"}, id : Ids \cup {Unset},
                   session : Ids \cup {Unset}, collected : Seq(0..MaxUpdates)]
BY DEF NoTurn

(* The turn is given up: nothing is said of a turn that is idle.           *)
LEMMA GivenUp ==
    ASSUME RpcIInv, rpcTurn' = NoTurn
    PROVE  UpdatesCollected' /\ TurnInStep' /\ NoneLost'
BY NoTurnIs DEF UpdatesCollected, TurnInStep, NoneLost, Streaming

LEMMA FailKeeps ==
    ASSUME RpcIInv, Fail \/ DropTurn
    PROVE  RpcIInv'
<1> USE DEF Fail, DropTurn
<1>1. rpcTurn' = NoTurn /\ updates' = <<>> /\ UNCHANGED Wire
  BY DEF Wire, agent
<1>2. RpcTypeOK'
  BY NoTurnIs DEF RpcIInv, RpcTypeOK, agent
<1> QED BY <1>1, <1>2, QuietWire, GivenUp DEF RpcIInv

LEMMA OpenKeeps ==
    ASSUME RpcIInv, Open
    PROVE  RpcIInv'
<1> USE DEF RpcIInv
<1>0. RpcTypeOK
  OBVIOUS
<1>1. UNCHANGED Wire /\ UNCHANGED updates
  BY DEF Open, Wire, agent
<1>2. /\ rpcTurn.pc = "opening" /\ outcome[rpcTurn.id] = "result" /\ rpcTurn.id \in Made
      /\ rpcTurn.collected = <<>> /\ updates = <<>> /\ Untouched(rpcTurn.id)
  BY DEF Open, TurnInStep
<1>3. rpcTurn.id \in Ids /\ rpcTurn.id \in answered
  BY <1>0, <1>2, TurnIs DEF AnswerIsOwn
<1>4. /\ rpcTurn'.pc = "opened" /\ rpcTurn'.session = rpcTurn.id /\ rpcTurn'.collected = <<>>
      /\ listeners' = listeners \cup {rpcTurn.id}
  BY <1>0, <1>2 DEF Open, RpcTypeOK
<1>5. RpcTypeOK'
  BY <1>0, <1>3 DEF Open, RpcTypeOK, agent
<1>6. UpdatesCollected'
  BY <1>4 DEF UpdatesCollected
<1>7. TurnInStep'
  BY <1>1, <1>2, <1>3, <1>4 DEF TurnInStep, Untouched, Engaged, PromptSent, In, Wire
<1>8. NoneLost'
  <2>1. Got' = 0 /\ work'[rpcTurn'.session].emitted = 0 /\ stdout' = stdout
    BY <1>1, <1>2, <1>4 DEF Got, Wire, Untouched
  <2>2. \A f \in In(stdout) : f.kind = "update" => f.number \in Nat
    BY <1>0, FrameIs, TurnIs DEF In, RpcTypeOK
  <2>3. Stream(1)'
    BY <2>1, <2>2, <1>1, <1>2, <1>4 DEF Stream, About, In
  <2> QED BY <2>3 DEF NoneLost
<1> QED BY <1>1, <1>5, <1>6, <1>7, <1>8, QuietWire

LEMMA DropListenerKeeps ==
    ASSUME RpcIInv, DropListener
    PROVE  RpcIInv'
<1> USE DEF RpcIInv
<1>1. UNCHANGED Wire /\ UNCHANGED <<rpcTurn, updates, pending, alive, writing, garbled>>
  BY DEF DropListener, Wire, agent
<1>2. listeners' \subseteq listeners /\ (rpcTurn.pc # "done" /\ rpcTurn.session \in listeners
                                            => rpcTurn.session \in listeners')
  BY DEF DropListener
<1>3. RpcTypeOK'
  BY <1>1, <1>2 DEF RpcTypeOK, Wire
<1>4. UpdatesCollected'
  BY <1>1 DEF UpdatesCollected, Wire
<1>5. TurnInStep'
  BY <1>1, <1>2 DEF TurnInStep, Waiting, Over, Untouched, Engaged, PromptSent, In, Wire, Made, About
<1>6. NoneLost'
  BY <1>1 DEF NoneLost, Streaming, Stream, Got, About, In, Wire, Updated
<1> QED BY <1>1, <1>3, <1>4, <1>5, <1>6, QuietWire

(* An update that waits in the receiver is moved to what was collected.    *)
LEMMA CollectKeeps ==
    ASSUME RpcIInv, Collect
    PROVE  RpcIInv'
<1> DEFINE old == rpcTurn.collected
<1>0. RpcTypeOK /\ TurnInStep /\ NoneLost
  BY DEF RpcIInv
<1>1. UNCHANGED Wire /\ UNCHANGED <<listeners, pending, alive, writing, garbled>>
  BY DEF Collect, Wire, agent
<1>2. /\ rpcTurn.pc = "prompting" /\ updates # <<>> /\ updates' = Tail(updates)
      /\ rpcTurn' = [rpcTurn EXCEPT !.collected = Append(old, Head(updates))]
  BY DEF Collect
<1>3. /\ rpcTurn'.pc = "prompting" /\ rpcTurn'.id = rpcTurn.id
      /\ rpcTurn'.session = rpcTurn.session
      /\ rpcTurn'.collected = Append(old, Head(updates))
  BY <1>0, <1>2 DEF RpcTypeOK
<1>4. /\ Head(updates) \in 0..MaxUpdates /\ Head(updates) = updates[1] /\ 1 \in DOMAIN updates
      /\ updates' \in Seq(0..MaxUpdates) /\ DOMAIN updates' = 1..(Len(updates) - 1)
      /\ Len(updates') = Len(updates) - 1
      /\ \A i \in DOMAIN updates' : i + 1 \in DOMAIN updates /\ updates'[i] = updates[i + 1]
  <2>1. updates \in Seq(0..MaxUpdates) /\ updates # <<>> /\ updates' = Tail(updates)
    BY <1>0, <1>2, TurnIs
  <2>2. /\ Head(updates) \in 0..MaxUpdates /\ Head(updates) = updates[1] /\ 1 \in DOMAIN updates
        /\ updates' = SubSeq(updates, 1 + 1, Len(updates)) /\ 1 \in 0..Len(updates)
    BY ONLY <2>1, TailOf
  <2>3. /\ updates' \in Seq(0..MaxUpdates) /\ DOMAIN updates' = 1..(Len(updates) - 1)
        /\ \A i \in DOMAIN updates' : i + 1 \in DOMAIN updates /\ updates'[i] = updates[i + 1]
    BY ONLY <2>1, <2>2, Shortened
  <2>4. Len(updates') = Len(updates) - 1
    BY ONLY <2>1, HeadTailProperties
  <2> QED BY <2>2, <2>3, <2>4
<1>5. /\ Append(old, Head(updates)) \in Seq(0..MaxUpdates)
      /\ Len(rpcTurn'.collected) = Len(old) + 1 /\ DOMAIN rpcTurn'.collected = 1..(Len(old) + 1)
      /\ \A i \in DOMAIN old : rpcTurn'.collected[i] = old[i]
      /\ rpcTurn'.collected[Len(old) + 1] = updates[1]
  <2>1. old \in Seq(0..MaxUpdates)
    BY <1>0, TurnIs
  <2> HIDE DEF old
  <2>2. LET new == Append(old, Head(updates))
        IN /\ new \in Seq(0..MaxUpdates) /\ Len(new) = Len(old) + 1
           /\ DOMAIN new = 1..(Len(old) + 1)
           /\ \A i \in DOMAIN old : new[i] = old[i]
           /\ new[Len(old) + 1] = Head(updates)
    BY <2>1, <1>4, Appended
  <2> QED BY <2>2, <1>3, <1>4
<1>6. RpcTypeOK'
  BY <1>0, <1>1, <1>2, <1>4, <1>5 DEF RpcTypeOK, Wire
<1>7. UpdatesCollected'
  BY <1>3 DEF UpdatesCollected
<1>8. TurnInStep'
  BY <1>0, <1>1, <1>2, <1>3 DEF TurnInStep, Waiting, Over, Engaged, PromptSent, In, Wire, Made, About
<1>9. NoneLost'
  <2> SUFFICES ASSUME Streaming' PROVE \E first \in {0, 1} : Stream(first)'
    BY DEF NoneLost
  <2>1. Streaming
    BY <1>1, <1>2, <1>3 DEF Streaming, Wire
  <2>2. PICK first \in {0, 1} : Stream(first)
    BY <1>0, <2>1 DEF NoneLost
  <2>3. Got' = Got
    BY <1>0, <1>4, <1>5, TurnIs DEF Got
  <2>4. \A i \in DOMAIN rpcTurn'.collected : rpcTurn'.collected[i] = first + i - 1
    <3>1. updates[1] = first + Len(old) + 1 - 1
      BY <1>4, <2>2 DEF Stream
    <3>2. ASSUME NEW i \in 1..(Len(old) + 1)
          PROVE  rpcTurn'.collected[i] = first + i - 1
      <4>1. CASE i = Len(old) + 1
        BY <4>1, <1>0, <1>5, <3>1, TurnIs
      <4>2. CASE i \in DOMAIN old
        BY <4>2, <1>5, <2>2 DEF Stream
      <4> QED BY <4>1, <4>2, <2>2, <1>0, TurnIs
    <3> QED BY <3>2, <1>5
  <2>5. \A i \in DOMAIN updates' : updates'[i] = first + Len(rpcTurn'.collected) + i - 1
    <3>1. ASSUME NEW i \in DOMAIN updates'
          PROVE  updates'[i] = first + Len(rpcTurn'.collected) + i - 1
      <4>1. updates[i + 1] = first + Len(old) + (i + 1) - 1 /\ updates'[i] = updates[i + 1]
        BY <1>4, <2>2 DEF Stream
      <4>2. i \in Int /\ first \in Int /\ Len(old) \in Int
        BY <3>1, <2>2, <1>0, <1>4, TurnIs
      <4>3. Len(rpcTurn'.collected) = Len(old) + 1
        BY <1>5
      <4> HIDE DEF old
      <4> QED BY <4>1, <4>2, <4>3
    <3> QED BY <3>1
  <2>6. Stream(first)'
    BY <1>1, <1>3, <2>2, <2>3, <2>4, <2>5 DEF Stream, Wire, In, About, Updated
  <2> QED BY <2>6
<1> QED BY <1>1, <1>6, <1>7, <1>8, <1>9, QuietWire DEF RpcIInv

LEMMA Joined ==
    ASSUME NEW S, NEW q \in Seq(S), NEW r \in Seq(S)
    PROVE  /\ q \o r \in Seq(S) /\ Len(q \o r) = Len(q) + Len(r)
           /\ DOMAIN q = 1..Len(q) /\ DOMAIN r = 1..Len(r)
           /\ DOMAIN (q \o r) = 1..(Len(q) + Len(r))
           /\ \A i \in DOMAIN q : (q \o r)[i] = q[i]
           /\ \A i \in (Len(q) + 1)..(Len(q) + Len(r)) :
                 i - Len(q) \in DOMAIN r /\ (q \o r)[i] = r[i - Len(q)]
OBVIOUS

(* The answer is there, so the session has no update on the way any more:  *)
(* what was collected and what waits are all of them.                      *)
LEMMA FinishKeeps ==
    ASSUME RpcIInv, Finish
    PROVE  RpcIInv'
<1> DEFINE s == rpcTurn.session
           old == rpcTurn.collected
<1>0. RpcTypeOK /\ TurnInStep /\ NoneLost /\ AnswerIsOwn
  BY DEF RpcIInv
<1>1. UNCHANGED Wire /\ UNCHANGED <<listeners, pending, alive, writing, garbled>>
  BY DEF Finish, Wire, agent
<1>2. /\ rpcTurn.pc = "prompting" /\ outcome[rpcTurn.id] = "result" /\ updates' = <<>>
      /\ rpcTurn' = [rpcTurn EXCEPT !.pc = "done", !.collected = @ \o updates]
  BY DEF Finish
<1>3. rpcTurn'.pc = "done" /\ rpcTurn'.session = s /\ rpcTurn'.collected = old \o updates
  BY <1>0, <1>2 DEF RpcTypeOK
<1>4. Waiting /\ s \in answered /\ s \in Ids
  BY <1>0, <1>2, TurnIs DEF TurnInStep
<1>5. Over(s)
  BY <1>0, <1>2, <1>4, TurnIs DEF Waiting, AnswerIsOwn
<1>6. /\ old \o updates \in Seq(0..MaxUpdates) /\ Len(old \o updates) = Got
      /\ DOMAIN (old \o updates) = 1..Got
      /\ \A i \in DOMAIN old : (old \o updates)[i] = old[i]
      /\ \A i \in (Len(old) + 1)..Got :
            i - Len(old) \in DOMAIN updates /\ (old \o updates)[i] = updates[i - Len(old)]
  <2>1. old \in Seq(0..MaxUpdates) /\ updates \in Seq(0..MaxUpdates)
    BY <1>0, TurnIs
  <2>2. Got = Len(old) + Len(updates)
    BY DEF Got
  <2> HIDE DEF old
  <2> QED BY ONLY <2>1, <2>2, Joined
<1>7. RpcTypeOK'
  <2>1. rpcTurn' = [[rpcTurn EXCEPT !.pc = "done"] EXCEPT !.collected = old \o updates]
    BY <1>0, <1>2 DEF RpcTypeOK
  <2>2. rpcTurn' \in [pc : {"idle", "opening", "opened", "prompting", "done"},
                       id : Ids \cup {Unset}, session : Ids \cup {Unset},
                       collected : Seq(0..MaxUpdates)]
    BY <1>0, <1>6, <2>1 DEF RpcTypeOK
  <2>3. updates' \in Seq(0..MaxUpdates)
    BY <1>2
  <2> QED BY <1>0, <1>1, <2>2, <2>3 DEF RpcTypeOK, Wire
<1>8. UpdatesCollected'
  <2>1. Streaming
    BY <1>2 DEF Streaming
  <2>2. PICK first \in {0, 1} : Stream(first)
    BY <1>0, <2>1 DEF NoneLost
  <2>3. Updated(s, first + Got) \notin In(stdout)
    BY <1>2, <1>4 DEF Waiting, About, Updated
  <2>4. Got = work[s].emitted + 1 - first
    BY <1>0, <1>4, <2>2, <2>3, TurnIs DEF Stream
  <2>5. \A i \in 1..Got : (old \o updates)[i] = first + i - 1
    <3>1. ASSUME NEW i \in 1..Got, i \notin DOMAIN old
          PROVE  (old \o updates)[i] = first + i - 1
      <4>1. i \in (Len(old) + 1)..Got
        BY <1>0, <3>1, TurnIs
      <4>2. /\ i - Len(old) \in DOMAIN updates
            /\ (old \o updates)[i] = updates[i - Len(old)]
            /\ updates[i - Len(old)] = first + Len(old) + (i - Len(old)) - 1
        BY <4>1, <1>6, <2>2 DEF Stream
      <4>3. i \in Int /\ first \in Int /\ Len(old) \in Int
        BY <3>1, <2>2, <1>0, TurnIs
      <4> HIDE DEF old
      <4> QED BY <4>2, <4>3
    <3>2. \A i \in DOMAIN old : (old \o updates)[i] = first + i - 1
      BY <1>6, <2>2 DEF Stream
    <3> QED BY <3>1, <3>2
  <2> QED BY <1>1, <1>3, <1>6, <2>4, <2>5 DEF UpdatesCollected, Wire
<1>9. TurnInStep'
  BY <1>1, <1>3, <1>4, <1>5 DEF TurnInStep, Over, Engaged, PromptSent, In, Wire
<1>10. NoneLost'
  BY <1>3 DEF NoneLost, Streaming
<1> QED BY <1>1, <1>7, <1>8, <1>9, <1>10, QuietWire DEF RpcIInv

(***************************************************************************)
(* Frames for the agent.                                                   *)
(***************************************************************************)
Kept == <<stdout, work, answered, outcome, dispatching, serving>>

(* What is sent: a frame at the end, or nothing (the writer has ended).    *)
Sends(f) ==
    \/ stdin' = Append(stdin, f)
    \/ UNCHANGED stdin

LEMMA SendsIs ==
    ASSUME RpcTypeOK, NEW f \in ToAgent, Sends(f)
    PROVE  /\ stdin' \in Seq(ToAgent)
           /\ DOMAIN stdin = 1..Len(stdin) /\ Len(stdin) \in Nat
           /\ DOMAIN stdin' \in {DOMAIN stdin, 1..(Len(stdin) + 1)}
           /\ \A i \in DOMAIN stdin : i \in DOMAIN stdin' /\ stdin'[i] = stdin[i]
           /\ \A i \in DOMAIN stdin' \ DOMAIN stdin : i = Len(stdin) + 1 /\ stdin'[i] = f
           /\ In(stdin') \subseteq In(stdin) \cup {f}
           /\ In(stdin) \subseteq In(stdin')
<1>0. stdin \in Seq(ToAgent)
  BY DEF RpcTypeOK
<1>1. CASE stdin' = Append(stdin, f)
  <2> DEFINE new == Append(stdin, f)
  <2>1. /\ new \in Seq(ToAgent) /\ Len(stdin) \in Nat
        /\ DOMAIN stdin = 1..Len(stdin) /\ DOMAIN new = 1..(Len(stdin) + 1)
        /\ \A i \in DOMAIN stdin : new[i] = stdin[i]
        /\ new[Len(stdin) + 1] = f
        /\ In(new) = In(stdin) \cup {f}
    BY <1>0, Appended
  <2> HIDE DEF new
  <2>2. stdin' = new
    BY <1>1 DEF new
  <2> QED BY <2>1, <2>2
<1>2. CASE UNCHANGED stdin
  BY <1>0, <1>2 DEF In
<1> QED BY <1>1, <1>2 DEF Sends

(* A request with the next id.                                             *)
LEMMA RequestSent ==
    ASSUME RpcIInv, UNCHANGED Kept, NEW kind \in {"new", "prompt"},
           NEW s \in Ids \cup {Unset}, RpcRequest(kind, s),
           kind = "prompt" => s \in answered /\ Untouched(s)
    PROVE  /\ stdin' \in Seq(ToAgent) /\ nextId' \in 1..(MaxIds + 1)
           /\ pending' \subseteq 1..(nextId' - 1) /\ answered' \subseteq 1..(nextId' - 1)
           /\ \A i \in pending' : outcome'[i] = "none"
           /\ outcome[nextId] = "none"
           /\ nextId \notin Made /\ Made' = Made \cup {nextId} /\ nextId \in Ids
           /\ In(stdin') \subseteq
                 In(stdin) \cup {[kind |-> kind, id |-> nextId, session |-> s]}
           /\ AnswerIsOwn' /\ FramesKnown' /\ RequestsInOrder' /\ OnePermission'
           /\ OnePrompt' /\ NoGaps'
<1> DEFINE f == [kind |-> kind, id |-> nextId, session |-> s]
<1>0. /\ RpcTypeOK /\ AnswerIsOwn /\ FramesKnown /\ RequestsInOrder /\ OnePermission
      /\ OnePrompt /\ NoGaps
  BY DEF RpcIInv
<1>1. f \in ToAgent /\ f.kind = kind /\ f.id = nextId /\ f.session = s /\ nextId \in Ids
  BY DEF RpcRequest, ToAgent
<1>2. Sends(f) /\ nextId' = nextId + 1
  BY DEF Sends, RpcRequest
<1>3. nextId \notin Made /\ Made' = Made \cup {nextId} /\ nextId \in Nat /\ answered \subseteq Made
  <2>1. nextId \in Nat /\ answered \subseteq Made
    BY <1>0, TurnIs
  <2>2. nextId >= 1 /\ nextId' - 1 = nextId
    BY <2>1, <1>1, <1>2 DEF Ids
  <2> QED BY <2>1, <2>2 DEF Made
<1> HIDE DEF f
<1>4. /\ stdin' \in Seq(ToAgent)
      /\ DOMAIN stdin = 1..Len(stdin) /\ Len(stdin) \in Nat
      /\ DOMAIN stdin' \in {DOMAIN stdin, 1..(Len(stdin) + 1)}
      /\ \A i \in DOMAIN stdin : i \in DOMAIN stdin' /\ stdin'[i] = stdin[i]
      /\ \A i \in DOMAIN stdin' \ DOMAIN stdin : i = Len(stdin) + 1 /\ stdin'[i] = f
      /\ In(stdin') \subseteq In(stdin) \cup {f}
      /\ In(stdin) \subseteq In(stdin')
  BY <1>0, <1>1, <1>2, SendsIs
<1>5. /\ nextId' \in 1..(MaxIds + 1)
      /\ pending' \subseteq 1..(nextId' - 1) /\ answered' \subseteq 1..(nextId' - 1)
  <2>1. nextId' \in 1..(MaxIds + 1)
    BY <1>1, <1>2, <1>3, RpcAssumption DEF Ids
  <2>2. pending \subseteq Made /\ pending' \subseteq pending \cup {nextId} /\ answered' = answered
    BY <1>0 DEF RpcTypeOK, Made, RpcRequest, Kept
  <2> QED BY <2>1, <2>2, <1>3 DEF Made
<1>6. outcome[nextId] = "none" /\ \A i \in pending' : outcome'[i] = "none"
  <2>1. outcome[nextId] = "none"
    BY <1>0, <1>1, <1>3 DEF FramesKnown
  <2>2. /\ \A i \in pending : outcome[i] = "none"
        /\ pending' \subseteq pending \cup {nextId} /\ outcome' = outcome
    BY <1>0 DEF RpcTypeOK, RpcRequest, Kept
  <2> QED BY <2>1, <2>2
<1>7. AnswerIsOwn' /\ NoGaps'
  BY <1>0 DEF Kept, AnswerIsOwn, NoGaps, In, About, Updated
<1>8. FramesKnown'
  <2>1. \A g \in In(stdin') : g.id \in Made' /\ (g.kind # "new" => g.session \in Made')
    <3>1. kind # "new" => s \in Made
      BY <1>3
    <3>2. \A g \in In(stdin) : g.id \in Made /\ (g.kind # "new" => g.session \in Made)
      BY <1>0 DEF FramesKnown
    <3> QED BY <3>1, <3>2, <1>1, <1>3, <1>4
  <2>2. \A g \in In(stdout') :
          /\ g.kind \in {"result", "error"} => g.id \in answered'
          /\ g.kind = "ask" => g.id \in Made'
          /\ g.kind = "update" => /\ g.session \in answered'
                                  /\ g.number <= work'[g.session].emitted
    BY <1>0, <1>3 DEF Kept, FramesKnown, In
  <2>3. /\ serving' \subseteq Made'
        /\ \A t \in Ids : /\ Engaged(t)' => work'[t].prompt \in Made'
                          /\ t \notin answered' => work'[t] = NoWork
        /\ \A i \in Ids \ Made' : outcome'[i] = "none"
    BY <1>0, <1>3 DEF Kept, FramesKnown, Engaged
  <2> QED BY <2>1, <2>2, <2>3 DEF FramesKnown
<1>9. RequestsInOrder'
  <2>1. ASSUME NEW i \in DOMAIN stdin', NEW j \in DOMAIN stdin', i < j,
               stdin'[i].kind # "allow", stdin'[j].kind # "allow"
        PROVE  stdin'[i].id < stdin'[j].id
    <3>1. i \in DOMAIN stdin
      BY <1>4, <2>1
    <3>2. stdin[i].id \in Made
      BY <1>0, <3>1 DEF FramesKnown, In
    <3>3. stdin[i].id < nextId
      BY <3>2, <1>3 DEF Made
    <3> QED BY <3>1, <3>3, <1>0, <1>1, <1>4, <2>1 DEF RequestsInOrder
  <2>2. ASSUME NEW i \in DOMAIN stdin', NEW j \in DOMAIN stdin', i # j,
               stdin'[i].kind = "prompt", stdin'[j].kind = "prompt"
        PROVE  stdin'[i].session # stdin'[j].session
    <3>1. \A k \in DOMAIN stdin : stdin[k] \in In(stdin)
      BY DEF In
    <3>2. kind = "prompt" => \A k \in DOMAIN stdin : stdin[k].kind = "prompt" => stdin[k].session # s
      BY <3>1 DEF Untouched, PromptSent
    <3> QED BY <3>2, <1>0, <1>1, <1>4, <2>2 DEF RequestsInOrder
  <2>3. ASSUME NEW g \in In(stdin')
        PROVE  /\ g.kind # "allow" => g.id \notin answered
               /\ g.kind = "prompt" => /\ g.session \in answered
                                       /\ ~Engaged(g.session) /\ work[g.session].emitted = 0
    BY <2>3, <1>0, <1>1, <1>3, <1>4 DEF RequestsInOrder, Untouched
  <2> QED BY <2>1, <2>2, <2>3 DEF RequestsInOrder, Kept, Engaged
<1>10. OnePermission'
  BY <1>0, <1>1, <1>4 DEF Kept, OnePermission
<1>11. OnePrompt'
  BY <1>0, <1>1, <1>3, <1>4 DEF Kept, OnePrompt, FramesKnown, Engaged
<1> QED BY <1>1, <1>3, <1>4, <1>5, <1>6, <1>7, <1>8, <1>9, <1>10, <1>11 DEF f

LEMMA BeginTurnKeeps ==
    ASSUME RpcIInv, BeginTurn
    PROVE  RpcIInv'
<1> DEFINE f == [kind |-> "new", id |-> nextId, session |-> Unset]
<1>0. RpcTypeOK /\ TurnInStep /\ NoneLost /\ FramesKnown /\ OnePrompt /\ RequestsInOrder
  BY DEF RpcIInv
<1>1. UNCHANGED Kept /\ UNCHANGED <<alive, writing, garbled, listeners>> /\ RpcRequest("new", Unset)
      /\ updates' = <<>>
  BY DEF BeginTurn, Kept, agent
<1>2. /\ stdin' \in Seq(ToAgent) /\ nextId' \in 1..(MaxIds + 1)
      /\ pending' \subseteq 1..(nextId' - 1) /\ answered' \subseteq 1..(nextId' - 1)
      /\ \A i \in pending' : outcome'[i] = "none"
      /\ outcome[nextId] = "none"
      /\ nextId \notin Made /\ Made' = Made \cup {nextId} /\ nextId \in Ids
      /\ In(stdin') \subseteq In(stdin) \cup {f}
      /\ AnswerIsOwn' /\ FramesKnown' /\ RequestsInOrder' /\ OnePermission'
      /\ OnePrompt' /\ NoGaps'
  BY <1>1, RequestSent
<1>3. CASE ~writing
  <2>1. rpcTurn' = NoTurn
    BY <1>3 DEF BeginTurn
  <2>2. RpcTypeOK'
    BY <1>0, <1>1, <1>2, <2>1, NoTurnIs DEF RpcTypeOK, Kept
  <2> QED BY <1>2, <2>1, <2>2, GivenUp DEF RpcIInv
<1>4. CASE writing
  <2>1. /\ rpcTurn'.pc = "opening" /\ rpcTurn'.id = nextId /\ rpcTurn'.session = Unset
        /\ rpcTurn'.collected = <<>>
        /\ rpcTurn' \in [pc : {"idle", "opening", "opened", "prompting", "done"},
                         id : Ids \cup {Unset}, session : Ids \cup {Unset},
                         collected : Seq(0..MaxUpdates)]
    <3>1. rpcTurn' = [pc |-> "opening", id |-> nextId, session |-> Unset, collected |-> <<>>]
      BY <1>4 DEF BeginTurn, NoTurn
    <3> QED BY <3>1, <1>2
  <2>2. RpcTypeOK'
    BY <1>0, <1>1, <1>2, <2>1 DEF RpcTypeOK, Kept
  <2>3. Untouched(rpcTurn.id)'
    <3>1. nextId \notin answered
      BY <1>0, <1>2, TurnIs
    <3>2. work'[nextId] = NoWork
      BY <1>0, <1>1, <1>2, <3>1 DEF FramesKnown, Kept
    <3>3. \A g \in In(stdin) : g.kind = "prompt" => g.session # nextId
      BY <1>0, <1>2 DEF FramesKnown
    <3>4. work'[nextId].stage = "none" /\ work'[nextId].emitted = 0
      BY <3>2 DEF NoWork
    <3>5. \A g \in In(stdin') : g.kind = "prompt" => g.session # nextId
      BY <1>2, <3>3
    <3> QED BY <2>1, <3>4, <3>5 DEF Untouched, Engaged, PromptSent
  <2>4. TurnInStep'
    <3>1. rpcTurn'.id \in Made'
      BY <1>2, <2>1
    <3> QED BY <1>1, <2>1, <2>3, <3>1 DEF TurnInStep
  <2>5. UpdatesCollected' /\ NoneLost'
    BY <2>1 DEF UpdatesCollected, NoneLost, Streaming
  <2> QED BY <1>2, <2>2, <2>4, <2>5 DEF RpcIInv
<1> QED BY <1>3, <1>4

LEMMA PromptKeeps ==
    ASSUME RpcIInv, Prompt
    PROVE  RpcIInv'
<1> DEFINE s == rpcTurn.session
           f == [kind |-> "prompt", id |-> nextId, session |-> s]
<1>0. RpcTypeOK /\ TurnInStep /\ NoneLost /\ FramesKnown /\ OnePrompt
  BY DEF RpcIInv
<1>1. /\ UNCHANGED Kept /\ UNCHANGED <<alive, writing, garbled, listeners, updates>>
      /\ rpcTurn.pc = "opened" /\ RpcRequest("prompt", s)
  BY DEF Prompt, Kept, agent
<1>2. s \in answered /\ s \in listeners /\ Untouched(s) /\ rpcTurn.collected = <<>> /\ s \in Ids
  BY <1>0, <1>1, TurnIs DEF TurnInStep
<1>3. /\ stdin' \in Seq(ToAgent) /\ nextId' \in 1..(MaxIds + 1)
      /\ pending' \subseteq 1..(nextId' - 1) /\ answered' \subseteq 1..(nextId' - 1)
      /\ \A i \in pending' : outcome'[i] = "none"
      /\ outcome[nextId] = "none"
      /\ nextId \notin Made /\ Made' = Made \cup {nextId} /\ nextId \in Ids
      /\ In(stdin') \subseteq In(stdin) \cup {f}
      /\ AnswerIsOwn' /\ FramesKnown' /\ RequestsInOrder' /\ OnePermission'
      /\ OnePrompt' /\ NoGaps'
  BY <1>1, <1>2, RequestSent
<1>4. CASE ~writing
  <2>1. rpcTurn' = NoTurn
    BY <1>4 DEF Prompt
  <2>2. RpcTypeOK'
    BY <1>0, <1>1, <1>3, <2>1, NoTurnIs DEF RpcTypeOK, Kept
  <2> QED BY <1>3, <2>1, <2>2, GivenUp DEF RpcIInv
<1>5. CASE writing
  <2>1. /\ rpcTurn'.pc = "prompting" /\ rpcTurn'.id = nextId /\ rpcTurn'.session = s
        /\ rpcTurn'.collected = rpcTurn.collected
        /\ rpcTurn' \in [pc : {"idle", "opening", "opened", "prompting", "done"},
                         id : Ids \cup {Unset}, session : Ids \cup {Unset},
                         collected : Seq(0..MaxUpdates)]
    BY <1>0, <1>3, <1>5 DEF Prompt, RpcTypeOK
  <2>2. RpcTypeOK'
    BY <1>0, <1>1, <1>3, <2>1 DEF RpcTypeOK, Kept
  <2>3. Waiting'
    <3>1. nextId \notin answered
      BY <1>0, <1>3, TurnIs
    <3>2. \A g \in In(stdin) : g.id # nextId /\ (g.kind = "prompt" => g.session # s)
      BY <1>0, <1>2, <1>3 DEF FramesKnown, Untouched, PromptSent
    <3>3. \A t \in Ids : Engaged(t) => work[t].prompt # nextId /\ t # s
      BY <1>0, <1>2, <1>3 DEF FramesKnown, Untouched
    <3>4. \A g \in In(stdout) : g.kind = "result" => g.id # nextId
      BY <1>0, <3>1 DEF FramesKnown
    <3> QED BY <1>1, <1>3, <2>1, <3>1, <3>2, <3>3, <3>4 DEF Waiting, Kept, Engaged, In
  <2>4. TurnInStep'
    BY <1>1, <1>2, <2>1, <2>3 DEF TurnInStep, Kept
  <2>5. UpdatesCollected'
    BY <2>1 DEF UpdatesCollected
  <2>6. NoneLost'
    BY <1>0, <1>1, <1>3, <2>1 DEF NoneLost, Streaming, Stream, Got, Kept, In, About, Updated
  <2> QED BY <1>3, <2>2, <2>4, <2>5, <2>6 DEF RpcIInv
<1> QED BY <1>4, <1>5

(* The turn does not move, and the agent has no new request.               *)
LEMMA TurnKept ==
    ASSUME RpcIInv,
           UNCHANGED <<rpcTurn, updates, listeners, stdout, outcome, work, answered, dispatching,
                       nextId>>,
           \A f \in In(stdin') : f.kind # "allow" => f \in In(stdin)
    PROVE  /\ UpdatesCollected' /\ TurnInStep' /\ NoneLost' /\ NoGaps' /\ AnswerIsOwn'
<1>0. /\ UpdatesCollected /\ TurnInStep /\ NoneLost /\ NoGaps /\ AnswerIsOwn
  BY DEF RpcIInv
<1>1. UpdatesCollected' /\ AnswerIsOwn'
  BY <1>0 DEF UpdatesCollected, AnswerIsOwn
<1>2. \A s : Engaged(s)' = Engaged(s) /\ (PromptSent(s)' => PromptSent(s))
  BY DEF Engaged, PromptSent
<1>3. Made' = Made /\ In(stdout') = In(stdout)
  BY DEF Made, In
<1>4. rpcTurn.pc = "prompting" => Waiting'
  <2> SUFFICES ASSUME Waiting PROVE Waiting'
    BY <1>0 DEF TurnInStep
  <2> QED BY <1>2, <1>3 DEF Waiting, Over, About
<1>5. TurnInStep'
  BY <1>0, <1>2, <1>3, <1>4 DEF TurnInStep, Untouched, Over
<1>6. NoGaps'
  BY <1>0, <1>3 DEF NoGaps, About, Updated
<1>7. NoneLost'
  BY <1>0, <1>3 DEF NoneLost, Streaming, Stream, Got, About, Updated
<1> QED BY <1>1, <1>5, <1>6, <1>7

(* The agent's frames are read, or lost, from the front.                   *)
LEMMA StdinShrinks ==
    ASSUME RpcIInv,
           UNCHANGED <<stdout, dispatching, nextId, pending, outcome, listeners, updates,
                       serving, rpcTurn, work, garbled, answered>>,
           {alive', writing'} \subseteq BOOLEAN,
           NEW n \in 0..Len(stdin), stdin' = SubSeq(stdin, n + 1, Len(stdin))
    PROVE  RpcIInv'
<1>0. RpcTypeOK /\ FramesKnown /\ RequestsInOrder /\ OnePermission /\ OnePrompt
  BY DEF RpcIInv
<1>1. stdin \in Seq(ToAgent)
  BY <1>0 DEF RpcTypeOK
<1>2. /\ stdin' \in Seq(ToAgent) /\ n \in Nat
      /\ DOMAIN stdin = 1..Len(stdin) /\ DOMAIN stdin' = 1..(Len(stdin) - n)
      /\ \A i \in DOMAIN stdin' : i + n \in DOMAIN stdin /\ stdin'[i] = stdin[i + n]
      /\ In(stdin') \subseteq In(stdin)
  <2>1. Len(stdin) \in Nat /\ n \in Nat
    BY <1>1
  <2>2. n \in 0..Len(stdin) /\ stdin' = SubSeq(stdin, n + 1, Len(stdin))
    OBVIOUS
  <2>3. /\ stdin' \in Seq(ToAgent) /\ DOMAIN stdin = 1..Len(stdin)
        /\ DOMAIN stdin' = 1..(Len(stdin) - n)
    BY ONLY <2>2, <1>1, Shortened
  <2>4. \A i \in DOMAIN stdin' : i + n \in DOMAIN stdin /\ stdin'[i] = stdin[i + n]
    BY ONLY <2>1, <2>2, <1>1, Shortened
  <2>5. In(stdin') \subseteq In(stdin)
    BY <2>2, <1>1, Shortened
  <2> QED BY <2>1, <2>3, <2>4, <2>5
<1>3. \A i, j \in DOMAIN stdin' : (i < j => i + n < j + n) /\ (i + n = j + n => i = j)
  BY <1>2
<1>4. RpcTypeOK'
  BY <1>0, <1>2 DEF RpcTypeOK
<1>5. FramesKnown'
  BY <1>0, <1>2 DEF FramesKnown, Made, In, Engaged
<1>6. RequestsInOrder'
  <2>1. ASSUME NEW i \in DOMAIN stdin', NEW j \in DOMAIN stdin'
        PROVE  /\ (i < j /\ stdin'[i].kind # "allow" /\ stdin'[j].kind # "allow")
                     => stdin'[i].id < stdin'[j].id
               /\ (i # j /\ stdin'[i].kind = "prompt" /\ stdin'[j].kind = "prompt")
                     => stdin'[i].session # stdin'[j].session
    <3>1. /\ i + n \in DOMAIN stdin /\ j + n \in DOMAIN stdin
          /\ stdin'[i] = stdin[i + n] /\ stdin'[j] = stdin[j + n]
          /\ (i < j => i + n < j + n) /\ (i # j => i + n # j + n)
      BY <1>2, <1>3
    <3> QED BY <3>1, <1>0 DEF RequestsInOrder
  <2> QED BY <2>1, <1>0, <1>2 DEF RequestsInOrder, Engaged
<1>7. OnePermission'
  <2>1. ASSUME NEW i \in DOMAIN stdin', stdin'[i].kind = "allow"
        PROVE  /\ work[stdin'[i].session].stage = "asking"
               /\ stdin'[i].session \notin serving
               /\ \A j \in DOMAIN stdout : stdout[j].kind = "ask" => stdout[j].id # stdin'[i].session
               /\ \A j \in DOMAIN stdin' :
                     stdin'[j].kind = "allow" /\ stdin'[j].session = stdin'[i].session => i = j
    <3>1. \A j \in DOMAIN stdin' : /\ j + n \in DOMAIN stdin /\ stdin'[j] = stdin[j + n]
                                   /\ i + n = j + n => i = j
      BY <1>2, <1>3
    <3>2. i + n \in DOMAIN stdin /\ stdin'[i] = stdin[i + n]
      BY <3>1
    <3> QED BY ONLY <3>1, <3>2, <2>1, <1>0 DEF OnePermission
  <2> QED BY <2>1, <1>0 DEF OnePermission
<1>8. OnePrompt'
  BY <1>0, <1>2 DEF OnePrompt, Engaged
<1>9. UpdatesCollected' /\ TurnInStep' /\ NoneLost' /\ NoGaps' /\ AnswerIsOwn'
  BY <1>2, TurnKept
<1> QED BY <1>4, <1>5, <1>6, <1>7, <1>8, <1>9 DEF RpcIInv

LEMMA WriteFailsKeeps ==
    ASSUME RpcIInv, WriteFails
    PROVE  RpcIInv'
<1>1. stdin \in Seq(ToAgent) /\ {alive, writing} \subseteq BOOLEAN
  BY DEF RpcIInv, RpcTypeOK
<1>2. Len(stdin) \in 0..Len(stdin) /\ stdin' = SubSeq(stdin, Len(stdin) + 1, Len(stdin))
  BY <1>1, SubSeqEmpty DEF WriteFails
<1>3. {alive', writing'} \subseteq BOOLEAN
  BY <1>1 DEF WriteFails, agent
<1> QED BY <1>2, <1>3, StdinShrinks DEF WriteFails, agent, peer

LEMMA AgentExitsKeeps ==
    ASSUME RpcIInv, AgentExits
    PROVE  RpcIInv'
<1>1. {alive', writing'} \subseteq BOOLEAN
  BY DEF RpcIInv, RpcTypeOK, AgentExits
<1>2. PICK n \in 0..Len(stdin) : stdin' = SubSeq(stdin, n + 1, Len(stdin))
  BY DEF AgentExits
<1> QED BY <1>1, <1>2, StdinShrinks DEF AgentExits, peer

LEMMA ServeKeeps ==
    ASSUME RpcIInv, Serve
    PROVE  RpcIInv'
<1>0. /\ RpcTypeOK /\ FramesKnown /\ RequestsInOrder /\ OnePermission /\ OnePrompt
  BY DEF RpcIInv
<1>1. PICK s \in serving : /\ serving' = serving \ {s}
                           /\ stdin' = IF writing
                                       THEN Append(stdin, [kind |-> "allow", id |-> s, session |-> s])
                                       ELSE stdin
  BY DEF Serve
<1> DEFINE f == [kind |-> "allow", id |-> s, session |-> s]
<1>2. UNCHANGED <<alive, work, garbled, answered, stdout, writing, dispatching, nextId, pending,
                  outcome, listeners, updates, rpcTurn>>
  BY DEF Serve, agent, peer
<1>3. s \in Made /\ s \in Ids /\ work[s].stage = "asking" /\ Sends(f)
  BY <1>0, <1>1, TurnIs DEF FramesKnown, OnePermission, Sends
<1>4. f \in ToAgent /\ f.kind = "allow" /\ f.id = s /\ f.session = s
  BY <1>3 DEF ToAgent
<1> HIDE DEF f
<1>5. /\ stdin' \in Seq(ToAgent)
      /\ DOMAIN stdin = 1..Len(stdin) /\ Len(stdin) \in Nat
      /\ DOMAIN stdin' \in {DOMAIN stdin, 1..(Len(stdin) + 1)}
      /\ \A i \in DOMAIN stdin : i \in DOMAIN stdin' /\ stdin'[i] = stdin[i]
      /\ \A i \in DOMAIN stdin' \ DOMAIN stdin : i = Len(stdin) + 1 /\ stdin'[i] = f
      /\ In(stdin') \subseteq In(stdin) \cup {f}
  BY <1>0, <1>3, <1>4, SendsIs
<1>6. RpcTypeOK'
  BY <1>0, <1>1, <1>2, <1>5 DEF RpcTypeOK
<1>7. FramesKnown'
  <2>1. \A g \in In(stdin') : g.id \in Made /\ (g.kind # "new" => g.session \in Made)
    BY <1>0, <1>3, <1>4, <1>5 DEF FramesKnown
  <2> QED BY <2>1, <1>0, <1>1, <1>2 DEF FramesKnown, Made, In, Engaged
<1>8. RequestsInOrder'
  <2>1. \A i \in DOMAIN stdin' : stdin'[i].kind # "allow" => i \in DOMAIN stdin
    BY <1>4, <1>5
  <2>2. \A i, j \in DOMAIN stdin' :
          /\ (i < j /\ stdin'[i].kind # "allow" /\ stdin'[j].kind # "allow")
                => stdin'[i].id < stdin'[j].id
          /\ (i # j /\ stdin'[i].kind = "prompt" /\ stdin'[j].kind = "prompt")
                => stdin'[i].session # stdin'[j].session
    BY <2>1, <1>0, <1>5 DEF RequestsInOrder
  <2>3. \A g \in In(stdin') :
          /\ g.kind # "allow" => g.id \notin answered
          /\ g.kind = "prompt" => /\ g.session \in answered
                                  /\ ~Engaged(g.session) /\ work[g.session].emitted = 0
    BY <1>0, <1>4, <1>5 DEF RequestsInOrder
  <2> QED BY <2>2, <2>3, <1>2 DEF RequestsInOrder, Engaged
<1>9. OnePermission'
  <2>1. ASSUME NEW i \in DOMAIN stdin', stdin'[i].kind = "allow"
        PROVE  /\ work[stdin'[i].session].stage = "asking"
               /\ stdin'[i].session \notin serving'
               /\ \A j \in DOMAIN stdout : stdout[j].kind = "ask" => stdout[j].id # stdin'[i].session
               /\ \A j \in DOMAIN stdin' :
                     stdin'[j].kind = "allow" /\ stdin'[j].session = stdin'[i].session => i = j
    <3>1. CASE i \in DOMAIN stdin
      BY <3>1, <2>1, <1>0, <1>1, <1>4, <1>5 DEF OnePermission
    <3>2. CASE i \notin DOMAIN stdin
      BY <3>2, <2>1, <1>0, <1>1, <1>3, <1>4, <1>5 DEF OnePermission
    <3> QED BY <3>1, <3>2
  <2> QED BY <2>1, <1>0, <1>1, <1>2 DEF OnePermission
<1>10. OnePrompt'
  BY <1>0, <1>2, <1>4, <1>5 DEF OnePrompt, Engaged
<1>11. UpdatesCollected' /\ TurnInStep' /\ NoneLost' /\ NoGaps' /\ AnswerIsOwn'
  BY <1>2, <1>4, <1>5, TurnKept
<1> QED BY <1>6, <1>7, <1>8, <1>9, <1>10, <1>11 DEF RpcIInv

(***************************************************************************)
(* The dispatch loop.                                                      *)
(***************************************************************************)
LEMMA StdoutTail ==
    ASSUME RpcTypeOK, stdout # <<>>, stdout' = Tail(stdout)
    PROVE  /\ stdout' \in Seq(FromAgent) /\ Head(stdout) \in FromAgent
           /\ 1 \in DOMAIN stdout /\ Head(stdout) = stdout[1] /\ Head(stdout) \in In(stdout)
           /\ DOMAIN stdout \subseteq Nat /\ DOMAIN stdout' \subseteq Nat \ {0}
           /\ \A i \in DOMAIN stdout' : i + 1 \in DOMAIN stdout /\ stdout'[i] = stdout[i + 1]
           /\ In(stdout) = {Head(stdout)} \cup In(stdout')
           /\ \A g \in In(stdout') : \E i \in DOMAIN stdout : i > 1 /\ stdout[i] = g
<1>1. stdout \in Seq(FromAgent)
  BY DEF RpcTypeOK
<1>2. /\ Tail(stdout) = SubSeq(stdout, 1 + 1, Len(stdout)) /\ 1 \in 0..Len(stdout)
      /\ 1 \in DOMAIN stdout /\ Head(stdout) = stdout[1] /\ Head(stdout) \in FromAgent
      /\ Head(stdout) \in In(stdout)
      /\ In(stdout) = {Head(stdout)} \cup In(stdout')
  BY <1>1, TailOf
<1>3. /\ stdout' \in Seq(FromAgent)
      /\ DOMAIN stdout = 1..Len(stdout) /\ DOMAIN stdout' = 1..(Len(stdout) - 1)
      /\ \A i \in DOMAIN stdout' : i + 1 \in DOMAIN stdout /\ stdout'[i] = stdout[i + 1]
  BY <1>1, <1>2, Shortened
<1>4. \A i \in DOMAIN stdout' : i + 1 > 1
  BY <1>3
<1>5. \A g \in In(stdout') : \E i \in DOMAIN stdout : i > 1 /\ stdout[i] = g
  BY <1>3, <1>4 DEF In
<1>6. DOMAIN stdout \subseteq Nat /\ DOMAIN stdout' \subseteq Nat \ {0}
  BY <1>3
<1> QED BY <1>2, <1>3, <1>5, <1>6

Unrouted == <<alive, work, garbled, answered, stdin, writing, dispatching, nextId, listeners,
              rpcTurn>>

(* What the dispatch loop took is gone; the rest moved up.                 *)
LEMMA RouteRest ==
    ASSUME RpcIInv, stdout # <<>>, stdout' = Tail(stdout), UNCHANGED Unrouted,
           NEW f, f = Head(stdout)
    PROVE  /\ RequestsInOrder' /\ OnePrompt' /\ NoGaps' /\ UpdatesCollected'
           /\ f \in FromAgent /\ f \in In(stdout) /\ In(stdout) = {f} \cup In(stdout')
           /\ f.kind = "update" => \A g \in In(stdout') : About(g, f.session) => f.number < g.number
<1>0. RpcTypeOK /\ RequestsInOrder /\ OnePrompt /\ NoGaps /\ UpdatesCollected
  BY DEF RpcIInv
<1>1. /\ stdout' \in Seq(FromAgent) /\ Head(stdout) \in FromAgent
      /\ 1 \in DOMAIN stdout /\ Head(stdout) = stdout[1] /\ Head(stdout) \in In(stdout)
      /\ DOMAIN stdout \subseteq Nat /\ DOMAIN stdout' \subseteq Nat \ {0}
      /\ \A i \in DOMAIN stdout' : i + 1 \in DOMAIN stdout /\ stdout'[i] = stdout[i + 1]
      /\ In(stdout) = {Head(stdout)} \cup In(stdout')
      /\ \A g \in In(stdout') : \E i \in DOMAIN stdout : i > 1 /\ stdout[i] = g
  BY <1>0, StdoutTail
<1>2. RequestsInOrder' /\ OnePrompt' /\ UpdatesCollected'
  BY <1>0 DEF Unrouted, RequestsInOrder, OnePrompt, UpdatesCollected, In, Engaged
<1>3. f.kind = "update" => \A g \in In(stdout') : About(g, f.session) => f.number < g.number
  BY <1>0, <1>1 DEF NoGaps, About
<1>4. NoGaps'
  <2>1. ASSUME NEW i \in DOMAIN stdout', NEW j \in DOMAIN stdout', i < j,
               stdout'[i].kind = "update", About(stdout'[j], stdout'[i].session)
        PROVE  stdout'[i].number < stdout'[j].number
    <3>1. /\ i + 1 \in DOMAIN stdout /\ j + 1 \in DOMAIN stdout /\ i + 1 < j + 1
          /\ stdout'[i] = stdout[i + 1] /\ stdout'[j] = stdout[j + 1]
      BY <1>1, <2>1
    <3> QED BY <3>1, <2>1, <1>0 DEF NoGaps
  <2>2. ASSUME NEW g \in In(stdout'), g.kind = "update", g.number < work[g.session].emitted
        PROVE  Updated(g.session, g.number + 1) \in In(stdout')
    <3>1. g \in FromAgent
      BY <1>1, <2>2 DEF In
    <3>2. g.session \in Ids /\ g.number \in Nat
      BY <1>0, <3>1, <2>2, FrameIs, TurnIs
    <3>3. Updated(g.session, g.number + 1) \in In(stdout)
      BY <1>0, <1>1, <2>2 DEF NoGaps
    <3>4. ASSUME Updated(g.session, g.number + 1) = f PROVE FALSE
      <4>1. f.kind = "update" /\ f.session = g.session /\ f.number = g.number + 1
        BY <3>4 DEF Updated
      <4> QED BY <4>1, <1>3, <2>2, <3>2 DEF About
    <3> QED BY <3>3, <3>4, <1>1
  <2>3. dispatching' \/ stdout' = <<>>
    BY <1>0 DEF NoGaps, Unrouted
  <2> QED BY <2>1, <2>2, <2>3 DEF NoGaps, Unrouted, About, Updated
<1> QED BY <1>1, <1>2, <1>3, <1>4

(* The permission is asked for once, wherever the rest of stdout is.       *)
LEMMA RoutePermission ==
    ASSUME RpcIInv, stdout # <<>>, stdout' = Tail(stdout), UNCHANGED Unrouted,
           NEW f, f = Head(stdout),
           serving' = IF f.kind = "ask" THEN serving \cup {f.id} ELSE serving
    PROVE  OnePermission'
<1>0. RpcTypeOK /\ OnePermission
  BY DEF RpcIInv
<1>1. /\ 1 \in DOMAIN stdout /\ f = stdout[1]
      /\ \A i \in DOMAIN stdout' : /\ i + 1 \in DOMAIN stdout /\ stdout'[i] = stdout[i + 1]
                                   /\ i + 1 # 1
      /\ \A i, j \in DOMAIN stdout' : i + 1 = j + 1 => i = j
  BY <1>0, StdoutTail
<1>2. ASSUME NEW i \in DOMAIN stdin, stdin[i].kind = "allow"
      PROVE  /\ work[stdin[i].session].stage = "asking"
             /\ stdin[i].session \notin serving'
             /\ \A j \in DOMAIN stdout' :
                   stdout'[j].kind = "ask" => stdout'[j].id # stdin[i].session
             /\ \A j \in DOMAIN stdin :
                   stdin[j].kind = "allow" /\ stdin[j].session = stdin[i].session => i = j
  BY <1>0, <1>1, <1>2 DEF OnePermission
<1>3. ASSUME NEW i \in DOMAIN stdout', stdout'[i].kind = "ask"
      PROVE  /\ work[stdout'[i].id].stage = "asking"
             /\ stdout'[i].id \notin serving'
             /\ \A j \in DOMAIN stdout' :
                   stdout'[j].kind = "ask" /\ stdout'[j].id = stdout'[i].id => i = j
  BY <1>0, <1>1, <1>3 DEF OnePermission
<1>4. \A s \in serving' : work[s].stage = "asking"
  BY <1>0, <1>1 DEF OnePermission
<1> QED BY <1>2, <1>3, <1>4 DEF OnePermission, Unrouted

(* Once the turn has the answer to its prompt, the session has no update   *)
(* on the way.                                                             *)
LEMMA RouteTurn ==
    ASSUME RpcIInv, stdout # <<>>, stdout' = Tail(stdout), UNCHANGED Unrouted,
           NEW f, f = Head(stdout),
           rpcTurn.pc = "opening" => updates' = <<>>,
           \A i \in Ids : outcome'[i] = "result" =>
              outcome[i] = "result" \/ (f.kind = "result" /\ f.id = i)
    PROVE  TurnInStep'
<1>0. RpcTypeOK /\ TurnInStep
  BY DEF RpcIInv
<1>1. /\ 1 \in DOMAIN stdout /\ f = stdout[1]
      /\ DOMAIN stdout \subseteq Nat /\ DOMAIN stdout' \subseteq Nat \ {0}
      /\ \A i \in DOMAIN stdout' : i + 1 \in DOMAIN stdout /\ stdout'[i] = stdout[i + 1]
      /\ In(stdout) = {Head(stdout)} \cup In(stdout')
      /\ \A g \in In(stdout') : \E i \in DOMAIN stdout : i > 1 /\ stdout[i] = g
  BY <1>0, StdoutTail
<1>2. \A s : /\ Engaged(s)' = Engaged(s) /\ PromptSent(s)' = PromptSent(s)
  BY DEF Engaged, PromptSent, Unrouted, In
<1>3. ASSUME Waiting PROVE Waiting'
  <2>1. rpcTurn.id \in Ids
    BY <1>0, <1>3, TurnIs DEF Waiting
  <2>2. ASSUME NEW i \in DOMAIN stdout', NEW j \in DOMAIN stdout', i < j,
               stdout'[i].kind = "result", stdout'[i].id = rpcTurn.id
        PROVE  ~About(stdout'[j], rpcTurn.session)
    <3>1. /\ i + 1 \in DOMAIN stdout /\ j + 1 \in DOMAIN stdout /\ i + 1 < j + 1
          /\ stdout'[i] = stdout[i + 1] /\ stdout'[j] = stdout[j + 1]
      BY <1>1, <2>2
    <3> QED BY <3>1, <2>2, <1>3 DEF Waiting
  <2>3. ASSUME outcome'[rpcTurn.id] = "result", NEW g \in In(stdout')
        PROVE  ~About(g, rpcTurn.session)
    <3>1. CASE outcome[rpcTurn.id] = "result"
      BY <3>1, <1>1, <1>3, <2>3 DEF Waiting
    <3>2. CASE f.kind = "result" /\ f.id = rpcTurn.id
      BY <3>2, <1>1, <1>3, <2>3 DEF Waiting
    <3> QED BY <3>1, <3>2, <2>1, <2>3
  <2>4. \A g \in In(stdin') : /\ g.kind = "new" => g.id # rpcTurn.id
                              /\ g.kind = "prompt" => (g.id = rpcTurn.id <=> g.session = rpcTurn.session)
    BY <1>3 DEF Waiting, Unrouted, In
  <2> QED BY <2>2, <2>3, <2>4, <1>2, <1>3 DEF Waiting, Unrouted, Over, Made, About
<1>4. TurnInStep'
  BY <1>0, <1>2, <1>3 DEF TurnInStep, Unrouted, Untouched, Over, Made
<1> QED BY <1>4

Routed(f) ==
    /\ dispatching /\ stdout # <<>> /\ f = Head(stdout) /\ stdout' = Tail(stdout)
    /\ UNCHANGED Unrouted

LEMMA ResultKeeps ==
    ASSUME RpcIInv, NEW f, Routed(f), Result(f)
    PROVE  RpcIInv'
<1>0. RpcTypeOK /\ FramesKnown /\ AnswerIsOwn /\ NoneLost
  BY DEF RpcIInv
<1>1. /\ dispatching /\ stdout # <<>> /\ f = Head(stdout) /\ stdout' = Tail(stdout)
      /\ UNCHANGED Unrouted /\ UNCHANGED <<updates, serving>> /\ f.kind \in {"result", "error"}
      /\ pending' = pending \ {f.id}
      /\ outcome' = IF f.id \in pending THEN [outcome EXCEPT ![f.id] = f.kind] ELSE outcome
  BY DEF Routed, Result
<1>2. /\ RequestsInOrder' /\ OnePrompt' /\ NoGaps' /\ UpdatesCollected'
      /\ f \in FromAgent /\ f \in In(stdout) /\ In(stdout) = {f} \cup In(stdout')
  BY <1>1, RouteRest
<1>3. /\ f.id \in answered /\ f.id \in Made /\ f.id \in Ids
      /\ \A i \in Ids : outcome'[i] \in {outcome[i], f.kind} /\ (i # f.id => outcome'[i] = outcome[i])
  BY <1>0, <1>1, <1>2, TurnIs DEF FramesKnown, RpcTypeOK
<1>4. RpcTypeOK'
  <2>1. stdout' \in Seq(FromAgent)
    BY <1>0, <1>1, StdoutTail
  <2>2. outcome' \in [Ids -> {"none", "result", "error", "gone"}]
    BY <1>0, <1>1 DEF RpcTypeOK
  <2>3. \A i \in pending' : outcome'[i] = "none" /\ i \in pending
    BY <1>0, <1>1 DEF RpcTypeOK
  <2> QED BY <1>0, <1>1, <2>1, <2>2, <2>3 DEF RpcTypeOK, Unrouted
<1>5. AnswerIsOwn'
  BY <1>0, <1>1, <1>3 DEF AnswerIsOwn, Unrouted
<1>6. FramesKnown'
  <2>1. \A i \in Ids \ Made : outcome'[i] = "none"
    BY <1>0, <1>3 DEF FramesKnown
  <2> QED BY <2>1, <1>0, <1>1, <1>2 DEF FramesKnown, Unrouted, Made, Engaged, In
<1>7. OnePermission'
  BY <1>1, RoutePermission
<1>8. TurnInStep'
  <2>1. rpcTurn.pc = "opening" => updates' = <<>>
    BY <1>1 DEF RpcIInv, TurnInStep
  <2>2. \A i \in Ids : outcome'[i] = "result" =>
           outcome[i] = "result" \/ (f.kind = "result" /\ f.id = i)
    BY <1>3
  <2> QED BY <1>1, <2>1, <2>2, RouteTurn
<1>9. NoneLost'
  <2> SUFFICES ASSUME Streaming' PROVE \E first \in {0, 1} : Stream(first)'
    BY DEF NoneLost
  <2>1. PICK first \in {0, 1} : Stream(first)
    BY <1>0, <1>1 DEF NoneLost, Streaming, Unrouted
  <2>2. \A s, n : Updated(s, n) # f
    BY <1>1 DEF Updated
  <2>3. Stream(first)'
    BY <2>1, <2>2, <1>1, <1>2 DEF Stream, Got, About, Unrouted, Updated
  <2> QED BY <2>3
<1> QED BY <1>2, <1>4, <1>5, <1>6, <1>7, <1>8, <1>9 DEF RpcIInv

LEMMA PermissionKeeps ==
    ASSUME RpcIInv, NEW f, Routed(f), Permission(f)
    PROVE  RpcIInv'
<1>0. RpcTypeOK /\ FramesKnown /\ AnswerIsOwn /\ NoneLost
  BY DEF RpcIInv
<1>1. /\ dispatching /\ stdout # <<>> /\ f = Head(stdout) /\ stdout' = Tail(stdout)
      /\ UNCHANGED Unrouted /\ UNCHANGED <<pending, outcome, updates>>
      /\ f.kind = "ask" /\ serving' = serving \cup {f.id}
  BY DEF Routed, Permission
<1>2. /\ RequestsInOrder' /\ OnePrompt' /\ NoGaps' /\ UpdatesCollected'
      /\ f \in FromAgent /\ f \in In(stdout) /\ In(stdout) = {f} \cup In(stdout')
  BY <1>1, RouteRest
<1>3. f.id \in Made /\ f.id \in Ids
  BY <1>0, <1>1, <1>2, TurnIs DEF FramesKnown
<1>4. RpcTypeOK'
  <2>1. stdout' \in Seq(FromAgent)
    BY <1>0, <1>1, StdoutTail
  <2> QED BY <1>0, <1>1, <1>3, <2>1 DEF RpcTypeOK, Unrouted
<1>5. AnswerIsOwn'
  BY <1>0, <1>1 DEF AnswerIsOwn, Unrouted
<1>6. FramesKnown'
  BY <1>0, <1>1, <1>2, <1>3 DEF FramesKnown, Unrouted, Made, Engaged, In
<1>7. OnePermission'
  BY <1>1, RoutePermission
<1>8. TurnInStep'
  <2>1. rpcTurn.pc = "opening" => updates' = <<>>
    BY <1>1 DEF RpcIInv, TurnInStep
  <2> QED BY <1>1, <2>1, RouteTurn
<1>9. NoneLost'
  <2> SUFFICES ASSUME Streaming' PROVE \E first \in {0, 1} : Stream(first)'
    BY DEF NoneLost
  <2>1. PICK first \in {0, 1} : Stream(first)
    BY <1>0, <1>1 DEF NoneLost, Streaming, Unrouted
  <2>2. \A s, n : Updated(s, n) # f
    BY <1>1 DEF Updated
  <2>3. Stream(first)'
    BY <2>1, <2>2, <1>1, <1>2 DEF Stream, Got, About, Unrouted, Updated
  <2> QED BY <2>3
<1> QED BY <1>2, <1>4, <1>5, <1>6, <1>7, <1>8, <1>9 DEF RpcIInv

(* The next update of the turn's session is the one that the turn has not  *)
(* got yet.                                                                *)
LEMMA UpdateStreams ==
    ASSUME RpcIInv, NEW f, Routed(f), Update(f), Streaming, About(f, rpcTurn.session)
    PROVE  \E first \in {0, 1} : Stream(first)'
<1> DEFINE s == rpcTurn.session
           m == f.number
           len == Len(rpcTurn.collected)
<1>0. RpcTypeOK /\ FramesKnown /\ NoGaps /\ NoneLost /\ TurnInStep
  BY DEF RpcIInv
<1>1. /\ stdout # <<>> /\ f = Head(stdout) /\ stdout' = Tail(stdout) /\ UNCHANGED Unrouted
      /\ f.kind = "update" /\ f.session = s /\ s \in listeners
      /\ updates' = Append(updates, m)
  BY <1>0 DEF Routed, Update, About, TurnInStep, Streaming
<1>2. /\ f \in FromAgent /\ f \in In(stdout) /\ In(stdout) = {f} \cup In(stdout')
      /\ \A g \in In(stdout') : About(g, s) => m < g.number
  BY <1>1, RouteRest
<1>3. /\ s \in Ids /\ m \in 0..MaxUpdates /\ f = Updated(s, m) /\ MaxUpdates \in Nat
      /\ m <= work[s].emitted /\ work[s].emitted \in Nat
  BY <1>0, <1>1, <1>2, FrameIs, TurnIs DEF FramesKnown
<1>4. /\ len \in Nat /\ Len(updates) \in Nat /\ DOMAIN updates = 1..Len(updates)
      /\ Got = len + Len(updates) /\ Got \in Nat /\ DOMAIN rpcTurn.collected = 1..len
      /\ updates \in Seq(0..MaxUpdates)
  BY <1>0, TurnIs DEF Got
<1>5. /\ DOMAIN updates' = 1..(Len(updates) + 1) /\ Len(updates') = Len(updates) + 1
      /\ \A i \in 1..Len(updates) : updates'[i] = updates[i]
      /\ updates'[Len(updates) + 1] = m
  BY <1>1, <1>3, <1>4, Appended
<1>6. Got' = Got + 1
  <2>1. rpcTurn' = rpcTurn /\ Got' = Len(rpcTurn'.collected) + Len(updates')
    BY <1>1 DEF Got, Unrouted
  <2>2. Got' = len + Len(updates')
    BY <2>1
  <2> HIDE DEF len
  <2> QED BY <2>2, <1>4, <1>5
<1>7. PICK first \in {0, 1} : Stream(first)
  BY <1>0 DEF NoneLost
<1>8. ASSUME NEW n \in Nat, n > m, Updated(s, n) \in In(stdout)
      PROVE  Updated(s, n) \in In(stdout')
  BY <1>2, <1>3, <1>8 DEF Updated
<1>9. \A g \in In(stdout') : g \in FromAgent /\ (g.kind = "update" => g.number \in Nat)
  <2>1. stdout' \in Seq(FromAgent)
    BY <1>0, <1>1, StdoutTail
  <2> QED BY <2>1, <1>0, FrameIs, TurnIs DEF In
<1>10. CASE m = 0 /\ Got = 0
  <2>1. first = 1 /\ len = 0 /\ Len(updates) = 0
    BY <1>4, <1>7, <1>10 DEF Stream
  <2>2. 0 < work[s].emitted => Updated(s, 1) \in In(stdout')
    BY <1>7, <1>8, <1>10, <2>1 DEF Stream
  <2>3. \A g \in In(stdout') : About(g, s) => g.number > 0
    BY <1>2, <1>9, <1>10 DEF About
  <2>4. updates'[1] = 0 /\ DOMAIN updates' = {1} /\ DOMAIN rpcTurn'.collected = {}
    BY <1>1, <1>4, <1>5, <1>10, <2>1 DEF Unrouted
  <2>5. Got' = 1 /\ Len(rpcTurn'.collected) = 0 /\ rpcTurn'.session = s /\ work' = work
    BY <1>1, <1>6, <1>10, <2>1 DEF Unrouted
  <2>6. Stream(0)'
    BY <1>3, <2>2, <2>3, <2>4, <2>5 DEF Stream, About, Updated
  <2> QED BY <2>6
<1>11. CASE ~(m = 0 /\ Got = 0)
  <2>1. m > first + Got - 1
    BY <1>1, <1>2, <1>7, <1>11 DEF Stream, About
  <2>2. Updated(s, first + Got) \in In(stdout)
    BY <1>3, <1>4, <1>7, <2>1 DEF Stream
  <2>3. ASSUME m # first + Got PROVE FALSE
    <3>1. m > first + Got
      BY ONLY <1>3, <1>4, <1>7, <2>1, <2>3
    <3>2. Updated(s, first + Got) # f
      BY <2>3 DEF Updated
    <3>3. Updated(s, first + Got) \in In(stdout')
      BY <1>2, <2>2, <3>2
    <3>4. m < first + Got
      BY <1>2, <3>3 DEF About, Updated
    <3> QED BY <1>3, <1>4, <1>7, <3>1, <3>4
  <2>4. m < work[s].emitted => Updated(s, m + 1) \in In(stdout')
    <3>1. m < work[s].emitted => Updated(s, m + 1) \in In(stdout)
      BY <1>0, <1>1, <1>2 DEF NoGaps
    <3> QED BY <3>1, <1>3, <1>8
  <2>5. \A i \in DOMAIN updates' : updates'[i] = first + len + i - 1
    <3>1. \A i \in 1..Len(updates) : updates'[i] = first + len + i - 1
      BY <1>4, <1>5, <1>7 DEF Stream
    <3>2. updates'[Len(updates) + 1] = first + len + (Len(updates) + 1) - 1
      BY <1>4, <1>5, <1>7, <2>3
    <3>3. \A i \in DOMAIN updates' : i \in 1..Len(updates) \/ i = Len(updates) + 1
      BY <1>4, <1>5
    <3> QED BY <3>1, <3>2, <3>3
  <2>6. /\ Got' > 0 /\ first + Got' - 1 = m /\ first + Got' = m + 1
    BY <1>4, <1>6, <1>7, <2>3
  <2>7. rpcTurn' = rpcTurn /\ work' = work
    BY <1>1 DEF Unrouted
  <2>8. \A g \in In(stdout') : About(g, s) => g.number > m
    BY <1>2, <1>3, <1>9 DEF About
  <2>9. \A i \in DOMAIN rpcTurn.collected : rpcTurn.collected[i] = first + i - 1
    BY <1>7 DEF Stream
  <2>10. Stream(first)'
    BY <1>3, <2>4, <2>5, <2>6, <2>7, <2>8, <2>9 DEF Stream, About, Updated
  <2> QED BY <1>7, <2>10
<1> QED BY <1>10, <1>11

LEMMA UpdateKeeps ==
    ASSUME RpcIInv, NEW f, Routed(f), Update(f)
    PROVE  RpcIInv'
<1>0. RpcTypeOK /\ FramesKnown /\ AnswerIsOwn /\ NoneLost /\ TurnInStep
  BY DEF RpcIInv
<1>1. /\ dispatching /\ stdout # <<>> /\ f = Head(stdout) /\ stdout' = Tail(stdout)
      /\ UNCHANGED Unrouted /\ UNCHANGED <<pending, outcome, serving>>
      /\ f.kind = "update"
      /\ updates' = IF f.session \in listeners /\ f.session = rpcTurn.session
                    THEN Append(updates, f.number) ELSE updates
  BY DEF Routed, Update
<1>2. /\ RequestsInOrder' /\ OnePrompt' /\ NoGaps' /\ UpdatesCollected'
      /\ f \in FromAgent /\ f \in In(stdout) /\ In(stdout) = {f} \cup In(stdout')
  BY <1>1, RouteRest
<1>3. f.session \in Ids /\ f.number \in 0..MaxUpdates /\ Unset \notin Ids
  BY <1>0, <1>1, <1>2, FrameIs, TurnIs
<1>4. RpcTypeOK'
  <2>1. stdout' \in Seq(FromAgent)
    BY <1>0, <1>1, StdoutTail
  <2>2. updates' \in Seq(0..MaxUpdates)
    BY <1>0, <1>1, <1>3, Appended, TurnIs
  <2> QED BY <1>0, <1>1, <2>1, <2>2 DEF RpcTypeOK, Unrouted
<1>5. AnswerIsOwn'
  BY <1>0, <1>1 DEF AnswerIsOwn, Unrouted
<1>6. FramesKnown'
  BY <1>0, <1>1, <1>2 DEF FramesKnown, Unrouted, Made, Engaged, In
<1>7. OnePermission'
  BY <1>1, RoutePermission
<1>8. TurnInStep'
  <2>1. rpcTurn.pc = "opening" => updates' = <<>>
    BY <1>0, <1>1, <1>3 DEF TurnInStep
  <2> QED BY <1>1, <2>1, RouteTurn
<1>9. NoneLost'
  <2> SUFFICES ASSUME Streaming' PROVE \E first \in {0, 1} : Stream(first)'
    BY DEF NoneLost
  <2>1. Streaming
    BY <1>1 DEF Streaming, Unrouted
  <2>2. CASE About(f, rpcTurn.session)
    BY <2>1, <2>2, UpdateStreams
  <2>3. CASE ~About(f, rpcTurn.session)
    <3>1. PICK first \in {0, 1} : Stream(first)
      BY <1>0, <2>1 DEF NoneLost
    <3>2. updates' = updates /\ \A n : Updated(rpcTurn.session, n) # f
      BY <1>1, <2>3 DEF About, Updated
    <3>3. Stream(first)'
      BY <3>1, <3>2, <1>1, <1>2 DEF Stream, Got, About, Unrouted, Updated
    <3> QED BY <3>3
  <2> QED BY <2>2, <2>3
<1> QED BY <1>2, <1>4, <1>5, <1>6, <1>7, <1>8, <1>9 DEF RpcIInv

LEMMA RouteKeeps ==
    ASSUME RpcIInv, Route
    PROVE  RpcIInv'
<1> DEFINE f == Head(stdout)
<1>1. Result(f) \/ Update(f) \/ Permission(f)
  BY DEF Route
<1>2. PICK g : g = Head(stdout)
  OBVIOUS
<1>3. Routed(g) /\ (Result(g) \/ Update(g) \/ Permission(g))
  BY <1>1, <1>2 DEF Route, Routed, Unrouted, agent
<1> QED BY <1>3, ResultKeeps, UpdateKeeps, PermissionKeeps

(* The loop ends: whoever has its answer already has all updates too.      *)
LEMMA EndDispatchKeeps ==
    ASSUME RpcIInv, EndDispatch
    PROVE  RpcIInv'
<1>0. /\ RpcTypeOK /\ FramesKnown /\ AnswerIsOwn /\ NoneLost /\ TurnInStep /\ UpdatesCollected
      /\ RequestsInOrder /\ OnePermission /\ OnePrompt /\ NoGaps
  BY DEF RpcIInv
<1>1. /\ dispatching /\ ~dispatching' /\ dispatching' \in BOOLEAN /\ stdout' = <<>> /\ pending' = {}
      /\ outcome' = [i \in Ids |-> IF i \in pending THEN "gone" ELSE outcome[i]]
      /\ UNCHANGED <<alive, work, garbled, answered, stdin, writing, nextId, listeners, updates,
                     serving, rpcTurn>>
  BY DEF EndDispatch, FailPending, agent
<1>2. /\ \A i \in Ids : outcome'[i] \in {outcome[i], "gone"} /\ (i \notin pending => outcome'[i] = outcome[i])
      /\ pending \subseteq Made /\ In(stdout') = {}
  BY <1>0, <1>1 DEF RpcTypeOK, Made, In
<1>3. RpcTypeOK'
  BY <1>0, <1>1 DEF RpcTypeOK
<1>4. AnswerIsOwn' /\ UpdatesCollected' /\ NoGaps' /\ RequestsInOrder' /\ OnePrompt'
  BY <1>0, <1>1, <1>2 DEF AnswerIsOwn, UpdatesCollected, NoGaps, RequestsInOrder, OnePrompt, In,
     Engaged
<1>5. FramesKnown'
  <2>1. \A i \in Ids \ Made : outcome'[i] = "none"
    BY <1>0, <1>2 DEF FramesKnown
  <2> QED BY <2>1, <1>0, <1>1, <1>2 DEF FramesKnown, Made, Engaged, In
<1>6. OnePermission'
  BY <1>0, <1>1 DEF OnePermission
<1>7. \A s : Engaged(s)' = Engaged(s) /\ PromptSent(s)' = PromptSent(s)
  BY <1>1 DEF Engaged, PromptSent, In
<1>8. ASSUME Waiting PROVE Waiting'
  BY <1>1, <1>2, <1>7, <1>8 DEF Waiting, Over, Made, In, About
<1>9. TurnInStep'
  BY <1>0, <1>1, <1>7, <1>8 DEF TurnInStep, Untouched, Over, Made
<1>10. NoneLost'
  <2> SUFFICES ASSUME Streaming' PROVE \E first \in {0, 1} : Stream(first)'
    BY DEF NoneLost
  <2>1. rpcTurn.pc = "prompting" /\ outcome'[rpcTurn.id] = "result" /\ Waiting
    BY <1>0, <1>1 DEF Streaming, TurnInStep
  <2>2. outcome[rpcTurn.id] = "result"
    BY <1>0, <1>2, <2>1, TurnIs DEF Waiting
  <2>3. PICK first \in {0, 1} : Stream(first)
    BY <1>0, <1>1, <2>1 DEF NoneLost, Streaming
  <2>4. Updated(rpcTurn.session, first + Got) \notin In(stdout)
    BY <2>1, <2>2 DEF Waiting, About, Updated
  <2>5. Stream(first)'
    BY <1>1, <1>2, <2>3, <2>4 DEF Stream, Got, About, Updated
  <2> QED BY <2>5
<1> QED BY <1>3, <1>4, <1>5, <1>6, <1>9, <1>10 DEF RpcIInv

(***************************************************************************)
(* What the agent works on.                                                *)
(***************************************************************************)
Works == [Ids -> [stage : {"none", "open", "prompting", "asking"},
                  prompt : Ids \cup {Unset}, emitted : 0..MaxUpdates]]

LEMMA WorksIs == RpcTypeOK => work \in Works
BY DEF RpcTypeOK, Works

(***************************************************************************)
(* The agent.                                                              *)
(***************************************************************************)
(* What the agent prints; nobody sees it when the loop has ended.          *)
LEMMA PrintedOne ==
    ASSUME RpcTypeOK, NEW x \in FromAgent, Printed(<<x>>)
    PROVE  /\ stdout' \in Seq(FromAgent)
           /\ Len(stdout) \in Nat /\ DOMAIN stdout = 1..Len(stdout)
           /\ \A i \in DOMAIN stdout : i \in DOMAIN stdout' /\ stdout'[i] = stdout[i]
           /\ \A i \in DOMAIN stdout' \ DOMAIN stdout : i = Len(stdout) + 1 /\ stdout'[i] = x
           /\ In(stdout) \subseteq In(stdout')
           /\ \A g \in In(stdout') \ In(stdout) : g = x
           /\ dispatching => x \in In(stdout')
           /\ ~dispatching => stdout' = stdout
<1>0. stdout \in Seq(FromAgent) /\ Len(stdout) \in Nat /\ DOMAIN stdout = 1..Len(stdout)
  BY DEF RpcTypeOK
<1>1. CASE ~dispatching
  BY <1>0, <1>1 DEF Printed
<1>2. CASE dispatching
  <2>1. stdout' = Append(stdout, x)
    <3>1. stdout \o <<x>> = Append(stdout, x)
      BY <1>0
    <3> QED BY <3>1, <1>2 DEF Printed
  <2> QED BY <2>1, <1>0, <1>2, Appended
<1> QED BY <1>1, <1>2

LEMMA PrintedTwo ==
    ASSUME RpcTypeOK, NEW x \in FromAgent, NEW y \in FromAgent, Printed(<<x, y>>)
    PROVE  /\ stdout' \in Seq(FromAgent)
           /\ \A i \in DOMAIN stdout : i \in DOMAIN stdout' /\ stdout'[i] = stdout[i]
           /\ \A i \in DOMAIN stdout' \ DOMAIN stdout :
                 \/ i = Len(stdout) + 1 /\ stdout'[i] = x
                 \/ i = Len(stdout) + 2 /\ stdout'[i] = y
           /\ In(stdout) \subseteq In(stdout')
           /\ \A g \in In(stdout') \ In(stdout) : g = x \/ g = y
           /\ dispatching => x \in In(stdout')
           /\ ~dispatching => stdout' = stdout
<1>0. stdout \in Seq(FromAgent) /\ Len(stdout) \in Nat
  BY DEF RpcTypeOK
<1>1. CASE ~dispatching
  BY <1>0, <1>1 DEF Printed
<1>2. CASE dispatching
  <2> DEFINE one == Append(stdout, x)
             new == Append(one, y)
  <2>1. stdout \o <<x, y>> = new
    BY <1>0
  <2>2. stdout' = new
    BY <2>1, <1>2 DEF Printed
  <2>3. /\ one \in Seq(FromAgent) /\ Len(one) = Len(stdout) + 1
        /\ DOMAIN stdout = 1..Len(stdout) /\ DOMAIN one = 1..(Len(stdout) + 1)
        /\ \A i \in DOMAIN stdout : one[i] = stdout[i]
        /\ one[Len(stdout) + 1] = x /\ In(one) = In(stdout) \cup {x}
    BY <1>0, Appended
  <2> HIDE DEF one
  <2>4. /\ new \in Seq(FromAgent) /\ DOMAIN new = 1..(Len(one) + 1)
        /\ \A i \in DOMAIN one : new[i] = one[i]
        /\ new[Len(one) + 1] = y /\ In(new) = In(one) \cup {y}
    BY <2>3, Appended
  <2> HIDE DEF new
  <2>5. DOMAIN new = 1..(Len(stdout) + 2) /\ new[Len(stdout) + 2] = y
    BY <2>3, <2>4, <1>0
  <2>6. /\ \A i \in DOMAIN stdout : i \in DOMAIN one /\ i \in DOMAIN new
        /\ Len(stdout) + 1 \in DOMAIN one
        /\ \A i \in DOMAIN new \ DOMAIN stdout : i = Len(stdout) + 1 \/ i = Len(stdout) + 2
    BY <2>3, <2>5, <1>0
  <2> QED BY <2>2, <2>3, <2>4, <2>5, <2>6, <1>2
<1> QED BY <1>1, <1>2

LEMMA PrintedIs ==
    ASSUME RpcTypeOK, NEW x \in FromAgent, NEW y \in FromAgent, NEW two \in BOOLEAN,
           two => Printed(<<x, y>>), ~two => Printed(<<x>>)
    PROVE  /\ stdout' \in Seq(FromAgent)
           /\ Len(stdout) \in Nat /\ DOMAIN stdout = 1..Len(stdout)
           /\ \A i \in DOMAIN stdout : i \in DOMAIN stdout' /\ stdout'[i] = stdout[i]
           /\ \A i \in DOMAIN stdout' \ DOMAIN stdout :
                 \/ i = Len(stdout) + 1 /\ stdout'[i] = x
                 \/ i = Len(stdout) + 2 /\ stdout'[i] = y /\ two
           /\ In(stdout) \subseteq In(stdout')
           /\ \A g \in In(stdout') \ In(stdout) : g = x \/ (g = y /\ two)
           /\ dispatching => x \in In(stdout')
           /\ ~dispatching => stdout' = stdout
<1>0. Len(stdout) \in Nat /\ DOMAIN stdout = 1..Len(stdout)
  BY DEF RpcTypeOK
<1>1. CASE two
  BY <1>0, <1>1, PrintedTwo
<1>2. CASE ~two
  BY <1>2, PrintedOne
<1> QED BY <1>1, <1>2

(* A frame that is no update: the streams of updates stay as they are.     *)
LEMMA NoUpdatePrinted ==
    ASSUME RpcIInv, NEW x \in FromAgent, x.kind # "update", Printed(<<x>>),
           UNCHANGED <<rpcTurn, updates, outcome, dispatching>>,
           \A s \in Ids : work'[s].emitted = work[s].emitted
    PROVE  NoGaps' /\ NoneLost'
<1>0. RpcTypeOK /\ NoGaps /\ NoneLost /\ TurnInStep
  BY DEF RpcIInv
<1>1. /\ stdout' \in Seq(FromAgent)
      /\ Len(stdout) \in Nat /\ DOMAIN stdout = 1..Len(stdout)
      /\ \A i \in DOMAIN stdout : i \in DOMAIN stdout' /\ stdout'[i] = stdout[i]
      /\ \A i \in DOMAIN stdout' \ DOMAIN stdout : stdout'[i].kind # "update"
      /\ In(stdout) \subseteq In(stdout')
      /\ \A g \in In(stdout') \ In(stdout) : g = x
      /\ ~dispatching => stdout' = stdout
  BY <1>0, PrintedOne
<1>2. \A g \in In(stdout') : g.kind = "update" => g \in In(stdout) /\ g.session \in Ids
  BY <1>0, <1>1, FrameIs DEF In, RpcTypeOK
<1>3. NoGaps'
  <2>1. \A i, j \in DOMAIN stdout' :
          (i < j /\ stdout'[i].kind = "update" /\ About(stdout'[j], stdout'[i].session))
             => stdout'[i].number < stdout'[j].number
    BY <1>0, <1>1 DEF NoGaps, About
  <2>2. \A g \in In(stdout') :
          (g.kind = "update" /\ g.number < work'[g.session].emitted)
             => Updated(g.session, g.number + 1) \in In(stdout')
    BY <1>0, <1>1, <1>2 DEF NoGaps
  <2> QED BY <1>0, <1>1, <2>1, <2>2 DEF NoGaps, About, Updated
<1>4. NoneLost'
  <2> SUFFICES ASSUME Streaming' PROVE \E first \in {0, 1} : Stream(first)'
    BY DEF NoneLost
  <2>1. Streaming /\ rpcTurn.session \in Ids
    BY <1>0, TurnIs DEF Streaming, TurnInStep
  <2>2. PICK first \in {0, 1} : Stream(first)
    BY <1>0, <2>1 DEF NoneLost
  <2>3. \A g \in In(stdout') : About(g, rpcTurn.session) => g \in In(stdout)
    BY <1>2 DEF About
  <2>4. Stream(first)'
    BY <1>1, <2>1, <2>2, <2>3 DEF Stream, Got, About, Updated
  <2> QED BY <2>4
<1> QED BY <1>3, <1>4

(* Nothing is read: what is said of stdin and the turn stands.             *)
LEMMA GarblesKeeps ==
    ASSUME RpcIInv, AgentGarbles
    PROVE  RpcIInv'
<1> DEFINE x == [kind |-> "garbled"]
<1>0. /\ RpcTypeOK /\ FramesKnown /\ AnswerIsOwn /\ TurnInStep /\ UpdatesCollected
      /\ RequestsInOrder /\ OnePermission /\ OnePrompt
  BY DEF RpcIInv
<1>1. /\ Printed(<<x>>) /\ garbled' = garbled + 1 /\ garbled < MaxGarbled
      /\ UNCHANGED <<work, answered, alive, stdin, writing, dispatching, nextId, pending, outcome,
                     listeners, updates, serving, rpcTurn>>
  BY DEF AgentGarbles, AgentOnly, peer
<1>2. x \in FromAgent /\ x.kind = "garbled"
  BY DEF FromAgent
<1> HIDE DEF x
<1>3. /\ stdout' \in Seq(FromAgent)
      /\ \A i \in DOMAIN stdout' : \/ i \in DOMAIN stdout /\ stdout'[i] = stdout[i]
                                   \/ stdout'[i].kind = "garbled"
      /\ \A g \in In(stdout') : g \in In(stdout) \/ g.kind = "garbled"
  BY <1>0, <1>1, <1>2, PrintedOne
<1>4. RpcTypeOK'
  <2>1. garbled' \in 0..MaxGarbled
    BY <1>0, <1>1, RpcAssumption DEF RpcTypeOK
  <2> QED BY <1>0, <1>1, <1>3, <2>1 DEF RpcTypeOK
<1>5. AnswerIsOwn' /\ UpdatesCollected' /\ RequestsInOrder' /\ OnePrompt'
  BY <1>0, <1>1 DEF AnswerIsOwn, UpdatesCollected, RequestsInOrder, OnePrompt, In, Engaged
<1>6. FramesKnown'
  BY <1>0, <1>1, <1>3 DEF FramesKnown, Made, Engaged, In
<1>7. OnePermission'
  BY <1>0, <1>1, <1>3 DEF OnePermission
<1>8. \A s : Engaged(s)' = Engaged(s) /\ PromptSent(s)' = PromptSent(s)
  BY <1>1 DEF Engaged, PromptSent, In
<1>9. ASSUME Waiting PROVE Waiting'
  <2>1. \A i, j \in DOMAIN stdout' :
          (i < j /\ stdout'[i].kind = "result" /\ stdout'[i].id = rpcTurn.id)
             => ~About(stdout'[j], rpcTurn.session)
    BY <1>3, <1>9 DEF Waiting, About
  <2>2. outcome[rpcTurn.id] = "result" => \A g \in In(stdout') : ~About(g, rpcTurn.session)
    BY <1>3, <1>9 DEF Waiting, About
  <2> QED BY <1>1, <1>8, <1>9, <2>1, <2>2 DEF Waiting, Over, Made, In, About
<1>10. TurnInStep'
  BY <1>0, <1>1, <1>8, <1>9 DEF TurnInStep, Untouched, Over, Made
<1>11. NoGaps' /\ NoneLost'
  BY <1>1, <1>2, NoUpdatePrinted
<1> QED BY <1>4, <1>5, <1>6, <1>7, <1>10, <1>11 DEF RpcIInv

(* It ends its prompt, and has not answered it before.                     *)
LEMMA EndsKeeps ==
    ASSUME RpcIInv, NEW s \in Ids, AgentEnds(s)
    PROVE  RpcIInv'
<1> DEFINE p == work[s].prompt
<1>0. /\ RpcTypeOK /\ FramesKnown /\ AnswerIsOwn /\ TurnInStep /\ UpdatesCollected
      /\ RequestsInOrder /\ OnePermission /\ OnePrompt
  BY DEF RpcIInv
<1>1. PICK x \in {Answer(p), Refusal(p)} : Printed(<<x>>)
  BY DEF AgentEnds
<1>2. /\ work[s].stage = "prompting" /\ Engaged(s)
      /\ work' = [work EXCEPT ![s].stage = "none"] /\ answered' = answered \cup {p}
      /\ UNCHANGED <<garbled, alive, stdin, writing, dispatching, nextId, pending, outcome,
                     listeners, updates, serving, rpcTurn>>
  BY DEF AgentEnds, AgentOnly, peer, Working, Engaged
<1>3. p \in Made /\ p \in Ids /\ p \notin answered
  BY <1>0, <1>2, TurnIs DEF FramesKnown, OnePrompt
<1>4. x \in FromAgent /\ x.kind \in {"result", "error"} /\ x.id = p
  BY <1>1, <1>3 DEF FromAgent, Answer, Refusal
<1>5. /\ \A t \in Ids : t # s => work'[t] = work[t]
      /\ work'[s].stage = "none" /\ work'[s].emitted = work[s].emitted /\ work'[s].prompt = p
      /\ \A t \in Ids : work'[t].emitted = work[t].emitted
      /\ \A t \in Ids : Engaged(t)' <=> Engaged(t) /\ t # s
      /\ work' \in Works
  <2>1. /\ work' \in Works /\ \A t \in Ids : t # s => work'[t] = work[t]
        /\ work'[s].stage = "none" /\ work'[s].emitted = work[s].emitted /\ work'[s].prompt = p
    <3>1. work \in Works /\ s \in Ids /\ work' = [work EXCEPT ![s].stage = "none"]
      BY <1>0, <1>2, WorksIs
    <3> QED BY ONLY <3>1, SMTT(20) DEF Works
  <2> HIDE DEF p
  <2> QED BY <2>1, <1>2 DEF Engaged
<1> HIDE DEF p
<1>6. /\ stdout' \in Seq(FromAgent)
      /\ Len(stdout) \in Nat /\ DOMAIN stdout = 1..Len(stdout)
      /\ \A i \in DOMAIN stdout : i \in DOMAIN stdout' /\ stdout'[i] = stdout[i]
      /\ \A i \in DOMAIN stdout' \ DOMAIN stdout : i = Len(stdout) + 1 /\ stdout'[i] = x
      /\ \A g \in In(stdout') : g \in In(stdout) \/ g = x
  BY <1>0, <1>1, <1>4, PrintedOne
<1>7. \A g \in In(stdin) : g.kind # "allow" => g.id # p /\ (g.kind = "prompt" => g.session # s)
  BY <1>0, <1>2 DEF OnePrompt, RequestsInOrder, p
<1>8. s \in answered
  BY <1>0, <1>2 DEF FramesKnown, NoWork
<1>9. RpcTypeOK'
  <2>1. answered' \subseteq 1..(nextId - 1)
    BY <1>0, <1>2, <1>3 DEF RpcTypeOK, Made
  <2> QED BY ONLY <2>1, <1>0, <1>2, <1>5, <1>6 DEF RpcTypeOK, Works
<1>10. AnswerIsOwn'
  BY <1>0, <1>2 DEF AnswerIsOwn
<1>11. FramesKnown'
  <2>1. \A g \in In(stdout') :
          /\ g.kind \in {"result", "error"} => g.id \in answered'
          /\ g.kind = "ask" => g.id \in Made
          /\ g.kind = "update" => /\ g.session \in answered'
                                  /\ g.number <= work'[g.session].emitted
    <3> SUFFICES ASSUME NEW g \in In(stdout')
                 PROVE  /\ g.kind \in {"result", "error"} => g.id \in answered'
                        /\ g.kind = "ask" => g.id \in Made
                        /\ g.kind = "update" => /\ g.session \in answered'
                                                /\ g.number <= work'[g.session].emitted
      OBVIOUS
    <3>1. CASE g \in In(stdout)
      BY <3>1, <1>0, <1>2, <1>5, TurnIs DEF FramesKnown
    <3>2. CASE g = x
      BY <3>2, <1>2, <1>4
    <3> QED BY <3>1, <3>2, <1>6
  <2>2. \A t \in Ids : /\ Engaged(t)' => work'[t].prompt \in Made
                       /\ t \notin answered' => work'[t] = NoWork
    BY <1>0, <1>2, <1>5, <1>8 DEF FramesKnown
  <2> QED BY <2>1, <2>2, <1>0, <1>2 DEF FramesKnown, Made, In
<1>12. RequestsInOrder'
  BY <1>0, <1>2, <1>5, <1>7, TurnIs DEF RequestsInOrder, In
<1>13. OnePermission'
  <2>1. \A t \in Ids : work[t].stage = "asking" => work'[t].stage = "asking"
    BY <1>2, <1>5
  <2>2. /\ \A i \in DOMAIN stdin : stdin[i].kind = "allow" => stdin[i].session \in Ids
        /\ \A i \in DOMAIN stdout : stdout[i].kind = "ask" => stdout[i].id \in Ids
        /\ serving \subseteq Ids
    BY <1>0, TurnIs DEF FramesKnown, In, RpcTypeOK
  <2>3. \A i \in DOMAIN stdout' : stdout'[i].kind = "ask" => i \in DOMAIN stdout
    BY <1>4, <1>6
  <2> QED BY <2>1, <2>2, <2>3, <1>0, <1>2, <1>6 DEF OnePermission
<1>14. OnePrompt'
  <2>1. \A t \in Ids : Engaged(t) /\ t # s => work[t].prompt # p
    BY <1>0, <1>2 DEF OnePrompt, p
  <2> QED BY <2>1, <1>0, <1>2, <1>5 DEF OnePrompt, In
<1>15. NoGaps' /\ NoneLost'
  <2>1. /\ x.kind # "update" /\ \A t \in Ids : work'[t].emitted = work[t].emitted
        /\ UNCHANGED <<rpcTurn, updates, outcome, dispatching>>
    BY <1>2, <1>4, <1>5
  <2> QED BY <1>1, <1>4, <2>1, NoUpdatePrinted
<1>16. UpdatesCollected'
  BY <1>0, <1>2, <1>5, TurnIs DEF UpdatesCollected, TurnInStep
<1>17. \A t : PromptSent(t)' = PromptSent(t)
  BY <1>2 DEF PromptSent, In
<1>18. ASSUME Waiting, rpcTurn.session \in Ids PROVE Waiting'
  <2>1. p = rpcTurn.id <=> s = rpcTurn.session
    BY <1>2, <1>18 DEF Waiting, p
  <2>2. ASSUME rpcTurn.id \in answered' PROVE Over(rpcTurn.session)'
    <3>1. CASE rpcTurn.id \in answered
      BY <3>1, <1>2, <1>5, <1>17, <1>18 DEF Waiting, Over, Engaged
    <3>2. CASE rpcTurn.id = p
      BY <3>2, <2>1, <1>2, <1>5, <1>7, <1>17, <1>18 DEF Over, PromptSent, Engaged
    <3> QED BY <3>1, <3>2, <2>2, <1>2
  <2>3. ASSUME NEW i \in DOMAIN stdout', NEW j \in DOMAIN stdout', i < j,
               stdout'[i].kind = "result", stdout'[i].id = rpcTurn.id
        PROVE  ~About(stdout'[j], rpcTurn.session)
    <3>1. CASE j \in DOMAIN stdout
      <4>1. i \in DOMAIN stdout
        BY <3>1, <2>3, <1>6
      <4> QED BY <4>1, <3>1, <2>3, <1>6, <1>18 DEF Waiting
    <3>2. CASE j \notin DOMAIN stdout
      BY <3>2, <1>4, <1>6 DEF About
    <3> QED BY <3>1, <3>2
  <2>4. outcome[rpcTurn.id] = "result" => \A g \in In(stdout') : ~About(g, rpcTurn.session)
    BY <1>4, <1>6, <1>18 DEF Waiting, About
  <2>5. \A t \in Ids : Engaged(t)' => (work'[t].prompt = rpcTurn.id <=> t = rpcTurn.session)
    BY <1>5, <1>18 DEF Waiting
  <2> QED BY <2>2, <2>3, <2>4, <2>5, <1>2, <1>18 DEF Waiting, Made, In, About
<1>19. TurnInStep'
  <2>1. \A t \in Ids : /\ Untouched(t) => Untouched(t)'
                       /\ Over(t) => Over(t)'
    BY <1>5, <1>17 DEF Untouched, Over
  <2>2. \A t \in answered : t \in Ids
    BY <1>0, TurnIs
  <2>3. Made' = Made /\ Made \subseteq Ids
    BY <1>0, <1>2, TurnIs DEF Made
  <2> QED BY <2>1, <2>2, <2>3, <1>0, <1>2, <1>18 DEF TurnInStep
<1> QED BY <1>9, <1>10, <1>11, <1>12, <1>13, <1>14, <1>15, <1>16, <1>19 DEF RpcIInv

(* The next update of a prompt, with a tool call the question after it.    *)
LEMMA UpdatesKeeps ==
    ASSUME RpcIInv, NEW s \in Ids, AgentUpdates(s)
    PROVE  RpcIInv'
<1> DEFINE n == work[s].emitted + 1
           x == Updated(s, n)
           y == [kind |-> "ask", id |-> s]
<1>0. /\ RpcTypeOK /\ FramesKnown /\ AnswerIsOwn /\ TurnInStep /\ UpdatesCollected
      /\ RequestsInOrder /\ OnePermission /\ OnePrompt /\ NoGaps /\ NoneLost
  BY DEF RpcIInv
<1>1. PICK two \in BOOLEAN :
         /\ two => Printed(<<x, y>>)
         /\ ~two => Printed(<<x>>)
         /\ work' = IF two
                    THEN [work EXCEPT ![s].emitted = n, ![s].stage = "asking"]
                    ELSE [work EXCEPT ![s].emitted = n]
  <2>1. \/ work' = [work EXCEPT ![s].emitted = n] /\ Printed(<<x>>)
        \/ work' = [work EXCEPT ![s].emitted = n, ![s].stage = "asking"] /\ Printed(<<x, y>>)
    BY DEF AgentUpdates
  <2> QED BY <2>1
<1>2. /\ work[s].stage = "prompting" /\ Engaged(s) /\ work[s].emitted < MaxUpdates
      /\ UNCHANGED <<garbled, answered, alive, stdin, writing, dispatching, nextId, pending,
                     outcome, listeners, updates, serving, rpcTurn>>
  BY DEF AgentUpdates, AgentOnly, peer, Working, Engaged
<1>3. /\ s \in answered /\ s \in Made /\ work[s].emitted \in Nat /\ n \in 1..MaxUpdates
      /\ n > work[s].emitted /\ work[s].prompt \notin answered
  <2>1. s \in answered
    BY <1>0, <1>2 DEF FramesKnown, NoWork
  <2>2. work[s].emitted \in 0..MaxUpdates /\ MaxUpdates \in Nat /\ answered \subseteq Made
    BY <1>0, TurnIs
  <2> QED BY <2>1, <2>2, <1>0, <1>2 DEF OnePrompt
<1>4. /\ x \in FromAgent /\ x.kind = "update" /\ x.session = s /\ x.number = n
      /\ y \in FromAgent /\ y.kind = "ask" /\ y.id = s
  BY <1>3 DEF FromAgent, Updated
<1>5. /\ \A t \in Ids : t # s => work'[t] = work[t]
      /\ work'[s].emitted = n /\ work'[s].prompt = work[s].prompt
      /\ work'[s].stage = IF two THEN "asking" ELSE "prompting"
      /\ \A t \in Ids : Engaged(t)' <=> Engaged(t)
      /\ work' \in Works
  <2> HIDE DEF x, y
  <2>1. n \in 0..MaxUpdates
    BY <1>3
  <2> HIDE DEF n
  <2>2. /\ \A t \in Ids : t # s => work'[t] = work[t]
        /\ work'[s].emitted = n /\ work'[s].prompt = work[s].prompt
        /\ work'[s].stage = IF two THEN "asking" ELSE "prompting"
        /\ work' \in Works
    <3> DEFINE more == [work EXCEPT ![s].emitted = n]
    <3>1. /\ more \in Works /\ \A t \in Ids : t # s => more[t] = work[t]
          /\ more[s].stage = "prompting" /\ more[s].prompt = work[s].prompt /\ more[s].emitted = n
      <4>1. work \in Works /\ s \in Ids /\ work[s].stage = "prompting"
        BY <1>0, <1>2, WorksIs
      <4> QED BY ONLY <2>1, <4>1, SMTT(20) DEF Works
    <3>2. CASE two
      <4>1. work' = [more EXCEPT ![s].stage = "asking"]
        BY <3>2, <1>1
      <4> HIDE DEF more
      <4>2. s \in Ids
        OBVIOUS
      <4>3. /\ work' \in Works /\ \A t \in Ids : t # s => work'[t] = more[t]
            /\ work'[s].stage = "asking" /\ work'[s].prompt = more[s].prompt
            /\ work'[s].emitted = more[s].emitted
        BY ONLY <3>1, <4>1, <4>2, SMTT(20) DEF Works
      <4> QED BY <3>1, <3>2, <4>3
    <3>3. CASE ~two
      BY <3>1, <3>3, <1>1
    <3> QED BY <3>2, <3>3
  <2>3. \A t \in Ids : Engaged(t)' <=> Engaged(t)
    BY <2>2, <1>2 DEF Engaged
  <2> QED BY <2>2, <2>3
<1>6. UNCHANGED rpcTurn /\ x = Updated(s, n)
  BY <1>2
<1> HIDE DEF x, y, n
<1>7. /\ stdout' \in Seq(FromAgent)
      /\ Len(stdout) \in Nat /\ DOMAIN stdout = 1..Len(stdout)
      /\ \A i \in DOMAIN stdout : i \in DOMAIN stdout' /\ stdout'[i] = stdout[i]
      /\ \A i \in DOMAIN stdout' \ DOMAIN stdout :
            \/ i = Len(stdout) + 1 /\ stdout'[i] = x
            \/ i = Len(stdout) + 2 /\ stdout'[i] = y /\ two
      /\ In(stdout) \subseteq In(stdout')
      /\ \A g \in In(stdout') \ In(stdout) : g = x \/ (g = y /\ two)
      /\ dispatching => x \in In(stdout')
      /\ ~dispatching => stdout' = stdout
  BY <1>0, <1>1, <1>4, PrintedIs
<1>8. \A g \in In(stdin) : g.kind = "prompt" => g.session # s
  BY <1>0, <1>2 DEF RequestsInOrder
<1>9. RpcTypeOK'
  BY <1>0, <1>2, <1>5, <1>7 DEF RpcTypeOK, Works
<1>10. AnswerIsOwn'
  BY <1>0, <1>2 DEF AnswerIsOwn
<1>11. FramesKnown'
  <2>1. ASSUME NEW g \in In(stdout')
        PROVE  /\ g.kind \in {"result", "error"} => g.id \in answered
               /\ g.kind = "ask" => g.id \in Made
               /\ g.kind = "update" => /\ g.session \in answered
                                       /\ g.number <= work'[g.session].emitted
    <3>1. CASE g \in In(stdout)
      <4>1. g.kind = "update" => g.session \in Ids /\ g.number \in Nat
        <5>1. g \in FromAgent
          BY <3>1, <1>0 DEF In, RpcTypeOK
        <5> QED BY <5>1, <1>0, FrameIs, TurnIs
      <4>2. g.kind = "update" /\ g.session = s => g.number <= n
        BY <3>1, <4>1, <1>0, <1>3 DEF FramesKnown, n
      <4> QED BY <3>1, <4>1, <4>2, <1>0, <1>5 DEF FramesKnown
    <3>2. CASE g = x
      BY <3>2, <1>3, <1>4, <1>5
    <3>3. CASE g = y
      BY <3>3, <1>3, <1>4
    <3> QED BY <3>1, <3>2, <3>3, <1>7
  <2>2. \A t \in Ids : /\ Engaged(t)' => work'[t].prompt \in Made
                       /\ t \notin answered => work'[t] = NoWork
    BY <1>0, <1>3, <1>5 DEF FramesKnown
  <2> QED BY <2>1, <2>2, <1>0, <1>2 DEF FramesKnown, Made, In
<1>12. RequestsInOrder'
  <2>1. \A g \in In(stdin) : g.kind = "prompt" => ~Engaged(g.session)' /\ work'[g.session].emitted = 0
    BY <1>0, <1>5, <1>8, TurnIs DEF RequestsInOrder
  <2> QED BY <2>1, <1>0, <1>2 DEF RequestsInOrder, In, Engaged
<1>13. OnePermission'
  <2>1. \A t \in Ids : work[t].stage = "asking" => work'[t].stage = "asking" /\ t # s
    BY <1>2, <1>5
  <2>2. /\ \A i \in DOMAIN stdin : stdin[i].kind = "allow" => stdin[i].session \in Ids
        /\ \A i \in DOMAIN stdout : stdout[i].kind = "ask" => stdout[i].id \in Ids
        /\ serving \subseteq Ids
    BY <1>0, TurnIs DEF FramesKnown, In, RpcTypeOK
  <2>3. \A i \in DOMAIN stdout' : stdout'[i].kind = "ask" /\ i \notin DOMAIN stdout =>
           /\ i = Len(stdout) + 2 /\ stdout'[i].id = s /\ work'[s].stage = "asking"
    BY <1>4, <1>5, <1>7
  <2>4. ASSUME NEW i \in DOMAIN stdin, stdin[i].kind = "allow"
        PROVE  /\ work'[stdin[i].session].stage = "asking"
               /\ stdin[i].session \notin serving
               /\ \A j \in DOMAIN stdout' :
                     stdout'[j].kind = "ask" => stdout'[j].id # stdin[i].session
               /\ \A j \in DOMAIN stdin :
                     stdin[j].kind = "allow" /\ stdin[j].session = stdin[i].session => i = j
    BY <2>1, <2>2, <2>3, <2>4, <1>0, <1>7 DEF OnePermission
  <2>5. ASSUME NEW i \in DOMAIN stdout', stdout'[i].kind = "ask"
        PROVE  /\ work'[stdout'[i].id].stage = "asking"
               /\ stdout'[i].id \notin serving
               /\ \A j \in DOMAIN stdout' :
                     stdout'[j].kind = "ask" /\ stdout'[j].id = stdout'[i].id => i = j
    <3>1. \A j \in DOMAIN stdout : stdout[j].kind = "ask" => stdout[j].id # s
      BY <2>1, <2>2, <1>0 DEF OnePermission
    <3>2. s \notin serving
      BY <2>1, <2>2, <1>0 DEF OnePermission
    <3> QED BY <3>1, <3>2, <2>1, <2>2, <2>3, <2>5, <1>0, <1>7 DEF OnePermission
  <2>6. \A t \in serving : work'[t].stage = "asking"
    BY <2>1, <2>2, <1>0 DEF OnePermission
  <2> QED BY <2>4, <2>5, <2>6, <1>2 DEF OnePermission
<1>14. OnePrompt'
  BY <1>0, <1>2, <1>5 DEF OnePrompt, In
<1>15. UpdatesCollected'
  <2>1. rpcTurn.pc = "done" => rpcTurn.session \in Ids /\ rpcTurn.session # s
    BY <1>0, <1>2, TurnIs DEF TurnInStep, Over
  <2> QED BY <2>1, <1>0, <1>2, <1>5 DEF UpdatesCollected
<1>16. \A t : PromptSent(t)' = PromptSent(t)
  BY <1>2 DEF PromptSent, In
<1>17. ASSUME Waiting, rpcTurn.session \in Ids PROVE Waiting'
  <2>1. rpcTurn.session = s => rpcTurn.id \notin answered
    BY <1>2, <1>17 DEF Waiting, Over
  <2>2. ASSUME rpcTurn.id \in answered PROVE Over(rpcTurn.session)'
    BY <2>2, <1>2, <1>5, <1>16, <1>17 DEF Waiting, Over, Engaged
  <2>3. ASSUME NEW i \in DOMAIN stdout', NEW j \in DOMAIN stdout', i < j,
               stdout'[i].kind = "result", stdout'[i].id = rpcTurn.id
        PROVE  ~About(stdout'[j], rpcTurn.session)
    <3>1. i \in DOMAIN stdout /\ stdout'[i] = stdout[i]
      BY <2>3, <1>4, <1>7
    <3>2. rpcTurn.id \in answered
      BY <3>1, <2>3, <1>0 DEF FramesKnown, In
    <3>3. CASE j \in DOMAIN stdout
      BY <3>1, <3>3, <2>3, <1>7, <1>17 DEF Waiting
    <3>4. CASE j \notin DOMAIN stdout
      BY <3>2, <3>4, <2>1, <1>4, <1>7 DEF About
    <3> QED BY <3>3, <3>4
  <2>4. ASSUME outcome[rpcTurn.id] = "result", NEW g \in In(stdout')
        PROVE  ~About(g, rpcTurn.session)
    <3>1. rpcTurn.id \in answered
      BY <2>4, <1>0, <1>17, TurnIs DEF Waiting, AnswerIsOwn
    <3> QED BY <3>1, <2>1, <2>4, <1>4, <1>7, <1>17 DEF Waiting, About
  <2>5. \A t \in Ids : Engaged(t)' => (work'[t].prompt = rpcTurn.id <=> t = rpcTurn.session)
    BY <1>5, <1>17 DEF Waiting
  <2> QED BY <2>2, <2>3, <2>4, <2>5, <1>2, <1>17 DEF Waiting, Made, In, About
<1>18. TurnInStep'
  <2>1. \A t \in Ids : /\ Untouched(t) => Untouched(t)'
                       /\ Over(t) => Over(t)'
    BY <1>2, <1>5, <1>16 DEF Untouched, Over
  <2>2. \A t \in answered : t \in Ids
    BY <1>0, TurnIs
  <2>3. Made' = Made /\ Made \subseteq Ids
    BY <1>0, <1>2, TurnIs DEF Made
  <2> QED BY <2>1, <2>2, <2>3, <1>0, <1>2, <1>17 DEF TurnInStep
<1>19. NoGaps'
  <2>1. ASSUME NEW i \in DOMAIN stdout', NEW j \in DOMAIN stdout', i < j,
               stdout'[i].kind = "update", About(stdout'[j], stdout'[i].session)
        PROVE  stdout'[i].number < stdout'[j].number
    <3>1. i \in DOMAIN stdout
      BY <2>1, <1>4, <1>7 DEF About
    <3>2. CASE j \in DOMAIN stdout
      BY <3>1, <3>2, <2>1, <1>0, <1>7 DEF NoGaps
    <3>3. CASE j \notin DOMAIN stdout
      <4>1. stdout'[j] = x /\ stdout[i] \in In(stdout) /\ stdout[i] \in FromAgent
        BY <3>1, <3>3, <2>1, <1>0, <1>4, <1>7 DEF About, In, RpcTypeOK
      <4>2. stdout[i].number <= work[s].emitted /\ stdout[i].number \in Nat
        <5>1. stdout[i].kind = "update" /\ stdout[i].session = s
          BY <3>1, <4>1, <2>1, <1>4, <1>7 DEF About
        <5>2. stdout[i].number <= work[s].emitted
          BY <5>1, <4>1, <1>0 DEF FramesKnown
        <5>3. stdout[i].number \in 0..MaxUpdates
          BY <5>1, <4>1, FrameIs
        <5> QED BY <5>2, <5>3, RpcAssumption
      <4> QED BY <3>1, <4>1, <4>2, <1>3, <1>4, <1>7
    <3> QED BY <3>2, <3>3
  <2>2. ASSUME NEW g \in In(stdout'), g.kind = "update", g.number < work'[g.session].emitted
        PROVE  Updated(g.session, g.number + 1) \in In(stdout')
    <3>1. g # x /\ g \in In(stdout)
      BY <2>2, <1>3, <1>4, <1>5, <1>7
    <3>2. g.session \in Ids /\ g.number \in Nat /\ g.number <= work[g.session].emitted
      <4>1. g \in FromAgent
        BY <3>1, <1>0 DEF In, RpcTypeOK
      <4>2. g.session \in Ids /\ g.number \in Nat
        BY <4>1, <2>2, <1>0, FrameIs, TurnIs
      <4> QED BY <4>2, <3>1, <2>2, <1>0 DEF FramesKnown
    <3>3. CASE g.number < work[g.session].emitted
      BY <3>1, <3>3, <2>2, <1>0, <1>7 DEF NoGaps
    <3>4. CASE g.session = s /\ g.number = work[s].emitted
      <4>1. dispatching
        BY <3>1, <1>0 DEF NoGaps, In
      <4> QED BY <4>1, <3>4, <1>6, <1>7 DEF n
    <3>5. g.session # s => work'[g.session] = work[g.session]
      BY <3>2, <1>5
    <3>6. work[g.session].emitted \in Nat
      BY <3>2, <1>0, TurnIs
    <3> QED BY <2>2, <3>2, <3>3, <3>4, <3>5, <3>6
  <2>3. ~dispatching => stdout' = <<>>
    BY <1>0, <1>7 DEF NoGaps
  <2> QED BY <2>1, <2>2, <2>3, <1>2 DEF NoGaps, About, Updated
<1>20. NoneLost'
  <2> SUFFICES ASSUME Streaming' PROVE \E first \in {0, 1} : Stream(first)'
    BY DEF NoneLost
  <2>1. Streaming /\ rpcTurn.session \in Ids
    BY <1>0, <1>2, TurnIs DEF Streaming, TurnInStep
  <2>2. PICK first \in {0, 1} : Stream(first)
    BY <1>0, <2>1 DEF NoneLost
  <2>3. Got \in Nat /\ Got' = Got
    BY <1>0, <1>2, TurnIs DEF Got
  <2>4. CASE rpcTurn.session # s
    <3>1. \A g \in In(stdout') : About(g, rpcTurn.session) => g \in In(stdout)
      BY <2>4, <1>4, <1>7 DEF About
    <3>2. work'[rpcTurn.session] = work[rpcTurn.session]
      BY <2>1, <2>4, <1>5
    <3>3. Stream(first)'
      BY <3>1, <3>2, <2>2, <1>2, <1>7 DEF Stream, Got, About, Updated
    <3> QED BY <3>3
  <2>5. CASE rpcTurn.session = s
    <3>1. dispatching
      <4>1. ~Untouched(s) /\ ~Over(s)
        BY <1>2 DEF Untouched, Over
      <4>2. rpcTurn.pc = "prompting" /\ Waiting
        BY <4>1, <2>1, <2>5, <1>0 DEF Streaming, TurnInStep
      <4>3. outcome[rpcTurn.id] # "result"
        BY <4>1, <4>2, <2>5, <1>0, TurnIs DEF Waiting, AnswerIsOwn
      <4> QED BY <4>2, <4>3, <2>1 DEF Streaming
    <3>2. first + Got - 1 <= work[s].emitted /\ x \in In(stdout')
      BY <3>1, <2>2, <2>5, <1>7 DEF Stream
    <3>3. first + Got - 1 <= n /\ n > first + Got - 1
      BY <3>2, <2>2, <2>3, <1>3
    <3>4. \A g \in In(stdout') : About(g, s) => g \in In(stdout) \/ g = x
      BY <1>4, <1>7 DEF About
    <3>5. \A g \in In(stdout') : About(g, s) => g.number > first + Got - 1 \/ (g.number = 0 /\ Got = 0)
      BY <3>3, <3>4, <2>2, <2>5, <1>4 DEF Stream, About
    <3>6. Updated(s, first + Got) \in In(stdout')
      <4>1. CASE first + Got - 1 < work[s].emitted
        BY <4>1, <2>2, <2>5, <1>7 DEF Stream
      <4>2. CASE first + Got - 1 = work[s].emitted
        <5>1. first + Got = n
          BY <4>2, <2>2, <2>3, <1>3 DEF n
        <5> QED BY <5>1, <3>2, <1>6
      <4> QED BY <4>1, <4>2, <3>2, <2>2, <2>3, <1>3
    <3>7. /\ \A i \in DOMAIN rpcTurn.collected : rpcTurn.collected[i] = first + i - 1
          /\ \A i \in DOMAIN updates : updates[i] = first + Len(rpcTurn.collected) + i - 1
          /\ first = 0 => Got > 0
      BY <2>2 DEF Stream
    <3>8. Stream(first)'
      BY <3>3, <3>5, <3>6, <3>7, <2>3, <2>5, <1>2, <1>5 DEF Stream, About, Updated
    <3> QED BY <3>8
  <2> QED BY <2>4, <2>5
<1> QED BY <1>9, <1>10, <1>11, <1>12, <1>13, <1>14, <1>15, <1>18, <1>19, <1>20 DEF RpcIInv

(* What the agent takes is gone; the other requests have greater ids, and  *)
(* other sessions.                                                         *)
LEMMA ReadRest ==
    ASSUME RpcIInv, stdin # <<>>, stdin' = Tail(stdin), NEW f, f = Head(stdin)
    PROVE  /\ f \in ToAgent /\ f \in In(stdin) /\ f.id \in Made /\ In(stdin') \subseteq In(stdin)
           /\ stdin' \in Seq(ToAgent)
           /\ \A i, j \in DOMAIN stdin' :
                 /\ (i < j /\ stdin'[i].kind # "allow" /\ stdin'[j].kind # "allow")
                       => stdin'[i].id < stdin'[j].id
                 /\ (i # j /\ stdin'[i].kind = "prompt" /\ stdin'[j].kind = "prompt")
                       => stdin'[i].session # stdin'[j].session
                 /\ (i # j /\ stdin'[i].kind = "allow" /\ stdin'[j].kind = "allow")
                       => stdin'[i].session # stdin'[j].session
           /\ \A g \in In(stdin') :
                 /\ (f.kind # "allow" /\ g.kind # "allow") => g.id # f.id
                 /\ (f.kind = "prompt" /\ g.kind = "prompt") => g.session # f.session
                 /\ (f.kind = "allow" /\ g.kind = "allow") => g.session # f.session
<1>0. RpcTypeOK /\ FramesKnown /\ RequestsInOrder /\ OnePermission /\ stdin \in Seq(ToAgent)
  BY DEF RpcIInv, RpcTypeOK
<1>1. /\ stdin' = SubSeq(stdin, 1 + 1, Len(stdin)) /\ 1 \in 0..Len(stdin)
      /\ 1 \in DOMAIN stdin /\ f = stdin[1] /\ f \in ToAgent /\ f \in In(stdin)
  BY <1>0, TailOf
<1>2. /\ stdin' \in Seq(ToAgent)
      /\ DOMAIN stdin = 1..Len(stdin) /\ DOMAIN stdin' = 1..(Len(stdin) - 1)
      /\ \A i \in DOMAIN stdin' : i + 1 \in DOMAIN stdin /\ stdin'[i] = stdin[i + 1]
      /\ In(stdin') \subseteq In(stdin)
  BY <1>0, <1>1, Shortened
<1>3. /\ \A i \in DOMAIN stdin' : 1 < i + 1
      /\ \A i, j \in DOMAIN stdin' : (i < j => i + 1 < j + 1) /\ (i # j => i + 1 # j + 1)
  BY <1>2
<1>4. \A i \in DOMAIN stdin : stdin[i] \in In(stdin) /\ stdin[i].id \in Nat
  BY <1>0 DEF In, FramesKnown, Made
<1>5. f.id \in Made
  BY <1>0, <1>1 DEF FramesKnown
<1>6. ASSUME NEW i \in DOMAIN stdin', NEW j \in DOMAIN stdin'
      PROVE  /\ (i < j /\ stdin'[i].kind # "allow" /\ stdin'[j].kind # "allow")
                   => stdin'[i].id < stdin'[j].id
             /\ (i # j /\ stdin'[i].kind = "prompt" /\ stdin'[j].kind = "prompt")
                   => stdin'[i].session # stdin'[j].session
             /\ (i # j /\ stdin'[i].kind = "allow" /\ stdin'[j].kind = "allow")
                   => stdin'[i].session # stdin'[j].session
  <2>1. /\ i + 1 \in DOMAIN stdin /\ j + 1 \in DOMAIN stdin
        /\ stdin'[i] = stdin[i + 1] /\ stdin'[j] = stdin[j + 1]
        /\ (i < j => i + 1 < j + 1) /\ (i # j => i + 1 # j + 1)
    BY <1>2, <1>3
  <2>2. /\ (i < j /\ stdin'[i].kind # "allow" /\ stdin'[j].kind # "allow")
              => stdin'[i].id < stdin'[j].id
        /\ (i # j /\ stdin'[i].kind = "prompt" /\ stdin'[j].kind = "prompt")
              => stdin'[i].session # stdin'[j].session
    BY <2>1, <1>0 DEF RequestsInOrder
  <2>3. (i # j /\ stdin'[i].kind = "allow" /\ stdin'[j].kind = "allow")
           => stdin'[i].session # stdin'[j].session
    BY <2>1, <1>0 DEF OnePermission
  <2> QED BY <2>2, <2>3
<1>7. ASSUME NEW g \in In(stdin')
      PROVE  /\ (f.kind # "allow" /\ g.kind # "allow") => g.id # f.id
             /\ (f.kind = "prompt" /\ g.kind = "prompt") => g.session # f.session
             /\ (f.kind = "allow" /\ g.kind = "allow") => g.session # f.session
  <2>1. PICK i \in DOMAIN stdin : 1 < i /\ 1 # i /\ g = stdin[i]
    BY <1>2, <1>3 DEF In
  <2>2. (f.kind # "allow" /\ g.kind # "allow") => f.id < g.id
    BY <2>1, <1>0, <1>1 DEF RequestsInOrder
  <2>3. (f.kind = "prompt" /\ g.kind = "prompt") => g.session # f.session
    BY <2>1, <1>0, <1>1 DEF RequestsInOrder
  <2>4. (f.kind = "allow" /\ g.kind = "allow") => g.session # f.session
    BY <2>1, <1>0, <1>1 DEF OnePermission
  <2> QED BY <2>1, <2>2, <2>3, <2>4, <1>1, <1>4
<1> QED BY <1>1, <1>2, <1>5, <1>6, <1>7

Unread == <<alive, garbled, writing, dispatching, nextId, pending, outcome, listeners, updates,
            serving, rpcTurn>>

(* session/new: nothing was said of the session before.                    *)
LEMMA NewKeeps ==
    ASSUME RpcIInv, stdin # <<>>, stdin' = Tail(stdin), UNCHANGED Unread,
           NEW f, f = Head(stdin), f.kind = "new", NEW i0, i0 = f.id,
           answered' = answered \cup {i0},
           NEW x, x = Answer(i0) \/ x = Refusal(i0), NEW y, y = Updated(i0, 0),
           NEW two \in BOOLEAN, two => Printed(<<x, y>>), ~two => Printed(<<x>>),
           work' = work \/ work' = [work EXCEPT ![i0].stage = "open"]
    PROVE  RpcIInv'
<1>0. /\ RpcTypeOK /\ FramesKnown /\ AnswerIsOwn /\ TurnInStep /\ UpdatesCollected
      /\ RequestsInOrder /\ OnePermission /\ OnePrompt /\ NoGaps /\ NoneLost
  BY DEF RpcIInv
<1>1. /\ f \in In(stdin) /\ i0 \in Made /\ In(stdin') \subseteq In(stdin)
      /\ stdin' \in Seq(ToAgent)
      /\ \A i, j \in DOMAIN stdin' :
            /\ (i < j /\ stdin'[i].kind # "allow" /\ stdin'[j].kind # "allow")
                  => stdin'[i].id < stdin'[j].id
            /\ (i # j /\ stdin'[i].kind = "prompt" /\ stdin'[j].kind = "prompt")
                  => stdin'[i].session # stdin'[j].session
            /\ (i # j /\ stdin'[i].kind = "allow" /\ stdin'[j].kind = "allow")
                  => stdin'[i].session # stdin'[j].session
      /\ \A g \in In(stdin') : g.kind # "allow" => g.id # i0
  BY ReadRest
<1>2. i0 \notin answered /\ i0 \in Ids /\ work[i0] = NoWork
  BY <1>0, <1>1, TurnIs DEF RequestsInOrder, FramesKnown
<1>3. /\ x \in FromAgent /\ x.kind \in {"result", "error"} /\ x.id = i0
      /\ y \in FromAgent /\ y.kind = "update" /\ y.session = i0 /\ y.number = 0
  BY <1>0, <1>2, TurnIs DEF FromAgent, Answer, Refusal, Updated
<1>4. /\ \A t \in Ids : t # i0 => work'[t] = work[t]
      /\ work[i0].emitted = 0 /\ work'[i0].emitted = 0 /\ work[i0].stage = "none"
      /\ work'[i0].stage \in {"none", "open"}
      /\ \A t \in Ids : work'[t].emitted = work[t].emitted
      /\ \A t \in Ids : Engaged(t)' <=> Engaged(t)
      /\ work' \in Works
  <2>2. work[i0].emitted = 0 /\ work[i0].stage = "none"
    BY <1>2 DEF NoWork
  <2>3. CASE work' = work
    BY <2>2, <2>3, <1>0, WorksIs DEF Engaged
  <2>4. CASE work' = [work EXCEPT ![i0].stage = "open"]
    <3>1. /\ \A t \in Ids : t # i0 => work'[t] = work[t]
          /\ work'[i0].emitted = 0 /\ work'[i0].stage = "open"
          /\ work' \in Works
      <4>1. work \in Works
        BY <1>0, WorksIs
      <4> QED BY ONLY <2>2, <2>4, <4>1, <1>2, SMTT(20) DEF Works
    <3>3. \A t \in Ids : work'[t].emitted = work[t].emitted /\ (Engaged(t)' <=> Engaged(t))
      <4>1. TAKE t \in Ids
      <4>2. CASE t = i0
        BY ONLY <4>2, <2>2, <3>1 DEF Engaged
      <4>3. CASE t # i0
        BY ONLY <4>1, <4>3, <3>1 DEF Engaged
      <4> QED BY <4>2, <4>3
    <3> QED BY ONLY <2>2, <3>1, <3>3
  <2> QED BY <2>3, <2>4
<1>5. /\ stdout' \in Seq(FromAgent)
      /\ Len(stdout) \in Nat /\ DOMAIN stdout = 1..Len(stdout)
      /\ \A i \in DOMAIN stdout : i \in DOMAIN stdout' /\ stdout'[i] = stdout[i]
      /\ \A i \in DOMAIN stdout' \ DOMAIN stdout :
            \/ i = Len(stdout) + 1 /\ stdout'[i] = x
            \/ i = Len(stdout) + 2 /\ stdout'[i] = y
      /\ In(stdout) \subseteq In(stdout')
      /\ \A g \in In(stdout') \ In(stdout) : g = x \/ g = y
      /\ ~dispatching => stdout' = stdout
  BY <1>0, <1>3, PrintedIs
<1>6. answered' = answered \cup {i0} /\ rpcTurn' = rpcTurn /\ dispatching' = dispatching
  BY DEF Unread
<1>7. \A g \in In(stdout) : g.kind = "update" => g.session # i0 /\ g.session \in Ids
  BY <1>0, <1>2, TurnIs DEF FramesKnown
<1>8. RpcTypeOK'
  <2>1. answered' \subseteq 1..(nextId - 1)
    BY <1>0, <1>1, <1>6 DEF RpcTypeOK, Made
  <2>2. /\ stdin' \in Seq(ToAgent) /\ stdout' \in Seq(FromAgent) /\ work' \in Works
        /\ UNCHANGED <<alive, garbled, writing, dispatching, nextId, pending, outcome, listeners,
                       updates, serving, rpcTurn>>
    BY <1>1, <1>4, <1>5 DEF Unread
  <2> QED BY ONLY <2>1, <2>2, <1>0 DEF RpcTypeOK, Works
<1>9. AnswerIsOwn'
  BY <1>0, <1>6 DEF AnswerIsOwn, Unread
<1>10. FramesKnown'
  <2>1. ASSUME NEW g \in In(stdout')
        PROVE  /\ g.kind \in {"result", "error"} => g.id \in answered'
               /\ g.kind = "ask" => g.id \in Made
               /\ g.kind = "update" => /\ g.session \in answered'
                                       /\ g.number <= work'[g.session].emitted
    <3>1. CASE g \in In(stdout)
      BY <3>1, <1>0, <1>4, <1>6, <1>7 DEF FramesKnown
    <3>2. CASE g = x \/ g = y
      BY <3>2, <1>3, <1>4, <1>6
    <3> QED BY <3>1, <3>2, <1>5
  <2>2. \A t \in Ids : /\ Engaged(t)' => work'[t].prompt \in Made
                       /\ t \notin answered' => work'[t] = NoWork
    BY <1>0, <1>4, <1>6 DEF FramesKnown, Engaged
  <2>3. \A g \in In(stdin') : g.id \in Made /\ (g.kind # "new" => g.session \in Made)
    BY <1>0, <1>1 DEF FramesKnown
  <2> QED BY <2>1, <2>2, <2>3, <1>0 DEF FramesKnown, Made, Unread
<1>11. RequestsInOrder'
  <2>1. ASSUME NEW g \in In(stdin')
        PROVE  /\ g.kind # "allow" => g.id \notin answered'
               /\ g.kind = "prompt" => /\ g.session \in answered'
                                       /\ ~Engaged(g.session)' /\ work'[g.session].emitted = 0
    <3>1. g \in In(stdin)
      BY <2>1, <1>1
    <3>2. g.kind = "prompt" => g.session \in Ids
      BY <3>1, <1>0, TurnIs DEF FramesKnown
    <3> QED BY <3>1, <3>2, <2>1, <1>0, <1>1, <1>4, <1>6 DEF RequestsInOrder
  <2> QED BY <2>1, <1>1 DEF RequestsInOrder, Engaged
<1>12. OnePermission'
  <2>1. /\ \A i \in DOMAIN stdin' : \E j \in DOMAIN stdin : stdin'[i] = stdin[j]
        /\ \A i \in DOMAIN stdout' : stdout'[i].kind = "ask" => i \in DOMAIN stdout
    <3>1. In(stdin') \subseteq In(stdin)
      BY <1>1
    <3>2. \A i \in DOMAIN stdin' : \E j \in DOMAIN stdin : stdin'[i] = stdin[j]
      BY ONLY <3>1 DEF In
    <3>3. \A i \in DOMAIN stdout' : stdout'[i].kind = "ask" => i \in DOMAIN stdout
      BY ONLY <1>3, <1>5
    <3> QED BY <3>2, <3>3
  <2>2. /\ \A i \in DOMAIN stdin : stdin[i].kind = "allow" => stdin[i].session \in Ids
        /\ \A i \in DOMAIN stdout : stdout[i].kind = "ask" => stdout[i].id \in Ids
        /\ serving \subseteq Ids
    BY ONLY <1>0, TurnIs DEF FramesKnown, In, RpcTypeOK
  <2>3. \A t \in Ids : work[t].stage = "asking" => work'[t].stage = "asking"
    BY <1>4
  <2>4. ASSUME NEW i \in DOMAIN stdin', stdin'[i].kind = "allow"
        PROVE  /\ work'[stdin'[i].session].stage = "asking"
               /\ stdin'[i].session \notin serving
               /\ \A j \in DOMAIN stdout' :
                     stdout'[j].kind = "ask" => stdout'[j].id # stdin'[i].session
               /\ \A j \in DOMAIN stdin' :
                     stdin'[j].kind = "allow" /\ stdin'[j].session = stdin'[i].session => i = j
    BY <2>1, <2>2, <2>3, <2>4, <1>0, <1>1, <1>5 DEF OnePermission
  <2>5. ASSUME NEW i \in DOMAIN stdout', stdout'[i].kind = "ask"
        PROVE  /\ work'[stdout'[i].id].stage = "asking"
               /\ stdout'[i].id \notin serving
               /\ \A j \in DOMAIN stdout' :
                     stdout'[j].kind = "ask" /\ stdout'[j].id = stdout'[i].id => i = j
    BY <2>1, <2>2, <2>3, <2>5, <1>0, <1>5 DEF OnePermission
  <2>6. \A t \in serving : work'[t].stage = "asking"
    BY <2>2, <2>3, <1>0 DEF OnePermission
  <2> QED BY <2>4, <2>5, <2>6 DEF OnePermission, Unread
<1>13. OnePrompt'
  <2>1. \A t \in Ids : Engaged(t) => work[t].prompt # i0
    BY <1>0, <1>1 DEF OnePrompt
  <2>2. \A t \in Ids : Engaged(t) => work'[t] = work[t]
    BY <1>4 DEF Engaged
  <2> QED BY <2>1, <2>2, <1>0, <1>1, <1>4, <1>6 DEF OnePrompt
<1>14. UpdatesCollected'
  <2>1. rpcTurn.pc = "done" => rpcTurn.session \in Ids
    BY <1>0, TurnIs DEF TurnInStep
  <2> QED BY <2>1, <1>0, <1>4, <1>6 DEF UpdatesCollected
<1>15. \A t : PromptSent(t)' => PromptSent(t)
  BY <1>1 DEF PromptSent
<1>16. ASSUME Waiting, rpcTurn.session \in answered PROVE Waiting'
  <2>1. rpcTurn.id # i0 /\ rpcTurn.session # i0 /\ rpcTurn.session \in Ids
    BY <1>0, <1>1, <1>2, <1>16, TurnIs DEF Waiting
  <2>2. ASSUME rpcTurn.id \in answered' PROVE Over(rpcTurn.session)'
    BY <2>1, <2>2, <1>4, <1>6, <1>15, <1>16 DEF Waiting, Over, Engaged
  <2>3. ASSUME NEW i \in DOMAIN stdout', NEW j \in DOMAIN stdout', i < j,
               stdout'[i].kind = "result", stdout'[i].id = rpcTurn.id
        PROVE  ~About(stdout'[j], rpcTurn.session)
    <3>1. i \in DOMAIN stdout
      BY <2>1, <2>3, <1>3, <1>5
    <3>2. CASE j \in DOMAIN stdout
      BY <3>1, <3>2, <2>3, <1>5, <1>16 DEF Waiting
    <3>3. CASE j \notin DOMAIN stdout
      BY <3>3, <2>1, <1>3, <1>5 DEF About
    <3> QED BY <3>2, <3>3
  <2>4. outcome[rpcTurn.id] = "result" => \A g \in In(stdout') : ~About(g, rpcTurn.session)
    BY <2>1, <1>3, <1>5, <1>16 DEF Waiting, About
  <2>5. \A t \in Ids : Engaged(t)' => (work'[t].prompt = rpcTurn.id <=> t = rpcTurn.session)
    BY <1>4, <1>16 DEF Waiting, Engaged
  <2>6. \A g \in In(stdin') : /\ g.kind = "new" => g.id # rpcTurn.id
                              /\ g.kind = "prompt" => (g.id = rpcTurn.id <=> g.session = rpcTurn.session)
    BY <1>1, <1>16 DEF Waiting
  <2> QED BY <2>2, <2>3, <2>4, <2>5, <2>6, <1>16 DEF Waiting, Made, About, Unread
<1>17. TurnInStep'
  <2>1. \A t \in Ids : (Untouched(t) => Untouched(t)') /\ (Over(t) => Over(t)')
    BY <1>4, <1>15 DEF Untouched, Over
  <2>2. answered \subseteq Ids /\ Made' = Made /\ Made \subseteq Ids
    BY <1>0, TurnIs DEF Made, Unread
  <2> QED BY <2>1, <2>2, <1>0, <1>6, <1>16 DEF TurnInStep, Unread
<1>18. NoGaps'
  <2>1. ASSUME NEW i \in DOMAIN stdout', NEW j \in DOMAIN stdout', i < j,
               stdout'[i].kind = "update", About(stdout'[j], stdout'[i].session)
        PROVE  stdout'[i].number < stdout'[j].number
    <3>1. CASE j \in DOMAIN stdout
      <4>1. i \in DOMAIN stdout
        BY ONLY <3>1, <2>1, <1>5
      <4> QED BY ONLY <4>1, <3>1, <2>1, <1>0, <1>5 DEF NoGaps
    <3>2. CASE j \notin DOMAIN stdout
      <4>1. stdout'[j] = y /\ j = Len(stdout) + 2
        BY <3>2, <2>1, <1>3, <1>5 DEF About
      <4>2. i \in DOMAIN stdout /\ stdout[i] \in In(stdout)
        BY <4>1, <2>1, <1>3, <1>5 DEF In
      <4> QED BY <4>1, <4>2, <2>1, <1>3, <1>5, <1>7 DEF About
    <3> QED BY <3>1, <3>2
  <2>2. ASSUME NEW g \in In(stdout'), g.kind = "update", g.number < work'[g.session].emitted
        PROVE  Updated(g.session, g.number + 1) \in In(stdout')
    <3>1. g \in In(stdout)
      BY <2>2, <1>3, <1>4, <1>5
    <3>2. work'[g.session].emitted = work[g.session].emitted
      BY <3>1, <2>2, <1>4, <1>7
    <3> QED BY <3>1, <3>2, <2>2, <1>0, <1>5 DEF NoGaps
  <2>3. ~dispatching => stdout' = <<>>
    BY <1>0, <1>5 DEF NoGaps
  <2> QED BY <2>1, <2>2, <2>3, <1>6 DEF NoGaps, About, Updated
<1>19. NoneLost'
  <2> SUFFICES ASSUME Streaming' PROVE \E first \in {0, 1} : Stream(first)'
    BY DEF NoneLost
  <2>1. Streaming /\ rpcTurn.session \in Ids /\ rpcTurn.session # i0
    BY <1>0, <1>2, <1>6, TurnIs DEF Streaming, TurnInStep, Unread
  <2>2. PICK first \in {0, 1} : Stream(first)
    BY <1>0, <2>1 DEF NoneLost
  <2>3. \A g \in In(stdout') : About(g, rpcTurn.session) => g \in In(stdout)
    BY <2>1, <1>3, <1>5 DEF About
  <2>4. work'[rpcTurn.session] = work[rpcTurn.session] /\ Got' = Got
    BY <2>1, <1>4 DEF Got, Unread
  <2>5. Stream(first)'
    BY <2>2, <2>3, <2>4, <1>5 DEF Stream, About, Updated, Unread
  <2> QED BY <2>5
<1> QED BY <1>8, <1>9, <1>10, <1>11, <1>12, <1>13, <1>14, <1>17, <1>18, <1>19 DEF RpcIInv

(* What a step keeps that changes neither what the agent said nor how far  *)
(* its prompts are.                                                        *)
LEMMA SameStreams ==
    ASSUME RpcIInv, UNCHANGED <<stdout, answered, updates, rpcTurn, outcome, dispatching>>,
           \A t \in Ids : work'[t].emitted = work[t].emitted
    PROVE  AnswerIsOwn' /\ UpdatesCollected' /\ NoGaps' /\ NoneLost'
<1>0. RpcTypeOK /\ AnswerIsOwn /\ UpdatesCollected /\ FramesKnown /\ NoGaps /\ NoneLost /\ TurnInStep
  BY DEF RpcIInv
<1>1. AnswerIsOwn'
  BY <1>0 DEF AnswerIsOwn
<1>2. UpdatesCollected'
  BY <1>0, TurnIs DEF UpdatesCollected, TurnInStep
<1>3. \A g \in In(stdout) : g.kind = "update" => work'[g.session].emitted = work[g.session].emitted
  BY <1>0, TurnIs DEF FramesKnown
<1>4. NoGaps'
  BY <1>0, <1>3 DEF NoGaps, In, About, Updated
<1>5. NoneLost'
  <2> SUFFICES ASSUME Streaming' PROVE \E first \in {0, 1} : Stream(first)'
    BY DEF NoneLost
  <2>1. Streaming /\ rpcTurn.session \in Ids
    BY <1>0, TurnIs DEF Streaming, TurnInStep
  <2>2. work'[rpcTurn.session].emitted = work[rpcTurn.session].emitted /\ Got' = Got
    BY <2>1 DEF Got
  <2>3. PICK first \in {0, 1} : Stream(first)
    BY <1>0, <2>1 DEF NoneLost
  <2>4. Stream(first)'
    BY <2>2, <2>3 DEF Stream, About, Updated, In
  <2> QED BY <2>4
<1> QED BY <1>1, <1>2, <1>4, <1>5

(* session/prompt: the session was waiting for it, and for no other.       *)
LEMMA PromptReadKeeps ==
    ASSUME RpcIInv, stdin # <<>>, stdin' = Tail(stdin), UNCHANGED Unread,
           UNCHANGED <<stdout, answered>>,
           NEW f, f = Head(stdin), f.kind = "prompt", NEW s, s = f.session, NEW p, p = f.id,
           work' = [work EXCEPT ![s].stage = "prompting", ![s].prompt = p]
    PROVE  RpcIInv'
<1>0. /\ RpcTypeOK /\ FramesKnown /\ AnswerIsOwn /\ TurnInStep
      /\ RequestsInOrder /\ OnePermission /\ OnePrompt
  BY DEF RpcIInv
<1>1. /\ f \in In(stdin) /\ p \in Made /\ In(stdin') \subseteq In(stdin)
      /\ stdin' \in Seq(ToAgent)
      /\ \A i, j \in DOMAIN stdin' :
            /\ (i < j /\ stdin'[i].kind # "allow" /\ stdin'[j].kind # "allow")
                  => stdin'[i].id < stdin'[j].id
            /\ (i # j /\ stdin'[i].kind = "prompt" /\ stdin'[j].kind = "prompt")
                  => stdin'[i].session # stdin'[j].session
            /\ (i # j /\ stdin'[i].kind = "allow" /\ stdin'[j].kind = "allow")
                  => stdin'[i].session # stdin'[j].session
      /\ \A g \in In(stdin') : /\ g.kind # "allow" => g.id # p
                               /\ g.kind = "prompt" => g.session # s
  BY ReadRest
<1>2. /\ p \notin answered /\ p \in Ids /\ s \in answered /\ s \in Ids
      /\ ~Engaged(s) /\ work[s].emitted = 0 /\ PromptSent(s)
  BY <1>0, <1>1, TurnIs DEF RequestsInOrder, PromptSent
<1>3. /\ \A t \in Ids : t # s => work'[t] = work[t]
      /\ work'[s].stage = "prompting" /\ work'[s].prompt = p
      /\ work'[s].emitted = work[s].emitted
      /\ work' \in Works
  <2> DEFINE on == [work EXCEPT ![s].stage = "prompting"]
  <2>1. /\ on \in Works /\ \A t \in Ids : t # s => on[t] = work[t]
        /\ on[s].stage = "prompting" /\ on[s].emitted = work[s].emitted
    <3>1. work \in Works
      BY <1>0, WorksIs
    <3> QED BY ONLY <3>1, <1>2, SMTT(20) DEF Works
  <2>2. work' = [on EXCEPT ![s].prompt = p]
    BY <1>0, WorksIs DEF Works
  <2> HIDE DEF on
  <2>3. /\ work' \in Works /\ \A t \in Ids : t # s => work'[t] = on[t]
        /\ work'[s].stage = on[s].stage /\ work'[s].prompt = p
        /\ work'[s].emitted = on[s].emitted
    BY ONLY <2>1, <2>2, <1>2, SMTT(20) DEF Works
  <2> QED BY <2>1, <2>3
<1>4. /\ \A t \in Ids : work'[t].emitted = work[t].emitted
      /\ \A t \in Ids : Engaged(t)' <=> Engaged(t) \/ t = s
      /\ \A t \in Ids : work[t].stage = "asking" => work'[t].stage = "asking"
  BY <1>2, <1>3 DEF Engaged
<1>5. AnswerIsOwn' /\ UpdatesCollected' /\ NoGaps' /\ NoneLost'
  BY <1>4, SameStreams DEF Unread
<1>6. RpcTypeOK'
  <2>1. UNCHANGED <<alive, garbled, writing, dispatching, nextId, pending, outcome, listeners,
                    updates, serving, rpcTurn, stdout, answered>>
    BY DEF Unread
  <2> QED BY ONLY <2>1, <1>0, <1>1, <1>3 DEF RpcTypeOK, Works
<1>7. FramesKnown'
  <2>1. \A g \in In(stdout) : g.kind = "update" => work'[g.session].emitted = work[g.session].emitted
    BY <1>0, <1>4, TurnIs DEF FramesKnown
  <2>2. \A g \in In(stdin') : g.id \in Made /\ (g.kind # "new" => g.session \in Made)
    BY <1>0, <1>1 DEF FramesKnown
  <2>3. \A t \in Ids : /\ Engaged(t)' => work'[t].prompt \in Made
                       /\ t \notin answered => work'[t] = NoWork
    <3>1. TAKE t \in Ids
    <3>2. CASE t = s
      BY <3>2, <1>1, <1>2, <1>3
    <3>3. CASE t # s
      BY <3>1, <3>3, <1>0, <1>3, <1>4 DEF FramesKnown
    <3> QED BY <3>2, <3>3
  <2>4. UNCHANGED <<stdout, answered, serving, nextId, outcome>>
    BY DEF Unread
  <2>5. \A g \in In(stdout) : g.kind = "update" => g.number <= work'[g.session].emitted
    BY <2>1, <1>0 DEF FramesKnown
  <2> QED BY ONLY <2>2, <2>3, <2>4, <2>5, <1>0 DEF FramesKnown, Made, In
<1>8. RequestsInOrder'
  <2>1. ASSUME NEW g \in In(stdin')
        PROVE  /\ g.kind # "allow" => g.id \notin answered
               /\ g.kind = "prompt" => /\ g.session \in answered
                                       /\ ~Engaged(g.session)' /\ work'[g.session].emitted = 0
    <3>1. g \in In(stdin)
      BY <2>1, <1>1
    <3>2. g.kind = "prompt" => g.session \in Ids
      BY <3>1, <1>0, TurnIs DEF FramesKnown
    <3> QED BY <3>1, <3>2, <2>1, <1>0, <1>1, <1>4 DEF RequestsInOrder
  <2> QED BY <2>1, <1>1 DEF RequestsInOrder, Engaged
<1>9. OnePermission'
  <2>1. \A i \in DOMAIN stdin' : \E j \in DOMAIN stdin : stdin'[i] = stdin[j]
    <3>1. In(stdin') \subseteq In(stdin)
      BY <1>1
    <3> QED BY ONLY <3>1 DEF In
  <2>2. /\ \A i \in DOMAIN stdin : stdin[i].kind = "allow" => stdin[i].session \in Ids
        /\ \A i \in DOMAIN stdout : stdout[i].kind = "ask" => stdout[i].id \in Ids
        /\ serving \subseteq Ids
    BY ONLY <1>0, TurnIs DEF FramesKnown, In, RpcTypeOK
  <2>3. ASSUME NEW i \in DOMAIN stdin', stdin'[i].kind = "allow"
        PROVE  /\ work'[stdin'[i].session].stage = "asking"
               /\ stdin'[i].session \notin serving
               /\ \A j \in DOMAIN stdout : stdout[j].kind = "ask" => stdout[j].id # stdin'[i].session
               /\ \A j \in DOMAIN stdin' :
                     stdin'[j].kind = "allow" /\ stdin'[j].session = stdin'[i].session => i = j
    BY ONLY <2>1, <2>2, <2>3, <1>0, <1>1, <1>4 DEF OnePermission
  <2>4. \A i \in DOMAIN stdout : stdout[i].kind = "ask" => work'[stdout[i].id].stage = "asking"
    BY ONLY <2>2, <1>0, <1>4 DEF OnePermission
  <2>5. \A t \in serving : work'[t].stage = "asking"
    BY ONLY <2>2, <1>0, <1>4 DEF OnePermission
  <2>6. stdout' = stdout /\ serving' = serving
    BY DEF Unread
  <2> QED BY ONLY <2>3, <2>4, <2>5, <2>6, <1>0 DEF OnePermission
<1>10. OnePrompt'
  <2>1. \A t \in Ids : Engaged(t) => t # s /\ work'[t] = work[t]
    BY <1>2, <1>3
  <2>2. \A t \in Ids : Engaged(t) => work[t].prompt # p
    BY <1>0, <1>1 DEF OnePrompt
  <2>3. ASSUME NEW t \in Ids, Engaged(t)'
        PROVE  /\ work'[t].prompt \notin answered
               /\ \A g \in In(stdin') : g.kind # "allow" => g.id # work'[t].prompt
               /\ \A u \in Ids : Engaged(u)' /\ work'[t].prompt = work'[u].prompt => t = u
    <3>1. CASE t = s
      BY ONLY <3>1, <2>1, <2>2, <1>1, <1>2, <1>3, <1>4
    <3>2. CASE t # s
      <4>1. Engaged(t) /\ work'[t] = work[t]
        BY ONLY <3>2, <2>3, <1>3, <1>4
      <4>2. /\ work[t].prompt \notin answered
            /\ \A g \in In(stdin') : g.kind # "allow" => g.id # work[t].prompt
        BY ONLY <4>1, <1>0, <1>1 DEF OnePrompt
      <4>3. ASSUME NEW u \in Ids, Engaged(u)', work'[t].prompt = work'[u].prompt PROVE t = u
        <5>1. CASE u = s
          BY ONLY <4>1, <4>3, <5>1, <2>2, <1>3
        <5>2. CASE u # s
          BY ONLY <4>1, <4>3, <5>2, <1>0, <1>3, <1>4 DEF OnePrompt
        <5> QED BY <5>1, <5>2
      <4> QED BY ONLY <4>1, <4>2, <4>3
    <3> QED BY <3>1, <3>2
  <2> QED BY ONLY <2>3, answered' = answered DEF OnePrompt
<1>11. \A t : PromptSent(t)' => PromptSent(t)
  BY <1>1 DEF PromptSent
<1>12. \A t \in Ids : (Untouched(t) => Untouched(t)') /\ (Over(t) => Over(t)')
  BY <1>2, <1>4, <1>11 DEF Untouched, Over
<1>13. ASSUME Waiting, rpcTurn.session \in Ids PROVE Waiting'
  <2>1. ASSUME NEW t \in Ids, Engaged(t)'
        PROVE  work'[t].prompt = rpcTurn.id <=> t = rpcTurn.session
    <3>1. CASE t = s
      <4>1. f.id = rpcTurn.id <=> f.session = rpcTurn.session
        BY <1>1, <1>13 DEF Waiting
      <4> QED BY <3>1, <4>1, <1>3
    <3>2. CASE t # s
      <4>1. Engaged(t) /\ work'[t] = work[t]
        BY <3>2, <2>1, <1>3, <1>4
      <4> QED BY <4>1, <1>13 DEF Waiting
    <3> QED BY <3>1, <3>2
  <2>2. \A g \in In(stdin') : /\ g.kind = "new" => g.id # rpcTurn.id
                              /\ g.kind = "prompt" => (g.id = rpcTurn.id <=> g.session = rpcTurn.session)
    BY <1>1, <1>13 DEF Waiting
  <2>3. rpcTurn.id \in answered => Over(rpcTurn.session)'
    BY <1>2, <1>4, <1>11, <1>13 DEF Waiting, Over, Engaged, Unread
  <2>4. UNCHANGED <<rpcTurn, stdout, answered, outcome, nextId>>
    BY DEF Unread
  <2> QED BY ONLY <2>1, <2>2, <2>3, <2>4, <1>13 DEF Waiting, Made, About, In
<1>14. TurnInStep'
  <2>1. answered \subseteq Ids /\ Made' = Made /\ Made \subseteq Ids
    BY <1>0, TurnIs DEF Made, Unread
  <2> QED BY <2>1, <1>0, <1>12, <1>13 DEF TurnInStep, Unread
<1> QED BY <1>5, <1>6, <1>7, <1>8, <1>9, <1>10, <1>14 DEF RpcIInv

(* The answer to a permission request: the prompt goes on.                 *)
LEMMA AllowReadKeeps ==
    ASSUME RpcIInv, stdin # <<>>, stdin' = Tail(stdin), UNCHANGED Unread,
           UNCHANGED <<stdout, answered>>,
           NEW f, f = Head(stdin), f.kind = "allow", NEW s, s = f.session,
           work' = [work EXCEPT ![s].stage = "prompting"]
    PROVE  RpcIInv'
<1>0. /\ RpcTypeOK /\ FramesKnown /\ AnswerIsOwn /\ TurnInStep
      /\ RequestsInOrder /\ OnePermission /\ OnePrompt
  BY DEF RpcIInv
<1>1. /\ f \in In(stdin) /\ In(stdin') \subseteq In(stdin) /\ stdin' \in Seq(ToAgent)
      /\ \A i, j \in DOMAIN stdin' :
            /\ (i < j /\ stdin'[i].kind # "allow" /\ stdin'[j].kind # "allow")
                  => stdin'[i].id < stdin'[j].id
            /\ (i # j /\ stdin'[i].kind = "prompt" /\ stdin'[j].kind = "prompt")
                  => stdin'[i].session # stdin'[j].session
            /\ (i # j /\ stdin'[i].kind = "allow" /\ stdin'[j].kind = "allow")
                  => stdin'[i].session # stdin'[j].session
      /\ \A g \in In(stdin') : g.kind = "allow" => g.session # s
  BY ReadRest
<1>2. PICK i0 \in DOMAIN stdin : stdin[i0] = f
  BY <1>1 DEF In
<1>3. /\ s \in Ids /\ work[s].stage = "asking" /\ s \notin serving
      /\ \A j \in DOMAIN stdout : stdout[j].kind = "ask" => stdout[j].id # s
  <2>1. s \in Ids
    BY <1>0, <1>1, TurnIs DEF FramesKnown
  <2> QED BY <2>1, <1>0, <1>2 DEF OnePermission
<1>4. /\ \A t \in Ids : t # s => work'[t] = work[t]
      /\ work'[s].stage = "prompting" /\ work'[s].prompt = work[s].prompt
      /\ work'[s].emitted = work[s].emitted
      /\ work' \in Works
  <2>1. work' = [work EXCEPT ![s].stage = "prompting"]
    OBVIOUS
  <2>2. work \in Works /\ s \in Ids
    BY <1>0, <1>3, WorksIs
  <2> QED BY ONLY <2>1, <2>2, SMTT(20) DEF Works
<1>5. /\ \A t \in Ids : work'[t].emitted = work[t].emitted /\ work'[t].prompt = work[t].prompt
      /\ \A t \in Ids : Engaged(t)' <=> Engaged(t)
      /\ \A t \in Ids : t # s /\ work[t].stage = "asking" => work'[t].stage = "asking"
  BY <1>3, <1>4 DEF Engaged
<1>6. AnswerIsOwn' /\ UpdatesCollected' /\ NoGaps' /\ NoneLost'
  BY <1>5, SameStreams DEF Unread
<1>7. RpcTypeOK'
  <2>1. UNCHANGED <<alive, garbled, writing, dispatching, nextId, pending, outcome, listeners,
                    updates, serving, rpcTurn, stdout, answered>>
    BY DEF Unread
  <2> QED BY ONLY <2>1, <1>0, <1>1, <1>4 DEF RpcTypeOK, Works
<1>8. FramesKnown'
  <2>1. \A g \in In(stdout) : g.kind = "update" => work'[g.session].emitted = work[g.session].emitted
    BY <1>0, <1>5, TurnIs DEF FramesKnown
  <2>2. \A g \in In(stdin') : g.id \in Made /\ (g.kind # "new" => g.session \in Made)
    BY <1>0, <1>1 DEF FramesKnown
  <2>3. \A t \in Ids : /\ Engaged(t)' => work'[t].prompt \in Made
                       /\ t \notin answered => work'[t] = NoWork
    <3>1. s \in answered
      BY <1>0, <1>3 DEF FramesKnown, NoWork
    <3> QED BY <3>1, <1>0, <1>4, <1>5 DEF FramesKnown
  <2> QED BY <2>1, <2>2, <2>3, <1>0 DEF FramesKnown, Made, In, Unread
<1>9. RequestsInOrder'
  <2>1. ASSUME NEW g \in In(stdin')
        PROVE  /\ g.kind # "allow" => g.id \notin answered
               /\ g.kind = "prompt" => /\ g.session \in answered
                                       /\ ~Engaged(g.session)' /\ work'[g.session].emitted = 0
    <3>1. g \in In(stdin)
      BY <2>1, <1>1
    <3>2. g.kind = "prompt" => g.session \in Ids
      BY <3>1, <1>0, TurnIs DEF FramesKnown
    <3> QED BY <3>1, <3>2, <2>1, <1>0, <1>5 DEF RequestsInOrder
  <2> QED BY <2>1, <1>1 DEF RequestsInOrder, Engaged
<1>10. OnePermission'
  <2>1. \A i \in DOMAIN stdin' : stdin'[i] \in In(stdin') /\ \E j \in DOMAIN stdin : stdin'[i] = stdin[j]
    <3>1. In(stdin') \subseteq In(stdin)
      BY <1>1
    <3> QED BY ONLY <3>1 DEF In
  <2>2. /\ \A i \in DOMAIN stdin : stdin[i].kind = "allow" => stdin[i].session \in Ids
        /\ \A i \in DOMAIN stdout : stdout[i].kind = "ask" => stdout[i].id \in Ids
        /\ serving \subseteq Ids
    BY ONLY <1>0, TurnIs DEF FramesKnown, In, RpcTypeOK
  <2>3. ASSUME NEW i \in DOMAIN stdin', stdin'[i].kind = "allow"
        PROVE  /\ work'[stdin'[i].session].stage = "asking"
               /\ stdin'[i].session \notin serving
               /\ \A j \in DOMAIN stdout : stdout[j].kind = "ask" => stdout[j].id # stdin'[i].session
               /\ \A j \in DOMAIN stdin' :
                     stdin'[j].kind = "allow" /\ stdin'[j].session = stdin'[i].session => i = j
    <3>1. stdin'[i].session # s
      BY <2>1, <2>3, <1>1
    <3> QED BY <3>1, <2>1, <2>2, <2>3, <1>0, <1>1, <1>5 DEF OnePermission
  <2>4. \A i \in DOMAIN stdout : stdout[i].kind = "ask" => work'[stdout[i].id].stage = "asking"
    BY <2>2, <1>0, <1>3, <1>5 DEF OnePermission
  <2>5. \A t \in serving : work'[t].stage = "asking"
    BY <2>2, <1>0, <1>3, <1>5 DEF OnePermission
  <2> QED BY <2>3, <2>4, <2>5, <1>0 DEF OnePermission, Unread
<1>11. OnePrompt'
  BY <1>0, <1>1, <1>5 DEF OnePrompt
<1>12. \A t : PromptSent(t)' => PromptSent(t)
  BY <1>1 DEF PromptSent
<1>13. \A t \in Ids : (Untouched(t) => Untouched(t)') /\ (Over(t) => Over(t)')
  BY <1>5, <1>12 DEF Untouched, Over
<1>14. ASSUME Waiting, rpcTurn.session \in Ids PROVE Waiting'
  <2>1. \A t \in Ids : Engaged(t)' => (work'[t].prompt = rpcTurn.id <=> t = rpcTurn.session)
    BY <1>5, <1>14 DEF Waiting
  <2>2. \A g \in In(stdin') : /\ g.kind = "new" => g.id # rpcTurn.id
                              /\ g.kind = "prompt" => (g.id = rpcTurn.id <=> g.session = rpcTurn.session)
    BY <1>1, <1>14 DEF Waiting
  <2>3. rpcTurn.id \in answered => Over(rpcTurn.session)'
    BY <1>5, <1>12, <1>14 DEF Waiting, Over, Engaged, Unread
  <2>4. UNCHANGED <<rpcTurn, stdout, answered, outcome, nextId>>
    BY DEF Unread
  <2> QED BY ONLY <2>1, <2>2, <2>3, <2>4, <1>14 DEF Waiting, Made, About, In
<1>15. TurnInStep'
  <2>1. answered \subseteq Ids /\ Made' = Made /\ Made \subseteq Ids
    BY <1>0, TurnIs DEF Made, Unread
  <2> QED BY <2>1, <1>0, <1>13, <1>14 DEF TurnInStep, Unread
<1> QED BY <1>6, <1>7, <1>8, <1>9, <1>10, <1>11, <1>15 DEF RpcIInv

(* Whatever frame it is that the agent takes.                              *)
LEMMA AgentReadsKeeps ==
    ASSUME RpcIInv, AgentReads
    PROVE  RpcIInv'
<1> DEFINE f == Head(stdin)
           i0 == f.id
           y == Updated(i0, 0)
<1>1. stdin # <<>> /\ stdin' = Tail(stdin) /\ UNCHANGED Unread
  BY DEF AgentReads, Unread, peer
<1>2. \/ /\ f.kind = "new" /\ answered' = answered \cup {i0} /\ work' = work
         /\ Printed(<<Refusal(i0)>>)
      \/ /\ f.kind = "new" /\ answered' = answered \cup {i0}
         /\ work' = [work EXCEPT ![i0].stage = "open"]
         /\ \E frames \in {<<Answer(i0)>>, <<Answer(i0), y>>} : Printed(frames)
      \/ /\ f.kind = "prompt" /\ UNCHANGED <<stdout, answered>>
         /\ work' = [work EXCEPT ![f.session].stage = "prompting", ![f.session].prompt = i0]
      \/ /\ f.kind = "allow" /\ UNCHANGED <<stdout, answered>>
         /\ work' = [work EXCEPT ![f.session].stage = "prompting"]
  BY DEF AgentReads
<1>3. CASE /\ f.kind = "new" /\ answered' = answered \cup {i0} /\ work' = work
           /\ Printed(<<Refusal(i0)>>)
  <2> DEFINE x == Refusal(i0)
  <2>1. (FALSE => Printed(<<x, y>>)) /\ (~FALSE => Printed(<<x>>))
    BY <1>3
  <2> QED BY <2>1, <1>1, <1>3, NewKeeps
<1>4. CASE /\ f.kind = "new" /\ answered' = answered \cup {i0}
           /\ work' = [work EXCEPT ![i0].stage = "open"]
           /\ \E frames \in {<<Answer(i0)>>, <<Answer(i0), y>>} : Printed(frames)
  <2> DEFINE x == Answer(i0)
  <2>1. Printed(<<x>>) \/ Printed(<<x, y>>)
    BY <1>4
  <2>2. PICK two \in BOOLEAN : (two => Printed(<<x, y>>)) /\ (~two => Printed(<<x>>))
    BY <2>1
  <2> QED BY <2>2, <1>1, <1>4, NewKeeps
<1>5. CASE /\ f.kind = "prompt" /\ UNCHANGED <<stdout, answered>>
           /\ work' = [work EXCEPT ![f.session].stage = "prompting", ![f.session].prompt = i0]
  BY <1>1, <1>5, PromptReadKeeps
<1>6. CASE /\ f.kind = "allow" /\ UNCHANGED <<stdout, answered>>
           /\ work' = [work EXCEPT ![f.session].stage = "prompting"]
  BY <1>1, <1>6, AllowReadKeeps
<1> QED BY <1>2, <1>3, <1>4, <1>5, <1>6

-----------------------------------------------------------------------------
LEMMA RpcInitInv == RpcInit => RpcIInv
<1> SUFFICES ASSUME RpcInit PROVE RpcIInv
  OBVIOUS
<1> USE DEF RpcInit
<1>1. In(stdin) = {} /\ In(stdout) = {} /\ DOMAIN stdin = {} /\ DOMAIN stdout = {}
  BY DEF In
<1>2. \A s \in Ids : work[s] = NoWork /\ ~Engaged(s)
  BY DEF Engaged, NoWork
<1>3. RpcTypeOK
  <2>1. /\ nextId \in 1..(MaxIds + 1) /\ garbled \in 0..MaxGarbled /\ 0 \in 0..MaxUpdates
        /\ NoTurn \in [pc : {"idle", "opening", "opened", "prompting", "done"}, id : Ids \cup {Unset},
                       session : Ids \cup {Unset}, collected : Seq(0..MaxUpdates)]
    BY RpcAssumption, NoTurnIs
  <2>2. work \in Works
    BY <2>1 DEF NoWork, Works
  <2> QED BY <2>1, <2>2 DEF RpcTypeOK, Works
<1>4. AnswerIsOwn
  BY DEF AnswerIsOwn
<1>5. FramesKnown
  BY <1>1, <1>2 DEF FramesKnown
<1>6. RequestsInOrder /\ OnePermission
  BY <1>1 DEF RequestsInOrder, OnePermission
<1>7. OnePrompt
  BY <1>2 DEF OnePrompt
<1>8. UpdatesCollected /\ TurnInStep /\ NoneLost
  BY NoTurnIs DEF UpdatesCollected, TurnInStep, NoneLost, Streaming
<1>9. NoGaps
  BY <1>1 DEF NoGaps
<1> QED BY <1>3, <1>4, <1>5, <1>6, <1>7, <1>8, <1>9 DEF RpcIInv

LEMMA RpcNextStep ==
    ASSUME RpcIInv, [RpcNext]_rpcVars
    PROVE  RpcIInv'
<1>1. CASE BeginTurn \/ Open \/ Prompt \/ Collect \/ Finish \/ Fail \/ DropTurn \/ DropListener
  BY <1>1, BeginTurnKeeps, OpenKeeps, PromptKeeps, CollectKeeps, FinishKeeps, FailKeeps,
     DropListenerKeeps
<1>2. CASE Route \/ EndDispatch \/ Serve \/ WriteFails
  BY <1>2, RouteKeeps, EndDispatchKeeps, ServeKeeps, WriteFailsKeeps
<1>3. CASE AgentReads \/ AgentGarbles \/ AgentExits
  BY <1>3, AgentReadsKeeps, GarblesKeeps, AgentExitsKeeps
<1>4. CASE \E s \in Ids : AgentUpdates(s) \/ AgentEnds(s)
  BY <1>4, UpdatesKeeps, EndsKeeps
<1>5. CASE UNCHANGED rpcVars
  <2>1. UNCHANGED <<stdout, answered, updates, rpcTurn, outcome, dispatching, stdin, work, nextId,
                    serving, pending, alive, writing, garbled, listeners>>
    BY <1>5 DEF rpcVars
  <2>2. UNCHANGED Wire
    BY <2>1 DEF Wire
  <2>3. AnswerIsOwn' /\ UpdatesCollected' /\ NoGaps' /\ NoneLost'
    BY <2>1, SameStreams
  <2>4. RpcTypeOK'
    BY <2>1 DEF RpcIInv, RpcTypeOK
  <2>5. TurnInStep'
    BY <2>1 DEF RpcIInv, TurnInStep, Waiting, Over, Untouched, Engaged, PromptSent, In, Made, About
  <2> QED BY <2>2, <2>3, <2>4, <2>5, QuietWire DEF RpcIInv
<1> QED BY <1>1, <1>2, <1>3, <1>4, <1>5 DEF RpcNext, AgentWorks

LEMMA RpcInvariance == RpcSpec => []RpcIInv
<1>1. RpcIInv /\ [RpcNext]_rpcVars => RpcIInv'
  BY RpcNextStep
<1> QED BY RpcInitInv, <1>1, PTL DEF RpcSpec

(* Every frame, id, session and count keeps its type; an id is parked at   *)
(* most until its oneshot received something (rpc.rs, session.rs).         *)
THEOREM RpcTypeCorrect == RpcSpec => []RpcTypeOK
<1>1. RpcIInv => RpcTypeOK
  BY DEF RpcIInv
<1> QED BY RpcInvariance, <1>1, PTL

(* A turn that ended well has every update of its prompt, in order and     *)
(* once (session.rs:157), whatever turns were dropped before it and        *)
(* whatever their sessions still print.                                    *)
THEOREM EveryUpdateCollected == RpcSpec => []UpdatesCollected
<1>1. RpcIInv => UpdatesCollected
  BY DEF RpcIInv
<1> QED BY RpcInvariance, <1>1, PTL

(* A request gets the agent's answer to itself (rpc.rs:194).               *)
THEOREM AnswersAreOwn == RpcSpec => []AnswerIsOwn
<1>1. RpcIInv => AnswerIsOwn
  BY DEF RpcIInv
<1> QED BY RpcInvariance, <1>1, PTL

(* A permission request of the agent is never answered twice, and never    *)
(* while the agent waits for nothing: the question, the task that serves   *)
(* it and the answer are one (rpc.rs:240).                                 *)
THEOREM PermissionAnsweredOnce == RpcSpec => []OnePermission
<1>1. RpcIInv => OnePermission
  BY DEF RpcIInv
<1> QED BY RpcInvariance, <1>1, PTL

(* While a turn streams, what it collected, what waits in its receiver and *)
(* what is on the pipe are the updates of its prompt without a gap.        *)
THEOREM StreamHasNoGap == RpcSpec => []NoneLost
<1>1. RpcIInv => NoneLost
  BY DEF RpcIInv
<1> QED BY RpcInvariance, <1>1, PTL

(* What a request was told stands: a later answer, or the end of the       *)
(* dispatch loop, does not overwrite it (rpc.rs:193).                      *)
THEOREM OutcomeStands ==
    RpcSpec => [][\A i \in Ids : outcome[i] # "none" => outcome'[i] = outcome[i]]_rpcVars
<1> DEFINE Stands == \A i \in Ids : outcome[i] # "none" => outcome'[i] = outcome[i]
<1>1. ASSUME RpcIInv, [RpcNext]_rpcVars PROVE [Stands]_rpcVars
  <2>1. RpcTypeOK
    BY <1>1 DEF RpcIInv
  <2>2. CASE Route
    <3>1. PICK f : Result(f) \/ Update(f) \/ Permission(f)
      BY <2>2 DEF Route
    <3>2. CASE Result(f)
      <4>1. \/ outcome' = outcome
            \/ f.id \in pending /\ outcome' = [outcome EXCEPT ![f.id] = f.kind]
        BY <3>2 DEF Result
      <4> QED BY <4>1, <2>1 DEF RpcTypeOK
    <3>3. CASE Update(f) \/ Permission(f)
      BY <3>3 DEF Update, Permission
    <3> QED BY <3>1, <3>2, <3>3
  <2>3. CASE EndDispatch
    <3>1. outcome' = [i \in Ids |-> IF i \in pending THEN "gone" ELSE outcome[i]]
      BY <2>3 DEF EndDispatch, FailPending
    <3> QED BY <3>1, <2>1 DEF RpcTypeOK
  <2>4. CASE BeginTurn \/ Open \/ Prompt \/ Collect \/ Finish \/ Fail \/ DropTurn \/ DropListener
    BY <2>4 DEF BeginTurn, Open, Prompt, Collect, Finish, Fail, DropTurn, DropListener
  <2>5. CASE Serve \/ WriteFails \/ AgentWorks \/ AgentGarbles \/ AgentExits
    BY <2>5 DEF Serve, WriteFails, AgentWorks, AgentReads, AgentUpdates, AgentEnds, AgentGarbles,
       AgentExits, AgentOnly, peer
  <2> QED BY <1>1, <2>2, <2>3, <2>4, <2>5 DEF RpcNext, rpcVars
<1> QED BY RpcInvariance, <1>1, PTL DEF RpcSpec

-----------------------------------------------------------------------------
(***************************************************************************)
(* Nothing is forgotten: as long as the agent lives and the dispatch loop  *)
(* runs, a parked request is at one of the places where a step takes it    *)
(* on (with the writer, with the agent, or answered on stdout), and so is  *)
(* the permission that the agent waits for.                                *)
(***************************************************************************)
Requested(i) == \E f \in In(stdin) : f.kind # "allow" /\ f.id = i
AtWork(i) == \E s \in Ids : Engaged(s) /\ work[s].prompt = i
Settled(i) == \E f \in In(stdout) : f.kind \in {"result", "error"} /\ f.id = i
Asked(s) == \E f \in In(stdout) : f.kind = "ask" /\ f.id = s
Allowed(s) == \E f \in In(stdin) : f.kind = "allow" /\ f.session = s

RequestHeld(i) == Requested(i) \/ AtWork(i) \/ Settled(i)
PermissionHeld(s) == Asked(s) \/ s \in serving \/ Allowed(s)

NoneForgotten ==
    /\ ~writing => ~alive
    /\ alive /\ dispatching =>
          /\ \A i \in pending : RequestHeld(i)
          /\ \A s \in Ids : work[s].stage = "asking" => PermissionHeld(s)

(* Nothing is taken away: everything is held where it was.                 *)
LEMMA HeldOn ==
    ASSUME NoneForgotten, writing' = writing,
           alive' => alive, dispatching' => dispatching,
           In(stdin) \subseteq In(stdin'), In(stdout) \subseteq In(stdout'),
           serving \subseteq serving', UNCHANGED work, pending' \subseteq pending
    PROVE  NoneForgotten'
BY DEF NoneForgotten, RequestHeld, PermissionHeld, Requested, AtWork, Settled, Asked, Allowed,
   Engaged

LEMMA TurnHolds ==
    ASSUME NoneForgotten,
           Open \/ Collect \/ Finish \/ Fail \/ DropTurn \/ DropListener \/ UNCHANGED rpcVars
    PROVE  NoneForgotten'
<1>1. UNCHANGED <<alive, stdin, stdout, writing, dispatching, pending, serving, work>>
  BY DEF Open, Collect, Finish, Fail, DropTurn, DropListener, rpcVars, agent
<1> QED BY <1>1, HeldOn DEF In

(* A new request is parked only with its frame on the way.                 *)
LEMMA RequestHolds ==
    ASSUME RpcIInv, NoneForgotten, NEW kind \in {"new", "prompt"}, NEW s \in Ids \cup {Unset},
           RpcRequest(kind, s),
           UNCHANGED <<alive, stdout, writing, dispatching, serving, work>>
    PROVE  NoneForgotten'
<1>1. CASE ~writing
  BY <1>1 DEF NoneForgotten
<1>2. CASE writing
  <2> DEFINE f == [kind |-> kind, id |-> nextId, session |-> s]
  <2>1. f \in ToAgent /\ f.kind # "allow" /\ f.id = nextId
    BY DEF RpcRequest, ToAgent
  <2>2. stdin' = Append(stdin, f) /\ pending' = pending \cup {nextId}
    BY <1>2 DEF RpcRequest
  <2>3. stdin \in Seq(ToAgent)
    BY DEF RpcIInv, RpcTypeOK
  <2>4. In(Append(stdin, f)) = In(stdin) \cup {f}
    BY <2>1, <2>3, Appended
  <2>5. In(stdin)' = In(stdin) \cup {f} /\ In(stdout)' = In(stdout)
    BY <2>2, <2>4 DEF In
  <2> HIDE DEF f
  <2>6. ASSUME alive', dispatching', NEW i \in pending'
        PROVE  RequestHeld(i)'
    <3>1. CASE i = nextId
      BY <3>1, <2>1, <2>5 DEF RequestHeld, Requested
    <3>2. CASE i \in pending
      <4>1. RequestHeld(i)
        BY <3>2, <2>6 DEF NoneForgotten
      <4> QED BY <4>1, <2>5 DEF RequestHeld, Requested, AtWork, Settled, Engaged
    <3> QED BY <3>1, <3>2, <2>2
  <2>7. ASSUME alive', dispatching', NEW t \in Ids, work'[t].stage = "asking"
        PROVE  PermissionHeld(t)'
    BY <2>5, <2>7 DEF NoneForgotten, PermissionHeld, Asked, Allowed
  <2> QED BY <2>6, <2>7, <1>2 DEF NoneForgotten
<1> QED BY <1>1, <1>2

LEMMA BeginHolds ==
    ASSUME RpcIInv, NoneForgotten, BeginTurn \/ Prompt
    PROVE  NoneForgotten'
<1>1. UNCHANGED <<alive, stdout, writing, dispatching, serving, work>>
  BY DEF BeginTurn, Prompt, agent
<1>2. CASE BeginTurn
  <2>1. RpcRequest("new", Unset)
    BY <1>2 DEF BeginTurn
  <2> QED BY <1>1, <2>1, RequestHolds
<1>3. CASE Prompt
  <2>1. RpcRequest("prompt", rpcTurn.session) /\ rpcTurn.session \in Ids \cup {Unset}
    BY <1>3 DEF Prompt, RpcIInv, RpcTypeOK
  <2> QED BY <1>1, <2>1, RequestHolds
<1> QED BY <1>2, <1>3

(* An answer that is taken from stdout takes its id from the map; a        *)
(* question that is taken from there is served.                            *)
LEMMA RouteHolds ==
    ASSUME RpcIInv, NoneForgotten, Route
    PROVE  NoneForgotten'
<1>1. PICK f : f = Head(stdout) /\ (Result(f) \/ Update(f) \/ Permission(f))
  BY DEF Route
<1>2. /\ stdout # <<>> /\ stdout' = Tail(stdout)
      /\ UNCHANGED <<alive, stdin, writing, dispatching, work>>
  BY DEF Route, agent
<1>3. In(stdout) = {f} \cup In(stdout)' /\ In(stdin)' = In(stdin)
  <2>1. stdout \in Seq(FromAgent)
    BY DEF RpcIInv, RpcTypeOK
  <2>2. In(stdout) = {Head(stdout)} \cup In(Tail(stdout))
    BY <1>2, <2>1, TailOf
  <2> QED BY <1>1, <1>2, <2>2 DEF In
<1>4. /\ pending' \subseteq pending /\ serving \subseteq serving'
      /\ f.kind \in {"result", "error"} => f.id \notin pending'
      /\ f.kind = "ask" => f.id \in serving'
  BY <1>1 DEF Result, Update, Permission
<1>5. ASSUME alive', dispatching', NEW i \in pending'
      PROVE  RequestHeld(i)'
  <2>1. RequestHeld(i)
    BY <1>2, <1>4, <1>5 DEF NoneForgotten
  <2> QED BY <2>1, <1>2, <1>3, <1>4 DEF RequestHeld, Requested, AtWork, Settled, Engaged
<1>6. ASSUME alive', dispatching', NEW t \in Ids, work'[t].stage = "asking"
      PROVE  PermissionHeld(t)'
  <2>1. PermissionHeld(t)
    BY <1>2, <1>6 DEF NoneForgotten
  <2> QED BY <2>1, <1>2, <1>3, <1>4 DEF PermissionHeld, Asked, Allowed
<1> QED BY <1>2, <1>5, <1>6 DEF NoneForgotten

(* The answer to a question goes to the writer.                            *)
LEMMA ServeHolds ==
    ASSUME RpcIInv, NoneForgotten, Serve
    PROVE  NoneForgotten'
<1>1. PICK s \in serving :
         /\ serving' = serving \ {s}
         /\ stdin' = IF writing THEN Append(stdin, [kind |-> "allow", id |-> s, session |-> s])
                                ELSE stdin
  BY DEF Serve
<1>2. UNCHANGED <<alive, stdout, writing, dispatching, work, pending>>
  BY DEF Serve, agent, peer
<1>3. CASE ~writing
  BY <1>2, <1>3 DEF NoneForgotten
<1>4. CASE writing
  <2> DEFINE f == [kind |-> "allow", id |-> s, session |-> s]
  <2>1. s \in Ids /\ stdin \in Seq(ToAgent)
    BY DEF RpcIInv, RpcTypeOK
  <2>2. f \in ToAgent /\ f.kind = "allow" /\ f.session = s
    BY <2>1 DEF ToAgent
  <2>3. stdin' = Append(stdin, f)
    BY <1>1, <1>4
  <2>4. In(Append(stdin, f)) = In(stdin) \cup {f}
    BY <2>1, <2>2, Appended
  <2>5. In(stdin)' = In(stdin) \cup {f} /\ In(stdout)' = In(stdout)
    BY <1>2, <2>3, <2>4 DEF In
  <2> HIDE DEF f
  <2>6. ASSUME alive', dispatching', NEW i \in pending'
        PROVE  RequestHeld(i)'
    BY <2>5, <2>6, <1>2 DEF NoneForgotten, RequestHeld, Requested, AtWork, Settled, Engaged
  <2>7. ASSUME alive', dispatching', NEW t \in Ids, work'[t].stage = "asking"
        PROVE  PermissionHeld(t)'
    <3>1. PermissionHeld(t)
      BY <2>7, <1>2 DEF NoneForgotten
    <3> QED BY <3>1, <2>2, <2>5, <1>1 DEF PermissionHeld, Asked, Allowed
  <2> QED BY <2>6, <2>7, <1>4, <1>2 DEF NoneForgotten
<1> QED BY <1>3, <1>4

(* The agent takes a request into its work, or answers it.                 *)
LEMMA ReadHolds ==
    ASSUME RpcIInv, NoneForgotten, AgentReads
    PROVE  NoneForgotten'
<1>0. RpcTypeOK /\ FramesKnown /\ RequestsInOrder /\ OnePermission
  BY DEF RpcIInv
<1>1. PICK f : f = Head(stdin)
  OBVIOUS
<1>2. /\ alive /\ stdin # <<>> /\ stdin' = Tail(stdin)
      /\ UNCHANGED <<alive, writing, dispatching, pending, serving>>
  BY DEF AgentReads, peer
<1>3. f \in In(stdin) /\ In(stdin) = {f} \cup In(stdin)' /\ f \in ToAgent
  <2>1. stdin \in Seq(ToAgent)
    BY <1>0 DEF RpcTypeOK
  <2>2. /\ In(stdin) = {Head(stdin)} \cup In(Tail(stdin))
        /\ Head(stdin) \in In(stdin) /\ Head(stdin) \in ToAgent
    BY <1>2, <2>1, TailOf
  <2> QED BY <1>1, <1>2, <2>2 DEF In
<1>4. ASSUME dispatching, f.kind # "allow", In(stdout) \subseteq In(stdout)',
             \A t \in Ids : work[t].stage = "asking" <=> work'[t].stage = "asking",
             \A t \in Ids : Engaged(t) => Engaged(t)' /\ work'[t].prompt = work[t].prompt,
             AtWork(f.id)' \/ Settled(f.id)'
      PROVE  NoneForgotten'
  <2>1. ASSUME NEW i \in pending' PROVE RequestHeld(i)'
    <3>1. RequestHeld(i)
      BY <1>2, <1>4, <2>1 DEF NoneForgotten
    <3>2. CASE Requested(i)
      BY <3>2, <1>3, <1>4 DEF RequestHeld, Requested
    <3>3. CASE AtWork(i)
      BY <3>3, <1>4 DEF RequestHeld, AtWork
    <3>4. CASE Settled(i)
      BY <3>4, <1>4 DEF RequestHeld, Settled
    <3> QED BY <3>1, <3>2, <3>3, <3>4 DEF RequestHeld
  <2>2. ASSUME NEW t \in Ids, work'[t].stage = "asking" PROVE PermissionHeld(t)'
    <3>1. PermissionHeld(t)
      BY <1>2, <1>4, <2>2 DEF NoneForgotten
    <3> QED BY <3>1, <1>2, <1>3, <1>4 DEF PermissionHeld, Asked, Allowed
  <2> QED BY <1>2, <2>1, <2>2 DEF NoneForgotten
<1>5. CASE ~dispatching
  BY <1>2, <1>5 DEF NoneForgotten
<1>6. CASE dispatching /\ f.kind = "new"
  <2>1. f.id \in Ids /\ f.id \notin answered /\ work[f.id] = NoWork
    BY <1>0, <1>3, <1>6 DEF RequestsInOrder, FramesKnown, ToAgent
  <2>2. \/ UNCHANGED work
        \/ work' = [work EXCEPT ![f.id].stage = "open"]
    BY <1>1, <1>6 DEF AgentReads
  <2>3. \A t \in Ids : /\ work[t].stage = "asking" <=> work'[t].stage = "asking"
                       /\ Engaged(t) => Engaged(t)' /\ work'[t].prompt = work[t].prompt
    <3>1. CASE UNCHANGED work
      BY <3>1 DEF Engaged
    <3>2. CASE work' = [work EXCEPT ![f.id].stage = "open"]
      <4>1. ~Engaged(f.id) /\ work[f.id].stage # "asking"
        BY <2>1 DEF Engaged, NoWork
      <4>2. work'[f.id].stage = "open"
        BY <3>2, <2>1, <1>0, WorksIs DEF Works
      <4>3. \A t \in Ids : t # f.id => work'[t] = work[t]
        BY <3>2, <1>0, WorksIs DEF Works
      <4> QED BY <4>1, <4>2, <4>3 DEF Engaged
    <3> QED BY <2>2, <3>1, <3>2
  <2>4. \/ Printed(<<Refusal(f.id)>>)
        \/ Printed(<<Answer(f.id)>>)
        \/ Printed(<<Answer(f.id), Updated(f.id, 0)>>)
    BY <1>1, <1>6 DEF AgentReads
  <2>5. /\ Refusal(f.id) \in FromAgent /\ Answer(f.id) \in FromAgent
        /\ Updated(f.id, 0) \in FromAgent
    BY <2>1, RpcAssumption DEF FromAgent, Refusal, Answer, Updated
  <2>6. /\ In(stdout) \subseteq In(stdout)'
        /\ Refusal(f.id) \in In(stdout)' \/ Answer(f.id) \in In(stdout)'
    BY <1>0, <1>6, <2>4, <2>5, PrintedOne, PrintedTwo DEF In
  <2>7. Settled(f.id)' /\ In(stdout) \subseteq In(stdout)'
    BY <2>6 DEF Settled, Refusal, Answer
  <2> QED BY <1>4, <1>6, <2>3, <2>7
<1>7. CASE dispatching /\ f.kind = "prompt"
  <2>1. f.session \in Ids /\ ~Engaged(f.session)
    BY <1>0, <1>3, <1>7, TurnIs DEF RequestsInOrder
  <2>2. /\ work' = [work EXCEPT ![f.session].stage = "prompting", ![f.session].prompt = f.id]
        /\ UNCHANGED stdout
    BY <1>1, <1>7 DEF AgentReads
  <2>3. /\ work'[f.session].stage = "prompting" /\ work'[f.session].prompt = f.id
        /\ \A t \in Ids : t # f.session => work'[t] = work[t]
    BY <2>1, <2>2, <1>0, WorksIs DEF Works
  <2>4. AtWork(f.id)'
    BY <2>1, <2>3 DEF AtWork, Engaged
  <2>5. \A t \in Ids : /\ work[t].stage = "asking" <=> work'[t].stage = "asking"
                       /\ Engaged(t) => Engaged(t)' /\ work'[t].prompt = work[t].prompt
    BY <2>1, <2>3 DEF Engaged
  <2>6. In(stdout)' = In(stdout)
    BY <2>2 DEF In
  <2> QED BY <1>4, <1>7, <2>4, <2>5, <2>6
<1>8. CASE dispatching /\ f.kind = "allow"
  <2>1. f.session \in Ids /\ Engaged(f.session)
    <3>1. f.session \in Made
      BY <1>0, <1>3, <1>8 DEF FramesKnown
    <3>2. work[f.session].stage = "asking"
      BY <1>0, <1>3, <1>8 DEF OnePermission, In
    <3> QED BY <1>0, <3>1, <3>2, TurnIs DEF Engaged
  <2>2. work' = [work EXCEPT ![f.session].stage = "prompting"] /\ UNCHANGED stdout
    BY <1>1, <1>8 DEF AgentReads
  <2>3. /\ work'[f.session].stage = "prompting" /\ work'[f.session].prompt = work[f.session].prompt
        /\ \A t \in Ids : t # f.session => work'[t] = work[t]
    BY <2>1, <2>2, <1>0, WorksIs DEF Works
  <2>4. In(stdout)' = In(stdout)
    BY <2>2 DEF In
  <2>5. ASSUME NEW i \in pending' PROVE RequestHeld(i)'
    <3>1. RequestHeld(i)
      BY <1>2, <1>8, <2>5 DEF NoneForgotten
    <3>2. AtWork(i) => AtWork(i)'
      BY <2>3 DEF AtWork, Engaged
    <3> QED BY <3>1, <3>2, <1>3, <1>8, <2>4 DEF RequestHeld, Requested, Settled
  <2>6. ASSUME NEW t \in Ids, work'[t].stage = "asking" PROVE PermissionHeld(t)'
    <3>1. t # f.session /\ work[t].stage = "asking"
      BY <2>3, <2>6
    <3>2. PermissionHeld(t)
      BY <1>2, <1>8, <3>1 DEF NoneForgotten
    <3> QED BY <3>1, <3>2, <1>2, <1>3, <2>4 DEF PermissionHeld, Asked, Allowed
  <2> QED BY <1>2, <2>5, <2>6 DEF NoneForgotten
<1> QED BY <1>3, <1>5, <1>6, <1>7, <1>8 DEF ToAgent

(* A question is printed with the step that makes the agent wait.          *)
LEMMA UpdatesHolds ==
    ASSUME RpcIInv, NoneForgotten, NEW s \in Ids, AgentUpdates(s)
    PROVE  NoneForgotten'
<1>0. RpcTypeOK
  BY DEF RpcIInv
<1>1. /\ alive /\ work[s].stage = "prompting" /\ work[s].emitted < MaxUpdates
      /\ UNCHANGED <<alive, stdin, writing, dispatching, pending, serving>>
  BY DEF AgentUpdates, AgentOnly, Working, peer
<1>2. CASE ~dispatching
  BY <1>1, <1>2 DEF NoneForgotten
<1>3. CASE dispatching
  <2> DEFINE n == work[s].emitted + 1
             ask == [kind |-> "ask", id |-> s]
  <2>1. Updated(s, n) \in FromAgent /\ ask \in FromAgent
    BY <1>0, <1>1, TurnIs DEF FromAgent, Updated
  <2>2. \/ work' = [work EXCEPT ![s].emitted = n] /\ Printed(<<Updated(s, n)>>)
        \/ /\ work' = [work EXCEPT ![s].emitted = n, ![s].stage = "asking"]
           /\ Printed(<<Updated(s, n), ask>>)
    BY DEF AgentUpdates
  <2>3. /\ work'[s].prompt = work[s].prompt /\ work'[s].stage \in {"prompting", "asking"}
        /\ \A t \in Ids : t # s => work'[t] = work[t]
    BY <1>0, <1>1, <2>2, WorksIs DEF Works
  <2>4. In(stdout) \subseteq In(stdout)'
    BY <1>0, <2>1, <2>2, PrintedOne, PrintedTwo DEF In
  <2>5. work'[s].stage = "asking" => ask \in In(stdout)'
    <3>1. CASE work' = [work EXCEPT ![s].emitted = n]
      BY <3>1, <1>0, <1>1, WorksIs DEF Works
    <3>2. CASE Printed(<<Updated(s, n), ask>>)
      <4>1. stdout \in Seq(FromAgent)
        BY <1>0 DEF RpcTypeOK
      <4>2. stdout' = stdout \o <<Updated(s, n), ask>>
        BY <3>2, <1>3 DEF Printed
      <4> HIDE DEF n, ask
      <4>3. /\ Len(stdout) + 2 \in DOMAIN (stdout \o <<Updated(s, n), ask>>)
            /\ (stdout \o <<Updated(s, n), ask>>)[Len(stdout) + 2] = ask
        BY <4>1
      <4> QED BY <4>2, <4>3 DEF In
    <3> QED BY <2>2, <3>1, <3>2
  <2>6. ASSUME NEW i \in pending' PROVE RequestHeld(i)'
    <3>1. RequestHeld(i)
      BY <1>1, <1>3, <2>6 DEF NoneForgotten
    <3>2. AtWork(i) => AtWork(i)'
      BY <2>3 DEF AtWork, Engaged
    <3>3. In(stdin)' = In(stdin)
      BY <1>1 DEF In
    <3> QED BY <3>1, <3>2, <3>3, <2>4 DEF RequestHeld, Requested, Settled
  <2>7. ASSUME NEW t \in Ids, work'[t].stage = "asking" PROVE PermissionHeld(t)'
    <3>1. CASE t = s
      BY <3>1, <2>5, <2>7 DEF PermissionHeld, Asked
    <3>2. CASE t # s
      <4>1. PermissionHeld(t)
        BY <3>2, <2>3, <2>7, <1>1, <1>3 DEF NoneForgotten
      <4>2. In(stdin)' = In(stdin)
        BY <1>1 DEF In
      <4> QED BY <4>1, <4>2, <2>4, <1>1 DEF PermissionHeld, Asked, Allowed
    <3> QED BY <3>1, <3>2
  <2> QED BY <1>1, <2>6, <2>7 DEF NoneForgotten
<1> QED BY <1>2, <1>3

(* The prompt that ends is answered.                                       *)
LEMMA EndsHolds ==
    ASSUME RpcIInv, NoneForgotten, NEW s \in Ids, AgentEnds(s)
    PROVE  NoneForgotten'
<1>0. RpcTypeOK /\ FramesKnown
  BY DEF RpcIInv
<1>1. /\ alive /\ work[s].stage = "prompting" /\ work' = [work EXCEPT ![s].stage = "none"]
      /\ UNCHANGED <<alive, stdin, writing, dispatching, pending, serving>>
  BY DEF AgentEnds, AgentOnly, Working, peer
<1>2. CASE ~dispatching
  BY <1>1, <1>2 DEF NoneForgotten
<1>3. CASE dispatching
  <2> DEFINE p == work[s].prompt
  <2>1. p \in Ids
    BY <1>0, <1>1, TurnIs DEF FramesKnown, Engaged
  <2>2. PICK end \in {Answer(p), Refusal(p)} : Printed(<<end>>)
    BY DEF AgentEnds
  <2>3. end \in FromAgent /\ end.kind \in {"result", "error"} /\ end.id = p
    BY <2>1, <2>2 DEF FromAgent, Answer, Refusal
  <2>4. end \in In(stdout)' /\ In(stdout) \subseteq In(stdout)'
    BY <1>0, <1>3, <2>2, <2>3, PrintedOne DEF In
  <2>5. work'[s].stage = "none" /\ \A t \in Ids : t # s => work'[t] = work[t]
    BY <1>0, <1>1, WorksIs DEF Works
  <2>6. In(stdin)' = In(stdin)
    BY <1>1 DEF In
  <2>7. ASSUME NEW i \in pending' PROVE RequestHeld(i)'
    <3>1. RequestHeld(i)
      BY <1>1, <1>3, <2>7 DEF NoneForgotten
    <3>2. AtWork(i) => AtWork(i)' \/ Settled(i)'
      BY <2>3, <2>4, <2>5 DEF AtWork, Engaged, Settled
    <3> QED BY <3>1, <3>2, <2>4, <2>6 DEF RequestHeld, Requested, Settled
  <2>8. ASSUME NEW t \in Ids, work'[t].stage = "asking" PROVE PermissionHeld(t)'
    <3>1. PermissionHeld(t)
      BY <2>5, <2>8, <1>1, <1>3 DEF NoneForgotten
    <3> QED BY <3>1, <2>4, <2>6, <1>1 DEF PermissionHeld, Asked, Allowed
  <2> QED BY <1>1, <2>7, <2>8 DEF NoneForgotten
<1> QED BY <1>2, <1>3

LEMMA GarblesHolds ==
    ASSUME RpcIInv, NoneForgotten, AgentGarbles
    PROVE  NoneForgotten'
<1>1. Printed(<<[kind |-> "garbled"]>>) /\ [kind |-> "garbled"] \in FromAgent
  BY DEF AgentGarbles, FromAgent
<1>2. In(stdout) \subseteq In(stdout')
  BY <1>1, PrintedOne DEF RpcIInv
<1>3. UNCHANGED <<alive, stdin, writing, dispatching, pending, serving, work>>
  BY DEF AgentGarbles, AgentOnly, peer
<1> QED BY <1>2, <1>3, HeldOn DEF In

LEMMA InHandStep ==
    ASSUME RpcIInv, NoneForgotten, [RpcNext]_rpcVars
    PROVE  NoneForgotten'
<1>1. CASE Open \/ Collect \/ Finish \/ Fail \/ DropTurn \/ DropListener \/ UNCHANGED rpcVars
  BY <1>1, TurnHolds
<1>2. CASE BeginTurn \/ Prompt \/ Route \/ Serve
  BY <1>2, BeginHolds, RouteHolds, ServeHolds
<1>3. CASE EndDispatch \/ WriteFails \/ AgentExits
  <2>1. CASE EndDispatch
    BY <2>1 DEF EndDispatch, agent, NoneForgotten
  <2>2. CASE WriteFails
    BY <2>2 DEF WriteFails, agent, NoneForgotten
  <2>3. CASE AgentExits
    BY <2>3 DEF AgentExits, NoneForgotten
  <2> QED BY <1>3, <2>1, <2>2, <2>3
<1>4. CASE AgentReads \/ AgentGarbles
  BY <1>4, ReadHolds, GarblesHolds
<1>5. CASE \E s \in Ids : AgentUpdates(s) \/ AgentEnds(s)
  BY <1>5, UpdatesHolds, EndsHolds
<1> QED BY <1>1, <1>2, <1>3, <1>4, <1>5 DEF RpcNext, AgentWorks

(* A request that is parked while the agent lives and the dispatch loop    *)
(* runs is never forgotten: its frame is on the way, or the agent works on *)
(* it, or its answer is on stdout; and an agent that waits for permission  *)
(* has its question on the way, with a task, or answered (rpc.rs:154).     *)
THEOREM NothingForgotten == RpcSpec => []NoneForgotten
<1>1. RpcInit => NoneForgotten
  BY DEF RpcInit, NoneForgotten, NoWork
<1>2. RpcIInv /\ NoneForgotten /\ [RpcNext]_rpcVars => NoneForgotten'
  BY InHandStep
<1> QED BY <1>1, <1>2, RpcInvariance, PTL DEF RpcSpec

(* So the wait for an answer can always go on: while a request is parked   *)
(* and the dispatch loop runs, either the loop can take a line or end, or  *)
(* the agent can read or end a prompt, or a task can answer its question.  *)
THEOREM WaitGoesOn ==
    RpcSpec => []((dispatching /\ pending # {}) =>
                    \/ stdout # <<>> \/ ~alive
                    \/ stdin # <<>> \/ \E s \in Ids : Working(s)
                    \/ serving # {})
<1> DEFINE GoesOn == (dispatching /\ pending # {}) =>
                        \/ stdout # <<>> \/ ~alive
                        \/ stdin # <<>> \/ \E s \in Ids : Working(s)
                        \/ serving # {}
<1>1. ASSUME NoneForgotten, dispatching, pending # {}, alive, stdout = <<>>, stdin = <<>>, serving = {}
      PROVE  \E s \in Ids : Working(s)
  <2>1. In(stdin) = {} /\ In(stdout) = {}
    BY <1>1 DEF In
  <2>2. PICK i \in pending : RequestHeld(i)
    BY <1>1 DEF NoneForgotten
  <2>3. PICK s \in Ids : Engaged(s)
    BY <2>1, <2>2 DEF RequestHeld, Requested, Settled, AtWork
  <2>4. ~PermissionHeld(s)
    BY <1>1, <2>1 DEF PermissionHeld, Asked, Allowed
  <2> QED BY <1>1, <2>3, <2>4 DEF NoneForgotten, Engaged, Working
<1>2. NoneForgotten => GoesOn
  BY <1>1
<1> QED BY <1>2, NothingForgotten, PTL

=============================================================================
