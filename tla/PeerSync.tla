------------------------------ MODULE PeerSync ------------------------------
(***************************************************************************)
(* The peer registry of every machine and the pull that spreads it.        *)
(*                                                                         *)
(* Each daemon keeps a table of peers.  Agents are registered in the table *)
(* of the machine they run on, their home; every minute a daemon asks the  *)
(* other machines it knows which of their agents can be reached, deletes   *)
(* the rows of that host which the answer no longer names, and merges the  *)
(* answer.  A verified message from a peer also writes a row (zero-touch). *)
(*                                                                         *)
(* A row is keyed by its alias, which is UNIQUE; its gen tells the keys an *)
(* alias has had apart, so <<alias, gen>> stands for the eth address and   *)
(* the public key.  Host, transport URL and GUI URL are one: a machine.    *)
(* The branch for local ACP agents is left out: for a row at this          *)
(* machine's own address it advertises what the homed branch advertises.   *)
(* Roles travel with the display name and are left out.                    *)
(***************************************************************************)
EXTENDS Naturals, Sequences, FiniteSets

CONSTANTS
    Machines,       \* one daemon each; also the alias of its own identity
    Agents,         \* aliases of agents
    Home,           \* the machine an agent runs on
    Registered,     \* agents that are registered already, under their first key
    Unknown,        \* the placeholder address http://unknown
    Bootstrap,      \* XGRAM_PEER_BOOTSTRAP_URLS of each machine
    PublicUrl,      \* machines with XGRAM_TRANSPORT_PUBLIC_URL set
    HintLess,       \* machines whose envelopes carry no transport URL
    NoRow,          \* no row for an alias
    Names,          \* bound: display names the operators give
    Named,          \* bound: aliases they give names and sessions to
    Senders,        \* bound: aliases whose messages, or the operators, write rows
    MaxChanges      \* bound: changes other than the pulls themselves

Aliases == Machines \cup Agents

Row == [gen : Nat, addr : Machines \cup {Unknown}, session : BOOLEAN, name : Nat]

ASSUME PeerSyncAssumption ==
    /\ IsFiniteSet(Machines) /\ IsFiniteSet(Agents)
    /\ Machines \cap Agents = {}
    /\ Home \in [Agents -> Machines] /\ Registered \subseteq Agents
    /\ Bootstrap \in [Machines -> SUBSET Machines]
    /\ PublicUrl \subseteq Machines /\ HintLess \subseteq Machines
    /\ Unknown \notin Machines
    /\ NoRow \notin Row
    /\ Names \subseteq Nat \ {0}              \* 0: no name
    /\ Named \subseteq Aliases /\ Senders \subseteq Aliases /\ MaxChanges \in Nat

HomeOf(a) == IF a \in Machines THEN a ELSE Home[a]

VARIABLES
    rows,       \* the peers table of each machine
    key,        \* the key the home's keystore holds for an alias
    live,       \* agents whose tmux session runs, each on its home
    enabled,    \* agent_capabilities.messenger_enabled, at the home
    tick,       \* the pull each daemon is in
    changes,    \* how many changes there have been
    disturbed   \* history: somebody wrote a row during the pull of a machine

vars == <<rows, key, live, enabled, tick, changes, disturbed>>

Idle == [todo |-> {}, base |-> Unknown, got |-> {}, left |-> <<>>]

Known(m) == {a \in Aliases : rows[m][a] # NoRow}

(* Mutant: the answer is merged before the tombstones make room for it.    *)
MergeFirst == <<"merge", "prune">>

(* What one pull does with an answer, in this order: the tombstones first, *)
(* so that an alias which has a new key is free when the answer is merged. *)
Stages == <<"prune", "merge">>

Advert == [alias : Aliases, gen : Nat, addr : Machines, session : BOOLEAN, name : Nat]

(* Between two pulls nothing is left of the answer to the last one.         *)
TypeOK ==
    /\ rows \in [Machines -> [Aliases -> Row \cup {NoRow}]]
    /\ key \in [Aliases -> Nat]
    /\ live \subseteq Agents /\ enabled \subseteq Agents
    /\ tick \in [Machines -> [todo : SUBSET Machines, base : Machines \cup {Unknown},
                              got : SUBSET Advert, left : Seq({"prune", "merge"})]]
    /\ \A m \in Machines : tick[m].left = <<>> => tick[m].base = Unknown /\ tick[m].got = {}
    /\ changes \in Nat
    /\ disturbed \in [Machines -> BOOLEAN]

Fresh(g, m) == [gen |-> g, addr |-> m, session |-> FALSE, name |-> 0]

(* Every daemon has its own identity in its table, which the operator or   *)
(* the installation put there, and the agents registered so far; nobody    *)
(* knows anybody else.                                                     *)
Init ==
    /\ rows = [m \in Machines |-> [a \in Aliases |->
                  IF a \in Machines \cup Registered /\ HomeOf(a) = m THEN Fresh(0, m) ELSE NoRow]]
    /\ key = [a \in Aliases |-> 0]
    /\ live = {} /\ enabled = Registered
    /\ tick = [m \in Machines |-> Idle]
    /\ changes = 0
    /\ disturbed = [m \in Machines |-> FALSE]

Change == changes < MaxChanges /\ changes' = changes + 1

(* Mutant: every row with an address is passed on.                         *)
PassesOn(m, a) == a \in Known(m) /\ rows[m][a].addr # Unknown

(***************************************************************************)
(* What GET /v1/peers/reachable of machine m answers: its own identity,    *)
(* the agents whose session runs here, and the rows without a session      *)
(* whose address is this machine's.                                        *)
(***************************************************************************)
HomedHere(m, a) == rows[m][a].addr = m

Advertises(m, a) ==
    /\ a \in Known(m)
    /\ rows[m][a].addr # Unknown
    /\ \/ a = m
       \/ rows[m][a].session /\ a \in live /\ HomeOf(a) = m
       \/ ~rows[m][a].session /\ HomedHere(m, a)

AdvertOf(m, a) ==
    [alias |-> a, gen |-> rows[m][a].gen, session |-> rows[m][a].session,
     name |-> rows[m][a].name, addr |-> IF a = m THEN m ELSE rows[m][a].addr]

Answer(m) == {AdvertOf(m, a) : a \in {b \in Aliases : Advertises(m, b)}}

(* Mutant: a daemon asks itself too.                                       *)
AsksItself(m) == {}

(* Whom a daemon asks: the addresses in its table and the ones it was      *)
(* given, without its own, which only the environment tells it.            *)
SelfHosts(m) == {m} \cap PublicUrl

Candidates(m) ==
    (({rows[m][a].addr : a \in Known(m)} \cup Bootstrap[m]) \ {Unknown}) \ SelfHosts(m)

(***************************************************************************)
(* The pull.  sync_tick_once takes the candidates once and asks one after  *)
(* the other; the answer is merged some time after it was given, and other *)
(* connections to the database write in between.                           *)
(***************************************************************************)
StartTick(m) ==
    /\ tick[m] = Idle
    /\ Candidates(m) # {}
    /\ tick' = [tick EXCEPT ![m].todo = Candidates(m)]
    /\ UNCHANGED <<rows, key, live, enabled, changes, disturbed>>

Pull(m, b) ==
    /\ tick[m].left = <<>> /\ b \in tick[m].todo
    /\ tick' = [tick EXCEPT ![m] = [todo |-> @.todo \ {b}, base |-> b,
                                    got |-> Answer(b), left |-> Stages]]
    /\ disturbed' = [disturbed EXCEPT ![m] = FALSE]
    /\ UNCHANGED <<rows, key, live, enabled, changes>>

(* Mutant: no answer is taken for an empty one.                            *)
FailsAsEmpty(m, b) ==
    /\ tick[m].left = <<>> /\ b \in tick[m].todo
    /\ tick' = [tick EXCEPT ![m] = [todo |-> @.todo \ {b}, base |-> b,
                                    got |-> {}, left |-> Stages]]
    /\ UNCHANGED <<rows, key, live, enabled, changes, disturbed>>

(* No answer within 3 s, or an error: nothing is pruned.                   *)
PullFails(m, b) ==
    /\ tick[m].left = <<>> /\ b \in tick[m].todo
    /\ tick' = [tick EXCEPT ![m].todo = @ \ {b}]
    /\ UNCHANGED <<rows, key, live, enabled, changes, disturbed>>

Next1(m) ==
    IF Tail(tick[m].left) = <<>>
    THEN [tick[m] EXCEPT !.base = Unknown, !.got = {}, !.left = <<>>]
    ELSE [tick[m] EXCEPT !.left = Tail(@)]

(* Mutant: a row that is bound to a session passes for one of ours.         *)
AbsentUnbound(m, a) ==
    /\ a # m /\ a \in Known(m)
    /\ rows[m][a].addr = tick[m].base /\ ~rows[m][a].session
    /\ ~\E d \in tick[m].got : d.alias = a /\ d.gen = rows[m][a].gen

(* A row of the asked host which the answer does not name.                 *)
Absent(m, a) ==
    /\ a # m /\ a \in Known(m)
    /\ rows[m][a].addr = tick[m].base
    /\ ~\E d \in tick[m].got : d.alias = a /\ d.gen = rows[m][a].gen

Prune(m) ==
    /\ tick[m].left # <<>> /\ Head(tick[m].left) = "prune"
    /\ rows' = [rows EXCEPT ![m] = [a \in Aliases |-> IF Absent(m, a) THEN NoRow ELSE @[a]]]
    /\ tick' = [tick EXCEPT ![m] = Next1(m)]
    /\ UNCHANGED <<key, live, enabled, changes, disturbed>>

(* upsert_announce: the same key updates its row, a new alias is inserted, *)
(* another key under a taken alias breaks UNIQUE and changes nothing.      *)
Upsert(row, d) ==
    IF row = NoRow
    THEN Fresh(d.gen, d.addr)
    ELSE IF row.gen = d.gen THEN [row EXCEPT !.addr = d.addr] ELSE row

Succeeds(row, d) == row = NoRow \/ row.gen = d.gen

(* update_identity_fields and update_session_fields: COALESCE.             *)
Coalesce(row, d) ==
    [row EXCEPT !.name = IF d.name # 0 THEN d.name ELSE @,
                !.session = d.session \/ @]

MergeRow(row, d) == IF Succeeds(row, d) THEN Coalesce(Upsert(row, d), d) ELSE row

Merge(m) ==
    /\ tick[m].left # <<>> /\ Head(tick[m].left) = "merge"
    /\ rows' = [rows EXCEPT ![m] = [a \in Aliases |->
                   IF \E d \in tick[m].got : d.alias = a /\ a # m
                   THEN MergeRow(@[a], CHOOSE d \in tick[m].got : d.alias = a)
                   ELSE @[a]]]
    /\ tick' = [tick EXCEPT ![m] = Next1(m)]
    /\ UNCHANGED <<key, live, enabled, changes, disturbed>>

(***************************************************************************)
(* Everything else that writes the table.                                  *)
(***************************************************************************)
(* gui_agents_register with the messenger on: the key of the keystore, a   *)
(* row at this machine's address unless the alias has one.                 *)
Register(a) ==
    LET m == Home[a] IN
    /\ Change
    /\ enabled' = enabled \cup {a}
    /\ rows' = IF rows[m][a] # NoRow THEN rows
               ELSE [rows EXCEPT ![m][a] = Fresh(key[a], m)]
    /\ UNCHANGED <<key, live, tick, disturbed>>

(* The key file of an agent is gone: the next registration makes a new key.*)
LoseKey(a) ==
    /\ Change
    /\ rows[Home[a]][a] # NoRow /\ rows[Home[a]][a].gen = key[a]
    /\ key' = [key EXCEPT ![a] = @ + 1]
    /\ UNCHANGED <<rows, live, enabled, tick, disturbed>>

SessionChanges(a) ==
    /\ Change
    /\ live' = IF a \in live THEN live \ {a} ELSE live \cup {a}
    /\ UNCHANGED <<rows, key, enabled, tick, disturbed>>

(* auto_seed_local_tmux_agents: a session that runs here is bound to the   *)
(* row of its alias.                                                       *)
Bound(m) == [a \in Aliases |->
    IF a \in live /\ HomeOf(a) = m /\ a \in Known(m)
    THEN [rows[m][a] EXCEPT !.session = TRUE] ELSE rows[m][a]]

Seed(m) ==
    /\ Bound(m) # rows[m]
    /\ rows' = [rows EXCEPT ![m] = Bound(m)]
    /\ UNCHANGED <<key, live, enabled, tick, changes, disturbed>>

(* retroactive_register_agents: every placeholder address becomes this     *)
(* machine's, and an enabled agent without a row gets one if its session   *)
(* runs, or if no session runs here at all.                                *)
SelfHeal(m, table) == [a \in Aliases |->
    IF table[a] # NoRow /\ table[a].addr = Unknown THEN [table[a] EXCEPT !.addr = m]
    ELSE table[a]]

Retroactive(m, table) ==
    LET here == {a \in live : HomeOf(a) = m} IN
    [a \in Aliases |->
        IF /\ table[a] = NoRow /\ a \in enabled /\ HomeOf(a) = m
           /\ here = {} \/ a \in here
        THEN [Fresh(key[a], m) EXCEPT !.session = a \in here]
        ELSE table[a]]

(* The daemon is killed, in the middle of a pull or not, and starts again. *)
Restart(m) ==
    /\ Change
    /\ rows' = [rows EXCEPT ![m] = Retroactive(m, SelfHeal(m, Bound(m)))]
    /\ tick' = [tick EXCEPT ![m] = Idle]
    /\ UNCHANGED <<key, live, enabled, disturbed>>

(* process_inbound: a verified envelope of a, which may have been sent a   *)
(* while ago, under a key that is no longer a's.                           *)
Announced(row, d, hinted) ==
    IF hinted THEN Upsert(row, d)
    ELSE IF row = NoRow THEN Fresh(d.gen, Unknown) ELSE row

Announce(m, a, g) ==
    LET d == [gen |-> g, addr |-> HomeOf(a)] IN
    /\ Change
    /\ m # HomeOf(a)
    /\ g = key[a] => a \in Known(HomeOf(a)) /\ rows[HomeOf(a)][a].gen = g
    /\ rows' = [rows EXCEPT ![m][a] = Announced(@, d, HomeOf(a) \notin HintLess)]
    /\ disturbed' = [disturbed EXCEPT ![m] = TRUE]
    /\ UNCHANGED <<key, live, enabled, tick>>

(* gui_peer_add: the operator enters a key and an address; a taken alias   *)
(* is an error.                                                            *)
Add(m, a, g) ==
    /\ Change
    /\ rows[m][a] = NoRow
    /\ rows' = [rows EXCEPT ![m][a] = Fresh(g, HomeOf(a))]
    /\ disturbed' = [disturbed EXCEPT ![m] = TRUE]
    /\ UNCHANGED <<key, live, enabled, tick>>

(* gui_peer_set_session: the operator binds a row to a session or frees it.*)
SetSession(m, a, bound) ==
    /\ Change
    /\ a \in Known(m)
    /\ rows' = [rows EXCEPT ![m][a].session = bound]
    /\ UNCHANGED <<key, live, enabled, tick, disturbed>>

(* gui_peer_delete and gui_peer_set_name.  An identity_update of a trusted *)
(* issuer writes the same column as the latter.                            *)
Delete(m, a) ==
    /\ Change
    /\ a \in Known(m)
    /\ rows' = [rows EXCEPT ![m][a] = NoRow]
    /\ UNCHANGED <<key, live, enabled, tick, disturbed>>

Rename(m, a, name) ==
    /\ Change
    /\ a \in Known(m)
    /\ rows' = [rows EXCEPT ![m][a].name = name]
    /\ UNCHANGED <<key, live, enabled, tick, disturbed>>

Sync(m) ==
    \/ StartTick(m)
    \/ \E b \in Machines : Pull(m, b)
    \/ \E b \in Machines : PullFails(m, b)
    \/ Prune(m)
    \/ Merge(m)

Next ==
    \/ \E m \in Machines : Sync(m) \/ Seed(m) \/ Restart(m)
    \/ \E a \in Agents : Register(a) \/ LoseKey(a) \/ SessionChanges(a)
    \/ \E m \in Machines, a \in Aliases : Delete(m, a)
    \/ \E m \in Machines, a \in Named, name \in Names : Rename(m, a, name)
    \/ \E m \in Machines, a \in Senders : \E g \in 0..key[a] : Announce(m, a, g) \/ Add(m, a, g)
    \/ \E m \in Machines, a \in Named, bound \in BOOLEAN : SetSession(m, a, bound)

Spec == Init /\ [][Next]_vars

(***************************************************************************)
(* Every daemon pulls every minute, and an asked daemon is not out of      *)
(* reach for ever.  Nothing is assumed of the operators, of the sessions   *)
(* or of the messages.                                                     *)
(***************************************************************************)
Fairness == \A m \in Machines :
    /\ WF_vars(StartTick(m) \/ Prune(m) \/ Merge(m))
    /\ \A b \in Machines \ SelfHosts(m) : SF_vars(Pull(m, b))

FairSpec == Spec /\ Fairness

(***************************************************************************)
(* Properties.                                                             *)
(***************************************************************************)
(* Only the home of an agent tells others about it: a daemon never passes  *)
(* on what it heard, so a row that is gone at home cannot come back        *)
(* through a third machine.                                                *)
OnlyHomeAdvertises ==
    \A m \in Machines : \A d \in Answer(m) : HomeOf(d.alias) = m /\ d.addr = m

(* A pull never takes away or changes the rows of the agents of the own    *)
(* machine, whatever the others answer.                                    *)
OwnRowsKept ==
    [][\A m \in Machines : Prune(m) \/ Merge(m) =>
          \A a \in Known(m) : rows[m][a].addr = m => rows'[m][a] = rows[m][a]]_vars

(* One undisturbed pull is enough to learn all the host advertised, also   *)
(* the agents that came back under a new key: no row in its way survives.  *)
PullHeals ==
    [][\A m \in Machines : Len(tick[m].left) = 1 /\ (Prune(m) \/ Merge(m)) /\ ~disturbed[m] =>
          \A d \in tick[m].got : d.alias # m =>
             /\ rows'[m][d.alias] # NoRow
             /\ rows'[m][d.alias].gen = d.gen /\ rows'[m][d.alias].addr = d.addr]_vars

(* What a home keeps advertising, and a machine keeps asking for, that     *)
(* machine ends up with: the key, the address and the name.                *)
Agrees(m, a) ==
    LET home == rows[HomeOf(a)][a] IN
    /\ a \in Known(m) /\ a \in Known(HomeOf(a))
    /\ rows[m][a].gen = home.gen /\ rows[m][a].addr = HomeOf(a)
    /\ home.name # 0 => rows[m][a].name = home.name

Learns ==
    \A m \in Machines, a \in Agents : m # Home[a] =>
        (<>[](Advertises(Home[a], a) /\ Home[a] \in Candidates(m)) => <>[]Agrees(m, a))

(* An agent its home no longer advertises disappears from all the others,  *)
(* although they keep asking each other.                                   *)
Forgets ==
    \A m \in Machines, a \in Agents : m # Home[a] =>
        (<>[]~Advertises(Home[a], a) => <>[](a \notin Known(m)))

=============================================================================
