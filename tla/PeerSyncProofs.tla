--------------------------- MODULE PeerSyncProofs ---------------------------
(***************************************************************************)
(* Proofs about PeerSync, for any number of machines and agents, and any   *)
(* number of changes and messages, when every machine tells its address    *)
(* (HintLess = {}).                                                        *)
(*                                                                         *)
(* The argument is about addresses: the row of an alias is at its home,    *)
(* wherever the row is kept (Addressed).  So an answer names agents of the *)
(* asked machine only (Heard), whoever is asked, and a machine that does   *)
(* not ask itself has no row of its own in the hands of its pulls.         *)
(***************************************************************************)
EXTENDS PeerSync, TLAPS

Tick == [todo : SUBSET Machines, base : Machines \cup {Unknown},
         got : SUBSET Advert, left : Seq({"prune", "merge"})]

Typed ==
    /\ rows \in [Machines -> [Aliases -> Row \cup {NoRow}]]
    /\ key \in [Aliases -> Nat]
    /\ live \subseteq Agents /\ enabled \subseteq Agents
    /\ tick \in [Machines -> Tick]
    /\ changes \in Nat
    /\ disturbed \in [Machines -> BOOLEAN]

Addressed == \A m \in Machines : \A a \in Aliases :
    rows[m][a] # NoRow => rows[m][a].addr = HomeOf(a)

(* What the pull of machine m has in hand.                                 *)
Heard(m) == \A d \in tick[m].got : HomeOf(d.alias) = tick[m].base /\ d.addr = tick[m].base

OneEach(m) == \A d, e \in tick[m].got : d.alias = e.alias => d = e

InStages(m) ==
    /\ tick[m].left \in {<<>>, Stages, <<"merge">>}
    /\ tick[m].left = <<>> => tick[m].base = Unknown /\ tick[m].got = {}

NotItself(m) == m \in PublicUrl => m \notin tick[m].todo /\ tick[m].base # m

(* After the tombstones no row is in the way of the answer.                *)
Cleared(m) == m \in PublicUrl /\ tick[m].left = <<"merge">> /\ ~disturbed[m] =>
    \A d \in tick[m].got :
        rows[m][d.alias] # NoRow => rows[m][d.alias].gen = d.gen

PullOK(m) == Heard(m) /\ OneEach(m) /\ InStages(m) /\ NotItself(m)

IInv == Typed /\ Addressed /\ \A m \in Machines : PullOK(m) /\ Cleared(m)

-----------------------------------------------------------------------------
(* The home of an alias is a machine; a machine is at home with itself.    *)
LEMMA Homes == \A a \in Aliases : /\ HomeOf(a) \in Machines
                                  /\ a \in Machines => HomeOf(a) = a
                                  /\ a \in Agents => HomeOf(a) = Home[a]
  BY PeerSyncAssumption DEF HomeOf, Aliases

(* Whoever is asked answers with agents of his own, one for each alias.    *)
LEMMA Answers ==
  ASSUME Typed, Addressed, NEW b \in Machines
  PROVE  /\ Answer(b) \in SUBSET Advert
         /\ \A d \in Answer(b) : HomeOf(d.alias) = b /\ d.addr = b
         /\ \A d, e \in Answer(b) : d.alias = e.alias => d = e
  <1>1. ASSUME NEW a \in Aliases, Advertises(b, a)
        PROVE  /\ AdvertOf(b, a) \in Advert /\ AdvertOf(b, a).alias = a
               /\ HomeOf(a) = b /\ AdvertOf(b, a).addr = b
    <2>1. rows[b][a] \in Row /\ rows[b][a] # NoRow /\ rows[b][a].addr = HomeOf(a)
      BY <1>1 DEF Advertises, Known, Typed, Addressed
    <2>2. HomeOf(a) = b
      BY <1>1, <2>1, Homes DEF Advertises, HomedHere
    <2>. QED  BY <2>1, <2>2 DEF AdvertOf, Advert, Row
  <1>. QED  BY <1>1 DEF Answer

(* What an entry of an answer makes of a row.                              *)
LEMMA MergedRow ==
  ASSUME NEW row \in Row \cup {NoRow}, NEW d \in Advert
  PROVE  /\ MergeRow(row, d) \in Row
         /\ row = NoRow \/ row.gen = d.gen =>
               MergeRow(row, d).gen = d.gen /\ MergeRow(row, d).addr = d.addr
         /\ ~(row = NoRow \/ row.gen = d.gen) => MergeRow(row, d) = row
  <1>. DEFINE up == Upsert(row, d)
  <1>1. CASE row = NoRow \/ row.gen = d.gen
    <2>1. up \in Row /\ up.gen = d.gen /\ up.addr = d.addr
      BY <1>1 DEF Upsert, Fresh, Row, Advert
    <2>2. MergeRow(row, d) = Coalesce(up, d)
      BY <1>1 DEF MergeRow, Succeeds
    <2>. HIDE DEF up
    <2>3. Coalesce(up, d) \in Row /\ Coalesce(up, d).gen = up.gen /\ Coalesce(up, d).addr = up.addr
      BY <2>1 DEF Coalesce, Row, Advert
    <2>. QED  BY <1>1, <2>1, <2>2, <2>3
  <1>2. CASE ~(row = NoRow \/ row.gen = d.gen)
    BY <1>2 DEF MergeRow, Succeeds
  <1>. QED  BY <1>1, <1>2

-----------------------------------------------------------------------------
(* A step that writes rows outside a pull: at the home of an alias, or     *)
(* without a new key, or with a note that the pull was disturbed.          *)
LEMMA RowsStep ==
  ASSUME IInv, Typed', Addressed', UNCHANGED tick,
         \A m \in Machines : ~disturbed'[m] =>
             /\ ~disturbed[m]
             /\ \A a \in Aliases : HomeOf(a) # m /\ rows'[m][a] # NoRow =>
                   rows[m][a] # NoRow /\ rows'[m][a].gen = rows[m][a].gen
  PROVE  IInv'
  <1>1. \A m \in Machines : PullOK(m)'
    BY DEF IInv, PullOK, Heard, OneEach, InStages, NotItself
  <1>2. ASSUME NEW m \in Machines PROVE Cleared(m)'
    <2>1. SUFFICES ASSUME m \in PublicUrl, tick[m].left = <<"merge">>, ~disturbed'[m],
                          NEW d \in tick[m].got, rows'[m][d.alias] # NoRow
                   PROVE  rows'[m][d.alias].gen = d.gen
      BY DEF Cleared
    <2>2. d.alias \in Aliases /\ HomeOf(d.alias) # m
      BY <2>1 DEF IInv, Typed, Tick, Advert, PullOK, Heard, NotItself
    <2>. QED  BY <2>1, <2>2 DEF IInv, Cleared
  <1>. QED  BY <1>1, <1>2 DEF IInv

(* A step of the pull of machine m: the pulls of the others stay.          *)
LEMMA OtherPulls ==
  ASSUME IInv, NEW m \in Machines, NEW t \in Tick, tick' = [tick EXCEPT ![m] = t],
         \A n \in Machines \ {m} : rows'[n] = rows[n] /\ disturbed'[n] = disturbed[n]
  PROVE  tick' \in [Machines -> Tick] /\ \A n \in Machines \ {m} : PullOK(n)' /\ Cleared(n)'
  <1>1. tick' \in [Machines -> Tick] /\ tick'[m] = t /\ \A n \in Machines \ {m} : tick'[n] = tick[n]
    BY DEF IInv, Typed
  <1>2. ASSUME NEW n \in Machines \ {m} PROVE PullOK(n)' /\ Cleared(n)'
    BY <1>1, <1>2 DEF IInv, PullOK, Heard, OneEach, InStages, NotItself, Cleared
  <1>. QED  BY <1>1, <1>2

-----------------------------------------------------------------------------
(* The steps of a pull.                                                    *)
LEMMA StartTickStep == ASSUME IInv, NEW m \in Machines, StartTick(m) PROVE IInv'
  <1>. DEFINE t == [tick[m] EXCEPT !.todo = Candidates(m)]
  <1>1. tick[m] \in Tick /\ tick[m] = Idle
    BY DEF IInv, Typed, StartTick
  <1>2. Candidates(m) \in SUBSET Machines /\ (m \in PublicUrl => m \notin Candidates(m))
    <2>1. \A a \in Known(m) : rows[m][a].addr \in Machines
      BY Homes DEF IInv, Addressed, Known
    <2>2. Bootstrap[m] \subseteq Machines
      BY PeerSyncAssumption
    <2>. QED  BY <2>1, <2>2 DEF Candidates, SelfHosts
  <1>3. /\ t \in Tick /\ t.todo = Candidates(m)
        /\ t.base = Unknown /\ t.got = {} /\ t.left = <<>>
    <2>1. /\ t \in Tick /\ t.todo = Candidates(m)
          /\ t.base = tick[m].base /\ t.got = tick[m].got /\ t.left = tick[m].left
      BY <1>1, <1>2 DEF Tick
    <2>2. tick[m].base = Unknown /\ tick[m].got = {} /\ tick[m].left = <<>>
      BY <1>1 DEF Idle
    <2>. QED  BY <2>1, <2>2
  <1>4. tick' = [tick EXCEPT ![m] = t] /\ tick'[m] = t
    BY DEF StartTick, IInv, Typed
  <1>5. UNCHANGED <<rows, key, live, enabled, changes, disturbed>>
    BY DEF StartTick
  <1>. HIDE DEF t
  <1>6. tick' \in [Machines -> Tick] /\ \A n \in Machines \ {m} : PullOK(n)' /\ Cleared(n)'
    BY <1>3, <1>4, <1>5, OtherPulls
  <1>7. PullOK(m)' /\ Cleared(m)'
    BY <1>2, <1>3, <1>4, PeerSyncAssumption
       DEF PullOK, Heard, OneEach, InStages, NotItself, Cleared
  <1>. QED  BY <1>5, <1>6, <1>7 DEF IInv, Typed, Addressed

(* An answer names agents of the asked machine, one row for each.          *)
LEMMA PullStep == ASSUME IInv, NEW m \in Machines, NEW b \in Machines, Pull(m, b) PROVE IInv'
  <1>. DEFINE t == [todo |-> tick[m].todo \ {b}, base |-> b, got |-> Answer(b), left |-> Stages]
  <1>1. tick[m] \in Tick /\ b \in tick[m].todo /\ NotItself(m)
    BY DEF IInv, Typed, Pull, PullOK
  <1>2. /\ Answer(b) \in SUBSET Advert
        /\ \A d \in Answer(b) : HomeOf(d.alias) = b /\ d.addr = b
        /\ \A d, e \in Answer(b) : d.alias = e.alias => d = e
    BY Answers DEF IInv
  <1>3. Stages \in Seq({"prune", "merge"}) /\ Stages # <<>> /\ Stages # <<"merge">>
    BY DEF Stages
  <1>4. /\ t \in Tick /\ t.todo = tick[m].todo \ {b}
        /\ t.base = b /\ t.got = Answer(b) /\ t.left = Stages
    BY <1>1, <1>2, <1>3 DEF Tick
  <1>5. /\ tick' = [tick EXCEPT ![m] = t] /\ tick'[m] = t
        /\ UNCHANGED <<rows, key, live, enabled, changes>>
        /\ disturbed' \in [Machines -> BOOLEAN]
        /\ \A n \in Machines \ {m} : disturbed'[n] = disturbed[n]
    <2>1. tick \in [Machines -> Tick] /\ disturbed \in [Machines -> BOOLEAN]
      BY DEF IInv, Typed
    <2>2. tick' = [tick EXCEPT ![m] = t]
      BY DEF Pull
    <2>3. disturbed' = [disturbed EXCEPT ![m] = FALSE] /\ UNCHANGED <<rows, key, live, enabled, changes>>
      BY DEF Pull
    <2>4. tick'[m] = t
      BY <2>1, <2>2
    <2>. QED  BY <2>1, <2>2, <2>3, <2>4
  <1>. HIDE DEF t
  <1>6. tick' \in [Machines -> Tick] /\ \A n \in Machines \ {m} : PullOK(n)' /\ Cleared(n)'
    BY <1>4, <1>5, OtherPulls
  <1>7. PullOK(m)' /\ Cleared(m)'
    <2>1. Heard(m)' /\ OneEach(m)'
      BY <1>2, <1>4, <1>5 DEF Heard, OneEach
    <2>2. InStages(m)' /\ Cleared(m)'
      BY <1>3, <1>4, <1>5 DEF InStages, Cleared
    <2>3. NotItself(m)'
      BY <1>1, <1>4, <1>5 DEF NotItself
    <2>. QED  BY <2>1, <2>2, <2>3 DEF PullOK
  <1>. QED  BY <1>5, <1>6, <1>7 DEF IInv, Typed, Addressed

(* A pull that fails drops the machine from the list.                      *)
LEMMA PullFailsStep ==
  ASSUME IInv, NEW m \in Machines, NEW b \in Machines, PullFails(m, b) PROVE IInv'
  <1>. DEFINE t == [tick[m] EXCEPT !.todo = @ \ {b}]
  <1>1. tick[m] \in Tick /\ PullOK(m) /\ Cleared(m)
    BY DEF IInv, Typed
  <1>2. /\ t \in Tick /\ t.todo = tick[m].todo \ {b}
        /\ t.base = tick[m].base /\ t.got = tick[m].got /\ t.left = tick[m].left
    BY <1>1 DEF Tick
  <1>3. tick' = [tick EXCEPT ![m] = t] /\ tick'[m] = t
    BY DEF PullFails, IInv, Typed
  <1>4. UNCHANGED <<rows, key, live, enabled, changes, disturbed>>
    BY DEF PullFails
  <1>. HIDE DEF t
  <1>5. tick' \in [Machines -> Tick] /\ \A n \in Machines \ {m} : PullOK(n)' /\ Cleared(n)'
    BY <1>2, <1>3, <1>4, OtherPulls
  <1>6. PullOK(m)' /\ Cleared(m)'
    BY <1>1, <1>2, <1>3, <1>4 DEF PullOK, Heard, OneEach, InStages, NotItself, Cleared
  <1>. QED  BY <1>4, <1>5, <1>6 DEF IInv, Typed, Addressed

(* The tombstones delete rows that are at home with the asked machine.     *)
LEMMA PruneStep == ASSUME IInv, NEW m \in Machines, Prune(m) PROVE IInv'
  <1>. DEFINE t == [tick[m] EXCEPT !.left = <<"merge">>]
  <1>1. tick[m] \in Tick /\ PullOK(m) /\ tick[m].left # <<>> /\ Head(tick[m].left) = "prune"
    BY DEF IInv, Typed, Prune
  <1>2. tick[m].left = Stages /\ Tail(tick[m].left) = <<"merge">>
    <2>1. tick[m].left \in {<<>>, Stages, <<"merge">>}
      BY <1>1 DEF PullOK, InStages
    <2>2. Head(<<"merge">>) # "prune" /\ Tail(<<"prune", "merge">>) = <<"merge">>
      OBVIOUS
    <2>3. tick[m].left = Stages
      BY <1>1, <2>1, <2>2
    <2>. QED  BY <2>2, <2>3 DEF Stages
  <1>3. <<"merge">> \in Seq({"prune", "merge"}) /\ <<"merge">> # <<>>
    OBVIOUS
  <1>4. /\ t \in Tick /\ t.todo = tick[m].todo
        /\ t.base = tick[m].base /\ t.got = tick[m].got /\ t.left = <<"merge">>
    BY <1>1, <1>3 DEF Tick
  <1>5. Next1(m) = t
    BY <1>2, <1>3 DEF Next1
  <1>6. /\ tick' = [tick EXCEPT ![m] = t] /\ tick'[m] = t
        /\ UNCHANGED <<key, live, enabled, changes, disturbed>>
        /\ rows' \in [Machines -> [Aliases -> Row \cup {NoRow}]]
        /\ \A n \in Machines \ {m} : rows'[n] = rows[n]
        /\ \A a \in Aliases : rows'[m][a] = IF Absent(m, a) THEN NoRow ELSE rows[m][a]
    BY <1>5 DEF Prune, IInv, Typed
  <1>. HIDE DEF t
  <1>7. tick' \in [Machines -> Tick] /\ \A n \in Machines \ {m} : PullOK(n)' /\ Cleared(n)'
    BY <1>4, <1>6, OtherPulls
  <1>8. PullOK(m)'
    BY <1>1, <1>3, <1>4, <1>6 DEF PullOK, Heard, OneEach, InStages, NotItself
  <1>9. Addressed'
    BY <1>6 DEF IInv, Addressed
  <1>10. Cleared(m)'
    <2>1. SUFFICES ASSUME m \in PublicUrl, NEW d \in tick[m].got, rows'[m][d.alias] # NoRow
                   PROVE  rows'[m][d.alias].gen = d.gen
      BY <1>4, <1>6 DEF Cleared
    <2>2. d.alias \in Aliases /\ HomeOf(d.alias) = tick[m].base /\ tick[m].base # m
      BY <1>1, <2>1 DEF Tick, Advert, PullOK, Heard, NotItself
    <2>3. d.alias # m
      BY <2>2, Homes
    <2>4. ~Absent(m, d.alias) /\ rows[m][d.alias] # NoRow /\ rows'[m][d.alias] = rows[m][d.alias]
      BY <1>6, <2>1, <2>2
    <2>5. rows[m][d.alias].addr = tick[m].base
      BY <2>2, <2>4 DEF IInv, Addressed
    <2>6. \E e \in tick[m].got : e.alias = d.alias /\ e.gen = rows[m][d.alias].gen
      BY <2>2, <2>3, <2>4, <2>5 DEF Absent, Known
    <2>. QED  BY <1>1, <2>4, <2>6 DEF PullOK, OneEach
  <1>. QED  BY <1>6, <1>7, <1>8, <1>9, <1>10 DEF IInv, Typed

(* The merge writes rows at the address of the asked machine, their home.  *)
LEMMA MergeStep == ASSUME IInv, NEW m \in Machines, Merge(m) PROVE IInv'
  <1>. DEFINE t == [tick[m] EXCEPT !.base = Unknown, !.got = {}, !.left = <<>>]
              Of(a) == CHOOSE d \in tick[m].got : d.alias = a
  <1>1. tick[m] \in Tick /\ PullOK(m) /\ tick[m].left # <<>> /\ Head(tick[m].left) = "merge"
    BY DEF IInv, Typed, Merge
  <1>2. Tail(tick[m].left) = <<>>
    <2>1. tick[m].left \in {<<>>, Stages, <<"merge">>}
      BY <1>1 DEF PullOK, InStages
    <2>2. Head(Stages) # "merge" /\ Tail(<<"merge">>) = <<>>
      BY DEF Stages
    <2>. QED  BY <1>1, <2>1, <2>2
  <1>3. <<>> \in Seq({"prune", "merge"}) /\ <<>> # <<"merge">>
    OBVIOUS
  <1>4. /\ t \in Tick /\ t.todo = tick[m].todo
        /\ t.base = Unknown /\ t.got = {} /\ t.left = <<>>
    BY <1>1, <1>3 DEF Tick
  <1>5. Next1(m) = t
    BY <1>2 DEF Next1
  <1>. HIDE DEF t
  <1>6. /\ tick' = [tick EXCEPT ![m] = t] /\ tick'[m] = t
        /\ UNCHANGED <<key, live, enabled, changes, disturbed>>
    BY <1>5 DEF Merge, IInv, Typed
  <1>7. /\ rows' \in [Machines -> [Aliases -> Row \cup {NoRow}]]
        /\ Addressed'
        /\ \A n \in Machines \ {m} : rows'[n] = rows[n]
    <2>. DEFINE new == [a \in Aliases |->
                   IF \E d \in tick[m].got : d.alias = a /\ a # m
                   THEN MergeRow(rows[m][a], Of(a))
                   ELSE rows[m][a]]
    <2>1. rows \in [Machines -> [Aliases -> Row \cup {NoRow}]] /\ Addressed
      BY DEF IInv, Typed
    <2>2. rows' = [rows EXCEPT ![m] = new]
      BY DEF Merge
    <2>3. ASSUME NEW a \in Aliases
          PROVE  /\ new[a] \in Row \cup {NoRow}
                 /\ new[a] # NoRow => new[a].addr = HomeOf(a)
      <3>1. rows[m][a] \in Row \cup {NoRow} /\ (rows[m][a] # NoRow => rows[m][a].addr = HomeOf(a))
        BY <2>1 DEF Addressed
      <3>2. CASE \E d \in tick[m].got : d.alias = a /\ a # m
        <4>1. Of(a) \in tick[m].got /\ Of(a).alias = a
          BY <3>2
        <4>. HIDE DEF Of
        <4>2. Of(a) \in Advert /\ Of(a).addr = HomeOf(a)
          BY <1>1, <4>1 DEF Tick, PullOK, Heard
        <4>3. NoRow \notin Row
          BY PeerSyncAssumption
        <4>. QED  BY <3>1, <3>2, <4>2, <4>3, MergedRow
      <3>3. CASE ~\E d \in tick[m].got : d.alias = a /\ a # m
        BY <3>1, <3>3
      <3>. QED  BY <3>2, <3>3
    <2>. HIDE DEF new
    <2>4. rows'[m] = new /\ \A n \in Machines \ {m} : rows'[n] = rows[n]
      BY <2>1, <2>2
    <2>5. new \in [Aliases -> Row \cup {NoRow}]
      BY <2>3 DEF new
    <2>. QED  BY <2>1, <2>2, <2>3, <2>4, <2>5 DEF Addressed
  <1>8. tick' \in [Machines -> Tick] /\ \A n \in Machines \ {m} : PullOK(n)' /\ Cleared(n)'
    BY <1>4, <1>6, <1>7, OtherPulls
  <1>9. PullOK(m)' /\ Cleared(m)'
    <2>1. Heard(m)' /\ OneEach(m)' /\ InStages(m)' /\ Cleared(m)'
      BY <1>3, <1>4, <1>6 DEF Heard, OneEach, InStages, Cleared
    <2>2. NotItself(m)'
      BY <1>1, <1>4, <1>6, PeerSyncAssumption DEF PullOK, NotItself
    <2>. QED  BY <2>1, <2>2 DEF PullOK
  <1>. QED  BY <1>6, <1>7, <1>8, <1>9 DEF IInv, Typed

-----------------------------------------------------------------------------
(* The steps outside a pull.                                               *)
(* A row of machine m that is written, or taken away.                      *)
LEMMA OneRow ==
  ASSUME IInv, NEW m \in Machines, NEW a \in Aliases, NEW row \in Row \cup {NoRow},
         row # NoRow => row.addr = HomeOf(a),
         rows' = [rows EXCEPT ![m][a] = row],
         key' \in [Aliases -> Nat], live' \subseteq Agents, enabled' \subseteq Agents,
         changes' \in Nat, UNCHANGED tick,
         \/ UNCHANGED disturbed
         \/ disturbed' = [disturbed EXCEPT ![m] = TRUE],
         \/ disturbed' = [disturbed EXCEPT ![m] = TRUE]
         \/ HomeOf(a) = m \/ row = NoRow
         \/ rows[m][a] # NoRow /\ row.gen = rows[m][a].gen
  PROVE  IInv'
  <1>1. /\ rows \in [Machines -> [Aliases -> Row \cup {NoRow}]]
        /\ tick \in [Machines -> Tick] /\ disturbed \in [Machines -> BOOLEAN] /\ Addressed
    BY DEF IInv, Typed
  <1>2. /\ rows' \in [Machines -> [Aliases -> Row \cup {NoRow}]]
        /\ rows'[m][a] = row
        /\ \A n \in Machines : \A c \in Aliases :
              n # m \/ c # a => rows'[n][c] = rows[n][c]
    BY <1>1
  <1>3. disturbed' \in [Machines -> BOOLEAN] /\ \A n \in Machines : disturbed[n] => disturbed'[n]
    BY <1>1
  <1>4. Typed' /\ Addressed'
    <2>1. Addressed'
      BY <1>1, <1>2 DEF Addressed
    <2>. QED  BY <1>1, <1>2, <1>3, <2>1 DEF Typed
  <1>5. ASSUME NEW n \in Machines, ~disturbed'[n], NEW c \in Aliases, HomeOf(c) # n, rows'[n][c] # NoRow
        PROVE  rows[n][c] # NoRow /\ rows'[n][c].gen = rows[n][c].gen
    BY <1>1, <1>2, <1>5
  <1>. QED  BY <1>3, <1>4, <1>5, RowsStep

(* A new agent has its row at its home.                                    *)
LEMMA RegisterStep == ASSUME IInv, NEW a \in Agents, Register(a) PROVE IInv'
  <1>1. Home[a] \in Machines /\ a \in Aliases /\ HomeOf(a) = Home[a]
    BY Homes, PeerSyncAssumption DEF Aliases
  <1>2. /\ UNCHANGED <<key, live, tick, disturbed>> /\ changes' = changes + 1
        /\ enabled' = enabled \cup {a}
    BY DEF Register, Change
  <1>3. Typed /\ key[a] \in Nat
    BY <1>1 DEF IInv, Typed
  <1>4. Fresh(key[a], Home[a]) \in Row /\ Fresh(key[a], Home[a]).addr = Home[a]
    BY <1>1, <1>3 DEF Fresh, Row
  <1>5. CASE rows[Home[a]][a] = NoRow
    <2>1. rows' = [rows EXCEPT ![Home[a]][a] = Fresh(key[a], Home[a])]
      BY <1>5 DEF Register
    <2>2. key' \in [Aliases -> Nat] /\ live' \subseteq Agents /\ enabled' \subseteq Agents /\ changes' \in Nat
      BY <1>2, <1>3 DEF Typed
    <2>3. Fresh(key[a], Home[a]) # NoRow => Fresh(key[a], Home[a]).addr = HomeOf(a)
      BY <1>1, <1>4
    <2>. QED  BY <1>1, <1>2, <1>4, <2>1, <2>2, <2>3, OneRow
  <1>6. CASE rows[Home[a]][a] # NoRow
    <2>1. rows' = rows
      BY <1>6 DEF Register
    <2>2. Typed' /\ Addressed'
      BY <1>2, <1>3, <2>1 DEF IInv, Typed, Addressed
    <2>. QED  BY <1>2, <2>1, <2>2, RowsStep
  <1>. QED  BY <1>5, <1>6

(* A new key leaves every row as it is.                                    *)
LEMMA LoseKeyStep == ASSUME IInv, NEW a \in Agents, LoseKey(a) PROVE IInv'
  <1>1. /\ UNCHANGED <<rows, live, enabled, tick, disturbed>> /\ changes' = changes + 1
        /\ key' = [key EXCEPT ![a] = key[a] + 1]
    BY DEF LoseKey, Change
  <1>2. key' \in [Aliases -> Nat]
    <2>1. a \in Aliases /\ key \in [Aliases -> Nat]
      BY DEF IInv, Typed, Aliases
    <2>2. key[a] + 1 \in Nat
      BY <2>1
    <2>. QED  BY <1>1, <2>1, <2>2
  <1>3. Typed' /\ Addressed'
    BY <1>1, <1>2 DEF IInv, Typed, Addressed
  <1>. QED  BY <1>1, <1>3, RowsStep

(* A session that begins or ends touches no row.                           *)
LEMMA SessionStep == ASSUME IInv, NEW a \in Agents, SessionChanges(a) PROVE IInv'
  <1>1. /\ UNCHANGED <<rows, key, enabled, tick, disturbed>> /\ changes' = changes + 1
        /\ live' \subseteq Agents
    BY DEF SessionChanges, Change, IInv, Typed
  <1>2. Typed' /\ Addressed'
    BY <1>1 DEF IInv, Typed, Addressed
  <1>. QED  BY <1>1, <1>2, RowsStep

(* Binding sessions changes no key and no address.                         *)
LEMMA Bounds ==
  ASSUME IInv, NEW m \in Machines
  PROVE  /\ Bound(m) \in [Aliases -> Row \cup {NoRow}]
         /\ \A a \in Aliases : Bound(m)[a] # NoRow =>
               /\ rows[m][a] # NoRow
               /\ Bound(m)[a].gen = rows[m][a].gen /\ Bound(m)[a].addr = rows[m][a].addr
  <1>1. rows[m] \in [Aliases -> Row \cup {NoRow}]
    BY DEF IInv, Typed
  <1>2. ASSUME NEW a \in Aliases
        PROVE  /\ Bound(m)[a] \in Row \cup {NoRow}
               /\ Bound(m)[a] # NoRow =>
                     /\ rows[m][a] # NoRow
                     /\ Bound(m)[a].gen = rows[m][a].gen /\ Bound(m)[a].addr = rows[m][a].addr
    <2>1. CASE a \in live /\ HomeOf(a) = m /\ a \in Known(m)
      <3>1. Bound(m)[a] = [rows[m][a] EXCEPT !.session = TRUE]
        BY <2>1 DEF Bound
      <3>2. rows[m][a] \in Row /\ rows[m][a] # NoRow
        BY <1>1, <2>1 DEF Known
      <3>. QED  BY <3>1, <3>2 DEF Row
    <2>2. CASE ~(a \in live /\ HomeOf(a) = m /\ a \in Known(m))
      BY <1>1, <2>2 DEF Bound
    <2>. QED  BY <2>1, <2>2
  <1>3. Bound(m) = [a \in Aliases |-> Bound(m)[a]]
    BY DEF Bound
  <1>. QED  BY <1>2, <1>3

(* What the seeding enters are the agents of this machine.                 *)
LEMMA SeedStep == ASSUME IInv, NEW m \in Machines, Seed(m) PROVE IInv'
  <1>1. /\ UNCHANGED <<key, live, enabled, tick, changes, disturbed>>
        /\ rows' = [rows EXCEPT ![m] = Bound(m)]
    BY DEF Seed
  <1>2. rows \in [Machines -> [Aliases -> Row \cup {NoRow}]] /\ Addressed
    BY DEF IInv, Typed
  <1>3. rows'[m] = Bound(m) /\ \A n \in Machines \ {m} : rows'[n] = rows[n]
    BY <1>1, <1>2
  <1>4. Typed'
    BY <1>1, <1>2, Bounds DEF IInv, Typed
  <1>5. Addressed'
    BY <1>2, <1>3, Bounds DEF Addressed
  <1>. QED  BY <1>1, <1>3, <1>4, <1>5, Bounds, RowsStep

(* A restart forgets the pull and seeds.                                   *)
LEMMA RestartStep == ASSUME IInv, NEW m \in Machines, Restart(m) PROVE IInv'
  <1>. DEFINE new == Retroactive(m, SelfHeal(m, Bound(m)))
  <1>1. /\ UNCHANGED <<key, live, enabled, disturbed>> /\ changes' = changes + 1
        /\ rows' = [rows EXCEPT ![m] = new] /\ tick' = [tick EXCEPT ![m] = Idle]
    BY DEF Restart, Change
  <1>2. /\ rows \in [Machines -> [Aliases -> Row \cup {NoRow}]] /\ Addressed
        /\ key \in [Aliases -> Nat] /\ tick \in [Machines -> Tick]
    BY DEF IInv, Typed
  <1>3. Idle \in Tick /\ Idle.todo = {} /\ Idle.base = Unknown /\ Idle.got = {} /\ Idle.left = <<>>
    BY DEF Idle, Tick
  <1>4. SelfHeal(m, Bound(m)) = Bound(m)
    <2>1. \A a \in Aliases : Bound(m)[a] # NoRow => Bound(m)[a].addr # Unknown
      <3>1. \A a \in Aliases : HomeOf(a) # Unknown
        BY Homes, PeerSyncAssumption
      <3>. QED  BY <1>2, <3>1, Bounds DEF Addressed
    <2>2. Bound(m) = [a \in Aliases |-> Bound(m)[a]]
      BY Bounds
    <2>. QED  BY <2>1, <2>2 DEF SelfHeal
  <1>5. ASSUME NEW a \in Aliases
        PROVE  new[a] \in Row \cup {NoRow} /\ (new[a] # NoRow => new[a].addr = HomeOf(a))
    <2>1. Bound(m)[a] \in Row \cup {NoRow} /\ (Bound(m)[a] # NoRow => Bound(m)[a].addr = HomeOf(a))
      BY <1>2, Bounds DEF Addressed
    <2>2. Fresh(key[a], m) \in Row /\ Fresh(key[a], m).addr = m
      BY <1>2 DEF Fresh, Row
    <2>3. \A s \in BOOLEAN : /\ [Fresh(key[a], m) EXCEPT !.session = s] \in Row
                              /\ [Fresh(key[a], m) EXCEPT !.session = s].addr = m
      BY <1>2 DEF Fresh, Row
    <2>4. \/ new[a] = Bound(m)[a]
          \/ HomeOf(a) = m /\ \E s \in BOOLEAN : new[a] = [Fresh(key[a], m) EXCEPT !.session = s]
      <3>. DEFINE here == {c \in live : HomeOf(c) = m}
      <3>1. new = [c \in Aliases |->
                     IF /\ Bound(m)[c] = NoRow /\ c \in enabled /\ HomeOf(c) = m
                        /\ here = {} \/ c \in here
                     THEN [Fresh(key[c], m) EXCEPT !.session = c \in here]
                     ELSE Bound(m)[c]]
        BY <1>4 DEF Retroactive
      <3>2. (a \in here) \in BOOLEAN
        OBVIOUS
      <3>. HIDE DEF here, new
      <3>. QED  BY <3>1, <3>2
    <2>. QED  BY <2>1, <2>3, <2>4
  <1>6. new = [a \in Aliases |-> new[a]]
    BY DEF Retroactive
  <1>. HIDE DEF new
  <1>7. new \in [Aliases -> Row \cup {NoRow}]
    BY <1>5, <1>6
  <1>8. /\ rows' \in [Machines -> [Aliases -> Row \cup {NoRow}]] /\ tick'[m] = Idle
        /\ rows'[m] = new /\ \A n \in Machines \ {m} : rows'[n] = rows[n]
    BY <1>1, <1>2, <1>7
  <1>9. Addressed'
    BY <1>2, <1>5, <1>8 DEF Addressed
  <1>10. tick' \in [Machines -> Tick] /\ \A n \in Machines \ {m} : PullOK(n)' /\ Cleared(n)'
    BY <1>1, <1>3, <1>8, OtherPulls
  <1>11. PullOK(m)' /\ Cleared(m)'
    <2>1. Heard(m)' /\ OneEach(m)' /\ InStages(m)' /\ Cleared(m)'
      BY <1>3, <1>8 DEF Heard, OneEach, InStages, Cleared
    <2>2. NotItself(m)'
      BY <1>3, <1>8, PeerSyncAssumption DEF NotItself
    <2>. QED  BY <2>1, <2>2 DEF PullOK
  <1>. QED  BY <1>1, <1>8, <1>9, <1>10, <1>11 DEF IInv, Typed

(* A message names the home of its sender.                                 *)
LEMMA AnnounceStep ==
  ASSUME IInv, HintLess = {}, NEW m \in Machines, NEW a \in Aliases, NEW g \in 0..key[a],
         Announce(m, a, g)
  PROVE  IInv'
  <1>. DEFINE d == [gen |-> g, addr |-> HomeOf(a)]
              row == Upsert(rows[m][a], d)
  <1>1. /\ UNCHANGED <<key, live, enabled, tick>> /\ changes' = changes + 1
        /\ disturbed' = [disturbed EXCEPT ![m] = TRUE]
        /\ rows' = [rows EXCEPT ![m][a] = row]
    BY DEF Announce, Change, Announced
  <1>2. Typed /\ rows[m][a] \in Row \cup {NoRow} /\ (rows[m][a] # NoRow => rows[m][a].addr = HomeOf(a))
    BY DEF IInv, Typed, Addressed
  <1>3. g \in Nat /\ HomeOf(a) \in Machines
    BY <1>2, Homes DEF Typed
  <1>4. row \in Row \cup {NoRow} /\ (row # NoRow => row.addr = HomeOf(a))
    BY <1>2, <1>3 DEF Upsert, Fresh, Row
  <1>. HIDE DEF row
  <1>5. key' \in [Aliases -> Nat] /\ live' \subseteq Agents /\ enabled' \subseteq Agents /\ changes' \in Nat
    BY <1>1, <1>2 DEF Typed
  <1>. QED  BY <1>1, <1>4, <1>5, OneRow

(* So does the operator who adds a peer.                                   *)
LEMMA AddStep ==
  ASSUME IInv, NEW m \in Machines, NEW a \in Aliases, NEW g \in 0..key[a], Add(m, a, g)
  PROVE  IInv'
  <1>. DEFINE row == Fresh(g, HomeOf(a))
  <1>1. /\ UNCHANGED <<key, live, enabled, tick>> /\ changes' = changes + 1
        /\ disturbed' = [disturbed EXCEPT ![m] = TRUE]
        /\ rows' = [rows EXCEPT ![m][a] = row]
    BY DEF Add, Change
  <1>2. Typed
    BY DEF IInv
  <1>3. g \in Nat /\ HomeOf(a) \in Machines
    BY <1>2, Homes DEF Typed
  <1>4. row \in Row \cup {NoRow} /\ row.addr = HomeOf(a)
    BY <1>3 DEF Fresh, Row
  <1>. HIDE DEF row
  <1>5. key' \in [Aliases -> Nat] /\ live' \subseteq Agents /\ enabled' \subseteq Agents /\ changes' \in Nat
    BY <1>1, <1>2 DEF Typed
  <1>. QED  BY <1>1, <1>4, <1>5, OneRow

(* A session given or taken leaves the address as it is.                   *)
LEMMA SetSessionStep ==
  ASSUME IInv, NEW m \in Machines, NEW a \in Aliases, NEW bound \in BOOLEAN, SetSession(m, a, bound)
  PROVE  IInv'
  <1>. DEFINE row == [rows[m][a] EXCEPT !.session = bound]
  <1>1. /\ UNCHANGED <<key, live, enabled, tick, disturbed>> /\ changes' = changes + 1
        /\ rows' = [rows EXCEPT ![m][a].session = bound] /\ rows[m][a] # NoRow
    BY DEF SetSession, Change, Known
  <1>2. Typed /\ rows[m][a] \in Row /\ rows[m][a].addr = HomeOf(a)
    BY <1>1 DEF IInv, Typed, Addressed
  <1>3. row \in Row /\ row.addr = HomeOf(a) /\ row.gen = rows[m][a].gen
    BY <1>2 DEF Row
  <1>4. rows' = [rows EXCEPT ![m][a] = row]
    BY <1>1
  <1>. HIDE DEF row
  <1>5. key' \in [Aliases -> Nat] /\ live' \subseteq Agents /\ enabled' \subseteq Agents /\ changes' \in Nat
    BY <1>1, <1>2 DEF Typed
  <1>6. row # NoRow => row.addr = HomeOf(a)
    BY <1>3
  <1>. QED  BY <1>1, <1>3, <1>4, <1>5, <1>6, OneRow

(* A deleted row has no address.                                           *)
LEMMA DeleteStep ==
  ASSUME IInv, NEW m \in Machines, NEW a \in Aliases, Delete(m, a) PROVE IInv'
  <1>1. /\ UNCHANGED <<key, live, enabled, tick, disturbed>> /\ changes' = changes + 1
        /\ rows' = [rows EXCEPT ![m][a] = NoRow]
    BY DEF Delete, Change
  <1>2. Typed
    BY DEF IInv
  <1>3. key' \in [Aliases -> Nat] /\ live' \subseteq Agents /\ enabled' \subseteq Agents /\ changes' \in Nat
    BY <1>1, <1>2 DEF Typed
  <1>. QED  BY <1>1, <1>3, OneRow

(* A new name leaves the address as it is.                                 *)
LEMMA RenameStep ==
  ASSUME IInv, NEW m \in Machines, NEW a \in Aliases, NEW name \in Names, Rename(m, a, name)
  PROVE  IInv'
  <1>. DEFINE row == [rows[m][a] EXCEPT !.name = name]
  <1>1. /\ UNCHANGED <<key, live, enabled, tick, disturbed>> /\ changes' = changes + 1
        /\ rows' = [rows EXCEPT ![m][a].name = name] /\ rows[m][a] # NoRow
    BY DEF Rename, Change, Known
  <1>2. Typed /\ rows[m][a] \in Row /\ rows[m][a].addr = HomeOf(a) /\ name \in Nat
    BY <1>1, PeerSyncAssumption DEF IInv, Typed, Addressed
  <1>3. row \in Row /\ row.addr = HomeOf(a) /\ row.gen = rows[m][a].gen
    BY <1>2 DEF Row
  <1>4. rows' = [rows EXCEPT ![m][a] = row]
    BY <1>1
  <1>. HIDE DEF row
  <1>5. key' \in [Aliases -> Nat] /\ live' \subseteq Agents /\ enabled' \subseteq Agents /\ changes' \in Nat
    BY <1>1, <1>2 DEF Typed
  <1>6. row # NoRow => row.addr = HomeOf(a)
    BY <1>3
  <1>. QED  BY <1>1, <1>3, <1>4, <1>5, <1>6, OneRow

-----------------------------------------------------------------------------
(* At the start every row is at home.                                      *)
LEMMA InitIInv == Init => IInv
  <1>. SUFFICES ASSUME Init PROVE IInv
    OBVIOUS
  <1>1. ASSUME NEW m \in Machines
        PROVE  Fresh(0, m) \in Row /\ Fresh(0, m).addr = m
    BY DEF Fresh, Row
  <1>2. Idle \in Tick /\ Idle.todo = {} /\ Idle.base = Unknown /\ Idle.got = {} /\ Idle.left = <<>>
    BY DEF Idle, Tick
  <1>3. Typed
    BY <1>1, <1>2, PeerSyncAssumption DEF Init, Typed
  <1>4. Addressed
    BY <1>1 DEF Init, Addressed
  <1>5. ASSUME NEW m \in Machines PROVE PullOK(m) /\ Cleared(m)
    <2>1. tick[m] = Idle
      BY DEF Init
    <2>2. Heard(m) /\ OneEach(m) /\ InStages(m) /\ Cleared(m)
      BY <1>2, <2>1 DEF Heard, OneEach, InStages, Cleared
    <2>3. NotItself(m)
      BY <1>2, <2>1, PeerSyncAssumption DEF NotItself
    <2>. QED  BY <2>2, <2>3 DEF PullOK
  <1>. QED  BY <1>3, <1>4, <1>5 DEF IInv

(* Each step keeps the invariant.                                          *)
LEMMA NextIInv == HintLess = {} /\ IInv /\ [Next]_vars => IInv'
  <1>. SUFFICES ASSUME HintLess = {}, IInv, [Next]_vars PROVE IInv'
    OBVIOUS
  <1>1. ASSUME NEW m \in Machines, Sync(m) PROVE IInv'
    BY <1>1, StartTickStep, PullStep, PullFailsStep, PruneStep, MergeStep DEF Sync
  <1>2. ASSUME NEW m \in Machines, Seed(m) \/ Restart(m) PROVE IInv'
    BY <1>2, SeedStep, RestartStep
  <1>3. ASSUME NEW a \in Agents, Register(a) \/ LoseKey(a) \/ SessionChanges(a) PROVE IInv'
    BY <1>3, RegisterStep, LoseKeyStep, SessionStep
  <1>4. ASSUME NEW m \in Machines, NEW a \in Aliases, Delete(m, a) PROVE IInv'
    BY <1>4, DeleteStep
  <1>5. ASSUME NEW m \in Machines, NEW a \in Named, NEW name \in Names, Rename(m, a, name) PROVE IInv'
    BY <1>5, RenameStep, PeerSyncAssumption
  <1>6. ASSUME NEW m \in Machines, NEW a \in Senders, NEW g \in 0..key[a], Announce(m, a, g) \/ Add(m, a, g)
        PROVE  IInv'
    BY <1>6, AnnounceStep, AddStep, PeerSyncAssumption
  <1>8. ASSUME NEW m \in Machines, NEW a \in Named, NEW bound \in BOOLEAN, SetSession(m, a, bound) PROVE IInv'
    BY <1>8, SetSessionStep, PeerSyncAssumption
  <1>7. CASE UNCHANGED vars
    <2>1. Typed' /\ Addressed'
      BY <1>7 DEF vars, IInv, Typed, Addressed
    <2>. QED  BY <1>7, <2>1, RowsStep DEF vars
  <1>. QED  BY <1>1, <1>2, <1>3, <1>4, <1>5, <1>6, <1>7, <1>8 DEF Next

(* If every machine tells its address, every row names the home of its     *)
(* agent, and a pull has in hand only what its machine may tell.           *)
THEOREM Invariance == HintLess = {} => (Spec => []IInv)
  <1>. SUFFICES ASSUME HintLess = {} PROVE Spec => []IInv
    OBVIOUS
  <1>1. IInv /\ [Next]_vars => IInv'
    BY NextIInv
  <1>. QED  BY InitIInv, <1>1, PTL DEF Spec

(* Every variable has its type; between two pulls nothing is left of the   *)
(* answer to the last one.                                                 *)
THEOREM TypeCorrect == HintLess = {} => (Spec => []TypeOK)
  <1>. SUFFICES ASSUME HintLess = {} PROVE Spec => []TypeOK
    OBVIOUS
  <1>1. IInv => TypeOK
    BY DEF IInv, Typed, Tick, PullOK, InStages, TypeOK
  <1>2. Spec => []IInv
    BY Invariance
  <1>. QED  BY <1>1, <1>2, PTL

(* Every daemon advertises its own agents only, under its own address, so  *)
(* no agent can come back through a third machine.                         *)
THEOREM OnlyHome == HintLess = {} => (Spec => []OnlyHomeAdvertises)
  <1>. SUFFICES ASSUME HintLess = {} PROVE Spec => []OnlyHomeAdvertises
    OBVIOUS
  <1>1. IInv => OnlyHomeAdvertises
    BY Answers DEF IInv, OnlyHomeAdvertises
  <1>2. Spec => []IInv
    BY Invariance
  <1>. QED  BY <1>1, <1>2, PTL

(* A pull spares the rows of the own machine: a daemon that knows its own  *)
(* address does not ask itself, and nobody else answers with its agents.   *)
THEOREM OwnRows == HintLess = {} /\ PublicUrl = Machines => (Spec => OwnRowsKept)
  <1>. DEFINE Kept == \A m \in Machines : Prune(m) \/ Merge(m) =>
                 \A a \in Known(m) : rows[m][a].addr = m => rows'[m][a] = rows[m][a]
  <1>. SUFFICES ASSUME HintLess = {}, PublicUrl = Machines PROVE Spec => OwnRowsKept
    OBVIOUS
  <1>1. IInv => Kept
    <2>. SUFFICES ASSUME IInv, NEW m \in Machines, Prune(m) \/ Merge(m),
                         NEW a \in Known(m), rows[m][a].addr = m
                  PROVE  rows'[m][a] = rows[m][a]
      OBVIOUS
    <2>1. /\ a \in Aliases /\ HomeOf(a) = m /\ tick[m].base # m
          /\ rows \in [Machines -> [Aliases -> Row \cup {NoRow}]]
      BY DEF IInv, Typed, Addressed, PullOK, NotItself, Known
    <2>2. CASE Prune(m)
      <3>1. ~Absent(m, a)
        BY <2>1 DEF Absent
      <3>. QED  BY <2>1, <2>2, <3>1 DEF Prune
    <2>3. CASE Merge(m)
      <3>1. ~\E d \in tick[m].got : d.alias = a
        BY <2>1 DEF IInv, PullOK, Heard
      <3>. QED  BY <2>1, <2>3, <3>1 DEF Merge
    <2>. QED  BY <2>2, <2>3
  <1>2. Spec => []IInv
    BY Invariance
  <1>3. IInv => [Kept]_vars
    BY <1>1
  <1>. QED  BY <1>2, <1>3, PTL DEF OwnRowsKept

(* After a pull during which nobody else wrote a row, the asker has every   *)
(* agent of the answer under the key and the address the answer gave, also *)
(* the ones it knew under another key.                                     *)
THEOREM Heals == HintLess = {} /\ PublicUrl = Machines => (Spec => PullHeals)
  <1>. DEFINE Healed == \A m \in Machines :
                 Len(tick[m].left) = 1 /\ (Prune(m) \/ Merge(m)) /\ ~disturbed[m] =>
                    \A d \in tick[m].got : d.alias # m =>
                       /\ rows'[m][d.alias] # NoRow
                       /\ rows'[m][d.alias].gen = d.gen /\ rows'[m][d.alias].addr = d.addr
  <1>. SUFFICES ASSUME HintLess = {}, PublicUrl = Machines PROVE Spec => PullHeals
    OBVIOUS
  <1>1. IInv => Healed
    <2>. SUFFICES ASSUME IInv, NEW m \in Machines, Len(tick[m].left) = 1,
                         Prune(m) \/ Merge(m), ~disturbed[m],
                         NEW d \in tick[m].got, d.alias # m
                  PROVE  /\ rows'[m][d.alias] # NoRow
                         /\ rows'[m][d.alias].gen = d.gen /\ rows'[m][d.alias].addr = d.addr
      OBVIOUS
    <2>1. tick[m].left = <<"merge">>
      <3>1. tick[m].left \in {<<>>, Stages, <<"merge">>}
        BY DEF IInv, PullOK, InStages
      <3>2. Len(<<>>) = 0 /\ Len(Stages) = 2
        BY DEF Stages
      <3>. QED  BY <3>1, <3>2
    <2>2. Merge(m)
      <3>1. Head(tick[m].left) # "prune"
        BY <2>1
      <3>. QED  BY <3>1 DEF Prune
    <2>3. /\ d \in Advert /\ d.alias \in Aliases /\ Cleared(m) /\ OneEach(m)
          /\ rows \in [Machines -> [Aliases -> Row \cup {NoRow}]]
      BY DEF IInv, Typed, Tick, Advert, PullOK
    <2>4. (CHOOSE e \in tick[m].got : e.alias = d.alias) = d
      BY <2>3 DEF OneEach
    <2>5. rows'[m][d.alias] = MergeRow(rows[m][d.alias], d)
      BY <2>2, <2>3, <2>4 DEF Merge
    <2>6. rows[m][d.alias] = NoRow \/ rows[m][d.alias].gen = d.gen
      BY <2>1, <2>3 DEF Cleared
    <2>7. rows[m][d.alias] \in Row \cup {NoRow} /\ NoRow \notin Row
      BY <2>3, PeerSyncAssumption
    <2>. QED  BY <2>3, <2>5, <2>6, <2>7, MergedRow
  <1>2. Spec => []IInv
    BY Invariance
  <1>3. IInv => [Healed]_vars
    BY <1>1
  <1>. QED  BY <1>2, <1>3, PTL DEF PullHeals

=============================================================================
