--------------------------- MODULE WorkflowProofs ---------------------------
(***************************************************************************)
(* Proofs about WorkflowRun, for any number of steps, definitions, runs,   *)
(* handlers and firings.                                                   *)
(*                                                                         *)
(* The argument: in every order, what topo_sort is in comes after what it  *)
(* visits, so that it fails only if there is no order (SearchOK); a run    *)
(* that somebody executes is 'running' (or deleted), so nobody else can    *)
(* take it; the engine works through the order and has a successful log of *)
(* all it has passed; and a firing that is due and was not yet the reason  *)
(* of a run leaves room for one more (CronOK).                             *)
(***************************************************************************)
EXTENDS WorkflowRun, FiniteSetTheorems, TLAPS

(***************************************************************************)
(* topo_sort.                                                              *)
(***************************************************************************)
(* A call of visit is for something that the calls around it depend on.    *)
Nested(deps, path) ==
    \A order \in [1..Cardinality(Steps) -> Steps] : IsOrder(deps, order) =>
       \A m, n \in DOMAIN order : \A i, j \in DOMAIN path :
          i < j /\ order[m] = path[j] /\ order[n] = path[i] => m < n

SearchOK(deps, s) ==
    /\ s \in Search
    /\ IsInjective(s.order) /\ IsInjective(s.path) /\ Ids(s.path) \cap Ids(s.order) = {}
    /\ \A i \in DOMAIN s.order : deps[s.order[i]] \subseteq {s.order[j] : j \in 1..(i - 1)}
    /\ Nested(deps, s.path)

(* What the search visits is a step, or what one depends on.               *)
LEMMA WantedIs ==
  ASSUME NEW deps \in Dependencies, NEW s \in Search, NEW id \in Wanted(deps, s)
  PROVE  /\ id \in Steps \cup {Missing} /\ id \notin Ids(s.order)
         /\ s.path = <<>> => id \in Steps
         /\ s.path # <<>> => /\ Len(s.path) \in DOMAIN s.path /\ s.path[Len(s.path)] \in Steps
                             /\ id \in deps[s.path[Len(s.path)]]
  <1>1. s.path \in Seq(Steps) /\ s.order \in Seq(Steps)
    BY DEF Search
  <1>2. CASE s.path = <<>>
    BY <1>2 DEF Wanted
  <1>3. CASE s.path # <<>>
    <2>1. Len(s.path) \in DOMAIN s.path /\ s.path[Len(s.path)] \in Steps
      BY <1>1, <1>3
    <2>. QED  BY <1>3, <2>1 DEF Wanted, Last, Dependencies
  <1>. QED  BY <1>2, <1>3

(* In an order, what a step depends on is before it.                       *)
LEMMA DependsBefore ==
  ASSUME NEW deps, NEW order \in [1..Cardinality(Steps) -> Steps], IsOrder(deps, order),
         NEW n \in DOMAIN order, NEW id \in deps[order[n]]
  PROVE  /\ id \in Steps
         /\ \A m \in DOMAIN order : order[m] = id => m < n
  <1>0. Cardinality(Steps) \in Nat
    BY OrderAssumption, FS_CardinalityType
  <1>1. PICK k \in 1..(n - 1) : id = order[k]
    BY DEF IsOrder
  <1>2. k \in DOMAIN order /\ k < n
    BY <1>0, <1>1
  <1>3. \A m \in DOMAIN order : order[m] = id => m = k
    BY <1>1, <1>2 DEF IsOrder, IsInjective
  <1>. QED  BY <1>1, <1>2, <1>3

(* Something wanted comes before all steps the search is in.               *)
LEMMA WantedBefore ==
  ASSUME NEW deps \in Dependencies, NEW s, SearchOK(deps, s), NEW id \in Wanted(deps, s),
         NEW order \in [1..Cardinality(Steps) -> Steps], IsOrder(deps, order)
  PROVE  /\ id \in Steps
         /\ \A m, n \in DOMAIN order : \A i \in DOMAIN s.path :
               order[m] = id /\ order[n] = s.path[i] => m < n
  <1>0. s \in Search /\ s.path \in Seq(Steps) /\ Nested(deps, s.path)
    BY DEF SearchOK, Search
  <1>1. CASE s.path = <<>>
    BY <1>0, <1>1, WantedIs
  <1>2. CASE s.path # <<>>
    <2>. DEFINE top == Len(s.path)
    <2>1. /\ top \in DOMAIN s.path /\ s.path[top] \in Steps /\ id \in deps[s.path[top]]
          /\ DOMAIN s.path = 1..top /\ top \in Nat
      BY <1>0, <1>2, WantedIs
    <2>2. PICK t \in DOMAIN order : order[t] = s.path[top]
      BY <2>1 DEF IsOrder, Ids
    <2>3. id \in Steps /\ \A m \in DOMAIN order : order[m] = id => m < t
      BY <2>1, <2>2, DependsBefore
    <2>4. ASSUME NEW m \in DOMAIN order, NEW n \in DOMAIN order, NEW i \in DOMAIN s.path,
                 order[m] = id, order[n] = s.path[i]
          PROVE  m < n
      <3>0. Cardinality(Steps) \in Nat
        BY OrderAssumption, FS_CardinalityType
      <3>1. t <= n
        <4>1. CASE i = top
          <5>1. n = t
            BY <2>2, <2>4, <4>1 DEF IsOrder, IsInjective
          <5>. QED  BY <5>1, <3>0
        <4>2. CASE i # top
          <5>1. i < top
            BY <2>1, <4>2
          <5>2. t < n
            BY <1>0, <2>1, <2>2, <2>4, <5>1 DEF Nested
          <5>. QED  BY <5>2, <3>0
        <4>. QED  BY <4>1, <4>2
      <3>2. m < t
        BY <2>3, <2>4
      <3>. QED  BY <3>0, <3>1, <3>2
    <2>. QED  BY <2>3, <2>4
  <1>. QED  BY <1>1, <1>2

(* A step more at the end.                                                 *)
LEMMA Longer ==
  ASSUME NEW q \in Seq(Steps), NEW id \in Steps, NEW new, new = Append(q, id)
  PROVE  /\ new \in Seq(Steps) /\ Len(q) \in Nat
         /\ DOMAIN q = 1..Len(q) /\ DOMAIN new = 1..(Len(q) + 1)
         /\ \A i \in DOMAIN q : new[i] = q[i]
         /\ new[Len(q) + 1] = id
         /\ Ids(new) = Ids(q) \cup {id}
         /\ IsInjective(q) /\ id \notin Ids(q) => IsInjective(new)
  <1>1. /\ new \in Seq(Steps) /\ Len(q) \in Nat
        /\ DOMAIN q = 1..Len(q) /\ DOMAIN new = 1..(Len(q) + 1)
        /\ \A i \in DOMAIN q : new[i] = q[i]
        /\ new[Len(q) + 1] = id
    OBVIOUS
  <1>2. Ids(new) = Ids(q) \cup {id}
    <2>1. \A i \in DOMAIN new : i \in DOMAIN q \/ i = Len(q) + 1
      BY <1>1
    <2>2. \A i \in DOMAIN q : i \in DOMAIN new
      BY <1>1
    <2>3. Len(q) + 1 \in DOMAIN new
      BY <1>1
    <2>. QED  BY ONLY <1>1, <2>1, <2>2, <2>3 DEF Ids
  <1>3. ASSUME IsInjective(q), id \notin Ids(q), NEW i \in DOMAIN new, NEW j \in DOMAIN new,
               new[i] = new[j]
        PROVE  i = j
    <2>1. i \in DOMAIN q \/ i = Len(q) + 1
      BY <1>1
    <2>2. j \in DOMAIN q \/ j = Len(q) + 1
      BY <1>1
    <2>. QED  BY ONLY <1>1, <1>3, <2>1, <2>2 DEF IsInjective, Ids
  <1>. QED  BY <1>1, <1>2, <1>3 DEF IsInjective

LEMMA VisitOK ==
  ASSUME NEW deps \in Dependencies, NEW s, SearchOK(deps, s), NEW id \in Visitable(deps, s)
  PROVE  SearchOK(deps, Visit(s, id))
  <1>. DEFINE path == s.path
              new == Append(path, id)
  <1>1. /\ s \in Search /\ path \in Seq(Steps) /\ s.order \in Seq(Steps)
        /\ IsInjective(path) /\ Ids(path) \cap Ids(s.order) = {} /\ Nested(deps, path)
    BY DEF SearchOK, Search
  <1>2. id \in Wanted(deps, s) /\ id \in Steps /\ id \notin Ids(path) /\ id \notin Ids(s.order)
    BY <1>1, WantedIs DEF Visitable
  <1>4. Visit(s, id) = [s EXCEPT !.path = new] /\ new = Append(path, id)
    BY DEF Visit
  <1>. HIDE DEF new, path
  <1>3. /\ new \in Seq(Steps) /\ Len(path) \in Nat
        /\ DOMAIN path = 1..Len(path) /\ DOMAIN new = 1..(Len(path) + 1)
        /\ \A i \in DOMAIN path : new[i] = path[i]
        /\ new[Len(path) + 1] = id
        /\ Ids(new) = Ids(path) \cup {id} /\ IsInjective(new)
    <2>1. path \in Seq(Steps) /\ id \in Steps /\ new = Append(path, id)
      BY <1>1, <1>2, <1>4
    <2>2. /\ new \in Seq(Steps) /\ Len(path) \in Nat
          /\ DOMAIN path = 1..Len(path) /\ DOMAIN new = 1..(Len(path) + 1)
      BY ONLY <2>1, Longer
    <2>3. (\A i \in DOMAIN path : new[i] = path[i]) /\ new[Len(path) + 1] = id
      BY ONLY <2>1, Longer
    <2>5. Ids(new) = Ids(path) \cup {id}
      BY ONLY <2>1, Longer
    <2>4. IsInjective(new)
      BY ONLY <1>1, <1>2, <2>1, Longer
    <2>. QED  BY ONLY <2>2, <2>3, <2>4, <2>5
  <1>5. Visit(s, id) \in Search /\ Visit(s, id).path = new /\ Visit(s, id).order = s.order
    BY <1>1, <1>3, <1>4 DEF Search, path
  <1>6. Nested(deps, new)
    <2>. SUFFICES ASSUME NEW order \in [1..Cardinality(Steps) -> Steps], IsOrder(deps, order),
                         NEW m \in DOMAIN order, NEW n \in DOMAIN order,
                         NEW i \in DOMAIN new, NEW j \in DOMAIN new,
                         i < j, order[m] = new[j], order[n] = new[i]
                  PROVE  m < n
      BY DEF Nested
    <2>1. CASE j = Len(path) + 1
      <3>1. i \in DOMAIN s.path /\ order[n] = s.path[i] /\ order[m] = id
        BY <1>3, <2>1 DEF path
      <3>2. \A k \in DOMAIN s.path : order[n] = s.path[k] => m < n
        BY <1>2, <3>1, WantedBefore
      <3>. QED  BY <3>1, <3>2
    <2>2. CASE j # Len(path) + 1
      <3>0. i \in 1..(Len(path) + 1) /\ j \in 1..(Len(path) + 1)
        BY <1>3
      <3>1. i \in DOMAIN path /\ j \in DOMAIN path
        BY <1>3, <2>2, <3>0
      <3>2. order[m] = path[j] /\ order[n] = path[i]
        BY <1>3, <3>1
      <3>. QED  BY <1>1, <3>1, <3>2 DEF Nested
    <2>. QED  BY <2>1, <2>2
  <1>7. Ids(new) \cap Ids(s.order) = {}
    BY <1>1, <1>2, <1>3
  <1>8. \A i \in DOMAIN s.order : deps[s.order[i]] \subseteq {s.order[j] : j \in 1..(i - 1)}
    BY DEF SearchOK
  <1>9. IsInjective(s.order)
    BY DEF SearchOK
  <1>. QED  BY ONLY <1>3, <1>5, <1>6, <1>7, <1>8, <1>9 DEF SearchOK

LEMMA ReturnOK ==
  ASSUME NEW deps \in Dependencies, NEW s, SearchOK(deps, s), Returning(deps, s)
  PROVE  SearchOK(deps, Return(s))
  <1>. DEFINE path == s.path
              order == s.order
              top == Len(path)
              front == Front(path)
              id == path[top]
              new == Append(order, id)
  <1>1. /\ s \in Search /\ path \in Seq(Steps) /\ order \in Seq(Steps)
        /\ IsInjective(path) /\ IsInjective(order) /\ Ids(path) \cap Ids(order) = {}
        /\ Nested(deps, path)
        /\ \A i \in DOMAIN order : deps[order[i]] \subseteq {order[j] : j \in 1..(i - 1)}
    BY DEF SearchOK, Search
  <1>2. path # <<>> /\ deps[id] \subseteq Ids(order)
    BY DEF Returning, Wanted, Last
  <1>3. /\ top \in Nat /\ top > 0 /\ DOMAIN path = 1..top /\ id \in Steps
    BY <1>1, <1>2
  <1>4. /\ front \in Seq(Steps) /\ DOMAIN front = 1..(top - 1)
        /\ \A i \in DOMAIN front : front[i] = path[i]
    BY <1>1, <1>3 DEF Front
  <1>6. Return(s) = [path |-> front, order |-> new]
    BY DEF Return, Last
  <1>14. new = Append(order, id)
    OBVIOUS
  <1>. HIDE DEF path, order, id, front, new, top
  <1>5. /\ new \in Seq(Steps) /\ Len(order) \in Nat
        /\ DOMAIN order = 1..Len(order) /\ DOMAIN new = 1..(Len(order) + 1)
        /\ \A i \in DOMAIN order : new[i] = order[i]
        /\ new[Len(order) + 1] = id
        /\ Ids(new) = Ids(order) \cup {id}
        /\ id \notin Ids(order) => IsInjective(new)
    <2>1. order \in Seq(Steps) /\ id \in Steps /\ new = Append(order, id)
      BY <1>1, <1>3, <1>14
    <2>2. /\ new \in Seq(Steps) /\ Len(order) \in Nat
          /\ DOMAIN order = 1..Len(order) /\ DOMAIN new = 1..(Len(order) + 1)
      BY ONLY <2>1, Longer
    <2>3. (\A i \in DOMAIN order : new[i] = order[i]) /\ new[Len(order) + 1] = id
      BY ONLY <2>1, Longer
    <2>5. Ids(new) = Ids(order) \cup {id}
      BY ONLY <2>1, Longer
    <2>4. id \notin Ids(order) => IsInjective(new)
      BY ONLY <1>1, <2>1, Longer
    <2>. QED  BY ONLY <2>2, <2>3, <2>4, <2>5
  <1>7. Return(s) \in Search /\ Return(s).path = front /\ Return(s).order = new
    BY <1>4, <1>5, <1>6 DEF Search
  <1>8. id \in Ids(path) /\ id \notin Ids(order)
    BY <1>1, <1>3 DEF Ids, id
  <1>9. IsInjective(front) /\ Ids(front) \subseteq Ids(path) /\ id \notin Ids(front)
    BY <1>1, <1>3, <1>4 DEF IsInjective, Ids, id
  <1>10. IsInjective(new) /\ Ids(new) = Ids(order) \cup {id}
    BY <1>5, <1>8
  <1>11. Ids(front) \cap Ids(new) = {}
    BY <1>1, <1>9, <1>10
  <1>12. ASSUME NEW i \in DOMAIN new
         PROVE  deps[new[i]] \subseteq {new[j] : j \in 1..(i - 1)}
    <2>1. CASE i = Len(order) + 1
      <3>1. Ids(order) = {new[j] : j \in 1..(i - 1)}
        BY <1>5, <2>1 DEF Ids
      <3>. QED  BY <1>2, <1>5, <2>1, <3>1
    <2>2. CASE i # Len(order) + 1
      <3>1. i \in DOMAIN order /\ new[i] = order[i]
        BY <1>5, <2>2
      <3>2. {order[j] : j \in 1..(i - 1)} = {new[j] : j \in 1..(i - 1)}
        BY <1>5, <3>1
      <3>. QED  BY <1>1, <3>1, <3>2
    <2>. QED  BY <2>1, <2>2
  <1>13. Nested(deps, front)
    <2>1. \A i \in DOMAIN front : i \in DOMAIN path /\ front[i] = path[i]
      BY <1>3, <1>4
    <2>. QED  BY <1>1, <2>1 DEF Nested
  <1>. QED  BY <1>7, <1>9, <1>10, <1>11, <1>12, <1>13 DEF SearchOK

LEMMA StartOK == \A deps \in Dependencies : SearchOK(deps, NoSearch)
  BY DEF SearchOK, NoSearch, Search, IsInjective, Ids, Nested

(* A search that is over has put every step behind all it depends on.      *)
LEMMA CompleteOK ==
  ASSUME NEW deps \in Dependencies, NEW s, SearchOK(deps, s), Complete(deps, s)
  PROVE  s.order \in Seq(Steps) /\ IsOrder(deps, s.order)
  <1>1. s.order \in Seq(Steps) /\ Steps \subseteq Ids(s.order)
    BY DEF SearchOK, Search, Complete, Wanted
  <1>2. Ids(s.order) = Steps
    BY <1>1 DEF Ids
  <1>. QED  BY <1>1, <1>2 DEF SearchOK, IsOrder

(* A search that fails has met a cycle, or a step that does not exist.     *)
LEMMA RefusedOK ==
  ASSUME NEW deps \in Dependencies, NEW s, SearchOK(deps, s), Refused(deps, s)
  PROVE  ~Orderable(deps)
  <1>. SUFFICES ASSUME NEW order \in [1..Cardinality(Steps) -> Steps], IsOrder(deps, order)
                PROVE  FALSE
    BY DEF Orderable
  <1>1. PICK id \in Wanted(deps, s) : id \in Ids(s.path) \cup {Missing}
    BY DEF Refused
  <1>2. id \in Steps /\ \A m, n \in DOMAIN order : \A i \in DOMAIN s.path :
                           order[m] = id /\ order[n] = s.path[i] => m < n
    BY WantedBefore
  <1>3. PICK i \in DOMAIN s.path : id = s.path[i]
    BY <1>1, <1>2, OrderAssumption DEF Ids
  <1>4. PICK m \in DOMAIN order : order[m] = id
    BY <1>2 DEF IsOrder, Ids
  <1>5. Cardinality(Steps) \in Nat
    BY OrderAssumption, FS_CardinalityType
  <1>. QED  BY <1>2, <1>3, <1>4, <1>5

-----------------------------------------------------------------------------
(***************************************************************************)
(* The runs.                                                               *)
(***************************************************************************)
Exec == [pc : {"idle", "collected", "ready", "entered", "between", "executing"},
         run : 0..MaxRuns, def : Definitions \cup {NoWorkflow}, search : Search,
         left : Seq(Steps), done : SUBSET Steps, cost : Nat]

(* What the engine has done is a beginning of the order, without the gate. *)
InOrder(x) ==
    \E order \in Seq(Steps) : \E k \in 0..Len(order) :
        /\ IsOrder(x.def.deps, order)
        /\ Len(x.left) = Len(order) - k
        /\ \A i \in 1..Len(x.left) : x.left[i] = order[k + i]
        /\ x.done = {order[i] : i \in 1..k}
        /\ x.def.gate \notin x.done

Engaged(x) == x.pc \in {"between", "executing"}

(* What caller x may rely on, with the row of the run it executes.         *)
CallOK(x, row) ==
    /\ row.status \in {"running", "deleted"}
    /\ Engaged(x) => InOrder(x) /\ (row.status = "deleted" \/ \A s \in x.done : row.log[s] = "success")
    /\ x.pc = "executing" => x.left # <<>> /\ Head(x.left) # x.def.gate

CallerOK(c) ==
    /\ exec[c].pc \in {"idle", "collected"} => exec[c].run = 0
    /\ exec[c].pc # "idle" => exec[c].def \in Definitions
    /\ exec[c].pc \in {"collected", "ready", "entered"} => exec[c].done = {}
    /\ exec[c].pc \in {"collected", "ready"} => exec[c].search = NoSearch
    /\ exec[c].pc = "entered" => SearchOK(exec[c].def.deps, exec[c].search)
    /\ exec[c].run # 0 => CallOK(exec[c], runs[exec[c].run])

Gone == workflow = NoWorkflow => \A r \in DOMAIN runs : runs[r].status = "deleted"

Counted == {r \in DOMAIN runs : runs[r].source = "cron" /\ runs[r].status # "deleted"}

(* Firings that are due and were due at the start of no run that is left.  *)
Fresh == {f \in due : \A r \in DOMAIN runs : runs[r].status # "deleted" => f \notin runs[r].since}

CronOK ==
    /\ due \subseteq 1..fired
    /\ Cardinality(Counted) + Cardinality(Fresh) <= fired
    /\ exec[Cron].pc = "collected" => Cardinality(Counted) < fired

IInv ==
    /\ TypeOK
    /\ \A c \in Callers : CallerOK(c)
    /\ OneEngine
    /\ SuccessMeansAll
    /\ Gone
    /\ CronOK

-----------------------------------------------------------------------------
(* Callers and the call that is none.                                      *)
LEMMA Basics ==
  /\ Cron \in Callers /\ Handlers \subseteq Callers /\ Cron \notin Handlers /\ Nobody \notin Handlers
  /\ Idle \in Exec /\ Idle.pc = "idle" /\ Idle.run = 0 /\ Idle.search = NoSearch
  /\ MaxRuns \in Nat /\ MaxFirings \in Nat /\ MaxEdits \in Nat
  /\ NoWorkflow \notin Definitions
  /\ \A d \in Definitions : /\ d.deps \in Dependencies
                            /\ d.gate \in Steps \cup {Missing, NoGate} /\ d.limit \in Nat
  <1>1. NoSearch \in Search
    BY DEF NoSearch, Search
  <1>. QED  BY <1>1, WorkflowAssumption DEF Callers, Idle, Exec, Definition

(* Bounded sets of numbers are finite, and a smaller one has fewer.        *)
LEMMA Counting ==
  ASSUME NEW n \in Nat, NEW S, NEW T, T \subseteq 1..n, S \subseteq T
  PROVE  /\ IsFiniteSet(S) /\ IsFiniteSet(T)
         /\ Cardinality(S) \in Nat /\ Cardinality(T) \in Nat /\ Cardinality(S) <= Cardinality(T)
  <1>1. IsFiniteSet(1..n)
    BY FS_Interval
  <1>2. IsFiniteSet(T)
    BY <1>1, FS_Subset
  <1>3. IsFiniteSet(S) /\ Cardinality(S) <= Cardinality(T)
    BY <1>2, FS_Subset
  <1>. QED  BY <1>2, <1>3, FS_CardinalityType

(* A caller whose call nobody touches stays right: its run is as before,   *)
(* or deleted.                                                             *)
LEMMA Bystander ==
  ASSUME NEW c \in Callers, CallerOK(c), exec'[c] = exec[c],
         exec[c].run # 0 => \/ runs'[exec[c].run] = runs[exec[c].run]
                            \/ runs'[exec[c].run].status = "deleted"
  PROVE  CallerOK(c)'
  BY DEF CallerOK, CallOK

(* An execution of run r by c leaves everything else as it is.             *)
LEMMA Executes ==
  ASSUME IInv, NEW c \in Callers, NEW r, r = exec[c].run, r # 0,
         runs' \in Seq(Run), Len(runs') = Len(runs),
         \A q \in DOMAIN runs : q # r => runs'[q] = runs[q],
         runs'[r].source = runs[r].source, runs'[r].since = runs[r].since,
         runs'[r].status = "deleted" <=> runs[r].status = "deleted",
         runs'[r].status = "success" => \A s \in Steps : runs'[r].log[s] = "success",
         NEW x \in Exec, exec' = [exec EXCEPT ![c] = x], x.run \in {r, 0},
         x.pc # "collected", x.pc \notin {"idle"} => x.run # 0,
         CallerOK(c)',
         lock' \in Handlers \cup {Nobody},
         \A h \in Handlers : (lock' = h) <=> InEngine(h)',
         cut' \subseteq 1..MaxRuns,
         UNCHANGED <<workflow, world, approvals>>
  PROVE  IInv'
  <1>1. /\ r \in DOMAIN runs /\ exec \in [Callers -> Exec] /\ Len(runs) <= MaxRuns
        /\ runs \in Seq(Run) /\ DOMAIN runs' = DOMAIN runs
    BY DEF IInv, TypeOK, CallerOK, Exec
  <1>2. TypeOK'
    BY <1>1 DEF IInv, TypeOK, Exec, world
  <1>3. \A d \in Callers : CallerOK(d)'
    <2>. SUFFICES ASSUME NEW d \in Callers, d # c PROVE CallerOK(d)'
      OBVIOUS
    <2>1. exec'[d] = exec[d] /\ CallerOK(d)
      BY <1>1 DEF IInv
    <2>2. exec[d].run # 0 => exec[d].run # r /\ exec[d].run \in DOMAIN runs
      BY DEF IInv, OneEngine, TypeOK, CallerOK
    <2>. QED  BY <2>1, <2>2, Bystander
  <1>4. OneEngine'
    BY <1>1 DEF IInv, OneEngine
  <1>5. SuccessMeansAll'
    BY <1>1 DEF IInv, SuccessMeansAll
  <1>6. Gone'
    BY <1>1 DEF IInv, Gone
  <1>7. CronOK'
    <2>1. Counted' = Counted
      BY <1>1 DEF Counted
    <2>2. Fresh' = Fresh
      BY <1>1, SMTT(30) DEF Fresh, world
    <2>3. exec'[Cron].pc = "collected" => exec[Cron].pc = "collected"
      BY <1>1, Basics
    <2>. QED  BY <2>1, <2>2, <2>3 DEF IInv, CronOK, world
  <1>. QED  BY <1>2, <1>3, <1>4, <1>5, <1>6, <1>7 DEF IInv

-----------------------------------------------------------------------------
(* What an engine holds: a run that is running or deleted.                 *)
LEMMA Executing ==
  ASSUME IInv, NEW c \in Callers, exec[c].pc \notin {"idle", "collected"}
  PROVE  /\ exec[c] \in Exec /\ exec \in [Callers -> Exec]
         /\ exec[c].run \in DOMAIN runs /\ exec[c].run # 0
         /\ runs \in Seq(Run) /\ runs[exec[c].run] \in Run
         /\ runs[exec[c].run].status \in {"running", "deleted"}
         /\ CallerOK(c) /\ CallOK(exec[c], runs[exec[c].run])
         /\ exec[c].def \in Definitions
  <1>1. exec[c].run \in DOMAIN runs /\ runs \in Seq(Run) /\ exec \in [Callers -> Exec]
    BY DEF IInv, TypeOK, Exec
  <1>. QED  BY <1>1 DEF IInv, CallerOK, CallOK

(* SetStatus and SetLog change one row, and not a deleted one.             *)
LEMMA SetsStatus ==
  ASSUME runs \in Seq(Run), NEW r \in DOMAIN runs, NEW status \in Status
  PROVE  LET new == SetStatus(r, status) IN
         /\ new \in Seq(Run) /\ Len(new) = Len(runs) /\ DOMAIN new = DOMAIN runs
         /\ \A q \in DOMAIN runs : q # r => new[q] = runs[q]
         /\ new[r].source = runs[r].source /\ new[r].since = runs[r].since
         /\ new[r].log = runs[r].log
         /\ new[r].status = IF runs[r].status = "deleted" THEN "deleted" ELSE status
  <1>1. runs[r] \in Run
    OBVIOUS
  <1>2. CASE runs[r].status = "deleted"
    BY <1>2 DEF SetStatus
  <1>3. CASE runs[r].status # "deleted"
    <2>. DEFINE row == [runs[r] EXCEPT !.status = status]
    <2>1. row \in Run /\ row.log = runs[r].log /\ row.status = status
          /\ row.source = runs[r].source /\ row.since = runs[r].since
      BY <1>1 DEF Run
    <2>2. SetStatus(r, status) = [runs EXCEPT ![r] = row]
      BY <1>3 DEF SetStatus
    <2>. HIDE DEF row
    <2>. QED  BY <1>1, <1>3, <2>1, <2>2
  <1>. QED  BY <1>2, <1>3

(* The same for a step log.                                                *)
LEMMA SetsLog ==
  ASSUME NEW table \in Seq(Run), NEW r \in DOMAIN table, NEW s \in Steps,
         NEW status \in {"running", "success", "failed"},
         NEW new, new = SetLog(table, r, s, status)
  PROVE  /\ new \in Seq(Run) /\ Len(new) = Len(table) /\ DOMAIN new = DOMAIN table
         /\ \A q \in DOMAIN table : q # r => new[q] = table[q]
         /\ new[r].source = table[r].source /\ new[r].since = table[r].since
         /\ new[r].status = table[r].status
         /\ table[r].status # "deleted" =>
               \A t \in Steps : new[r].log[t] = IF t = s THEN status ELSE table[r].log[t]
  <1>0. table[r] \in Run
    OBVIOUS
  <1>1. table[r] \in Run /\ table[r].log \in [Steps -> {"none", "running", "success", "failed"}]
    BY <1>0 DEF Run
  <1>2. CASE table[r].status = "deleted"
    BY <1>2 DEF SetLog
  <1>3. CASE table[r].status # "deleted"
    <2>. DEFINE row == [table[r] EXCEPT !.log = [table[r].log EXCEPT ![s] = status]]
    <2>1. row \in Run /\ row.log = [table[r].log EXCEPT ![s] = status]
          /\ row.status = table[r].status /\ row.source = table[r].source
          /\ row.since = table[r].since
      BY <1>1 DEF Run
    <2>2. SetLog(table, r, s, status) = [table EXCEPT ![r] = row]
      BY <1>1, <1>3 DEF SetLog, Run
    <2>. HIDE DEF row
    <2>. QED  BY <1>1, <1>3, <2>1, <2>2
  <1>. QED  BY <1>2, <1>3

(* The same for the log of a run as it is.                                 *)
LEMMA Logs ==
  ASSUME runs \in Seq(Run), NEW r \in DOMAIN runs, NEW s \in Steps,
         NEW status \in {"running", "success", "failed"},
         runs' = SetLog(runs, r, s, status)
  PROVE  /\ runs' \in Seq(Run) /\ Len(runs') = Len(runs)
         /\ \A q \in DOMAIN runs : q # r => runs'[q] = runs[q]
         /\ runs'[r].source = runs[r].source /\ runs'[r].since = runs[r].since
         /\ runs'[r].status = runs[r].status
         /\ runs[r].status # "deleted" =>
               \A t \in Steps : runs'[r].log[t] = IF t = s THEN status ELSE runs[r].log[t]
  <1>0. runs[r] \in Run
    OBVIOUS
  <1>1. runs[r] \in Run /\ runs[r].log \in [Steps -> {"none", "running", "success", "failed"}]
    BY <1>0 DEF Run
  <1>2. CASE runs[r].status = "deleted"
    BY <1>2 DEF SetLog
  <1>3. CASE runs[r].status # "deleted"
    <2>. DEFINE row == [runs[r] EXCEPT !.log = [runs[r].log EXCEPT ![s] = status]]
    <2>1. row \in Run /\ row.log = [runs[r].log EXCEPT ![s] = status]
          /\ row.status = runs[r].status /\ row.source = runs[r].source
          /\ row.since = runs[r].since
      BY <1>1 DEF Run
    <2>2. SetLog(runs, r, s, status) = [runs EXCEPT ![r] = row]
      BY <1>1, <1>3 DEF SetLog, Run
    <2>. HIDE DEF row
    <2>. QED  BY <1>1, <1>3, <2>1, <2>2
  <1>. QED  BY <1>2, <1>3

(* A call that ends: the lock is free again if it was the caller's.        *)
LEMMA Ended ==
  ASSUME IInv, NEW c \in Callers, exec[c].pc # "idle", Finish(c)
  PROVE  /\ exec' = [exec EXCEPT ![c] = Idle]
         /\ CallerOK(c)'
         /\ lock' \in Handlers \cup {Nobody}
         /\ \A h \in Handlers : (lock' = h) <=> InEngine(h)'
  <1>1. exec \in [Callers -> Exec] /\ lock \in Handlers \cup {Nobody}
        /\ \A h \in Handlers : (lock = h) <=> InEngine(h)
    BY DEF IInv, TypeOK, Exec
  <1>2. exec' = [exec EXCEPT ![c] = Idle] /\ lock' = IF lock = c THEN Nobody ELSE lock
    BY DEF Finish
  <1>3. exec'[c] = Idle /\ \A d \in Callers : d # c => exec'[d] = exec[d]
    BY <1>1, <1>2
  <1>4. CallerOK(c)'
    BY <1>3, Basics DEF CallerOK
  <1>5. \A h \in Handlers : (lock' = h) <=> InEngine(h)'
    <2>. SUFFICES ASSUME NEW h \in Handlers PROVE (lock' = h) <=> InEngine(h)'
      OBVIOUS
    <2>1. CASE h = c
      BY <1>2, <1>3, <2>1, Basics DEF InEngine
    <2>2. CASE h # c
      BY <1>1, <1>2, <1>3, <2>2, Basics DEF InEngine
    <2>. QED  BY <2>1, <2>2
  <1>. QED  BY <1>1, <1>2, <1>4, <1>5

(* A call that goes on inside the engine keeps the lock.                   *)
LEMMA GoesOn ==
  ASSUME IInv, NEW c \in Callers, InEngine(c), NEW x \in Exec,
         x.pc \in {"entered", "between", "executing"},
         exec' = [exec EXCEPT ![c] = x], UNCHANGED lock
  PROVE  /\ exec'[c] = x
         /\ lock' \in Handlers \cup {Nobody}
         /\ \A h \in Handlers : (lock' = h) <=> InEngine(h)'
  BY DEF IInv, TypeOK, InEngine

(* A call of visit begins or ends: the search goes on, and stays right.     *)
LEMMA SearchStep ==
  ASSUME IInv, NEW c \in Callers, exec[c].pc = "entered",
         NEW search, SearchOK(exec[c].def.deps, search),
         exec' = [exec EXCEPT ![c].search = search],
         UNCHANGED <<workflow, runs, lock, world, history>>
  PROVE  IInv'
  <1>. DEFINE r == exec[c].run
              x == [exec[c] EXCEPT !.search = search]
  <1>1. /\ exec[c] \in Exec /\ exec \in [Callers -> Exec] /\ r \in DOMAIN runs /\ r # 0
        /\ runs \in Seq(Run) /\ CallerOK(c) /\ exec[c].def \in Definitions
        /\ CallOK(exec[c], runs[r])
    BY Executing
  <1>2. cut' \subseteq 1..MaxRuns /\ UNCHANGED <<workflow, world, approvals, runs, lock>>
    BY DEF IInv, TypeOK, history
  <1>3. search \in Search
    BY DEF SearchOK
  <1>4. /\ x \in Exec /\ x.pc = "entered" /\ x.run = r /\ x.def = exec[c].def
        /\ x.done = exec[c].done /\ x.search = search
    BY <1>1, <1>3 DEF Exec
  <1>5. exec' = [exec EXCEPT ![c] = x]
    BY <1>1
  <1>. HIDE DEF x
  <1>6. InEngine(c)
    BY DEF InEngine
  <1>7. /\ exec'[c] = x /\ lock' \in Handlers \cup {Nobody}
        /\ \A h \in Handlers : (lock' = h) <=> InEngine(h)'
    BY <1>2, <1>4, <1>5, <1>6, GoesOn
  <1>8. CallerOK(c)'
    BY <1>1, <1>2, <1>4, <1>7 DEF CallerOK, CallOK, Engaged
  <1>9. /\ runs'[r].status = "success" => \A s \in Steps : runs'[r].log[s] = "success"
        /\ lock' \in Handlers \cup {Nobody}
    BY <1>1, <1>2 DEF CallOK, IInv, TypeOK
  <1>10. /\ IInv /\ c \in Callers /\ runs' \in Seq(Run) /\ Len(runs') = Len(runs)
         /\ \A q \in DOMAIN runs : q # r => runs'[q] = runs[q]
         /\ runs'[r].source = runs[r].source /\ runs'[r].since = runs[r].since
         /\ runs'[r].status = "deleted" <=> runs[r].status = "deleted"
         /\ r = exec[c].run
    BY <1>1, <1>2
  <1>. HIDE DEF r
  <1>. QED  BY ONLY <1>1, <1>2, <1>4, <1>5, <1>7, <1>8, <1>9, <1>10, Executes

LEMMA VisitsStep == ASSUME IInv, NEW c \in Callers, Visits(c) PROVE IInv'
  <1>. DEFINE deps == exec[c].def.deps
  <1>1. exec[c].pc = "entered"
    BY DEF Visits
  <1>2. deps \in Dependencies /\ SearchOK(deps, exec[c].search)
    BY <1>1, Executing, Basics DEF CallerOK
  <1>3. PICK id \in Visitable(deps, exec[c].search) :
           exec' = [exec EXCEPT ![c].search = Visit(exec[c].search, id)]
    BY Executing DEF Visits, Deps
  <1>. DEFINE search == Visit(exec[c].search, id)
  <1>4. SearchOK(deps, search)
    BY <1>2, VisitOK
  <1>. QED  BY <1>1, <1>3, <1>4, SearchStep DEF Visits

LEMMA ReturnsStep == ASSUME IInv, NEW c \in Callers, Returns(c) PROVE IInv'
  <1>. DEFINE deps == exec[c].def.deps
              search == Return(exec[c].search)
  <1>1. exec[c].pc = "entered" /\ Returning(deps, exec[c].search)
    BY DEF Returns, Deps
  <1>2. deps \in Dependencies /\ SearchOK(deps, exec[c].search)
    BY <1>1, Executing, Basics DEF CallerOK
  <1>3. exec' = [exec EXCEPT ![c].search = search]
    BY <1>1, Executing DEF Returns
  <1>4. SearchOK(deps, search)
    BY <1>1, <1>2, ReturnOK
  <1>. QED  BY <1>1, <1>3, <1>4, SearchStep DEF Returns

(* A cycle or a step that does not exist: the run has failed.              *)
LEMMA RefusesStep == ASSUME IInv, NEW c \in Callers, Refuses(c) PROVE IInv'
  <1>. DEFINE r == exec[c].run
  <1>1. exec[c].pc = "entered" /\ runs' = SetStatus(r, "failed") /\ Finish(c)
    BY DEF Refuses
  <1>2. r \in DOMAIN runs /\ r # 0 /\ runs \in Seq(Run)
    BY <1>1, Executing
  <1>3. cut' \subseteq 1..MaxRuns /\ UNCHANGED <<workflow, world, approvals>>
    BY DEF IInv, TypeOK, Refuses, history
  <1>4. /\ exec' = [exec EXCEPT ![c] = Idle] /\ CallerOK(c)'
        /\ lock' \in Handlers \cup {Nobody}
        /\ \A h \in Handlers : (lock' = h) <=> InEngine(h)'
    BY <1>1, Ended
  <1>5. /\ runs' \in Seq(Run) /\ Len(runs') = Len(runs)
        /\ \A q \in DOMAIN runs : q # r => runs'[q] = runs[q]
        /\ runs'[r].source = runs[r].source /\ runs'[r].since = runs[r].since
        /\ runs'[r].status = IF runs[r].status = "deleted" THEN "deleted" ELSE "failed"
    BY <1>1, <1>2, SetsStatus DEF Status
  <1>. QED  BY <1>2, <1>3, <1>4, <1>5, Executes, Basics

(* The search is over: the order, with nothing done yet.                   *)
LEMMA SortedStep == ASSUME IInv, NEW c \in Callers, Sorted(c) PROVE IInv'
  <1>. DEFINE r == exec[c].run
              deps == exec[c].def.deps
              order == exec[c].search.order
              x == [exec[c] EXCEPT !.pc = "between", !.left = order, !.search = NoSearch]
  <1>1. exec[c].pc = "entered" /\ Complete(deps, exec[c].search)
    BY DEF Sorted, Deps
  <1>2. /\ exec[c] \in Exec /\ exec \in [Callers -> Exec] /\ r \in DOMAIN runs /\ r # 0
        /\ runs \in Seq(Run) /\ runs[r].status \in {"running", "deleted"}
        /\ CallerOK(c) /\ exec[c].def \in Definitions
    BY <1>1, Executing
  <1>3. deps \in Dependencies /\ exec[c].def.gate \in Steps \cup {Missing, NoGate}
    BY <1>2, Basics
  <1>4. cut' \subseteq 1..MaxRuns /\ UNCHANGED <<workflow, world, approvals, runs, lock>>
    BY DEF IInv, TypeOK, Sorted, history
  <1>5. order \in Seq(Steps) /\ IsOrder(deps, order)
    BY <1>1, <1>2, <1>3, CompleteOK DEF CallerOK
  <1>6. NoSearch \in Search
    BY DEF NoSearch, Search
  <1>7. exec' = [exec EXCEPT ![c] = x]
    BY <1>2 DEF Sorted, Exec
  <1>8. /\ x \in Exec /\ x.pc = "between" /\ x.left = order /\ x.run = r
        /\ x.def = exec[c].def /\ x.done = {}
    BY <1>1, <1>2, <1>5, <1>6 DEF Exec, CallerOK
  <1>9. InOrder(x)
    <2>1. Len(order) \in Nat /\ 0 \in 0..Len(order) /\ {order[i] : i \in 1..0} = {}
      BY <1>5
    <2>. HIDE DEF x, order
    <2>2. \A i \in 1..Len(x.left) : x.left[i] = order[0 + i]
      BY <1>5, <1>8
    <2>. QED  BY <1>5, <1>8, <2>1, <2>2 DEF InOrder, deps
  <1>. HIDE DEF x
  <1>10. InEngine(c)
    BY <1>1 DEF InEngine
  <1>11. /\ exec'[c] = x /\ lock' \in Handlers \cup {Nobody}
         /\ \A h \in Handlers : (lock' = h) <=> InEngine(h)'
    BY <1>4, <1>7, <1>8, <1>10, GoesOn
  <1>12. CallerOK(c)'
    BY <1>2, <1>4, <1>8, <1>9, <1>11 DEF CallerOK, CallOK, Engaged
  <1>. QED  BY <1>2, <1>4, <1>7, <1>8, <1>11, <1>12, Executes

LEMMA SortStep == ASSUME IInv, NEW c \in Callers, Sort(c) PROVE IInv'
  BY VisitsStep, ReturnsStep, RefusesStep, SortedStep DEF Sort

(* The gate, a failed step, the end: the run gets its status and the call  *)
(* is over.  A success has been through the whole order.                   *)
LEMMA OverStep ==
  ASSUME IInv, NEW c \in Callers, exec[c].pc \in {"between", "executing"}, Finish(c),
         runs' \in Seq(Run), Len(runs') = Len(runs),
         \A q \in DOMAIN runs : q # exec[c].run => runs'[q] = runs[q],
         runs'[exec[c].run].source = runs[exec[c].run].source,
         runs'[exec[c].run].since = runs[exec[c].run].since,
         runs'[exec[c].run].status = "deleted" <=> runs[exec[c].run].status = "deleted",
         runs'[exec[c].run].status = "success" =>
             \A s \in Steps : runs'[exec[c].run].log[s] = "success",
         UNCHANGED <<workflow, world, history>>
  PROVE  IInv'
  <1>1. exec[c].run # 0
    BY Executing
  <1>2. /\ exec' = [exec EXCEPT ![c] = Idle] /\ CallerOK(c)'
        /\ lock' \in Handlers \cup {Nobody}
        /\ \A h \in Handlers : (lock' = h) <=> InEngine(h)'
    BY Ended
  <1>3. cut' \subseteq 1..MaxRuns /\ UNCHANGED approvals
    BY DEF IInv, TypeOK, history
  <1>. QED  BY <1>1, <1>2, <1>3, Executes, Basics

(* The engine stops before the gate.                                       *)
LEMMA WaitsStep == ASSUME IInv, NEW c \in Callers, Waits(c) PROVE IInv'
  <1>1. exec[c].pc = "between" /\ Finish(c) /\ runs' = SetStatus(exec[c].run, "waiting_human")
        /\ UNCHANGED <<workflow, world, history>>
    BY DEF Waits
  <1>2. exec[c].run \in DOMAIN runs /\ runs \in Seq(Run)
    BY <1>1, Executing
  <1>3. "waiting_human" \in Status
    BY DEF Status
  <1>. QED  BY <1>1, <1>2, <1>3, SetsStatus, OverStep

(* The order is done: every step has a successful log.                     *)
LEMMA EndsStep == ASSUME IInv, NEW c \in Callers, Ends(c) PROVE IInv'
  <1>. DEFINE r == exec[c].run
  <1>1. exec[c].pc = "between" /\ Finish(c) /\ runs' = SetStatus(r, "success")
        /\ exec[c].left = <<>> /\ UNCHANGED <<workflow, world, history>>
    BY DEF Ends
  <1>2. r \in DOMAIN runs /\ runs \in Seq(Run) /\ CallOK(exec[c], runs[r])
    BY <1>1, Executing
  <1>3. /\ runs' \in Seq(Run) /\ Len(runs') = Len(runs)
        /\ \A q \in DOMAIN runs : q # r => runs'[q] = runs[q]
        /\ runs'[r].source = runs[r].source /\ runs'[r].since = runs[r].since
        /\ runs'[r].log = runs[r].log
        /\ runs'[r].status = IF runs[r].status = "deleted" THEN "deleted" ELSE "success"
    BY <1>1, <1>2, SetsStatus DEF Status
  <1>4. exec[c].done = Steps
    <2>0. PICK order \in Seq(Steps) : \E k \in 0..Len(order) :
             /\ IsOrder(exec[c].def.deps, order) /\ Len(exec[c].left) = Len(order) - k
             /\ exec[c].done = {order[i] : i \in 1..k}
      BY <1>1, <1>2 DEF CallOK, Engaged, InOrder
    <2>1. PICK k \in 0..Len(order) :
             /\ IsOrder(exec[c].def.deps, order) /\ Len(exec[c].left) = Len(order) - k
             /\ exec[c].done = {order[i] : i \in 1..k}
      BY <2>0
    <2>2. k = Len(order)
      BY <1>1, <2>1
    <2>. QED  BY <2>1, <2>2 DEF IsOrder, Ids
  <1>5. runs[r].status # "deleted" => \A s \in Steps : runs[r].log[s] = "success"
    BY <1>1, <1>2, <1>4 DEF CallOK, Engaged
  <1>. QED  BY <1>1, <1>3, <1>5, OverStep

(* A failed step ends the run.                                             *)
LEMMA StepFailsStep == ASSUME IInv, NEW c \in Callers, StepFails(c) PROVE IInv'
  <1>. DEFINE r == exec[c].run
              failed == SetStatus(r, "failed")
  <1>1. exec[c].pc = "executing" /\ Finish(c) /\ runs' = SetLog(failed, r, Current(c), "failed")
        /\ UNCHANGED <<workflow, world, history>>
    BY DEF StepFails
  <1>2. r \in DOMAIN runs /\ runs \in Seq(Run) /\ CallOK(exec[c], runs[r]) /\ exec[c] \in Exec
    BY <1>1, Executing
  <1>3. Current(c) \in Steps
    BY <1>1, <1>2 DEF CallOK, Current, Exec
  <1>4. /\ failed \in Seq(Run) /\ Len(failed) = Len(runs) /\ DOMAIN failed = DOMAIN runs
        /\ \A q \in DOMAIN runs : q # r => failed[q] = runs[q]
        /\ failed[r].source = runs[r].source /\ failed[r].since = runs[r].since
        /\ failed[r].status = IF runs[r].status = "deleted" THEN "deleted" ELSE "failed"
    BY <1>2, SetsStatus DEF Status
  <1>. HIDE DEF failed
  <1>5. /\ runs' \in Seq(Run) /\ Len(runs') = Len(runs)
        /\ \A q \in DOMAIN runs : q # r => runs'[q] = runs[q]
        /\ runs'[r].source = runs[r].source /\ runs'[r].since = runs[r].since
        /\ runs'[r].status = failed[r].status
    <2>1. r \in DOMAIN failed
      BY <1>2, <1>4
    <2>2. /\ runs' \in Seq(Run) /\ Len(runs') = Len(failed)
          /\ \A q \in DOMAIN failed : q # r => runs'[q] = failed[q]
          /\ runs'[r].source = failed[r].source /\ runs'[r].since = failed[r].since
          /\ runs'[r].status = failed[r].status
      <3>1. failed \in Seq(Run)
        BY <1>4
      <3>2. runs' = SetLog(failed, r, Current(c), "failed")
        BY <1>1
      <3>3. runs' \in Seq(Run)
        BY <1>3, <2>1, <3>1, <3>2, SetsLog
      <3>. QED
        BY <1>3, <2>1, <3>1, <3>2, SetsLog
    <2>. QED  BY <1>4, <2>2
  <1>. QED  BY <1>1, <1>4, <1>5, OverStep

(* The step at hand.                                                       *)
LEMMA AtHand ==
  ASSUME IInv, NEW c \in Callers, Engaged(exec[c]), exec[c].left # <<>>
  PROVE  /\ Current(c) \in Steps \ exec[c].done
         /\ Tail(exec[c].left) \in Seq(Steps)
         /\ Len(Tail(exec[c].left)) = Len(exec[c].left) - 1
  <1>1. exec[c] \in Exec /\ exec[c].left \in Seq(Steps) /\ InOrder(exec[c])
    <2>1. exec[c] \in Exec /\ CallOK(exec[c], runs[exec[c].run])
      BY Executing DEF Engaged
    <2>. QED  BY <2>1 DEF Exec, CallOK
  <1>2. PICK order \in Seq(Steps) : \E k \in 0..Len(order) :
           /\ IsOrder(exec[c].def.deps, order)
           /\ Len(exec[c].left) = Len(order) - k
           /\ \A i \in 1..Len(exec[c].left) : exec[c].left[i] = order[k + i]
           /\ exec[c].done = {order[i] : i \in 1..k}
    BY <1>1 DEF InOrder
  <1>3. PICK k \in 0..Len(order) :
           /\ Len(exec[c].left) = Len(order) - k
           /\ \A i \in 1..Len(exec[c].left) : exec[c].left[i] = order[k + i]
           /\ exec[c].done = {order[i] : i \in 1..k}
    BY <1>2
  <1>4. Len(exec[c].left) \in Nat /\ Len(exec[c].left) >= 1
    BY <1>1
  <1>5. Current(c) = order[k + 1] /\ k + 1 \in 1..Len(order)
    BY <1>1, <1>3, <1>4, SMTT(30) DEF Current
  <1>6. \A i \in 1..k : order[i] # order[k + 1]
    BY <1>2, <1>5 DEF IsOrder, IsInjective
  <1>. QED  BY <1>1, <1>3, <1>4, <1>5, <1>6

(* The step at hand gets its log: it was not done before.                  *)
LEMMA StepStartsStep == ASSUME IInv, NEW c \in Callers, StepStarts(c) PROVE IInv'
  <1>. DEFINE r == exec[c].run
              x == [exec[c] EXCEPT !.pc = "executing"]
  <1>1. /\ exec[c].pc = "between" /\ exec[c].left # <<>> /\ ~AtGate(c)
        /\ runs' = SetLog(runs, r, Current(c), "running")
        /\ UNCHANGED <<workflow, lock, world, history>>
    BY DEF StepStarts
  <1>2. /\ exec[c] \in Exec /\ exec \in [Callers -> Exec] /\ r \in DOMAIN runs /\ r # 0
        /\ runs \in Seq(Run) /\ CallerOK(c) /\ CallOK(exec[c], runs[r])
        /\ exec[c].def \in Definitions
    BY <1>1, Executing
  <1>3. Current(c) \in Steps \ exec[c].done
    BY <1>1, AtHand DEF Engaged
  <1>4. /\ runs' \in Seq(Run) /\ Len(runs') = Len(runs)
        /\ \A q \in DOMAIN runs : q # r => runs'[q] = runs[q]
        /\ runs'[r].source = runs[r].source /\ runs'[r].since = runs[r].since
        /\ runs'[r].status = runs[r].status
        /\ runs[r].status # "deleted" =>
              \A t \in Steps : runs'[r].log[t] = IF t = Current(c) THEN "running" ELSE runs[r].log[t]
    <2>1. /\ Current(c) \in Steps /\ r \in DOMAIN runs /\ runs \in Seq(Run)
         /\ runs' = SetLog(runs, r, Current(c), "running")
      BY <1>1, <1>2, <1>3
    <2>. QED  BY <2>1, Logs
  <1>5. exec' = [exec EXCEPT ![c] = x]
    <2>1. exec' = [exec EXCEPT ![c].pc = "executing"]
      BY DEF StepStarts
    <2>. QED  BY <1>2, <2>1 DEF Exec
  <1>6. /\ x \in Exec /\ x.pc = "executing" /\ x.left = exec[c].left /\ x.run = r
        /\ x.def = exec[c].def /\ x.done = exec[c].done
    BY <1>2 DEF Exec
  <1>. HIDE DEF x
  <1>7. /\ exec'[c] = x /\ lock' \in Handlers \cup {Nobody}
        /\ \A h \in Handlers : (lock' = h) <=> InEngine(h)'
    <2>1. InEngine(c)
      BY <1>1 DEF InEngine
    <2>. QED  BY <1>1, <1>5, <1>6, <2>1, GoesOn
  <1>8. CallOK(x, runs'[r])
    <2>1. InOrder(x)
      BY <1>1, <1>2, <1>6 DEF CallOK, Engaged, InOrder
    <2>2. runs'[r].status = "deleted" \/ \A s \in x.done : runs'[r].log[s] = "success"
      <3>1. exec[c].done \subseteq Steps
        BY <1>2 DEF Exec
      <3>. QED  BY <1>1, <1>2, <1>3, <1>4, <1>6, <3>1 DEF CallOK, Engaged
    <2>3. x.left # <<>> /\ Head(x.left) # x.def.gate
      BY <1>1, <1>6 DEF AtGate
    <2>. QED  BY <1>2, <1>4, <2>1, <2>2, <2>3 DEF CallOK
  <1>9. CallerOK(c)'
    BY <1>2, <1>6, <1>7, <1>8 DEF CallerOK
  <1>10. /\ runs[r].status # "success" /\ cut' \subseteq 1..MaxRuns
         /\ UNCHANGED <<workflow, world, approvals>>
    BY <1>1, <1>2 DEF CallOK, IInv, TypeOK, history
  <1>11. /\ runs'[r].status = "deleted" <=> runs[r].status = "deleted"
         /\ runs'[r].status = "success" => \A s \in Steps : runs'[r].log[s] = "success"
         /\ x.run \in {r, 0} /\ x.pc # "collected" /\ x.run # 0
    BY <1>2, <1>4, <1>6, <1>10
  <1>. QED  BY <1>2, <1>4, <1>5, <1>6, <1>7, <1>9, <1>10, <1>11, Executes

(* A step that went well joins what is done, or went over the limit.       *)
LEMMA StepOkStep == ASSUME IInv, NEW c \in Callers, StepOk(c) PROVE IInv'
  <1>. DEFINE r == exec[c].run
              x == [exec[c] EXCEPT !.pc = "between", !.left = Tail(@),
                                   !.done = @ \cup {Current(c)}, !.cost = @ + 1]
  <1>1. exec[c].pc = "executing" /\ UNCHANGED <<workflow, world, history>>
    BY DEF StepOk
  <1>2. /\ exec[c] \in Exec /\ exec \in [Callers -> Exec] /\ r \in DOMAIN runs /\ r # 0
        /\ runs \in Seq(Run) /\ CallerOK(c) /\ CallOK(exec[c], runs[r])
        /\ exec[c].def \in Definitions
    BY <1>1, Executing
  <1>3. CASE OverLimit(c)
    <2>1. runs' = SetStatus(r, "aborted") /\ Finish(c)
      BY <1>3 DEF StepOk
    <2>2. /\ runs' \in Seq(Run) /\ Len(runs') = Len(runs)
          /\ \A q \in DOMAIN runs : q # r => runs'[q] = runs[q]
          /\ runs'[r].source = runs[r].source /\ runs'[r].since = runs[r].since
          /\ runs'[r].status = IF runs[r].status = "deleted" THEN "deleted" ELSE "aborted"
      BY <1>2, <2>1, SetsStatus DEF Status
    <2>. QED  BY <1>1, <2>1, <2>2, OverStep
  <1>4. CASE ~OverLimit(c)
    <2>1. runs' = SetLog(runs, r, Current(c), "success") /\ UNCHANGED lock
      BY <1>4 DEF StepOk
    <2>2. exec[c].left # <<>> /\ Head(exec[c].left) # exec[c].def.gate
      BY <1>1, <1>2 DEF CallOK
    <2>3. /\ Current(c) \in Steps \ exec[c].done
          /\ Tail(exec[c].left) \in Seq(Steps)
          /\ Len(Tail(exec[c].left)) = Len(exec[c].left) - 1
      BY <1>1, <2>2, AtHand DEF Engaged
    <2>4. /\ runs' \in Seq(Run) /\ Len(runs') = Len(runs)
          /\ \A q \in DOMAIN runs : q # r => runs'[q] = runs[q]
          /\ runs'[r].source = runs[r].source /\ runs'[r].since = runs[r].since
          /\ runs'[r].status = runs[r].status
          /\ runs[r].status # "deleted" =>
                \A t \in Steps : runs'[r].log[t] = IF t = Current(c) THEN "success" ELSE runs[r].log[t]
      <3>1. /\ Current(c) \in Steps /\ r \in DOMAIN runs /\ runs \in Seq(Run)
           /\ runs' = SetLog(runs, r, Current(c), "success")
        BY <1>2, <2>1, <2>3
      <3>. QED  BY <3>1, Logs
    <2>5. exec' = [exec EXCEPT ![c] = x]
      <3>1. exec' = [exec EXCEPT ![c].pc = "between", ![c].left = Tail(@),
                                 ![c].done = @ \cup {Current(c)}, ![c].cost = @ + 1]
        BY <1>4 DEF StepOk
      <3>. QED  BY <1>2, <3>1 DEF Exec
    <2>6. /\ x \in Exec /\ x.pc = "between" /\ x.left = Tail(exec[c].left) /\ x.run = r
          /\ x.def = exec[c].def /\ x.done = exec[c].done \cup {Current(c)}
      <3>1. exec[c].done \cup {Current(c)} \in SUBSET Steps /\ exec[c].cost + 1 \in Nat
        BY <1>2, <2>3 DEF Exec
      <3>. QED  BY <1>2, <2>3, <3>1 DEF Exec
    <2>. HIDE DEF x
    <2>7. /\ exec'[c] = x /\ lock' \in Handlers \cup {Nobody}
          /\ \A h \in Handlers : (lock' = h) <=> InEngine(h)'
      <3>1. InEngine(c)
        BY <1>1 DEF InEngine
      <3>. QED  BY <2>1, <2>5, <2>6, <3>1, GoesOn
    <2>8. InOrder(x)
      <3>1. InOrder(exec[c]) /\ exec[c].left \in Seq(Steps)
        BY <1>1, <1>2 DEF CallOK, Engaged, Exec
      <3>2. PICK order \in Seq(Steps) : \E k \in 0..Len(order) :
               /\ IsOrder(exec[c].def.deps, order)
               /\ Len(exec[c].left) = Len(order) - k
               /\ \A i \in 1..Len(exec[c].left) : exec[c].left[i] = order[k + i]
               /\ exec[c].done = {order[i] : i \in 1..k}
               /\ exec[c].def.gate \notin exec[c].done
        BY <3>1 DEF InOrder
      <3>3. PICK k \in 0..Len(order) :
               /\ IsOrder(exec[c].def.deps, order)
               /\ Len(exec[c].left) = Len(order) - k
               /\ \A i \in 1..Len(exec[c].left) : exec[c].left[i] = order[k + i]
               /\ exec[c].done = {order[i] : i \in 1..k}
               /\ exec[c].def.gate \notin exec[c].done
        BY <3>2
      <3>4. Len(exec[c].left) \in Nat /\ Len(exec[c].left) >= 1 /\ k + 1 \in 0..Len(order)
        BY <2>2, <3>1, <3>3
      <3>5. Current(c) = order[k + 1]
        BY <3>1, <3>3, <3>4 DEF Current
      <3>6. Len(x.left) = Len(order) - (k + 1)
        BY <2>3, <2>6, <3>3
      <3>7. \A i \in 1..Len(x.left) : x.left[i] = order[(k + 1) + i]
        <4>. SUFFICES ASSUME NEW i \in 1..Len(x.left) PROVE x.left[i] = order[(k + 1) + i]
          OBVIOUS
        <4>1. i \in Nat /\ i + 1 \in 1..Len(exec[c].left)
          BY <2>3, <2>6, <3>4
        <4>2. x.left[i] = exec[c].left[i + 1]
          BY <2>2, <2>6, <3>1, <4>1
        <4>3. k + (i + 1) = (k + 1) + i
          BY <4>1
        <4>. QED  BY <3>3, <4>1, <4>2, <4>3
      <3>8. x.done = {order[i] : i \in 1..(k + 1)}
        BY <2>6, <3>3, <3>4, <3>5
      <3>9. x.def.gate \notin x.done
        BY <2>2, <2>6, <3>3 DEF Current
      <3>. QED  BY <2>6, <3>3, <3>4, <3>6, <3>7, <3>8, <3>9 DEF InOrder
    <2>9. CallOK(x, runs'[r])
      <3>1. exec[c].done \subseteq Steps
        BY <1>2 DEF Exec
      <3>2. runs'[r].status = "deleted" \/ \A s \in x.done : runs'[r].log[s] = "success"
        BY <1>1, <1>2, <2>3, <2>4, <2>6, <3>1 DEF CallOK, Engaged
      <3>. QED  BY <1>2, <2>4, <2>6, <2>8, <3>2 DEF CallOK
    <2>10. CallerOK(c)'
      BY <1>2, <2>6, <2>7, <2>9 DEF CallerOK
    <2>11. /\ runs[r].status # "success" /\ cut' \subseteq 1..MaxRuns
           /\ UNCHANGED <<workflow, world, approvals>>
      BY <1>1, <1>2 DEF CallOK, IInv, TypeOK, history
    <2>. QED  BY <1>1, <1>2, <2>4, <2>5, <2>6, <2>7, <2>10, <2>11, Executes, ZenonT(40)
  <1>. QED  BY <1>3, <1>4

-----------------------------------------------------------------------------
(* A handler takes the lock again: it is the only one in the engine.       *)
LEMMA EntersStep == ASSUME IInv, NEW c \in Handlers, Enters(c) PROVE IInv'
  <1>. DEFINE r == exec[c].run
              x == [exec[c] EXCEPT !.pc = "entered"]
  <1>1. /\ exec[c].pc = "ready" /\ lock = Nobody /\ lock' = c
        /\ UNCHANGED <<workflow, runs, world, history>>
    BY DEF Enters, Free
  <1>2. c \in Callers
    BY Basics
  <1>3. /\ exec[c] \in Exec /\ exec \in [Callers -> Exec] /\ r \in DOMAIN runs /\ r # 0
        /\ runs \in Seq(Run) /\ CallerOK(c) /\ CallOK(exec[c], runs[r])
        /\ exec[c].def \in Definitions
    BY <1>1, <1>2, Executing
  <1>4. /\ x \in Exec /\ x.pc = "entered" /\ x.run = r
        /\ x.def = exec[c].def /\ x.done = exec[c].done /\ x.search = exec[c].search
    BY <1>3 DEF Exec
  <1>10. SearchOK(x.def.deps, x.search)
    BY <1>1, <1>3, <1>4, Basics, StartOK DEF CallerOK
  <1>5. exec' = [exec EXCEPT ![c] = x]
    <2>1. exec' = [exec EXCEPT ![c].pc = "entered"]
      BY DEF Enters
    <2>. QED  BY <1>2, <1>3, <2>1 DEF Exec
  <1>. HIDE DEF x
  <1>6. exec'[c] = x /\ \A d \in Callers : d # c => exec'[d] = exec[d]
    BY <1>2, <1>3, <1>5
  <1>7. \A h \in Handlers : (lock' = h) <=> InEngine(h)'
    <2>1. \A h \in Handlers : ~InEngine(h)
      BY <1>1, Basics DEF IInv, TypeOK
    <2>. QED  BY <1>1, <1>4, <1>6, <2>1, Basics DEF InEngine
  <1>8. CallerOK(c)'
    BY <1>1, <1>3, <1>4, <1>6, <1>10 DEF CallerOK, CallOK, Engaged
  <1>9. /\ runs'[r].status = "success" => \A s \in Steps : runs'[r].log[s] = "success"
        /\ cut' \subseteq 1..MaxRuns /\ UNCHANGED approvals /\ lock' \in Handlers \cup {Nobody}
    BY <1>1, <1>3 DEF CallOK, IInv, TypeOK, history
  <1>. QED  BY <1>1, <1>2, <1>3, <1>4, <1>5, <1>7, <1>8, <1>9, Executes

(* A handler that is dropped leaves its run as it is.                      *)
LEMMA DroppedStep == ASSUME IInv, NEW c \in Handlers, Dropped(c) PROVE IInv'
  <1>. DEFINE r == exec[c].run
  <1>1. /\ exec[c].pc \in {"ready", "executing"} /\ Finish(c) /\ cut' = cut \cup {r}
        /\ UNCHANGED <<workflow, runs, world, approvals>>
    BY DEF Dropped
  <1>2. c \in Callers
    BY Basics
  <1>3. /\ r \in DOMAIN runs /\ r # 0 /\ runs \in Seq(Run) /\ CallOK(exec[c], runs[r])
        /\ r \in 0..MaxRuns
    BY <1>1, <1>2, Executing DEF Exec
  <1>4. /\ exec' = [exec EXCEPT ![c] = Idle] /\ CallerOK(c)'
        /\ lock' \in Handlers \cup {Nobody}
        /\ \A h \in Handlers : (lock' = h) <=> InEngine(h)'
    BY <1>1, <1>2, Ended
  <1>5. cut' \subseteq 1..MaxRuns
    <2>1. r \in 1..MaxRuns
      BY <1>3, Basics
    <2>2. cut \subseteq 1..MaxRuns
      BY DEF IInv, TypeOK
    <2>. QED  BY <1>1, <2>1, <2>2
  <1>6. runs'[r].status = "success" => \A s \in Steps : runs'[r].log[s] = "success"
    BY <1>1, <1>3 DEF CallOK
  <1>. QED  BY <1>1, <1>2, <1>3, <1>4, <1>5, <1>6, Executes, Basics

(* A caller takes a run that nobody executes.                              *)
LEMMA Takes ==
  ASSUME IInv, NEW c \in Callers, exec[c].pc \in {"idle", "collected"},
         NEW r \in 1..MaxRuns, \A d \in Callers : exec[d].run # r,
         runs' \in Seq(Run), Len(runs') <= MaxRuns, r \in DOMAIN runs',
         DOMAIN runs \subseteq DOMAIN runs',
         \A q \in DOMAIN runs' : q # r => q \in DOMAIN runs /\ runs'[q] = runs[q],
         runs'[r].status = "running",
         NEW x \in Exec, x.run = r, x.pc \in {"ready", "entered"}, x.pc = "entered" => c = Cron,
         x.def \in Definitions, x.done = {}, x.search = NoSearch,
         exec' = [exec EXCEPT ![c] = x],
         workflow \in Definitions, CronOK', approvals' \in [1..MaxRuns -> Nat],
         UNCHANGED <<workflow, lock, world, cut>>
  PROVE  IInv'
  <1>1. exec \in [Callers -> Exec] /\ runs \in Seq(Run)
    BY DEF IInv, TypeOK, Exec
  <1>2. exec'[c] = x /\ (\A d \in Callers : d # c => exec'[d] = exec[d])
        /\ exec' \in [Callers -> Exec]
    BY <1>1
  <1>3. \A d \in Callers : d # c /\ exec[d].run # 0 => exec[d].run \in DOMAIN runs
    BY DEF IInv, TypeOK, CallerOK
  <1>4. \A h \in Handlers : (lock' = h) <=> InEngine(h)'
    BY <1>2, Basics, SMTT(30) DEF IInv, TypeOK, InEngine
  <1>5. TypeOK'
    <2>1. \A d \in Callers : exec'[d].pc \notin {"idle", "collected"} => exec'[d].run \in DOMAIN runs'
      BY <1>2 DEF IInv, TypeOK
    <2>. QED  BY <1>2, <1>4, <2>1 DEF IInv, TypeOK, Exec, world
  <1>6. \A d \in Callers : CallerOK(d)'
    <2>. SUFFICES ASSUME NEW d \in Callers PROVE CallerOK(d)'
      OBVIOUS
    <2>1. CASE d = c
      <3>1. SearchOK(x.def.deps, x.search)
        BY Basics, StartOK
      <3>. QED  BY <1>2, <2>1, <3>1 DEF CallerOK, CallOK, Engaged
    <2>2. CASE d # c
      <3>1. exec[d].run # 0 => runs'[exec[d].run] = runs[exec[d].run]
        BY <1>3, <2>2
      <3>. QED  BY <1>2, <2>2, <3>1, Bystander DEF IInv
    <2>. QED  BY <2>1, <2>2
  <1>7. OneEngine'
    BY <1>2 DEF IInv, OneEngine
  <1>8. SuccessMeansAll'
    BY DEF IInv, SuccessMeansAll
  <1>9. Gone'
    BY Basics DEF Gone
  <1>. QED  BY <1>5, <1>6, <1>7, <1>8, <1>9 DEF IInv

(* A new row: running, with the firings that are due.                      *)
LEMMA Inserting ==
  ASSUME IInv, Len(runs) < MaxRuns, NEW source \in {"manual", "cron"}, runs' = Inserted(source)
  PROVE  LET r == Len(runs) + 1 IN
         /\ r \in 1..MaxRuns /\ r \notin DOMAIN runs /\ Len(runs') = r /\ r \in DOMAIN runs'
         /\ runs' \in Seq(Run) /\ DOMAIN runs' = DOMAIN runs \cup {r}
         /\ \A q \in DOMAIN runs : runs'[q] = runs[q]
         /\ runs'[r].status = "running" /\ runs'[r].source = source /\ runs'[r].since = due
         /\ \A d \in Callers : exec[d].run # r
  <1>. DEFINE row == [status |-> "running", source |-> source, since |-> due,
                      log |-> [s \in Steps |-> "none"]]
  <1>1. runs \in Seq(Run) /\ due \subseteq 1..MaxFirings /\ MaxRuns \in Nat
    BY Basics DEF IInv, TypeOK
  <1>2. row \in Run /\ row.status = "running" /\ row.source = source /\ row.since = due
    BY <1>1 DEF Run, Status
  <1>3. runs' = Append(runs, row)
    BY DEF Inserted
  <1>4. \A d \in Callers : exec[d].run = 0 \/ exec[d].run \in DOMAIN runs
    BY DEF IInv, TypeOK, CallerOK
  <1>. HIDE DEF row
  <1>. QED  BY <1>1, <1>2, <1>3, <1>4

(* What is counted is finite.                                              *)
LEMMA Finite ==
  ASSUME IInv
  PROVE  /\ IsFiniteSet(Counted) /\ Cardinality(Counted) \in Nat
         /\ IsFiniteSet(Fresh) /\ Cardinality(Fresh) \in Nat
         /\ IsFiniteSet(due) /\ Cardinality(due) \in Nat /\ Cardinality(due) <= fired
         /\ Fresh \subseteq due /\ Counted \subseteq DOMAIN runs
         /\ fired \in Nat
         /\ Cardinality(Counted) + Cardinality(Fresh) <= fired
  <1>1. /\ runs \in Seq(Run) /\ fired \in Nat /\ due \subseteq 1..fired
        /\ Cardinality(Counted) + Cardinality(Fresh) <= fired
    BY Basics DEF IInv, TypeOK, CronOK
  <1>2. Counted \subseteq 1..Len(runs) /\ Len(runs) \in Nat
    BY <1>1 DEF Counted
  <1>3. Fresh \subseteq due
    BY DEF Fresh
  <1>4. Cardinality(due) <= fired
    <2>1. Cardinality(1..fired) = fired
      BY <1>1, FS_Interval
    <2>. QED  BY <1>1, <2>1, Counting
  <1>5. IsFiniteSet(Counted) /\ Cardinality(Counted) \in Nat
    BY <1>2, Counting
  <1>6. IsFiniteSet(Fresh) /\ Cardinality(Fresh) \in Nat /\ IsFiniteSet(due) /\ Cardinality(due) \in Nat
    BY <1>1, <1>3, Counting
  <1>. QED  BY <1>1, <1>2, <1>3, <1>4, <1>5, <1>6

(* A run takes all firings that are due with it.                           *)
LEMMA TakesFresh ==
  ASSUME NEW r \in DOMAIN runs', runs'[r].status # "deleted", runs'[r].since = due, UNCHANGED due
  PROVE  Fresh' = {}
  BY DEF Fresh

(* The call of a handler for run r.                                        *)
LEMMA Called ==
  ASSUME IInv, NEW r \in 1..MaxRuns, workflow \in Definitions
  PROVE  LET x == [Idle EXCEPT !.pc = "ready", !.run = r, !.def = workflow] IN
         /\ x \in Exec /\ x.pc = "ready" /\ x.run = r /\ x.def = workflow /\ x.done = {}
         /\ x.search = NoSearch
  <1>1. Idle \in Exec /\ Idle.done = {} /\ Idle.search = NoSearch /\ r \in 0..MaxRuns
    BY Basics DEF Idle
  <1>. QED  BY <1>1 DEF Exec

(* A new run has a number nobody executes.                                 *)
LEMMA ManualRunStep == ASSUME IInv, NEW c \in Handlers, ManualRun(c) PROVE IInv'
  <1>. DEFINE r == Len(runs) + 1
              x == [Idle EXCEPT !.pc = "ready", !.run = r, !.def = workflow]
  <1>1. /\ exec[c].pc = "idle" /\ workflow # NoWorkflow /\ Len(runs) < MaxRuns
        /\ runs' = Inserted("manual") /\ Ready(c, Len(runs'))
        /\ UNCHANGED <<workflow, lock, world, history>>
    BY DEF ManualRun
  <1>2. /\ r \in 1..MaxRuns /\ r \notin DOMAIN runs /\ Len(runs') = r /\ r \in DOMAIN runs'
        /\ runs' \in Seq(Run) /\ DOMAIN runs' = DOMAIN runs \cup {r}
        /\ \A q \in DOMAIN runs : runs'[q] = runs[q]
        /\ runs'[r].status = "running" /\ runs'[r].source = "manual" /\ runs'[r].since = due
        /\ \A d \in Callers : exec[d].run # r
    BY <1>1, Inserting
  <1>3. c \in Callers /\ c # Cron /\ exec \in [Callers -> Exec] /\ workflow \in Definitions
        /\ approvals \in [1..MaxRuns -> Nat] /\ UNCHANGED <<approvals, cut, due, fired>>
    BY <1>1, Basics DEF IInv, TypeOK, Exec, history, world
  <1>4. /\ x \in Exec /\ x.pc = "ready" /\ x.run = r /\ x.def = workflow /\ x.done = {}
        /\ x.search = NoSearch
        /\ exec' = [exec EXCEPT ![c] = x]
    BY <1>1, <1>2, <1>3, Called DEF Ready
  <1>. HIDE DEF x
  <1>5. CronOK'
    <2>1. Counted' = Counted
      BY <1>2 DEF Counted
    <2>2. Fresh' = {}
      BY <1>2, <1>3, TakesFresh
    <2>3. Cardinality(Fresh') = 0
      BY <2>2, FS_EmptySet
    <2>4. exec'[Cron] = exec[Cron]
      BY <1>3, <1>4, Basics
    <2>. QED  BY <1>3, <2>1, <2>3, <2>4, Finite DEF IInv, CronOK
  <1>6. /\ \A q \in DOMAIN runs' : q # r => q \in DOMAIN runs /\ runs'[q] = runs[q]
        /\ DOMAIN runs \subseteq DOMAIN runs' /\ Len(runs') <= MaxRuns
        /\ \A d \in Callers : exec[d].run # r
    BY <1>2, Basics
  <1>7. approvals' \in [1..MaxRuns -> Nat] /\ UNCHANGED <<workflow, lock, world, cut>>
    BY <1>1, <1>3
  <1>8. exec[c].pc \in {"idle", "collected"} /\ r \in 1..MaxRuns /\ r \in DOMAIN runs'
        /\ runs' \in Seq(Run) /\ runs'[r].status = "running"
    BY <1>1, <1>2
  <1>. HIDE DEF r
  <1>. QED  BY <1>3, <1>4, <1>5, <1>6, <1>7, <1>8, Takes

(* An approval takes a run that waits: nobody executes it.                 *)
LEMMA ApproveStep ==
  ASSUME IInv, NEW c \in Handlers, NEW r \in DOMAIN runs, Approve(c, r)
  PROVE  IInv'
  <1>. DEFINE x == [Idle EXCEPT !.pc = "ready", !.run = r, !.def = workflow]
              row == [runs[r] EXCEPT !.status = "running"]
  <1>1. /\ exec[c].pc = "idle" /\ runs[r].status = "waiting_human"
        /\ runs' = [runs EXCEPT ![r].status = "running"]
        /\ approvals' = [approvals EXCEPT ![r] = @ + 1]
        /\ Ready(c, r) /\ UNCHANGED <<workflow, lock, world, cut>>
    BY DEF Approve
  <1>2. c \in Callers /\ c # Cron /\ exec \in [Callers -> Exec] /\ runs \in Seq(Run)
        /\ Len(runs) <= MaxRuns /\ runs[r] \in Run /\ MaxRuns \in Nat
        /\ approvals \in [1..MaxRuns -> Nat] /\ workflow \in Definitions \cup {NoWorkflow}
    <2>1. runs \in Seq(Run)
      BY DEF IInv, TypeOK
    <2>2. runs[r] \in Run
      BY <2>1
    <2>. QED  BY <2>1, <2>2, Basics DEF IInv, TypeOK, Exec
  <1>3. r \in 1..MaxRuns /\ workflow \in Definitions
    BY <1>1, <1>2 DEF IInv, Gone
  <1>4. /\ x \in Exec /\ x.pc = "ready" /\ x.run = r /\ x.def = workflow /\ x.done = {}
        /\ x.search = NoSearch
        /\ exec' = [exec EXCEPT ![c] = x]
    BY <1>1, <1>2, <1>3, Called DEF Ready
  <1>5. /\ row \in Run /\ row.status = "running" /\ row.source = runs[r].source
        /\ row.since = runs[r].since /\ runs' = [runs EXCEPT ![r] = row]
    BY <1>1, <1>2 DEF Run, Status
  <1>. HIDE DEF x, row
  <1>6. /\ runs' \in Seq(Run) /\ Len(runs') = Len(runs) /\ DOMAIN runs' = DOMAIN runs
        /\ \A q \in DOMAIN runs : q # r => runs'[q] = runs[q]
        /\ runs'[r] = row
    BY <1>2, <1>5
  <1>7. \A d \in Callers : exec[d].run # r
    <2>1. r # 0
      BY <1>3
    <2>. QED  BY <1>1, <2>1 DEF IInv, CallerOK, CallOK
  <1>8. approvals' \in [1..MaxRuns -> Nat]
    BY <1>1, <1>2, <1>3
  <1>9. CronOK'
    <2>1. Counted' = Counted
      BY <1>1, <1>5, <1>6 DEF Counted
    <2>2. Fresh' = Fresh
      BY <1>1, <1>5, <1>6 DEF Fresh, world
    <2>3. exec'[Cron] = exec[Cron]
      BY <1>2, <1>4, Basics
    <2>. QED  BY <1>1, <2>1, <2>2, <2>3 DEF IInv, CronOK, world
  <1>. QED  BY <1>1, <1>2, <1>3, <1>4, <1>5, <1>6, <1>7, <1>8, <1>9, Takes

-----------------------------------------------------------------------------
(* The cron tick starts or gives up a firing without touching a run.       *)
LEMMA CronMoves ==
  ASSUME IInv, NEW x \in Exec, x.run = 0, x.pc \in {"idle", "collected"}, x.done = {},
         x.search = NoSearch,
         x.pc = "collected" => x.def \in Definitions /\ Cardinality(Counted) < fired,
         exec[Cron].pc \in {"idle", "collected"},
         exec' = [exec EXCEPT ![Cron] = x],
         UNCHANGED <<workflow, runs, lock, world, history>>
  PROVE  IInv'
  <1>1. exec \in [Callers -> Exec] /\ Cron \in Callers /\ Cron \notin Handlers
    BY Basics DEF IInv, TypeOK, Exec
  <1>2. exec'[Cron] = x /\ (\A d \in Callers : d # Cron => exec'[d] = exec[d])
        /\ exec' \in [Callers -> Exec]
    BY <1>1
  <1>3. TypeOK'
    <2>1. \A d \in Callers : exec'[d].pc \notin {"idle", "collected"} => exec'[d].run \in DOMAIN runs'
      BY <1>2 DEF IInv, TypeOK
    <2>2. \A h \in Handlers : (lock' = h) <=> InEngine(h)'
      BY <1>1, <1>2, Basics DEF IInv, TypeOK, InEngine
    <2>. QED  BY <1>2, <2>1, <2>2 DEF IInv, TypeOK, Exec, world, history
  <1>4. \A d \in Callers : CallerOK(d)'
    BY <1>2, Bystander DEF IInv, CallerOK
  <1>5. OneEngine' /\ SuccessMeansAll' /\ Gone'
    BY <1>2 DEF IInv, OneEngine, SuccessMeansAll, Gone
  <1>6. CronOK'
    BY <1>2 DEF IInv, CronOK, Counted, Fresh, world
  <1>. QED  BY <1>3, <1>4, <1>5, <1>6 DEF IInv

(* A firing is due and no run has it: there is room for one more.          *)
LEMMA CronCollectStep == ASSUME IInv, CronCollect PROVE IInv'
  <1>. DEFINE x == [Idle EXCEPT !.pc = "collected", !.def = workflow]
  <1>1. /\ exec[Cron].pc = "idle" /\ workflow # NoWorkflow /\ due # {}
        /\ \A r \in DOMAIN runs : ~RecentRun(r)
        /\ exec' = [exec EXCEPT ![Cron] = x]
        /\ UNCHANGED <<workflow, runs, lock, world, history>>
    BY DEF CronCollect
  <1>2. workflow \in Definitions
    BY <1>1 DEF IInv, TypeOK
  <1>3. /\ x \in Exec /\ x.pc = "collected" /\ x.run = 0 /\ x.def = workflow
        /\ x.done = {} /\ x.search = NoSearch
    BY <1>2, Basics DEF Idle, Exec
  <1>. HIDE DEF x
  <1>4. Cardinality(Counted) < fired
    <2>1. Fresh = due
      BY <1>1 DEF Fresh, RecentRun
    <2>2. Cardinality(due) # 0
      BY <1>1, Finite, FS_EmptySet
    <2>. QED  BY <2>1, <2>2, Finite
  <1>. QED  BY <1>1, <1>2, <1>3, <1>4, CronMoves

(* The firing becomes a run, or the workflow is gone.                      *)
LEMMA CronFireStep == ASSUME IInv, CronFire PROVE IInv'
  <1>1. exec[Cron].pc = "collected" /\ UNCHANGED <<workflow, lock, world, history>>
    BY DEF CronFire
  <1>2. CASE workflow = NoWorkflow
    <2>1. exec' = [exec EXCEPT ![Cron] = Idle] /\ UNCHANGED runs
      BY <1>2 DEF CronFire
    <2>2. Idle.done = {}
      BY DEF Idle
    <2>. QED  BY <1>1, <2>1, <2>2, CronMoves, Basics
  <1>3. CASE workflow # NoWorkflow
    <2>. DEFINE r == Len(runs) + 1
                x == [exec[Cron] EXCEPT !.pc = "entered", !.run = r]
    <2>1. Len(runs) < MaxRuns /\ runs' = Inserted("cron")
          /\ exec' = [exec EXCEPT ![Cron].pc = "entered", ![Cron].run = Len(runs')]
      BY <1>3 DEF CronFire
    <2>2. /\ r \in 1..MaxRuns /\ r \notin DOMAIN runs /\ Len(runs') = r /\ r \in DOMAIN runs'
          /\ runs' \in Seq(Run) /\ DOMAIN runs' = DOMAIN runs \cup {r}
          /\ \A q \in DOMAIN runs : runs'[q] = runs[q]
          /\ runs'[r].status = "running" /\ runs'[r].source = "cron" /\ runs'[r].since = due
          /\ \A d \in Callers : exec[d].run # r
      BY <2>1, Inserting
    <2>3. Cron \in Callers /\ exec \in [Callers -> Exec] /\ workflow \in Definitions
          /\ approvals \in [1..MaxRuns -> Nat] /\ UNCHANGED <<approvals, cut, due, fired>>
      BY <1>1, <1>3, Basics DEF IInv, TypeOK, Exec, history, world
    <2>4. /\ exec[Cron] \in Exec /\ exec[Cron].def \in Definitions /\ exec[Cron].done = {}
          /\ exec[Cron].search = NoSearch
      BY <1>1, <2>3 DEF IInv, CallerOK
    <2>5. /\ x \in Exec /\ x.pc = "entered" /\ x.run = r /\ x.def = exec[Cron].def /\ x.done = {}
          /\ x.search = NoSearch
          /\ exec' = [exec EXCEPT ![Cron] = x]
      BY <2>1, <2>2, <2>3, <2>4 DEF Exec
    <2>. HIDE DEF x
    <2>6. CronOK'
      <3>1. Counted' = Counted \cup {r} /\ r \notin Counted
        BY <2>2 DEF Counted
      <3>2. Cardinality(Counted') = Cardinality(Counted) + 1
        BY <3>1, Finite, FS_AddElement
      <3>3. Cardinality(Fresh') = 0
        <4>1. Fresh' = {}
          BY <2>2, <2>3, TakesFresh
        <4>. QED  BY <4>1, FS_EmptySet
      <3>4. exec'[Cron].pc = "entered"
        BY <2>3, <2>5
      <3>5. Cardinality(Counted) < fired
        BY <1>1 DEF IInv, CronOK
      <3>. QED  BY <2>3, <3>2, <3>3, <3>4, <3>5, Finite DEF IInv, CronOK
    <2>7. /\ \A q \in DOMAIN runs' : q # r => q \in DOMAIN runs /\ runs'[q] = runs[q]
          /\ DOMAIN runs \subseteq DOMAIN runs' /\ Len(runs') <= MaxRuns
          /\ \A d \in Callers : exec[d].run # r
      BY <2>2, Basics
    <2>8. approvals' \in [1..MaxRuns -> Nat] /\ UNCHANGED <<workflow, lock, world, cut>>
      BY <1>1, <2>3
    <2>9. exec[Cron].pc \in {"idle", "collected"} /\ r \in 1..MaxRuns /\ r \in DOMAIN runs'
          /\ runs' \in Seq(Run) /\ runs'[r].status = "running"
      BY <1>1, <2>2
    <2>. HIDE DEF r
    <2>. QED  BY <2>3, <2>4, <2>5, <2>6, <2>7, <2>8, <2>9, Takes
  <1>. QED  BY <1>2, <1>3

-----------------------------------------------------------------------------
(* A restart: nobody executes anything, the rows stay.                     *)
LEMMA RestartStep == ASSUME IInv, Restart PROVE IInv'
  <1>1. /\ exec' = [c \in Callers |-> Idle] /\ lock' = Nobody
        /\ cut' = cut \cup ({exec[c].run : c \in Callers} \ {0})
        /\ UNCHANGED <<workflow, runs, world, approvals>>
    BY DEF Restart
  <1>2. \A c \in Callers : exec'[c] = Idle
    BY <1>1
  <1>3. TypeOK'
    <2>1. exec' \in [Callers -> Exec]
      BY <1>1, Basics
    <2>2. cut' \subseteq 1..MaxRuns
      <3>1. \A c \in Callers : exec[c].run \in 0..MaxRuns
        BY DEF IInv, TypeOK
      <3>2. {exec[c].run : c \in Callers} \ {0} \subseteq 1..MaxRuns
        <4>1. \A n \in 0..MaxRuns : n # 0 => n \in 1..MaxRuns
          BY Basics
        <4>. QED  BY <3>1, <4>1
      <3>3. cut \subseteq 1..MaxRuns
        BY DEF IInv, TypeOK
      <3>. QED  BY <1>1, <3>2, <3>3
    <2>3. \A h \in Handlers : (lock' = h) <=> InEngine(h)'
      BY <1>1, <1>2, Basics DEF InEngine
    <2>4. \A c \in Callers : exec'[c].pc \notin {"idle", "collected"} => exec'[c].run \in DOMAIN runs'
      BY <1>2, Basics
    <2>. QED  BY <1>1, <2>1, <2>2, <2>3, <2>4 DEF IInv, TypeOK, Exec, world
  <1>4. \A c \in Callers : CallerOK(c)'
    BY <1>2, Basics DEF CallerOK
  <1>5. OneEngine'
    BY <1>2, Basics DEF OneEngine
  <1>6. SuccessMeansAll' /\ Gone'
    BY <1>1 DEF IInv, SuccessMeansAll, Gone
  <1>7. CronOK'
    BY <1>1, <1>2, Basics DEF IInv, CronOK, Counted, Fresh, world
  <1>. QED  BY <1>3, <1>4, <1>5, <1>6, <1>7 DEF IInv

(* A save is for the runs to come.                                         *)
LEMMA SaveStep == ASSUME IInv, NEW def \in Definitions, Save(def) PROVE IInv'
  <1>1. /\ workflow' = def /\ edits' = edits + 1 /\ edits < MaxEdits
        /\ UNCHANGED <<runs, lock, exec, due, fired, history>>
    BY DEF Save
  <1>2. TypeOK'
    BY <1>1, Basics DEF IInv, TypeOK, InEngine, history
  <1>3. \A c \in Callers : CallerOK(c)'
    BY <1>1 DEF IInv, CallerOK
  <1>4. OneEngine' /\ SuccessMeansAll' /\ Gone'
    BY <1>1, Basics DEF IInv, OneEngine, SuccessMeansAll, Gone
  <1>5. CronOK'
    BY <1>1 DEF IInv, CronOK, Counted, Fresh
  <1>. QED  BY <1>2, <1>3, <1>4, <1>5 DEF IInv

(* Deleting the workflow deletes its runs; what is executed goes on.       *)
LEMMA DeleteStep == ASSUME IInv, Delete PROVE IInv'
  <1>1. /\ workflow' = NoWorkflow /\ edits' = edits + 1 /\ edits < MaxEdits
        /\ runs' = [r \in DOMAIN runs |-> [runs[r] EXCEPT !.status = "deleted"]]
        /\ UNCHANGED <<lock, exec, due, fired, history>>
    BY DEF Delete
  <1>2. runs \in Seq(Run)
    BY DEF IInv, TypeOK
  <1>3. runs' \in Seq(Run) /\ Len(runs') = Len(runs) /\ DOMAIN runs' = DOMAIN runs
        /\ \A r \in DOMAIN runs : runs'[r].status = "deleted"
    <2>1. \A r \in DOMAIN runs : [runs[r] EXCEPT !.status = "deleted"] \in Run
      <3>. SUFFICES ASSUME NEW r \in DOMAIN runs PROVE [runs[r] EXCEPT !.status = "deleted"] \in Run
        OBVIOUS
      <3>1. runs[r] \in Run
        BY <1>2
      <3>. QED  BY <3>1 DEF Run
    <2>2. \A r \in DOMAIN runs : [runs[r] EXCEPT !.status = "deleted"].status = "deleted"
      <3>. SUFFICES ASSUME NEW r \in DOMAIN runs
                    PROVE [runs[r] EXCEPT !.status = "deleted"].status = "deleted"
        OBVIOUS
      <3>1. runs[r] \in Run
        BY <1>2
      <3>. QED  BY <3>1 DEF Run
    <2>3. Len(runs) \in Nat /\ DOMAIN runs = 1..Len(runs)
      BY <1>2
    <2>4. runs' \in [1..Len(runs) -> Run]
      BY <1>1, <2>1, <2>3
    <2>5. runs' \in Seq(Run) /\ Len(runs') = Len(runs)
      BY <2>3, <2>4
    <2>. QED  BY <1>1, <2>2, <2>3, <2>5
  <1>4. TypeOK'
    BY <1>1, <1>3, Basics DEF IInv, TypeOK, InEngine, history
  <1>5. \A c \in Callers : CallerOK(c)'
    <2>. SUFFICES ASSUME NEW c \in Callers PROVE CallerOK(c)'
      OBVIOUS
    <2>1. CallerOK(c) /\ (exec[c].run = 0 \/ exec[c].run \in DOMAIN runs)
      BY DEF IInv, TypeOK, CallerOK
    <2>. QED  BY <1>1, <1>3, <2>1, Bystander
  <1>6. OneEngine' /\ SuccessMeansAll' /\ Gone'
    BY <1>1, <1>3 DEF IInv, OneEngine, SuccessMeansAll, Gone
  <1>7. CronOK'
    <2>1. Counted' = {} /\ Fresh' = due
      BY <1>1, <1>3 DEF Counted, Fresh
    <2>2. Cardinality(Counted') = 0
      BY <2>1, FS_EmptySet
    <2>. QED  BY <1>1, <2>1, <2>2, Finite DEF IInv, CronOK
  <1>. QED  BY <1>4, <1>5, <1>6, <1>7 DEF IInv

(* A firing raises the bound, a firing that has passed keeps it.           *)
LEMMA FiresStep == ASSUME IInv, Fires PROVE IInv'
  <1>1. /\ fired < MaxFirings /\ fired' = fired + 1 /\ due' = due \cup {fired'}
        /\ UNCHANGED <<workflow, runs, lock, exec, edits, history>>
    BY DEF Fires
  <1>2. fired \in Nat /\ due \subseteq 1..fired /\ MaxFirings \in Nat
    BY Finite, Basics DEF IInv, CronOK
  <1>3. TypeOK'
    BY <1>1, <1>2 DEF IInv, TypeOK, InEngine, history
  <1>4. \A c \in Callers : CallerOK(c)'
    BY <1>1 DEF IInv, CallerOK
  <1>5. OneEngine' /\ SuccessMeansAll' /\ Gone'
    BY <1>1 DEF IInv, OneEngine, SuccessMeansAll, Gone
  <1>6. CronOK'
    <2>1. Fresh' \subseteq Fresh \cup {fired + 1}
      BY <1>1 DEF Fresh
    <2>2. IsFiniteSet(Fresh \cup {fired + 1})
          /\ Cardinality(Fresh \cup {fired + 1}) <= Cardinality(Fresh) + 1
      BY Finite, FS_AddElement, SMTT(30)
    <2>3. IsFiniteSet(Fresh') /\ Cardinality(Fresh') <= Cardinality(Fresh) + 1
          /\ Cardinality(Fresh') \in Nat
      <3>1. IsFiniteSet(Fresh') /\ Cardinality(Fresh') <= Cardinality(Fresh \cup {fired + 1})
        BY <2>1, <2>2, FS_Subset
      <3>. QED  BY <2>2, <3>1, Finite, FS_CardinalityType
    <2>4. Counted' = Counted
      BY <1>1 DEF Counted
    <2>. QED  BY <1>1, <1>2, <2>3, <2>4, Finite DEF IInv, CronOK
  <1>. QED  BY <1>3, <1>4, <1>5, <1>6 DEF IInv

(* A firing that has passed is no longer due.                              *)
LEMMA PassedStep == ASSUME IInv, NEW f \in due, Passed(f) PROVE IInv'
  <1>1. due' = due \ {f} /\ UNCHANGED <<workflow, runs, lock, exec, fired, edits, history>>
    BY DEF Passed
  <1>2. TypeOK'
    BY <1>1 DEF IInv, TypeOK, InEngine, history
  <1>3. \A c \in Callers : CallerOK(c)'
    BY <1>1 DEF IInv, CallerOK
  <1>4. OneEngine' /\ SuccessMeansAll' /\ Gone'
    BY <1>1 DEF IInv, OneEngine, SuccessMeansAll, Gone
  <1>5. CronOK'
    <2>1. Fresh' \subseteq Fresh
      BY <1>1 DEF Fresh
    <2>2. Cardinality(Fresh') <= Cardinality(Fresh) /\ Cardinality(Fresh') \in Nat
      <3>1. IsFiniteSet(Fresh') /\ Cardinality(Fresh') <= Cardinality(Fresh)
        BY <2>1, Finite, FS_Subset
      <3>. QED  BY <3>1, FS_CardinalityType
    <2>3. Counted' = Counted
      BY <1>1 DEF Counted
    <2>. QED  BY <1>1, <2>2, <2>3, Finite DEF IInv, CronOK
  <1>. QED  BY <1>2, <1>3, <1>4, <1>5 DEF IInv

-----------------------------------------------------------------------------
(* At the start there is a definition and nothing else.                    *)
LEMMA InitIInv == Init => IInv
  <1>. SUFFICES ASSUME Init PROVE IInv
    OBVIOUS
  <1>1. /\ workflow \in Definitions /\ runs = <<>> /\ lock = Nobody
        /\ exec = [c \in Callers |-> Idle] /\ due = {} /\ fired = 0 /\ edits = 0
        /\ approvals = [r \in 1..MaxRuns |-> 0] /\ cut = {}
    BY DEF Init
  <1>2. \A c \in Callers : exec[c] = Idle
    BY <1>1
  <1>3. runs \in Seq(Run) /\ Len(runs) = 0 /\ DOMAIN runs = {}
    BY <1>1
  <1>4. TypeOK
    <2>1. exec \in [Callers -> Exec]
      BY <1>1, Basics
    <2>2. approvals \in [1..MaxRuns -> Nat]
      BY <1>1
    <2>3. \A h \in Handlers : (lock = h) <=> InEngine(h)
      BY <1>1, <1>2, Basics DEF InEngine
    <2>. QED  BY <1>1, <1>2, <1>3, <2>1, <2>2, <2>3, Basics DEF TypeOK, Exec
  <1>5. \A c \in Callers : CallerOK(c)
    BY <1>2, Basics DEF CallerOK
  <1>6. OneEngine /\ SuccessMeansAll /\ Gone
    BY <1>1, <1>2, <1>3, Basics DEF OneEngine, SuccessMeansAll, Gone
  <1>7. CronOK
    <2>1. Counted = {} /\ Fresh = {}
      BY <1>1, <1>3 DEF Counted, Fresh
    <2>. QED  BY <1>1, <1>2, <2>1, Basics, FS_EmptySet DEF CronOK
  <1>. QED  BY <1>4, <1>5, <1>6, <1>7 DEF IInv

(* Each step keeps the invariant.                                          *)
LEMMA NextIInv == ASSUME IInv, [Next]_vars PROVE IInv'
  <1>1. CASE UNCHANGED vars
    BY <1>1 DEF vars, IInv, TypeOK, InEngine, CallerOK, OneEngine, SuccessMeansAll, Gone,
                CronOK, Counted, Fresh
  <1>2. CASE CronCollect \/ CronFire \/ Restart \/ Delete \/ Fires
    BY <1>2, CronCollectStep, CronFireStep, RestartStep, DeleteStep, FiresStep
  <1>3. ASSUME NEW c \in Handlers, ManualRun(c) \/ Enters(c) \/ Dropped(c) PROVE IInv'
    BY <1>3, ManualRunStep, EntersStep, DroppedStep
  <1>4. ASSUME NEW c \in Handlers, NEW r \in DOMAIN runs, Approve(c, r) PROVE IInv'
    BY <1>4, ApproveStep
  <1>5. ASSUME NEW c \in Callers, Engine(c) PROVE IInv'
    BY <1>5, SortStep, WaitsStep, StepStartsStep, StepOkStep, StepFailsStep, EndsStep DEF Engine
  <1>6. ASSUME NEW def \in Definitions, Save(def) PROVE IInv'
    BY <1>6, SaveStep
  <1>7. ASSUME NEW f \in due, Passed(f) PROVE IInv'
    BY <1>7, PassedStep
  <1>. QED  BY <1>1, <1>2, <1>3, <1>4, <1>5, <1>6, <1>7 DEF Next

LEMMA Invariance == Spec => []IInv
  <1>1. IInv /\ [Next]_vars => IInv'
    BY NextIInv
  <1>. QED  BY <1>1, InitIInv, PTL DEF Spec

(* Callers, rows and the lock keep their types; a handler in the engine    *)
(* holds the lock.                                                         *)
THEOREM TypeCorrect == Spec => []TypeOK
  <1>1. IInv => TypeOK
    BY DEF IInv
  <1>. QED  BY <1>1, Invariance, PTL

(* The steps up to the one at hand are closed under "depends on": a gate   *)
(* among them would have stopped the engine.                               *)
LEMMA BehindGate == IInv => GateHolds
  <1>. SUFFICES ASSUME IInv, NEW c \in Callers, exec[c].pc = "executing"
                PROVE  exec[c].def.gate \notin Before(exec[c].def.deps, Current(c))
    BY DEF GateHolds
  <1>1. /\ exec[c] \in Exec /\ CallOK(exec[c], runs[exec[c].run]) /\ exec[c].left \in Seq(Steps)
        /\ exec[c].left # <<>> /\ Head(exec[c].left) # exec[c].def.gate /\ InOrder(exec[c])
    BY Executing DEF CallOK, Engaged, Exec
  <1>2. PICK order \in Seq(Steps) : \E k \in 0..Len(order) :
           /\ IsOrder(exec[c].def.deps, order)
           /\ Len(exec[c].left) = Len(order) - k
           /\ \A i \in 1..Len(exec[c].left) : exec[c].left[i] = order[k + i]
           /\ exec[c].done = {order[i] : i \in 1..k}
           /\ exec[c].def.gate \notin exec[c].done
    BY <1>1 DEF InOrder
  <1>3. PICK k \in 0..Len(order) :
           /\ IsOrder(exec[c].def.deps, order)
           /\ Len(exec[c].left) = Len(order) - k
           /\ \A i \in 1..Len(exec[c].left) : exec[c].left[i] = order[k + i]
           /\ exec[c].done = {order[i] : i \in 1..k}
           /\ exec[c].def.gate \notin exec[c].done
    BY <1>2
  <1>. DEFINE S == {order[i] : i \in 1..(k + 1)}
              deps == exec[c].def.deps
  <1>4. k + 1 \in 1..Len(order) /\ Current(c) = order[k + 1]
    BY <1>1, <1>3 DEF Current
  <1>5. S = exec[c].done \cup {Current(c)}
    BY <1>3, <1>4
  <1>6. exec[c].def.gate \notin S
    BY <1>1, <1>3, <1>5 DEF Current
  <1>7. S \subseteq Steps
    BY <1>4
  <1>8. Closed(deps, S)
    <2>. SUFFICES ASSUME NEW i \in 1..(k + 1) PROVE deps[order[i]] \subseteq S
      BY DEF Closed
    <2>1. i \in DOMAIN order
      BY <1>4
    <2>2. deps[order[i]] \subseteq {order[j] : j \in 1..(i - 1)}
      BY <1>3, <2>1 DEF IsOrder
    <2>. QED  BY <2>2
  <1>9. Current(c) \in S /\ S \in SUBSET (Steps \cup {Missing})
    BY <1>5, <1>7
  <1>. HIDE DEF S, deps
  <1>10. Before(deps, Current(c)) \subseteq S
    BY <1>8, <1>9 DEF Before
  <1>. QED  BY <1>6, <1>10 DEF deps

(* human_approval_at: no caller executes the gate, or a step behind it, in *)
(* a run that nobody approved, whatever the workflow is.                   *)
THEOREM Gate == Spec => []GateHolds
  <1>. QED  BY BehindGate, Invariance, PTL

(* A run is executed by one caller at a time, whatever requests, ticks and *)
(* restarts there are.                                                     *)
THEOREM OneExecution == Spec => []OneEngine
  <1>1. IInv => OneEngine
    BY DEF IInv
  <1>. QED  BY <1>1, Invariance, PTL

(* There are never more runs by cron than firings: none is the reason of   *)
(* two, also when the workflow is edited and deleted between the ticks.    *)
THEOREM CronRunsOnce == Spec => []CronOnce
  <1>1. IInv => CronOnce
    BY Finite DEF CronOnce, Counted
  <1>. QED  BY <1>1, Invariance, PTL

(* A run that is a success has a successful last log of every step.        *)
THEOREM SuccessIsComplete == Spec => []SuccessMeansAll
  <1>1. IInv => SuccessMeansAll
    BY DEF IInv
  <1>. QED  BY <1>1, Invariance, PTL

(* topo_sort puts every step behind all it depends on, and refuses only    *)
(* what has no order, whatever the order of the lists in the YAML.         *)
THEOREM SortsRight == Spec => []OrderIsRight
  <1>1. IInv => OrderIsRight
    <2>. SUFFICES ASSUME IInv, NEW c \in Callers, exec[c].pc = "entered"
                  PROVE  /\ Complete(Deps(c), exec[c].search)
                              => IsOrder(Deps(c), exec[c].search.order)
                         /\ Refused(Deps(c), exec[c].search) => ~Orderable(Deps(c))
      BY DEF OrderIsRight
    <2>1. Deps(c) \in Dependencies /\ SearchOK(Deps(c), exec[c].search)
      BY Executing, Basics DEF Deps, CallerOK
    <2>. QED  BY <2>1, CompleteOK, RefusedOK
  <1>. QED  BY <1>1, Invariance, PTL

-----------------------------------------------------------------------------
(***************************************************************************)
(* The engine ends: a measure of what it has done rises by one with each   *)
(* of its steps, and is bounded by the number of steps of the workflow.    *)
(***************************************************************************)
(* A visit counts one when it begins and one when it ends; so does a step. *)
Progress(x) ==
    IF x.pc = "entered"
    THEN 2 * Cardinality(Ids(x.search.order)) + Cardinality(Ids(x.search.path))
    ELSE 2 * Cardinality(Steps) + 1 + 2 * Cardinality(x.done)
           + (IF x.pc = "executing" THEN 1 ELSE 0)

Advances(c) == InEngine(c) => \/ exec'[c] \in {exec[c], Idle}
                              \/ InEngine(c)' /\ Progress(exec'[c]) = Progress(exec[c]) + 1

(* Sets of steps are finite.                                               *)
LEMMA StepSets ==
  ASSUME NEW S, S \subseteq Steps
  PROVE  /\ IsFiniteSet(S) /\ Cardinality(S) \in Nat /\ Cardinality(Steps) \in Nat
         /\ Cardinality(S) <= Cardinality(Steps)
         /\ \A x : x \notin S => Cardinality(S \cup {x}) = Cardinality(S) + 1
         /\ \A x : x \in S => Cardinality(S \ {x}) = Cardinality(S) - 1
  <1>1. IsFiniteSet(S) /\ Cardinality(S) <= Cardinality(Steps)
    BY OrderAssumption, FS_Subset
  <1>. QED  BY <1>1, OrderAssumption, FS_CardinalityType, FS_AddElement, FS_RemoveElement

LEMMA SearchIs ==
  ASSUME NEW deps, NEW s, SearchOK(deps, s)
  PROVE  /\ s.path \in Seq(Steps) /\ s.order \in Seq(Steps)
         /\ Ids(s.path) \subseteq Steps /\ Ids(s.order) \subseteq Steps
         /\ Ids(s.path) \cap Ids(s.order) = {}
  <1>1. s.path \in Seq(Steps) /\ s.order \in Seq(Steps) /\ Ids(s.path) \cap Ids(s.order) = {}
    BY DEF SearchOK, Search
  <1>2. \A q \in Seq(Steps) : Ids(q) \subseteq Steps
    BY DEF Ids
  <1>. QED  BY <1>1, <1>2

LEMMA VisitAdvances ==
  ASSUME NEW deps \in Dependencies, NEW s, SearchOK(deps, s), NEW id \in Visitable(deps, s)
  PROVE  /\ Ids(Visit(s, id).order) = Ids(s.order)
         /\ Cardinality(Ids(Visit(s, id).path)) = Cardinality(Ids(s.path)) + 1
  <1>1. /\ s \in Search /\ s.path \in Seq(Steps) /\ Ids(s.path) \subseteq Steps
    BY SearchIs DEF SearchOK
  <1>2. id \in Steps /\ id \notin Ids(s.path)
    BY <1>1, WantedIs DEF Visitable
  <1>3. PICK new : new = Append(s.path, id)
    OBVIOUS
  <1>4. Ids(new) = Ids(s.path) \cup {id}
    BY ONLY <1>1, <1>2, <1>3, Longer
  <1>5. Visit(s, id).path = new /\ Visit(s, id).order = s.order
    BY <1>1, <1>3 DEF Visit, Search
  <1>. QED  BY <1>1, <1>2, <1>4, <1>5, StepSets

LEMMA ReturnAdvances ==
  ASSUME NEW deps, NEW s, SearchOK(deps, s), Returning(deps, s)
  PROVE  /\ Cardinality(Ids(Return(s).order)) = Cardinality(Ids(s.order)) + 1
         /\ Cardinality(Ids(Return(s).path)) = Cardinality(Ids(s.path)) - 1
  <1>1. /\ s.path \in Seq(Steps) /\ s.order \in Seq(Steps)
        /\ Ids(s.path) \subseteq Steps /\ Ids(s.order) \subseteq Steps
        /\ Ids(s.path) \cap Ids(s.order) = {} /\ IsInjective(s.path)
    BY SearchIs DEF SearchOK
  <1>2. PICK path, top : path = s.path /\ top = Len(path)
    OBVIOUS
  <1>3. PICK id : id = path[top]
    OBVIOUS
  <1>4. PICK front, new : front = Front(path) /\ new = Append(s.order, id)
    OBVIOUS
  <1>5. path # <<>> /\ path \in Seq(Steps) /\ IsInjective(path)
    BY <1>1, <1>2 DEF Returning
  <1>6. /\ top \in Nat /\ top > 0 /\ DOMAIN path = 1..top /\ id \in Steps /\ top \in DOMAIN path
    BY <1>2, <1>3, <1>5
  <1>7. /\ DOMAIN front = 1..(top - 1) /\ \A i \in DOMAIN front : front[i] = path[i]
    BY <1>2, <1>4, <1>5, <1>6 DEF Front
  <1>8. Ids(front) = Ids(path) \ {id}
    <2>1. \A i \in DOMAIN path : i \in DOMAIN front \/ i = top
      BY <1>6, <1>7
    <2>2. \A i \in DOMAIN front : i \in DOMAIN path /\ i # top
      BY <1>6, <1>7
    <2>3. \A i \in DOMAIN front : front[i] # id
      BY <1>3, <1>5, <1>6, <1>7, <2>2 DEF IsInjective
    <2>. QED  BY ONLY <1>3, <1>7, <2>1, <2>2, <2>3 DEF Ids
  <1>9. id \in Ids(path) /\ id \notin Ids(s.order)
    BY <1>1, <1>2, <1>3, <1>6 DEF Ids
  <1>10. Ids(new) = Ids(s.order) \cup {id}
    BY ONLY <1>1, <1>4, <1>6, Longer
  <1>11. Return(s).path = front /\ Return(s).order = new
    BY <1>2, <1>3, <1>4 DEF Return, Last
  <1>. QED  BY <1>1, <1>2, <1>8, <1>9, <1>10, <1>11, StepSets

LEMMA SortAdvances ==
  ASSUME IInv, NEW c \in Callers, Sort(c)
  PROVE  Advances(c)
  <1>. DEFINE s == exec[c].search
              done == Cardinality(Ids(s.order))
              open == Cardinality(Ids(s.path))
  <1>1. exec[c].pc = "entered"
    BY DEF Sort, Visits, Returns, Refuses, Sorted
  <1>2. /\ exec[c] \in Exec /\ exec \in [Callers -> Exec] /\ CallerOK(c)
        /\ Deps(c) \in Dependencies /\ SearchOK(Deps(c), s) /\ exec[c].done = {}
    BY <1>1, Executing, Basics DEF CallerOK, Deps
  <1>3. /\ Ids(s.path) \subseteq Steps /\ Ids(s.order) \subseteq Steps
        /\ done \in Nat /\ open \in Nat /\ Cardinality(Steps) \in Nat
    BY <1>2, SearchIs, StepSets
  <1>4. Progress(exec[c]) = 2 * done + open
    BY <1>1 DEF Progress
  <1>5. ASSUME NEW t, exec' = [exec EXCEPT ![c].search = t],
               2 * Cardinality(Ids(t.order)) + Cardinality(Ids(t.path)) = 2 * done + open + 1
        PROVE  Advances(c)
    <2>1. exec'[c] = [exec[c] EXCEPT !.search = t]
      BY <1>2, <1>5
    <2>2. exec'[c].pc = "entered" /\ exec'[c].search = t
      BY <1>1, <1>2, <2>1 DEF Exec
    <2>. QED  BY <1>4, <1>5, <2>2 DEF Advances, InEngine, Progress
  <1>6. CASE Visits(c)
    <2>1. PICK id \in Visitable(Deps(c), s) : exec' = [exec EXCEPT ![c].search = Visit(s, id)]
      BY <1>2, <1>6 DEF Visits
    <2>2. /\ Ids(Visit(s, id).order) = Ids(s.order)
          /\ Cardinality(Ids(Visit(s, id).path)) = open + 1
      BY <1>2, VisitAdvances
    <2>3. 2 * Cardinality(Ids(Visit(s, id).order)) + Cardinality(Ids(Visit(s, id).path))
            = 2 * done + open + 1
      BY <1>3, <2>2
    <2>. QED  BY <1>5, <2>1, <2>3
  <1>7. CASE Returns(c)
    <2>1. exec' = [exec EXCEPT ![c].search = Return(s)] /\ Returning(Deps(c), s)
      BY <1>2, <1>7 DEF Returns
    <2>2. /\ Cardinality(Ids(Return(s).order)) = done + 1
          /\ Cardinality(Ids(Return(s).path)) = open - 1
      BY <1>2, <2>1, ReturnAdvances
    <2>3. 2 * Cardinality(Ids(Return(s).order)) + Cardinality(Ids(Return(s).path))
            = 2 * done + open + 1
      BY <1>3, <2>2
    <2>. QED  BY <1>5, <2>1, <2>3
  <1>8. CASE Refuses(c)
    BY <1>2, <1>8 DEF Refuses, Finish, Advances
  <1>9. CASE Sorted(c)
    <2>1. exec'[c] = [exec[c] EXCEPT !.pc = "between", !.left = s.order, !.search = NoSearch]
      BY <1>2, <1>9 DEF Sorted
    <2>2. exec'[c].pc = "between" /\ exec'[c].done = {}
      BY <1>2, <2>1 DEF Exec
    <2>3. Complete(Deps(c), s)
      BY <1>9 DEF Sorted
    <2>4. Ids(s.order) = Steps /\ s.path = <<>>
      BY <1>2, <2>3, CompleteOK DEF IsOrder, Complete
    <2>5. Ids(s.path) = {}
      BY <2>4 DEF Ids
    <2>6. Progress(exec[c]) = 2 * Cardinality(Steps)
      <3>1. done = Cardinality(Steps)
        BY <2>4
      <3>2. open = 0
        BY <2>5, FS_EmptySet
      <3>. QED  BY <1>3, <1>4, <3>1, <3>2
    <2>7. Progress(exec'[c]) = 2 * Cardinality(Steps) + 1
      BY <1>3, <2>2, FS_EmptySet DEF Progress
    <2>. QED  BY <2>2, <2>6, <2>7 DEF Advances, InEngine
  <1>. QED  BY <1>6, <1>7, <1>8, <1>9 DEF Sort

LEMMA EngineStep ==
  ASSUME IInv, NEW c \in Callers, Engine(c)
  PROVE  Advances(c)
  <1>1. CASE Sort(c)
    BY <1>1, SortAdvances
  <1>2. CASE Waits(c) \/ StepFails(c) \/ Ends(c)
    <2>1. exec' = [exec EXCEPT ![c] = Idle]
      BY <1>2 DEF Waits, StepFails, Ends, Finish
    <2>. QED  BY <2>1 DEF IInv, TypeOK, Advances
  <1>3. CASE StepStarts(c)
    <2>1. exec[c].pc = "between" /\ exec' = [exec EXCEPT ![c].pc = "executing"]
      BY <1>3 DEF StepStarts
    <2>2. exec[c] \in Exec /\ exec \in [Callers -> Exec]
      BY <2>1, Executing
    <2>3. exec'[c].pc = "executing" /\ exec'[c].done = exec[c].done
      BY <2>1, <2>2 DEF Exec
    <2>4. Cardinality(exec[c].done) \in Nat /\ Cardinality(Steps) \in Nat
      BY <2>2, StepSets DEF Exec
    <2>. QED  BY <2>1, <2>3, <2>4 DEF Advances, InEngine, Progress
  <1>4. CASE StepOk(c)
    <2>1. exec[c].pc = "executing"
      BY <1>4 DEF StepOk
    <2>2. exec[c] \in Exec /\ exec \in [Callers -> Exec] /\ CallOK(exec[c], runs[exec[c].run])
      BY <2>1, Executing
    <2>3. CASE OverLimit(c)
      BY <1>4, <2>2, <2>3 DEF StepOk, Finish, Advances
    <2>4. CASE ~OverLimit(c)
      <3>1. exec' = [exec EXCEPT ![c].pc = "between", ![c].left = Tail(@),
                                 ![c].done = @ \cup {Current(c)}, ![c].cost = @ + 1]
        BY <1>4, <2>4 DEF StepOk
      <3>2. exec'[c].pc = "between" /\ exec'[c].done = exec[c].done \cup {Current(c)}
        BY <2>2, <3>1 DEF Exec
      <3>3. Current(c) \notin exec[c].done
        BY <2>1, <2>2, AtHand DEF Engaged, CallOK
      <3>4. /\ Cardinality(exec[c].done) \in Nat /\ Cardinality(Steps) \in Nat
            /\ Cardinality(exec'[c].done) = Cardinality(exec[c].done) + 1
        BY <2>2, <3>2, <3>3, StepSets DEF Exec
      <3>. QED  BY <2>1, <3>2, <3>4 DEF Advances, InEngine, Progress
    <2>. QED  BY <2>3, <2>4
  <1>. QED  BY <1>1, <1>2, <1>3, <1>4 DEF Engine

(* What is not a step of an engine leaves it alone, or ends it.            *)
LEMMA OthersLeave ==
  ASSUME IInv, [Next]_vars, NEW c \in Callers, ~Engine(c), InEngine(c)
  PROVE  exec'[c] \in {exec[c], Idle}
  <1>0. exec \in [Callers -> Exec]
    BY DEF IInv, TypeOK, Exec
  <1>2. CASE CronCollect \/ CronFire
    BY <1>0, <1>2, Basics DEF CronCollect, CronFire, InEngine
  <1>3. ASSUME NEW h \in Handlers, ManualRun(h) \/ Enters(h) \/ Dropped(h)
        PROVE  exec'[c] \in {exec[c], Idle}
    BY <1>0, <1>3, Basics DEF ManualRun, Enters, Dropped, Ready, Finish, InEngine
  <1>4. ASSUME NEW h \in Handlers, NEW r \in DOMAIN runs, Approve(h, r)
        PROVE  exec'[c] = exec[c]
    BY <1>0, <1>4, Basics DEF Approve, Ready, InEngine
  <1>5. ASSUME NEW d \in Callers, Engine(d)
        PROVE  exec'[c] = exec[c]
    <2>1. d # c
      BY <1>5
    <2>2. CASE Visits(d)
      <3>1. PICK id : exec' = [exec EXCEPT ![d].search = Visit(@, id)]
        BY <2>2 DEF Visits
      <3>. QED  BY <1>0, <2>1, <3>1
    <2>3. CASE Returns(d)
      BY <1>0, <2>1, <2>3 DEF Returns
    <2>4. CASE Sorted(d) \/ StepStarts(d)
      BY <1>0, <2>1, <2>4 DEF Sorted, StepStarts
    <2>5. CASE StepOk(d)
      BY <1>0, <2>1, <2>5 DEF StepOk, Finish
    <2>6. CASE Refuses(d) \/ Waits(d) \/ StepFails(d) \/ Ends(d)
      BY <1>0, <2>1, <2>6 DEF Refuses, Waits, StepFails, Ends, Finish
    <2>. QED  BY <1>5, <2>2, <2>3, <2>4, <2>5, <2>6 DEF Engine, Sort
  <1>6. CASE Restart
    BY <1>6 DEF Restart
  <1>7. CASE Delete \/ Fires \/ UNCHANGED vars
    BY <1>7 DEF Delete, Fires, vars
  <1>8. ASSUME NEW def \in Definitions, Save(def) PROVE exec'[c] = exec[c]
    BY <1>8 DEF Save
  <1>9. ASSUME NEW f \in due, Passed(f) PROVE exec'[c] = exec[c]
    BY <1>9 DEF Passed
  <1>. QED  BY <1>2, <1>3, <1>4, <1>5, <1>6, <1>7, <1>8, <1>9 DEF Next

(* Every step that an engine takes, in the search and in the execution, is *)
(* progress by exactly one, and nobody else moves it except to end it: it  *)
(* never goes back.                                                        *)
THEOREM EngineAdvances == Spec => [][\A c \in Callers : Advances(c)]_vars
  <1>1. ASSUME IInv, [Next]_vars PROVE \A c \in Callers : Advances(c)
    BY <1>1, EngineStep, OthersLeave DEF Advances
  <1>2. IInv /\ [Next]_vars => [\A c \in Callers : Advances(c)]_vars
    BY <1>1
  <1>. QED  BY <1>2, Invariance, PTL DEF Spec

(* And there are at most 4N + 1 such steps for a workflow of N steps: a    *)
(* cycle of depends_on does not keep topo_sort busy, and the engine that   *)
(* holds the lock over all handlers does not hold it for ever.             *)
THEOREM EngineBounded ==
    Spec => [](\A c \in Callers :
                  InEngine(c) => Progress(exec[c]) \in 0..(4 * Cardinality(Steps) + 1))
  <1>1. ASSUME IInv, NEW c \in Callers, InEngine(c)
        PROVE  Progress(exec[c]) \in 0..(4 * Cardinality(Steps) + 1)
    <2>1. exec[c] \in Exec /\ CallerOK(c) /\ CallOK(exec[c], runs[exec[c].run])
      BY <1>1, Executing DEF InEngine
    <2>2. CASE exec[c].pc = "entered"
      <3>. DEFINE s == exec[c].search
      <3>1. /\ Ids(s.path) \subseteq Steps /\ Ids(s.order) \subseteq Steps
            /\ Ids(s.path) \cap Ids(s.order) = {}
        BY <2>1, <2>2, SearchIs DEF CallerOK
      <3>. HIDE DEF s
      <3>2. /\ IsFiniteSet(Ids(s.path)) /\ Cardinality(Ids(s.path)) \in Nat
            /\ IsFiniteSet(Ids(s.order)) /\ Cardinality(Ids(s.order)) \in Nat
            /\ Cardinality(Steps) \in Nat
            /\ Cardinality(Ids(s.path) \cup Ids(s.order)) <= Cardinality(Steps)
        BY <3>1, StepSets
      <3>3. Cardinality(Ids(s.path) \cup Ids(s.order))
              = Cardinality(Ids(s.path)) + Cardinality(Ids(s.order))
        <4>1. Cardinality(Ids(s.path) \cap Ids(s.order)) = 0
          BY <3>1, FS_EmptySet
        <4>2. Cardinality(Ids(s.path) \cup Ids(s.order)) = Cardinality(Ids(s.path))
                 + Cardinality(Ids(s.order)) - Cardinality(Ids(s.path) \cap Ids(s.order))
          BY <3>2, FS_Union
        <4>. QED  BY <3>2, <4>1, <4>2
      <3>4. Progress(exec[c]) = 2 * Cardinality(Ids(s.order)) + Cardinality(Ids(s.path))
        BY <2>2 DEF Progress, s
      <3>. QED  BY <3>2, <3>3, <3>4
    <2>3. CASE exec[c].pc # "entered"
      <3>1. /\ exec[c].done \subseteq Steps /\ Cardinality(exec[c].done) \in Nat
            /\ Cardinality(Steps) \in Nat /\ Cardinality(exec[c].done) <= Cardinality(Steps)
        BY <2>1, StepSets DEF Exec
      <3>2. exec[c].pc = "executing" => Cardinality(exec[c].done) + 1 <= Cardinality(Steps)
        <4>. SUFFICES ASSUME exec[c].pc = "executing"
                      PROVE  Cardinality(exec[c].done) + 1 <= Cardinality(Steps)
          OBVIOUS
        <4>1. Current(c) \in Steps \ exec[c].done
          BY <1>1, <2>1, AtHand DEF Engaged, CallOK
        <4>2. exec[c].done \cup {Current(c)} \subseteq Steps
          BY <3>1, <4>1
        <4>3. Cardinality(exec[c].done \cup {Current(c)}) = Cardinality(exec[c].done) + 1
          BY <3>1, <4>1, StepSets
        <4>4. Cardinality(exec[c].done \cup {Current(c)}) <= Cardinality(Steps)
          BY <4>2, StepSets
        <4>. QED  BY <4>3, <4>4
      <3>. QED  BY <2>3, <3>1, <3>2 DEF Progress
    <2>. QED  BY <2>2, <2>3
  <1>2. IInv => \A c \in Callers :
                   InEngine(c) => Progress(exec[c]) \in 0..(4 * Cardinality(Steps) + 1)
    BY <1>1
  <1>. QED  BY <1>2, Invariance, PTL

=============================================================================
