--------------------------- MODULE WorkflowOrder ---------------------------
(***************************************************************************)
(* The order in which a workflow runs its steps: topo_sort of the engine,  *)
(* a depth-first search along depends_on, call by call of its visit, and   *)
(* what it must compute.                                                   *)
(*                                                                         *)
(* The lists of the YAML, the steps and depends_on, are sets here: they    *)
(* may be in any order, and what a list names again is skipped.            *)
(***************************************************************************)
EXTENDS Naturals, FiniteSets, SequencesExt

CONSTANTS
    Steps,          \* ids of steps
    Missing         \* an id no step has

ASSUME OrderAssumption == IsFiniteSet(Steps) /\ Missing \notin Steps

Dependencies == [Steps -> SUBSET (Steps \cup {Missing})]

Ids(seq) == {seq[i] : i \in DOMAIN seq}

(* A search: the calls of visit it is in, the innermost last (visiting),   *)
(* and the steps that are done, in order (visited and order).              *)
Search == [path : Seq(Steps), order : Seq(Steps)]

NoSearch == [path |-> <<>>, order |-> <<>>]

(* Mutant: a step counts as visited when its visit begins.                 *)
WantedOnce(deps, s) ==
    (IF s.path = <<>> THEN Steps ELSE deps[Last(s.path)]) \ (Ids(s.order) \cup Ids(s.path))

(* What the innermost loop still visits: of all steps, or of depends_on of *)
(* the innermost call.  A step that is done is skipped.                    *)
Wanted(deps, s) ==
    (IF s.path = <<>> THEN Steps ELSE deps[Last(s.path)]) \ Ids(s.order)

(* It visits id, which is neither a cycle nor missing.                     *)
Visitable(deps, s) == Wanted(deps, s) \ (Ids(s.path) \cup {Missing})

Visit(s, id) == [s EXCEPT !.path = Append(@, id)]

(* All that the innermost call depends on is done, and so is its step.     *)
Returning(deps, s) == s.path # <<>> /\ Wanted(deps, s) = {}

Return(s) == [path |-> Front(s.path), order |-> Append(s.order, Last(s.path))]

(* Mutant: nobody looks for a cycle.                                       *)
RefusedMissing(deps, s) == Missing \in Wanted(deps, s)

(* It visits a step it is in, or one that does not exist.                  *)
Refused(deps, s) == Wanted(deps, s) \cap (Ids(s.path) \cup {Missing}) # {}

Complete(deps, s) == s.path = <<>> /\ Wanted(deps, s) = {}

(***************************************************************************)
(* What topo_sort promises, without a search.                              *)
(***************************************************************************)
IsOrder(deps, order) ==
    /\ IsInjective(order) /\ Ids(order) = Steps
    /\ \A i \in DOMAIN order : deps[order[i]] \subseteq {order[j] : j \in 1..(i - 1)}

Orderable(deps) == \E order \in [1..Cardinality(Steps) -> Steps] : IsOrder(deps, order)
=============================================================================
