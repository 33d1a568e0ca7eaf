----------------------------- MODULE VaultProofs -----------------------------
(***************************************************************************)
(* Proofs about VaultAccess, for any number of processes, keys, agents and *)
(* calls, and any entries of the ACL.                                      *)
(*                                                                         *)
(* A call carries what it has read some statements before: the request it  *)
(* uses up and what the ACL said.  The invariant says what of that still   *)
(* holds (Backing), that a process runs one call at a time (Alone), and    *)
(* counts the calls that are past the audit log and those that stand       *)
(* before it (Counting, Limiting).                                         *)
(***************************************************************************)
EXTENDS VaultAccess, FiniteSetTheorems, FunctionTheorems, TLAPS

Busy == {"log", "policy", "consume", "operate"}
Held == {"consume", "operate", "done"}
Past == {"policy", "consume", "operate", "done"}

(* What a call may rely on, given the table of requests.                   *)
Backed(table, c) ==
    /\ c.approval # 0 =>
          c.policy = "confirm" /\ c.approval \in DOMAIN table /\ table[c.approval].of = c.of
    /\ c.pc \in {"log", "policy"} => c.approval = 0
    /\ c.pc = "consume" =>
          c.approval # 0 /\ table[c.approval].status \in {"approved", "expired"}
    /\ c.pc \in {"operate", "done"} /\ c.policy = "confirm" =>
          c.approval # 0 /\ table[c.approval].status = "expired"

Backing == \A i \in DOMAIN calls : Backed(requests, calls[i])

SameProcess(i, j) == i # j /\ calls[i].by = calls[j].by

Alone == \A i, j \in DOMAIN calls :
    SameProcess(i, j) => ~(calls[i].pc \in Busy /\ calls[j].pc \in Busy)

OneUse == \A i, j \in DOMAIN calls :
    SameProcess(i, j) /\ calls[i].pc \in Held /\ calls[j].pc \in Held =>
        calls[i].approval = 0 \/ calls[i].approval # calls[j].approval

Logged(s) == {i \in DOMAIN calls : calls[i].of = s /\ calls[i].pc \in Past}

Pending(s) == {i \in DOMAIN calls : calls[i].of = s /\ calls[i].pc = "log" /\ calls[i].allowed}

Counting == \A s \in Subject : Cardinality(Logged(s)) <= audit[s].ever

(* Calls of today, those that will be logged included.                     *)
Load(s) == audit[s].today + Cardinality(Pending(s))

Limiting == \A s \in Subject : Load(s) > 0 =>
    \E e \in Ruling(s) :
        /\ e \in Entries /\ s.action \in e.actions
        /\ e.limit = 0 \/ Load(s) <= e.limit + Cardinality(Processes) - 1

Custody == TypeOK /\ Backing /\ Alone /\ OneUse

IInv == Custody /\ Counting /\ Limiting

-----------------------------------------------------------------------------
(* The requests go forward: none is lost, and an approval can only be used. *)
Forward ==
    /\ requests' \in Seq(Request) /\ Len(requests) <= Len(requests')
    /\ \A r \in DOMAIN requests :
          /\ requests'[r].of = requests[r].of
          /\ requests[r].status = "expired" => requests'[r].status = "expired"
          /\ requests[r].status = "approved" => requests'[r].status \in {"approved", "expired"}

(* The calls in a process's hand keep what backs them.                     *)
LEMMA StaysBacked ==
  ASSUME TypeOK, Forward, NEW c \in Call, Backed(requests, c) PROVE Backed(requests', c)
  <1>1. DOMAIN requests \subseteq DOMAIN requests'
    BY DEF TypeOK, Forward
  <1>2. c.approval # 0 => c.approval \in DOMAIN requests
    BY DEF Backed
  <1>. QED  BY <1>1, <1>2 DEF Backed, Forward

(* A call that runs is in one of the stages before its end.                *)
LEMMA RunningIsBusy ==
  ASSUME NEW i \in DOMAIN calls PROVE Running(i) <=> calls[i].pc \in Busy
  BY DEF Running, At, Busy

(* One call goes on.                                                       *)
LEMMA MoveCall ==
  ASSUME Custody, Forward, NEW i \in DOMAIN calls, calls[i].pc \in Busy,
         NEW c \in Call, c.by = calls[i].by,
         calls' = [calls EXCEPT ![i] = c], Backed(requests', c),
         c.pc \in Held =>
            \/ calls[i].pc \in Held /\ calls[i].approval = c.approval
            \/ \A j \in DOMAIN calls : SameProcess(i, j) /\ calls[j].pc \in Held =>
                  c.approval = 0 \/ calls[j].approval # c.approval
  PROVE  /\ calls' \in Seq(Call) /\ DOMAIN calls' = DOMAIN calls /\ calls'[i] = c
         /\ \A j \in DOMAIN calls : j # i => calls'[j] = calls[j]
         /\ \A j \in DOMAIN calls' : calls'[j].approval \in 0 .. Len(requests')
         /\ Backing' /\ Alone' /\ OneUse'
  <1>1. calls \in Seq(Call) /\ requests \in Seq(Request)
    BY DEF Custody, TypeOK
  <1>2. /\ calls' \in Seq(Call) /\ DOMAIN calls' = DOMAIN calls /\ calls'[i] = c
        /\ \A j \in DOMAIN calls : j # i => calls'[j] = calls[j]
    BY <1>1
  <1>3. Backing'
    <2>1. ASSUME NEW j \in DOMAIN calls, j # i PROVE Backed(requests', calls[j])
      <3>1. calls[j] \in Call /\ Backed(requests, calls[j])
        BY <1>1 DEF Custody, Backing
      <3>. QED  BY <3>1, StaysBacked DEF Custody
    <2>. QED  BY <1>2, <2>1 DEF Backing
  <1>4. \A j \in DOMAIN calls' : calls'[j].approval \in 0 .. Len(requests')
    <2>1. requests' \in Seq(Request)
      BY DEF Forward
    <2>2. ASSUME NEW j \in DOMAIN calls' PROVE calls'[j].approval \in 0 .. Len(requests')
      <3>1. Backed(requests', calls'[j]) /\ calls'[j].approval \in Nat
        <4>1. calls'[j] \in Call
          BY <1>2
        <4>. QED  BY <1>3, <4>1 DEF Backing, Call
      <3>2. calls'[j].approval # 0 => calls'[j].approval \in DOMAIN requests'
        BY <3>1 DEF Backed
      <3>. QED  BY <2>1, <3>1, <3>2
    <2>. QED  BY <2>2
  <1>5. Alone'
    BY <1>2 DEF Custody, Alone, SameProcess
  <1>6. OneUse'
    <2>1. ASSUME NEW j \in DOMAIN calls, SameProcess(i, j), c.pc \in Held, calls[j].pc \in Held
          PROVE  c.approval = 0 \/ calls[j].approval # c.approval
      BY <2>1 DEF Custody, OneUse
    <2>2. ASSUME NEW j \in DOMAIN calls', NEW k \in DOMAIN calls', SameProcess(j, k)',
                 calls'[j].pc \in Held, calls'[k].pc \in Held
          PROVE  calls'[j].approval = 0 \/ calls'[j].approval # calls'[k].approval
      <3>1. CASE j = i
        BY <1>2, <2>1, <2>2, <3>1 DEF SameProcess
      <3>2. CASE k = i
        BY <1>2, <2>1, <2>2, <3>2 DEF SameProcess
      <3>3. CASE j # i /\ k # i
        BY <1>2, <2>2, <3>3 DEF SameProcess, Custody, OneUse
      <3>. QED  BY <3>1, <3>2, <3>3
    <2>. QED  BY <2>2 DEF OneUse
  <1>. QED  BY <1>2, <1>3, <1>4, <1>5, <1>6

-----------------------------------------------------------------------------
(* Counting.                                                               *)
LEMMA FinitelyMany ==
  ASSUME calls \in Seq(Call)
  PROVE  \A s : /\ IsFiniteSet(Logged(s)) /\ Cardinality(Logged(s)) \in Nat
                /\ IsFiniteSet(Pending(s)) /\ Cardinality(Pending(s)) \in Nat
  <1>1. IsFiniteSet(1 .. Len(calls)) /\ DOMAIN calls = 1 .. Len(calls)
    <2>1. Len(calls) \in Int /\ 1 \in Int
      OBVIOUS
    <2>. QED  BY <2>1, FS_Interval
  <1>2. TAKE s
  <1>3. Logged(s) \in SUBSET (1 .. Len(calls)) /\ Pending(s) \in SUBSET (1 .. Len(calls))
    BY <1>1 DEF Logged, Pending
  <1>4. IsFiniteSet(Logged(s)) /\ IsFiniteSet(Pending(s))
    BY <1>1, <1>3, FS_Subset
  <1>. QED  BY <1>4, FS_CardinalityType

(* There are finitely many processes.                                      *)
LEMMA ProcessCount == Cardinality(Processes) \in Nat
  BY VaultAssumption, FS_CardinalityType

(* A step that logs nothing and lets no call stand before the log.         *)
LEMMA QuietStep ==
  ASSUME IInv, calls' \in Seq(Call), UNCHANGED <<acl, edits, audit>>,
         \A s \in Subject : Logged(s)' \subseteq Logged(s) /\ Pending(s)' \subseteq Pending(s)
  PROVE  Counting' /\ Limiting'
  <1>1. calls \in Seq(Call) /\ audit \in [Subject -> [today : Nat, ever : Nat]]
    BY DEF IInv, Custody, TypeOK
  <1>2. ASSUME NEW s \in Subject
        PROVE  /\ Cardinality(Logged(s)') \in Nat /\ Cardinality(Logged(s)') <= Cardinality(Logged(s))
               /\ Cardinality(Pending(s)') \in Nat /\ Cardinality(Pending(s)') <= Cardinality(Pending(s))
               /\ Cardinality(Logged(s)) \in Nat /\ Cardinality(Pending(s)) \in Nat
    <2>1. Logged(s)' \in SUBSET Logged(s) /\ Pending(s)' \in SUBSET Pending(s)
      OBVIOUS
    <2>2. IsFiniteSet(Logged(s)) /\ IsFiniteSet(Pending(s))
      BY <1>1, FinitelyMany
    <2>3. /\ IsFiniteSet(Logged(s)') /\ Cardinality(Logged(s)') <= Cardinality(Logged(s))
          /\ IsFiniteSet(Pending(s)') /\ Cardinality(Pending(s)') <= Cardinality(Pending(s))
      BY <2>1, <2>2, FS_Subset
    <2>. QED  BY <2>2, <2>3, FS_CardinalityType
  <1>3. Counting'
    <2>1. ASSUME NEW s \in Subject PROVE Cardinality(Logged(s)') <= audit'[s].ever
      <3>1. Cardinality(Logged(s)) <= audit[s].ever /\ audit[s].ever \in Nat
        BY <1>1 DEF IInv, Counting
      <3>. QED  BY <1>2, <3>1
    <2>. QED  BY <2>1 DEF Counting
  <1>4. Limiting'
    <2>1. ASSUME NEW s \in Subject, Load(s)' > 0
          PROVE  \E e \in Ruling(s)' :
                    /\ e \in Entries /\ s.action \in e.actions
                    /\ e.limit = 0 \/ Load(s)' <= e.limit + Cardinality(Processes) - 1
      <3>1. Load(s)' \in Nat /\ Load(s) \in Nat /\ Load(s)' <= Load(s)
        BY <1>1, <1>2 DEF Load
      <3>2. PICK e \in Ruling(s) :
                    /\ e \in Entries /\ s.action \in e.actions
                    /\ e.limit = 0 \/ Load(s) <= e.limit + Cardinality(Processes) - 1
        BY <2>1, <3>1 DEF IInv, Limiting
      <3>3. e.limit \in Nat
        BY <3>2, VaultAssumption DEF Entry
      <3>4. e.limit = 0 \/ Load(s)' <= e.limit + Cardinality(Processes) - 1
        BY <3>1, <3>2, <3>3, ProcessCount
      <3>5. Ruling(s)' = Ruling(s)
        BY DEF Ruling, MatchingAcl, Priority
      <3>. QED  BY <3>2, <3>4, <3>5
    <2>. QED  BY <2>1 DEF Limiting
  <1>. QED  BY <1>3, <1>4

(* ... in particular one that takes a call on from behind the log, or ends *)
(* one.                                                                    *)
LEMMA BehindTheLog ==
  ASSUME IInv, NEW i \in DOMAIN calls, NEW c \in Call, c.of = calls[i].of, c.pc # "log",
         c.pc \in Past => calls[i].pc \in Past,
         calls' = [calls EXCEPT ![i] = c], calls' \in Seq(Call), UNCHANGED <<acl, edits, audit>>
  PROVE  Counting' /\ Limiting'
  <1>1. /\ DOMAIN calls' = DOMAIN calls /\ calls'[i] = c
        /\ \A j \in DOMAIN calls : j # i => calls'[j] = calls[j]
    BY DEF IInv, Custody, TypeOK
  <1>2. ASSUME NEW s \in Subject
        PROVE  Logged(s)' \subseteq Logged(s) /\ Pending(s)' \subseteq Pending(s)
    BY <1>1 DEF Logged, Pending
  <1>. QED  BY <1>2, QuietStep

-----------------------------------------------------------------------------
(* The steps of a call.                                                    *)
LEMMA Calling ==
  ASSUME IInv, NEW i, NEW pc \in Busy, At(i, pc)
  PROVE  /\ i \in DOMAIN calls /\ calls[i] \in Call /\ calls[i].pc = pc
         /\ Backed(requests, calls[i]) /\ calls[i].of \in Subject
         /\ requests \in Seq(Request) /\ Custody
  <1>1. /\ Custody /\ calls \in Seq(Call) /\ requests \in Seq(Request)
        /\ i \in DOMAIN calls /\ calls[i].pc = pc
    BY DEF IInv, Custody, TypeOK, At
  <1>2. calls[i] \in Call
    BY <1>1
  <1>. QED  BY <1>1, <1>2 DEF Custody, Backing, Call

(* Who leaves the requests alone moves none back.                          *)
LEMMA Unforwarded == ASSUME IInv, UNCHANGED requests PROVE Forward
  BY DEF IInv, Custody, TypeOK, Forward

(* A step of a call that writes no request: the record it becomes.          *)
LEMMA QuietCall ==
  ASSUME IInv, NEW i \in DOMAIN calls, calls[i].pc \in Busy, NEW pc \in {"operate", "done", "ended"},
         Goto(i, pc), UNCHANGED <<acl, edits, audit, requests>>,
         pc # "ended" => calls[i].pc \in Past,
         Backed(requests, [calls[i] EXCEPT !.pc = pc]),
         pc # "ended" => calls[i].pc \in Held \/ calls[i].approval = 0
  PROVE  IInv'
  <1>. DEFINE c == [calls[i] EXCEPT !.pc = pc]
  <1>1. calls[i] \in Call /\ Custody
    BY DEF IInv, Custody, TypeOK
  <1>2. /\ c \in Call /\ c.by = calls[i].by /\ c.of = calls[i].of /\ c.pc = pc
        /\ c.approval = calls[i].approval /\ Backed(requests, c)
    BY <1>1 DEF Call
  <1>3. calls' = [calls EXCEPT ![i] = c]
    BY DEF Goto
  <1>. HIDE DEF c
  <1>4. Forward
    BY Unforwarded
  <1>5. /\ calls' \in Seq(Call) /\ Backing' /\ Alone' /\ OneUse'
        /\ \A j \in DOMAIN calls' : calls'[j].approval \in 0 .. Len(requests')
    BY <1>1, <1>2, <1>3, <1>4, MoveCall DEF Held
  <1>6. Counting' /\ Limiting'
    BY <1>2, <1>3, <1>5, BehindTheLog DEF Past
  <1>. QED  BY <1>1, <1>5, <1>6 DEF IInv, Custody, TypeOK

(* auto: the call goes on to the operation.                                *)
LEMMA PolicyAutoStep == ASSUME IInv, NEW i, PolicyAuto(i) PROVE IInv'
  <1>1. At(i, "policy") /\ calls[i].policy = "auto" /\ Goto(i, "operate")
    BY DEF PolicyAuto
  <1>2. i \in DOMAIN calls /\ calls[i] \in Call /\ calls[i].pc = "policy" /\ Backed(requests, calls[i])
    BY <1>1, Calling DEF Busy
  <1>3. Backed(requests, [calls[i] EXCEPT !.pc = "operate"])
    BY <1>1, <1>2 DEF Backed, Call
  <1>4. calls[i].approval = 0
    BY <1>2 DEF Backed
  <1>. QED  BY <1>1, <1>2, <1>3, <1>4, QuietCall DEF PolicyAuto, Busy, Past

(* mfa: the code is right or the call is over.                             *)
LEMMA PolicyMfaStep == ASSUME IInv, NEW i, PolicyMfa(i) PROVE IInv'
  <1>1. At(i, "policy") /\ calls[i].policy = "mfa"
    BY DEF PolicyMfa
  <1>2. PICK pc \in {"operate", "ended"} : Goto(i, pc)
    BY DEF PolicyMfa
  <1>3. i \in DOMAIN calls /\ calls[i] \in Call /\ calls[i].pc = "policy" /\ Backed(requests, calls[i])
    BY <1>1, Calling DEF Busy
  <1>4. Backed(requests, [calls[i] EXCEPT !.pc = pc])
    BY <1>1, <1>3 DEF Backed, Call
  <1>5. calls[i].approval = 0
    BY <1>3 DEF Backed
  <1>. QED  BY <1>2, <1>3, <1>4, <1>5, QuietCall DEF PolicyMfa, Busy, Past

(* The operation itself.                                                   *)
LEMMA OperateStep == ASSUME IInv, NEW i, Operate(i) PROVE IInv'
  <1>1. At(i, "operate") /\ Goto(i, "done")
    BY DEF Operate
  <1>2. i \in DOMAIN calls /\ calls[i] \in Call /\ calls[i].pc = "operate" /\ Backed(requests, calls[i])
    BY <1>1, Calling DEF Busy
  <1>3. Backed(requests, [calls[i] EXCEPT !.pc = "done"])
    BY <1>2 DEF Backed, Call
  <1>. QED  BY <1>1, <1>2, <1>3, QuietCall DEF Operate, Busy, Past, Held

(* A process that is killed ends its call; what it used stays used.        *)
LEMMA KillStep == ASSUME IInv, NEW i, Kill(i) PROVE IInv'
  <1>1. PICK pc \in Busy : At(i, pc)
    BY DEF Kill, Running, Busy
  <1>2. i \in DOMAIN calls /\ calls[i] \in Call /\ calls[i].pc = pc /\ Backed(requests, calls[i])
    BY <1>1, Calling
  <1>3. Backed(requests, [calls[i] EXCEPT !.pc = "ended"])
    BY <1>2 DEF Backed, Call
  <1>. QED  BY <1>2, <1>3, QuietCall DEF Kill

(* The approval is used up; the other calls that hold it keep it.           *)
LEMMA ConsumeStep == ASSUME IInv, NEW i, Consume(i) PROVE IInv'
  <1>. DEFINE c == [calls[i] EXCEPT !.pc = "operate"]
              r == calls[i].approval
  <1>1. /\ At(i, "consume") /\ Goto(i, "operate") /\ UNCHANGED <<acl, edits, audit>>
        /\ requests' = [requests EXCEPT ![r].status = "expired"]
    BY DEF Consume
  <1>2. /\ i \in DOMAIN calls /\ calls[i] \in Call /\ calls[i].pc = "consume"
        /\ Backed(requests, calls[i]) /\ requests \in Seq(Request) /\ Custody
    BY <1>1, Calling DEF Busy
  <1>3. /\ r \in DOMAIN requests /\ r # 0 /\ calls[i].policy = "confirm"
        /\ requests[r].of = calls[i].of /\ requests[r] \in Request
    BY <1>2 DEF Backed
  <1>4. /\ requests' \in Seq(Request) /\ DOMAIN requests' = DOMAIN requests
        /\ Len(requests') = Len(requests)
        /\ requests'[r].of = requests[r].of /\ requests'[r].status = "expired"
        /\ \A n \in DOMAIN requests : n # r => requests'[n] = requests[n]
    <2>. DEFINE used == [requests[r] EXCEPT !.status = "expired"]
    <2>1. used \in Request /\ used.of = requests[r].of /\ used.status = "expired"
      BY <1>3 DEF Request
    <2>2. requests' = [requests EXCEPT ![r] = used]
      BY <1>1
    <2>. HIDE DEF used, r
    <2>. QED  BY <1>2, <1>3, <2>1, <2>2
  <1>5. Forward
    BY <1>4 DEF Forward
  <1>6. /\ c \in Call /\ c.by = calls[i].by /\ c.of = calls[i].of /\ c.pc = "operate"
        /\ c.approval = r /\ c.policy = "confirm"
    BY <1>2, <1>3 DEF Call
  <1>7. calls' = [calls EXCEPT ![i] = c]
    BY <1>1 DEF Goto
  <1>. HIDE DEF c
  <1>8. Backed(requests', c)
    BY <1>3, <1>4, <1>6 DEF Backed
  <1>9. /\ calls' \in Seq(Call) /\ Backing' /\ Alone' /\ OneUse'
        /\ \A j \in DOMAIN calls' : calls'[j].approval \in 0 .. Len(requests')
    BY <1>2, <1>5, <1>6, <1>7, <1>8, MoveCall DEF Held, Busy
  <1>10. Counting' /\ Limiting'
    BY <1>1, <1>2, <1>6, <1>7, <1>9, BehindTheLog DEF Past
  <1>. QED  BY <1>1, <1>2, <1>4, <1>9, <1>10 DEF IInv, Custody, TypeOK

(* An approval is found, which no other call of the process has used, or a *)
(* request is left.                                                        *)
LEMMA PolicyConfirmStep == ASSUME IInv, NEW i, PolicyConfirm(i) PROVE IInv'
  <1>1. /\ At(i, "policy") /\ calls[i].policy = "confirm" /\ UNCHANGED <<acl, edits, audit>>
    BY DEF PolicyConfirm
  <1>2. /\ i \in DOMAIN calls /\ calls[i] \in Call /\ calls[i].pc = "policy"
        /\ Backed(requests, calls[i]) /\ requests \in Seq(Request) /\ Custody
        /\ calls[i].of \in Subject
    BY <1>1, Calling DEF Busy
  <1>3. calls[i].approval = 0
    BY <1>2 DEF Backed
  <1>4. CASE Approved(calls[i].of) = {}
    <2>. DEFINE c == [calls[i] EXCEPT !.pc = "ended"]
                request == [of |-> calls[i].of, status |-> "pending", decided |-> 0]
    <2>1. requests' = Append(requests, request) /\ Goto(i, "ended")
      BY <1>4 DEF PolicyConfirm
    <2>2. request \in Request
      BY <1>2 DEF Request
    <2>. HIDE DEF request
    <2>3. /\ requests' \in Seq(Request) /\ Len(requests') = Len(requests) + 1
          /\ \A n \in DOMAIN requests : requests'[n] = requests[n]
      BY <1>2, <2>1, <2>2
    <2>4. Forward
      BY <1>2, <2>3 DEF Forward
    <2>5. /\ c \in Call /\ c.by = calls[i].by /\ c.of = calls[i].of /\ c.pc = "ended"
          /\ c.approval = 0
      BY <1>2, <1>3 DEF Call
    <2>6. calls' = [calls EXCEPT ![i] = c]
      BY <2>1 DEF Goto
    <2>. HIDE DEF c
    <2>7. Backed(requests', c)
      BY <2>5 DEF Backed
    <2>8. /\ calls' \in Seq(Call) /\ Backing' /\ Alone' /\ OneUse'
          /\ \A j \in DOMAIN calls' : calls'[j].approval \in 0 .. Len(requests')
      BY <1>2, <2>4, <2>5, <2>6, <2>7, MoveCall DEF Held, Busy
    <2>9. Counting' /\ Limiting'
      BY <1>1, <1>2, <2>5, <2>6, <2>8, BehindTheLog DEF Past
    <2>. QED  BY <1>1, <1>2, <2>3, <2>8, <2>9 DEF IInv, Custody, TypeOK
  <1>5. CASE Approved(calls[i].of) # {}
    <2>1. PICK r \in Approved(calls[i].of) :
             calls' = [calls EXCEPT ![i].pc = "consume", ![i].approval = r]
      BY <1>5 DEF PolicyConfirm
    <2>. DEFINE c == [calls[i] EXCEPT !.pc = "consume", !.approval = r]
    <2>2. UNCHANGED requests
      BY <1>5 DEF PolicyConfirm
    <2>3. /\ r \in DOMAIN requests /\ r \in Nat /\ r # 0
          /\ requests[r].of = calls[i].of /\ requests[r].status = "approved"
      BY <1>2 DEF Approved
    <2>4. /\ c \in Call /\ c.by = calls[i].by /\ c.of = calls[i].of /\ c.pc = "consume"
          /\ c.approval = r /\ c.policy = "confirm"
      BY <1>1, <1>2, <2>3 DEF Call
    <2>5. calls' = [calls EXCEPT ![i] = c]
      BY <2>1
    <2>. HIDE DEF c
    <2>6. Forward
      BY <2>2, Unforwarded
    <2>7. Backed(requests', c)
      BY <2>2, <2>3, <2>4 DEF Backed
    <2>8. ASSUME NEW j \in DOMAIN calls, SameProcess(i, j), calls[j].pc \in Held
          PROVE  calls[j].approval # r
      <3>1. calls[j].pc \notin Busy
        BY <1>2, <2>8 DEF Custody, Alone, Busy
      <3>2. calls[j].pc \in {"operate", "done"}
        BY <2>8, <3>1 DEF Held, Busy
      <3>3. Backed(requests, calls[j])
        BY <1>2 DEF Custody, Backing
      <3>. QED  BY <2>3, <3>2, <3>3 DEF Backed
    <2>9. /\ calls' \in Seq(Call) /\ Backing' /\ Alone' /\ OneUse'
          /\ \A j \in DOMAIN calls' : calls'[j].approval \in 0 .. Len(requests')
      BY <1>2, <2>4, <2>5, <2>6, <2>7, <2>8, MoveCall DEF Busy
    <2>10. Counting' /\ Limiting'
      BY <1>1, <1>2, <2>4, <2>5, <2>9, BehindTheLog DEF Past
    <2>. QED  BY <1>1, <1>2, <2>2, <2>9, <2>10 DEF IInv, Custody, TypeOK
  <1>. QED  BY <1>4, <1>5

(* The audit row: a call the ACL allows passes from the ones that stand    *)
(* before the log to the ones behind it, and the log counts it.            *)
LEMMA LogAuditStep == ASSUME IInv, NEW i, LogAudit(i) PROVE IInv'
  <1>. DEFINE pc == IF calls[i].allowed THEN "policy" ELSE "ended"
              c == [calls[i] EXCEPT !.pc = pc]
  <1>1. At(i, "log") /\ Goto(i, pc) /\ UNCHANGED <<acl, edits, requests>>
    BY DEF LogAudit
  <1>2. /\ i \in DOMAIN calls /\ calls[i] \in Call /\ calls[i].pc = "log"
        /\ Backed(requests, calls[i]) /\ calls[i].of \in Subject /\ Custody
    BY <1>1, Calling DEF Busy
  <1>3. /\ c \in Call /\ c.by = calls[i].by /\ c.of = calls[i].of /\ c.pc = pc
        /\ c.approval = 0 /\ calls[i].allowed \in BOOLEAN
    BY <1>2 DEF Call, Backed
  <1>4. calls' = [calls EXCEPT ![i] = c]
    BY <1>1 DEF Goto
  <1>. HIDE DEF c
  <1>5. Forward
    BY <1>1, Unforwarded
  <1>6. Backed(requests', c)
    BY <1>3 DEF Backed
  <1>7. /\ calls' \in Seq(Call) /\ DOMAIN calls' = DOMAIN calls /\ calls'[i] = c
        /\ \A j \in DOMAIN calls : j # i => calls'[j] = calls[j]
        /\ Backing' /\ Alone' /\ OneUse'
        /\ \A j \in DOMAIN calls' : calls'[j].approval \in 0 .. Len(requests')
    BY <1>2, <1>3, <1>4, <1>5, <1>6, MoveCall DEF Held, Busy
  <1>8. audit \in [Subject -> [today : Nat, ever : Nat]] /\ calls \in Seq(Call)
    BY <1>2 DEF Custody, TypeOK
  <1>9. audit' \in [Subject -> [today : Nat, ever : Nat]] /\ Counting' /\ Limiting'
    <2>1. CASE ~calls[i].allowed
      <3>1. audit' = audit
        BY <2>1 DEF LogAudit
      <3>2. c.pc = "ended"
        BY <1>3, <2>1
      <3>. QED  BY <1>1, <1>2, <1>3, <1>4, <1>7, <1>8, <3>1, <3>2, BehindTheLog DEF Past
    <2>2. CASE calls[i].allowed
      <3>0. PICK s0 \in Subject : s0 = calls[i].of
        BY <1>2
      <3>1. audit' = [audit EXCEPT ![s0] = [today |-> audit[s0].today + 1, ever |-> audit[s0].ever + 1]]
        BY <2>2, <3>0 DEF LogAudit, Counted
      <3>2. c.pc = "policy"
        BY <1>3, <2>2
      <3>3. /\ audit' \in [Subject -> [today : Nat, ever : Nat]]
            /\ audit'[s0].today = audit[s0].today + 1 /\ audit'[s0].ever = audit[s0].ever + 1
            /\ \A s \in Subject : s # s0 => audit'[s] = audit[s]
        BY <1>8, <3>1
      <3>4. /\ Logged(s0)' = Logged(s0) \cup {i} /\ i \notin Logged(s0)
            /\ Pending(s0)' = Pending(s0) \ {i} /\ i \in Pending(s0)
        BY <1>2, <1>3, <1>7, <2>2, <3>0, <3>2 DEF Logged, Pending, Past
      <3>5. \A s \in Subject : s # s0 => Logged(s)' = Logged(s) /\ Pending(s)' = Pending(s)
        BY <1>2, <1>3, <1>7, <3>0 DEF Logged, Pending
      <3>6. /\ Cardinality(Logged(s0)') = Cardinality(Logged(s0)) + 1
            /\ Cardinality(Pending(s0)') = Cardinality(Pending(s0)) - 1
            /\ Cardinality(Logged(s0)) \in Nat /\ Cardinality(Pending(s0)) \in Nat
        <4>1. /\ IsFiniteSet(Logged(s0)) /\ Cardinality(Logged(s0)) \in Nat
              /\ IsFiniteSet(Pending(s0)) /\ Cardinality(Pending(s0)) \in Nat
          BY <1>8, FinitelyMany
        <4>2. Cardinality(Logged(s0) \cup {i}) = Cardinality(Logged(s0)) + 1
          BY <3>4, <4>1, FS_AddElement
        <4>3. Cardinality(Pending(s0) \ {i}) = Cardinality(Pending(s0)) - 1
          BY <3>4, <4>1, FS_RemoveElement
        <4>. QED  BY <3>4, <4>1, <4>2, <4>3
      <3>7. Counting'
        <4>1. audit[s0].ever \in Nat /\ Cardinality(Logged(s0)) <= audit[s0].ever
          BY <1>8 DEF IInv, Counting
        <4>2. Cardinality(Logged(s0)') <= audit'[s0].ever
          BY <3>3, <3>6, <4>1
        <4>3. \A s \in Subject : s # s0 => Cardinality(Logged(s)') <= audit'[s].ever
          BY <3>3, <3>5 DEF IInv, Counting
        <4>. QED  BY <4>2, <4>3 DEF Counting
      <3>8. \A s \in Subject : Load(s)' = Load(s)
        <4>1. audit[s0].today \in Nat
          BY <1>8
        <4>2. Load(s0)' = Load(s0)
          BY <3>3, <3>6, <4>1 DEF Load
        <4>3. \A s \in Subject : s # s0 => Load(s)' = Load(s)
          BY <3>3, <3>5 DEF Load
        <4>. QED  BY <4>2, <4>3
      <3>9. \A s \in Subject : Ruling(s)' = Ruling(s)
        BY <1>1 DEF Ruling, MatchingAcl, Priority
      <3>10. Limiting'
        BY <3>8, <3>9 DEF IInv, Limiting
      <3>. QED  BY <3>3, <3>7, <3>10
    <2>. QED  BY <1>3, <2>1, <2>2
  <1>. QED  BY <1>1, <1>2, <1>7, <1>9 DEF IInv, Custody, TypeOK

-----------------------------------------------------------------------------
(* check_acl.                                                              *)
LEMMA RulesAreEntries ==
  ASSUME TypeOK, NEW s \in Subject
  PROVE  MatchingAcl(s) \in Entries \cup {NoAcl}
  <1>. DEFINE hits == {n \in 1 .. 4 : acl[Priority(s)[n]] # NoAcl}
  <1>1. \A n \in 1 .. 4 : Priority(s)[n] \in Pattern
    BY DEF Priority, Pattern, Subject
  <1>2. CASE hits = {}
    BY <1>2 DEF MatchingAcl
  <1>3. CASE hits # {}
    <2>1. \E n \in hits : \A h \in hits : n <= h
      <3>1. hits \subseteq 1 .. 4
        OBVIOUS
      <3>. HIDE DEF hits
      <3>2. CASE 1 \in hits
        BY <3>1, <3>2
      <3>3. CASE 1 \notin hits /\ 2 \in hits
        BY <3>1, <3>3
      <3>4. CASE 1 \notin hits /\ 2 \notin hits /\ 3 \in hits
        BY <3>1, <3>4
      <3>5. CASE 1 \notin hits /\ 2 \notin hits /\ 3 \notin hits
        <4>1. \A h \in hits : h = 4
          BY <3>1, <3>5
        <4>. QED  BY <1>3, <4>1
      <3>. QED  BY <3>2, <3>3, <3>4, <3>5
    <2>. DEFINE first == CHOOSE n \in hits : \A h \in hits : n <= h
    <2>2. first \in hits
      BY <2>1
    <2>3. MatchingAcl(s) = acl[Priority(s)[first]]
      BY <1>3 DEF MatchingAcl
    <2>. HIDE DEF first
    <2>4. first \in 1 .. 4
      BY <2>2
    <2>. QED  BY <1>1, <2>3, <2>4 DEF TypeOK
  <1>. QED  BY <1>2, <1>3

(* When a process begins a call, no more calls stand before the log than   *)
(* there are other processes.                                              *)
LEMMA OthersPending ==
  ASSUME IInv, NEW p \in Processes, NEW s \in Subject,
         \A i \in DOMAIN calls : calls[i].by = p => ~Running(i)
  PROVE  Cardinality(Pending(s)) <= Cardinality(Processes) - 1
  <1>. DEFINE owner == [i \in Pending(s) |-> calls[i].by]
              others == Processes \ {p}
  <1>1. calls \in Seq(Call)
    BY DEF IInv, Custody, TypeOK
  <1>2. ASSUME NEW i \in Pending(s)
        PROVE  i \in DOMAIN calls /\ calls[i].pc \in Busy /\ calls[i].by \in others
    <2>1. i \in DOMAIN calls /\ calls[i].pc = "log"
      BY DEF Pending
    <2>2. calls[i].by # p
      BY <2>1, RunningIsBusy DEF Busy
    <2>3. calls[i] \in Call
      BY <1>1, <2>1
    <2>. QED  BY <2>1, <2>2, <2>3 DEF Call, Busy
  <1>3. owner \in [Pending(s) -> others]
    BY <1>2
  <1>4. \A i, j \in Pending(s) : owner[i] = owner[j] => i = j
    BY <1>2 DEF IInv, Custody, Alone, SameProcess
  <1>5. owner \in Injection(Pending(s), others)
    BY <1>3, <1>4 DEF Injection, IsInjective
  <1>6. IsFiniteSet(others) /\ Cardinality(others) = Cardinality(Processes) - 1
    BY VaultAssumption, FS_RemoveElement
  <1>. HIDE DEF owner, others
  <1>. QED  BY <1>5, <1>6, FS_Injection

(* A call begins: the entry that applies and the count are read together.  *)
LEMMA BeginStep ==
  ASSUME IInv, NEW p \in Processes, NEW s \in Subject, Begin(p, s) PROVE IInv'
  <1>. DEFINE e == MatchingAcl(s)
              n == Len(calls) + 1
              c == [by |-> p, of |-> s, pc |-> "log", approval |-> 0,
                    allowed |-> Permits(e, s),
                    policy |-> IF e = NoAcl THEN "auto" ELSE e.policy]
  <1>1. /\ calls' = Append(calls, c) /\ UNCHANGED <<acl, edits, audit, requests>>
        /\ \A i \in DOMAIN calls : calls[i].by = p => ~Running(i)
    BY DEF Begin
  <1>2. /\ calls \in Seq(Call) /\ requests \in Seq(Request) /\ Custody /\ TypeOK
        /\ audit \in [Subject -> [today : Nat, ever : Nat]]
    BY DEF IInv, Custody, TypeOK
  <1>3. e \in Entries \cup {NoAcl} /\ (e # NoAcl => e \in Entry)
    BY <1>2, RulesAreEntries, VaultAssumption
  <1>4. Permits(e, s) \in BOOLEAN
    BY DEF Permits
  <1>. HIDE DEF e
  <1>5. /\ c \in Call /\ c.by = p /\ c.of = s /\ c.pc = "log" /\ c.approval = 0
        /\ c.allowed = Permits(e, s)
    BY <1>3, <1>4 DEF Call, Entry
  <1>. HIDE DEF c
  <1>6. /\ calls' \in Seq(Call) /\ DOMAIN calls' = DOMAIN calls \cup {n} /\ n \notin DOMAIN calls
        /\ calls'[n] = c /\ \A i \in DOMAIN calls : calls'[i] = calls[i]
    BY <1>1, <1>2, <1>5
  <1>. HIDE DEF n
  <1>7. Backing'
    <2>1. Backed(requests', c)
      BY <1>5 DEF Backed
    <2>. QED  BY <1>1, <1>2, <1>6, <2>1 DEF Custody, Backing
  <1>8. \A i \in DOMAIN calls' : calls'[i].approval \in 0 .. Len(requests')
    <2>1. Len(requests) \in Nat
      BY <1>2
    <2>. QED  BY <1>1, <1>2, <1>5, <1>6, <2>1 DEF TypeOK
  <1>9. Alone'
    <2>1. \A i \in DOMAIN calls : calls[i].by = p => calls[i].pc \notin Busy
      BY <1>1, RunningIsBusy
    <2>. QED  BY <1>2, <1>5, <1>6, <2>1 DEF Custody, Alone, SameProcess
  <1>10. OneUse'
    <2>1. c.pc \notin Held
      BY <1>5 DEF Held
    <2>. QED  BY <1>2, <1>6, <2>1 DEF Custody, OneUse, SameProcess
  <1>11. Counting'
    <2>1. \A t \in Subject : Logged(t)' = Logged(t)
      BY <1>5, <1>6 DEF Logged, Past
    <2>. QED  BY <1>1, <2>1 DEF IInv, Counting
  <1>12. Limiting'
    <2>1. \A t \in Subject : Ruling(t)' = Ruling(t)
      BY <1>1 DEF Ruling, MatchingAcl, Priority
    <2>2. \A t \in Subject : t # s \/ ~c.allowed => Pending(t)' = Pending(t)
      BY <1>5, <1>6 DEF Pending
    <2>3. \A t \in Subject : t # s \/ ~c.allowed => Load(t)' = Load(t)
      BY <1>1, <2>2 DEF Load
    <2>4. ASSUME c.allowed
          PROVE  /\ e \in Ruling(s) /\ e \in Entries /\ s.action \in e.actions
                 /\ e.limit = 0 \/ Load(s)' <= e.limit + Cardinality(Processes) - 1
      <3>1. Pending(s)' = Pending(s) \cup {n} /\ n \notin Pending(s)
        BY <1>5, <1>6, <2>4 DEF Pending
      <3>2. /\ Cardinality(Pending(s)') = Cardinality(Pending(s)) + 1
            /\ Cardinality(Pending(s)) \in Nat
        BY <1>2, <3>1, FinitelyMany, FS_AddElement
      <3>3. Cardinality(Pending(s)) <= Cardinality(Processes) - 1
        BY <1>1, OthersPending
      <3>4. e # NoAcl /\ s.action \in e.actions /\ (e.limit = 0 \/ audit[s].today < e.limit)
        BY <1>5, <2>4 DEF Permits
      <3>5. e.limit \in Nat /\ audit[s].today \in Nat
        BY <1>2, <1>3, <3>4 DEF Entry
      <3>6. e.limit = 0 \/ Load(s)' <= e.limit + Cardinality(Processes) - 1
        BY <1>1, <3>2, <3>3, <3>4, <3>5, ProcessCount DEF Load
      <3>7. e \in Ruling(s)
        BY <1>3, <3>4 DEF Ruling, e
      <3>. QED  BY <1>3, <3>4, <3>6, <3>7
    <2>5. ASSUME NEW t \in Subject, Load(t)' > 0
          PROVE  \E x \in Ruling(t)' :
                    /\ x \in Entries /\ t.action \in x.actions
                    /\ x.limit = 0 \/ Load(t)' <= x.limit + Cardinality(Processes) - 1
      <3>1. CASE t = s /\ c.allowed
        BY <2>1, <2>4, <3>1
      <3>2. CASE ~(t = s /\ c.allowed)
        BY <2>1, <2>3, <2>5, <3>2 DEF IInv, Limiting
      <3>. QED  BY <3>1, <3>2
    <2>. QED  BY <2>5 DEF Limiting
  <1>. QED  BY <1>1, <1>2, <1>6, <1>7, <1>8, <1>9, <1>10, <1>11, <1>12 DEF IInv, Custody, TypeOK

-----------------------------------------------------------------------------
(* The master, and midnight.                                               *)
LEMMA DecideStep ==
  ASSUME IInv, NEW r, NEW status \in {"approved", "denied"}, Decide(r, status) PROVE IInv'
  <1>. DEFINE old == requests[r]
              new == [old EXCEPT !.status = status, !.decided = Decisions]
  <1>1. /\ r \in DOMAIN requests /\ old.status = "pending"
        /\ requests' = [requests EXCEPT ![r] = new] /\ UNCHANGED <<acl, edits, audit, calls>>
    BY DEF Decide
  <1>2. requests \in Seq(Request) /\ calls \in Seq(Call) /\ Custody
    BY DEF IInv, Custody, TypeOK
  <1>3. Decisions \in Nat
    <2>1. Len(requests) \in Int /\ 1 \in Int /\ DOMAIN requests = 1 .. Len(requests)
      BY <1>2
    <2>2. IsFiniteSet(DOMAIN requests)
      BY <2>1, FS_Interval
    <2>3. {n \in DOMAIN requests : requests[n].status # "pending"} \in SUBSET DOMAIN requests
      OBVIOUS
    <2>. QED  BY <2>2, <2>3, FS_Subset, FS_CardinalityType DEF Decisions
  <1>4. old \in Request
    BY <1>1, <1>2
  <1>5. new \in Request /\ new.of = old.of /\ new.status = status
    BY <1>3, <1>4 DEF Request
  <1>. HIDE DEF new
  <1>6. /\ requests' \in Seq(Request) /\ DOMAIN requests' = DOMAIN requests
        /\ Len(requests') = Len(requests) /\ requests'[r] = new
        /\ \A n \in DOMAIN requests : n # r => requests'[n] = requests[n]
    BY <1>1, <1>2, <1>5
  <1>7. Forward
    BY <1>1, <1>5, <1>6 DEF Forward
  <1>8. Backing'
    <2>1. \A i \in DOMAIN calls : calls[i] \in Call /\ Backed(requests, calls[i])
      BY <1>2 DEF Custody, Backing
    <2>2. \A i \in DOMAIN calls : Backed(requests', calls[i])
      BY <1>2, <1>7, <2>1, StaysBacked DEF Custody
    <2>. QED  BY <1>1, <2>2 DEF Backing
  <1>9. Custody'
    <2>1. TypeOK' /\ Alone' /\ OneUse'
      BY <1>1, <1>2, <1>6 DEF Custody, TypeOK, Alone, OneUse, SameProcess
    <2>. QED  BY <1>8, <2>1 DEF Custody
  <1>10. Counting' /\ Limiting'
    <2>1. \A s \in Subject : Logged(s)' \subseteq Logged(s) /\ Pending(s)' \subseteq Pending(s)
      BY <1>1 DEF Logged, Pending
    <2>. QED  BY <1>1, <1>2, <2>1, QuietStep
  <1>. QED  BY <1>9, <1>10 DEF IInv

(* An edit of the ACL: from then on any entry may have been the one that   *)
(* ruled.                                                                  *)
LEMMA EditStep ==
  ASSUME IInv, edits < MaxEdits, edits' = edits + 1, UNCHANGED <<audit, requests, calls>>,
         acl' \in [Pattern -> Entries \cup {NoAcl}]
  PROVE  IInv'
  <1>1. edits \in 0 .. MaxEdits /\ Custody
    BY DEF IInv, Custody, TypeOK
  <1>2. edits' \in 0 .. MaxEdits /\ edits' # 0
    BY <1>1, VaultAssumption
  <1>3. Custody'
    <2>1. TypeOK' /\ Backing' /\ Alone' /\ OneUse'
      BY <1>1, <1>2 DEF Custody, TypeOK, Backing, Alone, OneUse, SameProcess
    <2>. QED  BY <2>1 DEF Custody
  <1>4. \A s \in Subject : /\ Logged(s)' = Logged(s) /\ Pending(s)' = Pending(s)
                          /\ Load(s)' = Load(s) /\ Ruling(s)' = Entries
    BY <1>2 DEF Logged, Pending, Load, Ruling
  <1>5. Counting' /\ Limiting'
    BY <1>4 DEF IInv, Counting, Limiting
  <1>. QED  BY <1>3, <1>5 DEF IInv

(* At midnight the count of the day begins anew.                           *)
LEMMA MidnightStep == ASSUME IInv, Midnight PROVE IInv'
  <1>1. /\ UNCHANGED <<acl, edits, requests, calls>>
        /\ audit' = [s \in Subject |-> [audit[s] EXCEPT !.today = 0]]
    BY DEF Midnight
  <1>2. /\ audit \in [Subject -> [today : Nat, ever : Nat]] /\ calls \in Seq(Call) /\ Custody
    BY DEF IInv, Custody, TypeOK
  <1>3. \A s \in Subject : /\ audit'[s] \in [today : Nat, ever : Nat]
                          /\ audit'[s].today = 0 /\ audit'[s].ever = audit[s].ever
    BY <1>1, <1>2
  <1>4. audit' \in [Subject -> [today : Nat, ever : Nat]]
    BY <1>1, <1>3
  <1>5. Custody'
    <2>1. TypeOK' /\ Backing' /\ Alone' /\ OneUse'
      BY <1>1, <1>2, <1>4 DEF Custody, TypeOK, Backing, Alone, OneUse, SameProcess
    <2>. QED  BY <2>1 DEF Custody
  <1>6. \A s \in Subject : /\ Logged(s)' = Logged(s) /\ Pending(s)' = Pending(s)
                          /\ Ruling(s)' = Ruling(s)
    BY <1>1 DEF Logged, Pending, Ruling, MatchingAcl, Priority
  <1>7. Counting'
    BY <1>3, <1>6 DEF IInv, Counting
  <1>8. Limiting'
    <2>1. ASSUME NEW s \in Subject, Load(s)' > 0
          PROVE  \E e \in Ruling(s)' :
                    /\ e \in Entries /\ s.action \in e.actions
                    /\ e.limit = 0 \/ Load(s)' <= e.limit + Cardinality(Processes) - 1
      <3>1. Cardinality(Pending(s)) \in Nat /\ audit[s].today \in Nat
        BY <1>2, FinitelyMany
      <3>2. Load(s)' \in Nat /\ Load(s) \in Nat /\ Load(s)' <= Load(s)
        BY <1>3, <1>6, <3>1 DEF Load
      <3>3. PICK e \in Ruling(s) :
                    /\ e \in Entries /\ s.action \in e.actions
                    /\ e.limit = 0 \/ Load(s) <= e.limit + Cardinality(Processes) - 1
        BY <2>1, <3>2 DEF IInv, Limiting
      <3>4. e.limit \in Nat
        BY <3>3, VaultAssumption DEF Entry
      <3>5. e.limit = 0 \/ Load(s)' <= e.limit + Cardinality(Processes) - 1
        BY <3>2, <3>3, <3>4, ProcessCount
      <3>. QED  BY <1>6, <3>3, <3>5
    <2>. QED  BY <2>1 DEF Limiting
  <1>. QED  BY <1>5, <1>7, <1>8 DEF IInv

-----------------------------------------------------------------------------
(* No calls and no requests at the start.                                  *)
LEMMA InitIInv == Init => IInv
  <1>. SUFFICES ASSUME Init PROVE IInv
    OBVIOUS
  <1>1. calls = <<>> /\ requests = <<>> /\ edits = 0 /\ DOMAIN calls = {} /\ calls \in Seq(Call)
    BY DEF Init
  <1>2. audit = [s \in Subject |-> [today |-> 0, ever |-> 0]]
    BY DEF Init
  <1>3. TypeOK
    BY <1>1, <1>2, VaultAssumption, AclAssumption DEF Init, TypeOK
  <1>4. Backing /\ Alone /\ OneUse
    BY <1>1 DEF Backing, Alone, OneUse
  <1>5. \A s \in Subject : Logged(s) = {} /\ Pending(s) = {}
    BY <1>1 DEF Logged, Pending
  <1>6. Counting /\ Limiting
    <2>1. \A s \in Subject : Load(s) = 0
      BY <1>2, <1>5, FS_EmptySet DEF Load
    <2>2. Limiting
      BY <2>1 DEF Limiting
    <2>3. Counting
      BY <1>2, <1>5, FS_EmptySet DEF Counting
    <2>. QED  BY <2>2, <2>3
  <1>. QED  BY <1>3, <1>4, <1>6 DEF IInv, Custody

(* Each step keeps the invariant.                                          *)
LEMMA NextIInv == IInv /\ [Next]_vars => IInv'
  <1>. SUFFICES ASSUME IInv, [Next]_vars PROVE IInv'
    OBVIOUS
  <1>1. ASSUME NEW p \in Processes, NEW s \in Subject, Begin(p, s) PROVE IInv'
    BY <1>1, BeginStep
  <1>2. ASSUME NEW i \in 1 .. MaxCalls, Access(i) PROVE IInv'
    BY <1>2, LogAuditStep, PolicyAutoStep, PolicyMfaStep, PolicyConfirmStep, ConsumeStep,
       OperateStep, KillStep DEF Access
  <1>3. ASSUME Master PROVE IInv'
    <2>1. acl \in [Pattern -> Entries \cup {NoAcl}]
      BY DEF IInv, Custody, TypeOK
    <2>2. ASSUME NEW p \in Pattern, DeleteAcl(p) PROVE IInv'
      BY <2>1, <2>2, EditStep DEF DeleteAcl
    <2>3. ASSUME NEW p \in Pattern, NEW e \in Entries, UpsertAcl(p, e) PROVE IInv'
      BY <2>1, <2>3, EditStep DEF UpsertAcl
    <2>4. ASSUME NEW r, NEW status \in {"approved", "denied"}, Decide(r, status) PROVE IInv'
      BY <2>4, DecideStep
    <2>. QED  BY <1>3, <2>2, <2>3, <2>4 DEF Master
  <1>4. ASSUME Midnight PROVE IInv'
    BY <1>4, MidnightStep
  <1>5. CASE UNCHANGED vars
    <2>1. Custody'
      <3>1. TypeOK' /\ Backing' /\ Alone' /\ OneUse'
        BY <1>5 DEF vars, IInv, Custody, TypeOK, Backing, Alone, OneUse, SameProcess
      <3>. QED  BY <3>1 DEF Custody
    <2>2. calls' \in Seq(Call) /\ UNCHANGED <<acl, edits, audit>>
      BY <1>5 DEF vars, IInv, Custody, TypeOK
    <2>3. \A s \in Subject : Logged(s)' \subseteq Logged(s) /\ Pending(s)' \subseteq Pending(s)
      BY <1>5 DEF vars, Logged, Pending
    <2>. QED  BY <2>1, <2>2, <2>3, QuietStep DEF IInv
  <1>. QED  BY <1>1, <1>2, <1>3, <1>4, <1>5 DEF Next

(* An approval in use backs one call, was given once and is counted, and   *)
(* what passes is logged: the invariant always holds.                      *)
THEOREM Invariance == Spec => []IInv
  BY InitIInv, NextIInv, PTL DEF Spec

(* Every variable has its type.                                            *)
THEOREM TypeCorrect == Spec => []TypeOK
  <1>1. IInv => TypeOK
    BY DEF IInv, Custody
  <1>. QED  BY <1>1, Invariance, PTL

(* What a call under the confirm policy passes with was approved for its   *)
(* key, agent and action, and is used up before the operation runs.        *)
THEOREM AccessIsBacked == Spec => []ApprovalBacksAccess
  <1>1. IInv => ApprovalBacksAccess
    BY DEF IInv, Custody, Backing, Backed, ApprovalBacksAccess, Admitted
  <1>. QED  BY <1>1, Invariance, PTL

(* An approval admits at most one call of each process.                    *)
THEOREM UsesBounded == Spec => []ApprovalUsesBounded
  <1>1. IInv => ApprovalUsesBounded
    <2>. SUFFICES ASSUME IInv, NEW r \in DOMAIN requests, NEW i \in Uses(r), NEW j \in Uses(r), i # j
                  PROVE  calls[i].by # calls[j].by
      BY DEF ApprovalUsesBounded
    <2>1. r # 0
      BY DEF IInv, Custody, TypeOK
    <2>. QED  BY <2>1 DEF IInv, Custody, OneUse, SameProcess, Uses, Admitted, Held
  <1>. QED  BY <1>1, Invariance, PTL

(* Every access has left its row in the audit log before it runs.          *)
THEOREM Audited == Spec => []AccessIsAudited
  <1>1. IInv => AccessIsAudited
    <2>. SUFFICES ASSUME IInv, NEW s \in Subject
                  PROVE  Cardinality({i \in DOMAIN calls : calls[i].of = s /\ Admitted(i)}) <= audit[s].ever
      BY DEF AccessIsAudited
    <2>. DEFINE admitted == {i \in DOMAIN calls : calls[i].of = s /\ Admitted(i)}
    <2>1. calls \in Seq(Call) /\ audit[s].ever \in Nat /\ Cardinality(Logged(s)) <= audit[s].ever
      BY DEF IInv, Custody, TypeOK, Counting
    <2>2. admitted \in SUBSET Logged(s)
      BY DEF Logged, Admitted, Past
    <2>3. IsFiniteSet(Logged(s)) /\ Cardinality(Logged(s)) \in Nat
      BY <2>1, FinitelyMany
    <2>. HIDE DEF admitted
    <2>4. IsFiniteSet(admitted) /\ Cardinality(admitted) <= Cardinality(Logged(s))
      BY <2>2, <2>3, FS_Subset
    <2>5. Cardinality(admitted) \in Nat
      BY <2>4, FS_CardinalityType
    <2>6. Cardinality(admitted) <= audit[s].ever
      BY <2>1, <2>3, <2>4, <2>5
    <2>. QED  BY <2>6 DEF admitted
  <1>. QED  BY <1>1, Invariance, PTL

(* The daily limit is exceeded by at most one call for each other process. *)
THEOREM LimitKept == Spec => []LimitNearlyKept
  <1>1. IInv => LimitNearlyKept
    <2>. SUFFICES ASSUME IInv, NEW s \in Subject, audit[s].today > 0
                  PROVE  \E e \in Ruling(s) :
                            /\ s.action \in e.actions
                            /\ e.limit = 0 \/ audit[s].today <= e.limit + Cardinality(Processes) - 1
      BY DEF LimitNearlyKept
    <2>1. calls \in Seq(Call) /\ audit[s].today \in Nat
      BY DEF IInv, Custody, TypeOK
    <2>2. Load(s) \in Nat /\ audit[s].today <= Load(s)
      BY <2>1, FinitelyMany DEF Load
    <2>3. PICK e \in Ruling(s) :
             /\ e \in Entries /\ s.action \in e.actions
             /\ e.limit = 0 \/ Load(s) <= e.limit + Cardinality(Processes) - 1
      BY <2>1, <2>2 DEF IInv, Limiting
    <2>4. e.limit \in Nat
      BY <2>3, VaultAssumption DEF Entry
    <2>5. e.limit = 0 \/ audit[s].today <= e.limit + Cardinality(Processes) - 1
      BY <2>1, <2>2, <2>3, <2>4, ProcessCount
    <2>. QED  BY <2>3, <2>5
  <1>. QED  BY <1>1, Invariance, PTL

(* What the master decided stays decided: an approval is used, nothing     *)
(* else ever changes.                                                      *)
THEOREM DecisionsKept == Spec => DecisionsStay
  <1>. DEFINE Stays == \A r \in DOMAIN requests : requests'[r].status # requests[r].status =>
          \/ requests[r].status = "pending" /\ requests'[r].status \in {"approved", "denied"}
          \/ requests[r].status = "approved" /\ requests'[r].status = "expired"
  <1>1. IInv /\ [Next]_vars => [Stays]_vars
    <2>. SUFFICES ASSUME IInv, Next PROVE Stays
      OBVIOUS
    <2>0. requests \in Seq(Request)
      BY DEF IInv, Custody, TypeOK
    <2>1. CASE UNCHANGED requests
      BY <2>1
    <2>2. ASSUME NEW i \in 1 .. MaxCalls, PolicyConfirm(i) PROVE Stays
      <3>1. \A r \in DOMAIN requests : requests'[r] = requests[r]
        BY <2>0, <2>2, SMTT(30) DEF PolicyConfirm
      <3>. QED  BY <3>1
    <2>3. ASSUME NEW i \in 1 .. MaxCalls, Consume(i) PROVE Stays
      <3>1. requests[calls[i].approval].status \in {"approved", "expired"}
        BY <2>3, Calling DEF Consume, Busy, Backed, At
      <3>2. requests' = [requests EXCEPT ![calls[i].approval].status = "expired"]
        BY <2>3 DEF Consume
      <3>3. \A r \in DOMAIN requests : requests[r] \in Request
        BY <2>0
      <3>. QED  BY <3>1, <3>2, <3>3 DEF Request
    <2>4. ASSUME NEW n, NEW status \in {"approved", "denied"}, Decide(n, status) PROVE Stays
      <3>1. /\ requests[n].status = "pending"
            /\ requests' = [requests EXCEPT ![n].status = status, ![n].decided = Decisions]
        BY <2>4 DEF Decide
      <3>2. \A r \in DOMAIN requests : requests[r] \in Request
        BY <2>0
      <3>. QED  BY <3>1, <3>2 DEF Request
    <2>. QED
      BY <2>1, <2>2, <2>3, <2>4 DEF Next, Begin, Access, LogAudit, PolicyAuto, PolicyMfa, Operate, Kill,
                                   Master, UpsertAcl, DeleteAcl, Midnight
  <1>. QED  BY <1>1, Invariance, PTL DEF Spec, DecisionsStay
=============================================================================
