---------------------------- MODULE RekeyProofs ----------------------------
(***************************************************************************)
(* Proofs about Rekey, for any number of key files, entries, passwords,    *)
(* calls and processes.                                                    *)
(*                                                                         *)
(* Everything is about one call and what nobody else has written since its *)
(* backup began.  A step of anybody else therefore leaves what is said of  *)
(* a call alone (Undisturbed), and so does a failure (FailedSafe): what is *)
(* left are the steps of the call itself.                                  *)
(***************************************************************************)
EXTENDS Rekey, TLAPS

BackedUp == {"db"} \cup Inside \cup {"done", "failed"}
RowsBackedUp == Inside \cup {"done", "failed"}
KeysBegun == {"key", "tear", "write", "get", "set", "verify", "sync", "done"}
RowsBegun == {"get", "set", "verify", "sync", "done"}
EnvWritten == {"verify", "sync", "done"}

(* What is not as in the backup has gone from the old password to the new. *)
KeysKept(c) == calls[c].pc \in BackedUp =>
    \A k \in Keyfiles \ calls[c].others :
        \/ keyfile[k] = calls[c].backup.keys[k]
        \/ calls[c].backup.keys[k] = calls[c].old /\ keyfile[k] \in {calls[c].new, Torn}

Old(c, e) == [pw |-> calls[c].old, val |-> calls[c].backup.rows[e].val]
New(c, e) == [pw |-> calls[c].new, val |-> calls[c].backup.rows[e].val]

RowsKept(c) == calls[c].pc \in RowsBackedUp =>
    \A e \in Entries \ calls[c].others :
        \/ vault[e] = calls[c].backup.rows[e]
        \/ calls[c].backup.rows[e] = Old(c, e) /\ vault[e] = New(c, e)

(* What the call has in hand was under the old password in the backup.     *)
KeyInHand(c) == calls[c].pc \in {"tear", "write"} =>
    /\ calls[c].item \in Keyfiles \ calls[c].skipped
    /\ calls[c].item \notin calls[c].others => calls[c].backup.keys[calls[c].item] = calls[c].old

RowInHand(c) == calls[c].pc = "set" =>
    /\ calls[c].item \in Entries
    /\ calls[c].item \notin calls[c].others =>
          calls[c].backup.rows[calls[c].item] = [pw |-> calls[c].old, val |-> calls[c].val]

(* What the call has done so far.                                          *)
KeyAhead(c, k) ==
    \/ calls[c].pc \in {"key", "tear", "write"} /\ k \in calls[c].left
    \/ calls[c].pc \in {"tear", "write"} /\ k = calls[c].item

KeysNew(c) == calls[c].pc \in KeysBegun =>
    \A k \in Keyfiles \ (calls[c].others \cup calls[c].skipped) :
        keyfile[k] \in {calls[c].new, Absent} \/ KeyAhead(c, k)

RowAhead(c, e) ==
    \/ calls[c].pc \in {"get", "set"} /\ e \in calls[c].left
    \/ calls[c].pc = "set" /\ e = calls[c].item

RowsNew(c) == calls[c].pc \in RowsBegun =>
    \A e \in Entries \ calls[c].others :
        vault[e] \in {Absent, New(c, e)} \/ RowAhead(c, e)

EnvNew(c) == calls[c].pc \in EnvWritten => "env" \in calls[c].others \/ envFile = calls[c].new

(* What the verification relies on.                                        *)
SkippedWhole(c) == \A k \in calls[c].skipped \ calls[c].others : keyfile[k] \notin {Torn, Absent}

CountedThere(c) == \A e \in calls[c].counted \ calls[c].others : vault[e] # Absent

Apart(c) ==
    /\ calls[c].pc \in {"idle", "list"} \cup Before =>
          calls[c].skipped = {} /\ calls[c].counted = {}
    /\ calls[c].pc \in {"key", "tear", "write"} => calls[c].left \cap calls[c].skipped = {}

Safe(c) ==
    /\ KeysKept(c) /\ RowsKept(c) /\ KeyInHand(c) /\ RowInHand(c)
    /\ KeysNew(c) /\ RowsNew(c) /\ EnvNew(c) /\ SkippedWhole(c) /\ CountedThere(c)
    /\ Apart(c)

IInv == TypeOK /\ \A c \in Calls : Safe(c)

-----------------------------------------------------------------------------

(* A step of somebody else that writes `names` leaves a call alone.        *)
LEMMA Undisturbed ==
  ASSUME NEW d \in Calls, NEW names \in SUBSET Items, calls[d] \in Call, Safe(d),
         calls'[d] = Disturbed(d, names),
         \A k \in Keyfiles \ names : keyfile'[k] = keyfile[k],
         \A e \in Entries \ names : vault'[e] = vault[e],
         "env" \in names \/ envFile' = envFile
  PROVE  calls'[d] \in Call /\ Safe(d)'
  <1>1. CASE calls[d].pc \in {"idle", "keys"}
    <2>1. calls'[d] = calls[d] /\ calls[d].skipped = {} /\ calls[d].counted = {}
      BY <1>1 DEF Disturbed, Safe, Apart, Before
    <2>. QED
      BY <1>1, <2>1 DEF Safe, KeysKept, RowsKept, KeyInHand, RowInHand, KeysNew, RowsNew, EnvNew,
         SkippedWhole, CountedThere, BackedUp, RowsBackedUp, KeysBegun, RowsBegun, EnvWritten,
         Inside, Apart
  <1>2. CASE calls[d].pc \notin {"idle", "keys"}
    <2>1. /\ calls'[d] \in Call
          /\ calls'[d].pc = calls[d].pc /\ calls'[d].old = calls[d].old
          /\ calls'[d].new = calls[d].new /\ calls'[d].left = calls[d].left
          /\ calls'[d].item = calls[d].item /\ calls'[d].val = calls[d].val
          /\ calls'[d].skipped = calls[d].skipped /\ calls'[d].counted = calls[d].counted
          /\ calls'[d].backup = calls[d].backup
          /\ calls'[d].others = calls[d].others \cup names
      BY <1>2 DEF Disturbed, Call
    <2>2. /\ calls[d].skipped \in SUBSET Keyfiles /\ calls[d].counted \in SUBSET Entries
      BY DEF Call
    <2>3. KeysKept(d)' /\ KeyInHand(d)'
      BY <2>1 DEF Safe, KeysKept, KeyInHand
    <2>4. RowsKept(d)' /\ RowInHand(d)'
      BY <2>1 DEF Safe, RowsKept, RowInHand, Old, New
    <2>5. KeysNew(d)'
      BY <2>1 DEF Safe, KeysNew, KeyAhead
    <2>6. RowsNew(d)'
      BY <2>1 DEF Safe, RowsNew, RowAhead, New
    <2>7. EnvNew(d)' /\ SkippedWhole(d)' /\ CountedThere(d)' /\ Apart(d)'
      BY <2>1, <2>2 DEF Safe, EnvNew, SkippedWhole, CountedThere, Apart
    <2>. QED  BY <2>1, <2>3, <2>4, <2>5, <2>6, <2>7 DEF Safe
  <1>. QED  BY <1>1, <1>2

(* Call c goes on, and all that has changed is among `names`.              *)
LEMMA GoesOn ==
  ASSUME IInv, NEW c \in Calls, NEW call, NEW names \in SUBSET Items, Becomes(c, call, names),
         \A k \in Keyfiles \ names : keyfile'[k] = keyfile[k],
         \A e \in Entries \ names : vault'[e] = vault[e],
         "env" \in names \/ envFile' = envFile,
         call \in Call, Safe(c)'
  PROVE  calls' \in [Calls -> Call] /\ \A d \in Calls : Safe(d)'
  <1>1. calls' = [d \in Calls |-> IF d = c THEN call ELSE Disturbed(d, names)]
    BY DEF Becomes
  <1>2. ASSUME NEW d \in Calls, d # c PROVE calls'[d] \in Call /\ Safe(d)'
    <2>1. calls[d] \in Call /\ Safe(d) /\ calls'[d] = Disturbed(d, names)
      BY <1>1, <1>2 DEF IInv, TypeOK
    <2>. QED  BY <2>1, Undisturbed
  <1>3. calls'[c] \in Call
    BY <1>1
  <1>4. \A d \in Calls : calls'[d] \in Call /\ Safe(d)'
    BY <1>2, <1>3
  <1>. QED  BY <1>1, <1>4

(* Everybody only notes what others write.                                 *)
LEMMA OthersWrite ==
  ASSUME IInv, NEW names \in SUBSET Items, Touch(names),
         \A k \in Keyfiles \ names : keyfile'[k] = keyfile[k],
         \A e \in Entries \ names : vault'[e] = vault[e],
         "env" \in names \/ envFile' = envFile
  PROVE  calls' \in [Calls -> Call] /\ \A d \in Calls : Safe(d)'
  <1>1. calls' = [d \in Calls |-> Disturbed(d, names)]
    BY DEF Touch
  <1>2. ASSUME NEW d \in Calls PROVE calls'[d] \in Call /\ Safe(d)'
    <2>1. calls[d] \in Call /\ Safe(d) /\ calls'[d] = Disturbed(d, names)
      BY <1>1 DEF IInv, TypeOK
    <2>. QED  BY <2>1, Undisturbed
  <1>. QED  BY <1>1, <1>2

(* A call that fails leaves everything as it is.                           *)
LEMMA FailedSafe ==
  ASSUME NEW c \in Calls, calls[c] \in Call, Safe(c), calls[c].pc \in Before \cup Inside,
         calls'[c] = Failed(c), UNCHANGED <<keyfile, vault, envFile>>
  PROVE  calls'[c] \in Call /\ Safe(c)'
  <1>1. /\ calls'[c] \in Call
        /\ calls'[c].pc = IF calls[c].pc \in Before THEN "refused" ELSE "failed"
        /\ calls'[c].old = calls[c].old /\ calls'[c].new = calls[c].new
        /\ calls'[c].skipped = {} /\ calls'[c].counted = {}
        /\ calls'[c].backup = calls[c].backup /\ calls'[c].others = calls[c].others
    <2>. DEFINE f == Failed(c)
    <2>1. f.pc \in {"refused", "failed"}
      BY DEF Failed, Call
    <2>2. /\ Nothing \in Keyfiles \cup Entries \cup {Nothing} /\ 0 \in 0..MaxWrites
          /\ {"refused", "failed"} \subseteq Over
      BY RekeyAssumption DEF Over
    <2>3. f \in Call
      BY <2>2 DEF Failed, Call
    <2>. QED  BY <2>1, <2>3 DEF Failed, Call
  <1>2. calls'[c].pc = "failed" => calls[c].pc \in Inside
    BY <1>1
  <1>3. calls'[c].pc \notin {"idle", "db", "keys", "list", "key", "tear", "write", "get", "set",
                             "verify", "sync", "done"}
    BY <1>1
  <1>4. KeysKept(c)'
    BY <1>1, <1>2, <1>3 DEF Safe, KeysKept, BackedUp, Inside
  <1>5. RowsKept(c)'
    BY <1>1, <1>2, <1>3 DEF Safe, RowsKept, RowsBackedUp, Inside, Old, New
  <1>6. /\ KeyInHand(c)' /\ RowInHand(c)' /\ KeysNew(c)' /\ RowsNew(c)' /\ EnvNew(c)'
        /\ SkippedWhole(c)' /\ CountedThere(c)' /\ Apart(c)'
    BY <1>1, <1>3 DEF Apart, KeyInHand, RowInHand, KeysNew, RowsNew, EnvNew, SkippedWhole, CountedThere,
                      KeysBegun, RowsBegun, EnvWritten
  <1>. QED  BY <1>1, <1>4, <1>5, <1>6 DEF Safe

-----------------------------------------------------------------------------
(* The steps of a call: what the call becomes is a call, and safe.         *)
LEMMA BeginSafe ==
  ASSUME IInv, NEW c \in Calls, NEW old \in Passwords, NEW new \in Passwords, Begin(c, old, new)
  PROVE  calls' \in [Calls -> Call] /\ \A d \in Calls : Safe(d)'
  <1>. DEFINE call == [calls[c] EXCEPT !.pc = "keys", !.old = old, !.new = new]
  <1>0. calls[c] \in Call /\ Safe(c) /\ calls[c].pc = "idle"
    BY DEF IInv, TypeOK, Begin
  <1>1. call \in Call /\ call.pc = "keys" /\ call.skipped = {} /\ call.counted = {}
    BY <1>0 DEF Call, Before, Safe, Apart
  <1>2. Becomes(c, call, {}) /\ UNCHANGED <<keyfile, vault, envFile>> /\ calls'[c] = call
    BY DEF Begin, Becomes
  <1>. HIDE DEF call
  <1>3. Safe(c)'
    BY <1>1, <1>2 DEF Safe, KeysKept, RowsKept, KeyInHand, RowInHand, KeysNew, RowsNew, EnvNew,
       SkippedWhole, CountedThere, BackedUp, RowsBackedUp, KeysBegun, RowsBegun, EnvWritten, Inside,
       Apart
  <1>. QED  BY <1>1, <1>2, <1>3, GoesOn

(* The key files are copied as they are at that moment.                    *)
LEMMA BackupKeysSafe ==
  ASSUME IInv, NEW c \in Calls, BackupKeys(c)
  PROVE  calls' \in [Calls -> Call] /\ \A d \in Calls : Safe(d)'
  <1>. DEFINE call == [calls[c] EXCEPT !.pc = "db", !.backup.keys = keyfile]
  <1>0. calls[c] \in Call /\ Safe(c) /\ calls[c].pc = "keys" /\ keyfile \in [Keyfiles -> File]
    BY DEF IInv, TypeOK, BackupKeys
  <1>1. /\ call \in Call /\ call.pc = "db" /\ call.skipped = {} /\ call.counted = {}
        /\ call.backup.keys = keyfile
    BY <1>0 DEF Call, Before, Safe, Apart, Store
  <1>2. Becomes(c, call, {}) /\ UNCHANGED <<keyfile, vault, envFile>> /\ calls'[c] = call
    BY DEF BackupKeys, Becomes
  <1>. HIDE DEF call
  <1>3. Safe(c)'
    BY <1>1, <1>2 DEF Safe, KeysKept, RowsKept, KeyInHand, RowInHand, KeysNew, RowsNew, EnvNew,
       SkippedWhole, CountedThere, BackedUp, RowsBackedUp, KeysBegun, RowsBegun, EnvWritten, Inside,
       Apart
  <1>. QED  BY <1>1, <1>2, <1>3, GoesOn

(* So is the database.                                                     *)
LEMMA BackupRowsSafe ==
  ASSUME IInv, NEW c \in Calls, BackupRows(c)
  PROVE  calls' \in [Calls -> Call] /\ \A d \in Calls : Safe(d)'
  <1>. DEFINE call == [calls[c] EXCEPT !.pc = "list", !.backup.rows = vault]
  <1>0. calls[c] \in Call /\ Safe(c) /\ calls[c].pc = "db" /\ vault \in [Entries -> Row]
    BY DEF IInv, TypeOK, BackupRows
  <1>1. /\ call \in Call /\ call.pc = "list" /\ call.skipped = {} /\ call.counted = {}
        /\ call.backup.rows = vault /\ call.backup.keys = calls[c].backup.keys
        /\ call.old = calls[c].old /\ call.new = calls[c].new /\ call.others = calls[c].others
    BY <1>0 DEF Call, Before, Inside, Safe, Apart, Store
  <1>2. Becomes(c, call, {}) /\ UNCHANGED <<keyfile, vault, envFile>> /\ calls'[c] = call
    BY DEF BackupRows, Becomes
  <1>. HIDE DEF call
  <1>3. KeysKept(c)'
    BY <1>0, <1>1, <1>2 DEF Safe, KeysKept, BackedUp
  <1>4. Safe(c)'
    BY <1>1, <1>2, <1>3 DEF Safe, RowsKept, KeyInHand, RowInHand, KeysNew, RowsNew, EnvNew,
       SkippedWhole, CountedThere, KeysBegun, RowsBegun, EnvWritten, Before, Apart
  <1>. QED  BY <1>1, <1>2, <1>4, GoesOn

(* An error in any step.                                                   *)
LEMMA FailsSafe ==
  ASSUME IInv, NEW c \in Calls, calls[c].pc \in Before \cup Inside, Becomes(c, Failed(c), {}),
         UNCHANGED <<keyfile, vault, envFile>>
  PROVE  calls' \in [Calls -> Call] /\ \A d \in Calls : Safe(d)'
  <1>1. calls[c] \in Call /\ Safe(c) /\ calls'[c] = Failed(c)
    BY DEF IInv, TypeOK, Becomes
  <1>2. Failed(c) \in Call /\ Safe(c)'
    BY <1>1, FailedSafe
  <1>. QED  BY <1>1, <1>2, GoesOn

(* What is listed is what there is: the rest is skipped or absent.         *)
LEMMA ListKeysSafe ==
  ASSUME IInv, NEW c \in Calls, ListKeys(c)
  PROVE  calls' \in [Calls -> Call] /\ \A d \in Calls : Safe(d)'
  <1>. DEFINE call == [calls[c] EXCEPT !.pc = "key", !.left = {k \in Keyfiles : keyfile[k] # Absent}]
  <1>0. calls[c] \in Call /\ Safe(c) /\ calls[c].pc = "list"
    BY DEF IInv, TypeOK, ListKeys
  <1>1. CASE \E k \in Keyfiles : keyfile[k] = Torn
    <2>1. Becomes(c, Failed(c), {}) /\ UNCHANGED <<keyfile, vault, envFile>>
      BY <1>1 DEF ListKeys
    <2>. QED  BY <1>0, <2>1, FailsSafe DEF Inside
  <1>2. CASE ~ \E k \in Keyfiles : keyfile[k] = Torn
    <2>1. /\ call \in Call /\ call.pc = "key"
          /\ call.left = {k \in Keyfiles : keyfile[k] # Absent}
          /\ call.backup = calls[c].backup /\ call.old = calls[c].old /\ call.new = calls[c].new
          /\ call.others = calls[c].others
          /\ call.skipped = calls[c].skipped /\ call.counted = calls[c].counted
      BY <1>0 DEF Call, Inside
    <2>2. Becomes(c, call, {}) /\ UNCHANGED <<keyfile, vault, envFile>> /\ calls'[c] = call
      BY <1>2 DEF ListKeys, Becomes
    <2>. HIDE DEF call
    <2>3. KeysKept(c)' /\ SkippedWhole(c)' /\ CountedThere(c)'
      BY <1>0, <2>1, <2>2 DEF Safe, KeysKept, BackedUp, Inside, SkippedWhole, CountedThere
    <2>4. RowsKept(c)'
      BY <1>0, <2>1, <2>2 DEF Safe, RowsKept, RowsBackedUp, Inside, Old, New
    <2>5. KeysNew(c)'
      BY <2>1, <2>2 DEF KeysNew, KeyAhead
    <2>6. Safe(c)'
      BY <1>0, <2>1, <2>2, <2>3, <2>4, <2>5 DEF Safe, KeyInHand, RowInHand, RowsNew, EnvNew,
         RowsBegun, EnvWritten, Before, Apart
    <2>. QED  BY <2>1, <2>2, <2>6, GoesOn
  <1>. QED  BY <1>1, <1>2

(* A key that the old password does not open is left alone.                *)
LEMMA ReadKeySafe ==
  ASSUME IInv, NEW c \in Calls, NEW k \in Keyfiles, ReadKey(c, k)
  PROVE  calls' \in [Calls -> Call] /\ \A d \in Calls : Safe(d)'
  <1>. DEFINE skip == [calls[c] EXCEPT !.left = @ \ {k}, !.skipped = @ \cup {k}]
              take == [calls[c] EXCEPT !.pc = "tear", !.left = @ \ {k}, !.item = k]
  <1>0. /\ calls[c] \in Call /\ Safe(c) /\ calls[c].pc = "key"
        /\ UNCHANGED <<keyfile, vault, envFile>>
    BY DEF IInv, TypeOK, ReadKey
  <1>1. CASE keyfile[k] \in {Torn, Absent}
    <2>1. Becomes(c, Failed(c), {})
      BY <1>1 DEF ReadKey
    <2>. QED  BY <1>0, <2>1, FailsSafe DEF Inside
  <1>2. CASE keyfile[k] \notin {Torn, Absent} /\ keyfile[k] # calls[c].old
    <2>1. /\ skip \in Call /\ skip.pc = "key" /\ skip.left = calls[c].left \ {k}
          /\ skip.backup = calls[c].backup /\ skip.old = calls[c].old /\ skip.new = calls[c].new
          /\ skip.others = calls[c].others
          /\ skip.skipped = calls[c].skipped \cup {k} /\ skip.counted = calls[c].counted
      BY <1>0 DEF Call
    <2>2. Becomes(c, skip, {}) /\ calls'[c] = skip
      BY <1>2 DEF ReadKey, Becomes
    <2>. HIDE DEF skip
    <2>3. KeysKept(c)' /\ SkippedWhole(c)' /\ CountedThere(c)'
      BY <1>0, <1>2, <2>1, <2>2 DEF Safe, KeysKept, BackedUp, Inside, SkippedWhole, CountedThere
    <2>4. RowsKept(c)'
      BY <1>0, <2>1, <2>2 DEF Safe, RowsKept, RowsBackedUp, Inside, Old, New
    <2>5. KeysNew(c)'
      BY <1>0, <2>1, <2>2 DEF Safe, KeysNew, KeyAhead, KeysBegun
    <2>6. Safe(c)'
      BY <1>0, <2>1, <2>2, <2>3, <2>4, <2>5 DEF Safe, KeyInHand, RowInHand, RowsNew, EnvNew,
         RowsBegun, EnvWritten, Before, Apart
    <2>. QED  BY <1>0, <2>1, <2>2, <2>6, GoesOn
  <1>3. CASE keyfile[k] \notin {Torn, Absent} /\ keyfile[k] = calls[c].old
    <2>1. /\ take \in Call /\ take.pc = "tear" /\ take.left = calls[c].left \ {k} /\ take.item = k
          /\ take.backup = calls[c].backup /\ take.old = calls[c].old /\ take.new = calls[c].new
          /\ take.others = calls[c].others
          /\ take.skipped = calls[c].skipped /\ take.counted = calls[c].counted
      BY <1>0 DEF Call, Inside
    <2>2. Becomes(c, take, {}) /\ calls'[c] = take
      BY <1>3 DEF ReadKey, Becomes
    <2>. HIDE DEF take
    <2>3. KeysKept(c)' /\ SkippedWhole(c)' /\ CountedThere(c)'
      BY <1>0, <2>1, <2>2 DEF Safe, KeysKept, BackedUp, Inside, SkippedWhole, CountedThere
    <2>4. RowsKept(c)'
      BY <1>0, <2>1, <2>2 DEF Safe, RowsKept, RowsBackedUp, Inside, Old, New
    <2>5. KeysNew(c)'
      BY <1>0, <2>1, <2>2 DEF Safe, KeysNew, KeyAhead, KeysBegun
    <2>6. KeyInHand(c)' /\ Apart(c)'
      <3>1. k \in calls[c].left
        BY DEF ReadKey
      <3>. QED  BY <1>0, <1>3, <2>1, <2>2, <3>1 DEF Safe, KeysKept, BackedUp, Inside, KeyInHand,
                    Apart, Before
    <2>7. Safe(c)'
      BY <2>1, <2>2, <2>3, <2>4, <2>5, <2>6 DEF Safe, RowInHand, RowsNew, EnvNew,
         RowsBegun, EnvWritten, Before
    <2>. QED  BY <1>0, <2>1, <2>2, <2>7, GoesOn
  <1>. QED  BY <1>1, <1>2, <1>3

(* A key file half written is in the backup.                               *)
LEMMA TearKeySafe ==
  ASSUME IInv, NEW c \in Calls, TearKey(c)
  PROVE  /\ keyfile' \in [Keyfiles -> File]
         /\ calls' \in [Calls -> Call] /\ \A d \in Calls : Safe(d)'
  <1>. DEFINE k == calls[c].item
              call == [calls[c] EXCEPT !.pc = "write"]
  <1>0. /\ calls[c] \in Call /\ Safe(c) /\ calls[c].pc = "tear" /\ k \in Keyfiles
        /\ UNCHANGED <<vault, envFile>> /\ keyfile \in [Keyfiles -> File]
    BY DEF IInv, TypeOK, TearKey, Safe, KeyInHand
  <1>1. CASE keyfile[k] \in {Torn, Absent}
    <2>1. Becomes(c, Failed(c), {}) /\ UNCHANGED keyfile
      BY <1>1 DEF TearKey
    <2>. QED  BY <1>0, <2>1, FailsSafe DEF Inside
  <1>2. CASE keyfile[k] \notin {Torn, Absent}
    <2>1. /\ call \in Call /\ call.pc = "write" /\ call.left = calls[c].left /\ call.item = k
          /\ call.backup = calls[c].backup /\ call.old = calls[c].old /\ call.new = calls[c].new
          /\ call.others = calls[c].others
          /\ call.skipped = calls[c].skipped /\ call.counted = calls[c].counted
      BY <1>0 DEF Call, Inside
    <2>2. Becomes(c, call, {k}) /\ calls'[c] = call /\ keyfile' = [keyfile EXCEPT ![k] = Torn]
      BY <1>2 DEF TearKey, Becomes
    <2>3. calls[c].skipped \subseteq Keyfiles /\ calls[c].counted \subseteq Entries
      BY <1>0 DEF Call
    <2>. HIDE DEF call
    <2>4. KeysKept(c)' /\ KeyInHand(c)'
      BY <1>0, <2>1, <2>2 DEF Safe, KeysKept, BackedUp, Inside, KeyInHand
    <2>5. RowsKept(c)' /\ CountedThere(c)'
      BY <1>0, <2>1, <2>2 DEF Safe, RowsKept, RowsBackedUp, Inside, Old, New, CountedThere
    <2>6. KeysNew(c)'
      BY <1>0, <2>1, <2>2 DEF Safe, KeysNew, KeyAhead, KeysBegun
    <2>7. SkippedWhole(c)' /\ Apart(c)'
      BY <1>0, <2>1, <2>2, <2>3 DEF Safe, KeyInHand, SkippedWhole, Apart, Before
    <2>8. Safe(c)'
      BY <2>1, <2>2, <2>4, <2>5, <2>6, <2>7 DEF Safe, RowInHand, RowsNew, EnvNew,
         RowsBegun, EnvWritten
    <2>9. Torn \in File /\ {k} \in SUBSET Items
      BY <1>0 DEF File, Items
    <2>. QED  BY <1>0, <2>1, <2>2, <2>8, <2>9, GoesOn
  <1>. QED  BY <1>1, <1>2

(* A key file written again opens with the new password.                   *)
LEMMA WriteKeySafe ==
  ASSUME IInv, NEW c \in Calls, WriteKey(c)
  PROVE  /\ keyfile' \in [Keyfiles -> File]
         /\ calls' \in [Calls -> Call] /\ \A d \in Calls : Safe(d)'
  <1>. DEFINE k == calls[c].item
              call == [calls[c] EXCEPT !.pc = "key", !.item = Nothing]
  <1>0. /\ calls[c] \in Call /\ Safe(c) /\ calls[c].pc = "write" /\ k \in Keyfiles
        /\ UNCHANGED <<vault, envFile>> /\ keyfile \in [Keyfiles -> File]
    BY DEF IInv, TypeOK, WriteKey, Safe, KeyInHand
  <1>1. /\ call \in Call /\ call.pc = "key" /\ call.left = calls[c].left
        /\ call.backup = calls[c].backup /\ call.old = calls[c].old /\ call.new = calls[c].new
        /\ call.others = calls[c].others
        /\ call.skipped = calls[c].skipped /\ call.counted = calls[c].counted
    BY <1>0 DEF Call, Inside
  <1>2. Becomes(c, call, {k}) /\ calls'[c] = call /\ keyfile' = [keyfile EXCEPT ![k] = calls[c].new]
    BY DEF WriteKey, Becomes
  <1>3. /\ calls[c].skipped \subseteq Keyfiles /\ calls[c].counted \subseteq Entries
        /\ calls[c].new \in Passwords
    BY <1>0 DEF Call
  <1>. HIDE DEF call
  <1>4. KeysKept(c)'
    BY <1>0, <1>1, <1>2 DEF Safe, KeysKept, BackedUp, Inside, KeyInHand
  <1>5. RowsKept(c)' /\ CountedThere(c)'
    BY <1>0, <1>1, <1>2 DEF Safe, RowsKept, RowsBackedUp, Inside, Old, New, CountedThere
  <1>6. KeysNew(c)'
    BY <1>0, <1>1, <1>2 DEF Safe, KeysNew, KeyAhead, KeysBegun
  <1>7. SkippedWhole(c)' /\ Apart(c)'
    BY <1>0, <1>1, <1>2, <1>3 DEF Safe, KeyInHand, SkippedWhole, Apart, Before
  <1>8. Safe(c)'
    BY <1>1, <1>2, <1>4, <1>5, <1>6, <1>7 DEF Safe, KeyInHand, RowInHand, RowsNew, EnvNew,
       RowsBegun, EnvWritten
  <1>9. calls[c].new \in File /\ {k} \in SUBSET Items
    BY <1>0, <1>3 DEF File, Items
  <1>. QED  BY <1>0, <1>1, <1>2, <1>8, <1>9, GoesOn

(* The same for the entries.                                               *)
LEMMA ListRowsSafe ==
  ASSUME IInv, NEW c \in Calls, ListRows(c)
  PROVE  calls' \in [Calls -> Call] /\ \A d \in Calls : Safe(d)'
  <1>. DEFINE call == [calls[c] EXCEPT !.pc = "get", !.left = {e \in Entries : vault[e] # Absent}]
  <1>0. /\ calls[c] \in Call /\ Safe(c) /\ calls[c].pc = "key" /\ calls[c].left = {}
        /\ UNCHANGED <<keyfile, vault, envFile>>
    BY DEF IInv, TypeOK, ListRows
  <1>1. /\ call \in Call /\ call.pc = "get" /\ call.left = {e \in Entries : vault[e] # Absent}
        /\ call.backup = calls[c].backup /\ call.old = calls[c].old /\ call.new = calls[c].new
        /\ call.others = calls[c].others
        /\ call.skipped = calls[c].skipped /\ call.counted = calls[c].counted
    BY <1>0 DEF Call, Inside
  <1>2. Becomes(c, call, {}) /\ calls'[c] = call
    BY DEF ListRows, Becomes
  <1>. HIDE DEF call
  <1>3. KeysKept(c)' /\ SkippedWhole(c)' /\ CountedThere(c)'
    BY <1>0, <1>1, <1>2 DEF Safe, KeysKept, BackedUp, Inside, SkippedWhole, CountedThere
  <1>4. RowsKept(c)'
    BY <1>0, <1>1, <1>2 DEF Safe, RowsKept, RowsBackedUp, Inside, Old, New
  <1>5. KeysNew(c)'
    BY <1>0, <1>1, <1>2 DEF Safe, KeysNew, KeyAhead, KeysBegun
  <1>6. RowsNew(c)'
    BY <1>0, <1>1, <1>2 DEF RowsNew, RowAhead
  <1>7. Safe(c)'
    BY <1>1, <1>2, <1>3, <1>4, <1>5, <1>6 DEF Safe, KeyInHand, RowInHand, EnvNew, EnvWritten,
       Apart, Before
  <1>. QED  BY <1>0, <1>1, <1>2, <1>7, GoesOn

(* The value in hand is the one of the backup, if nobody else wrote it.    *)
LEMMA GetRowSafe ==
  ASSUME IInv, NEW c \in Calls, NEW e \in Entries, GetRow(c, e)
  PROVE  calls' \in [Calls -> Call] /\ \A d \in Calls : Safe(d)'
  <1>. DEFINE call == [calls[c] EXCEPT !.pc = "set", !.left = @ \ {e}, !.item = e,
                                       !.val = vault[e].val]
  <1>0. /\ calls[c] \in Call /\ Safe(c) /\ calls[c].pc = "get"
        /\ UNCHANGED <<keyfile, vault, envFile>> /\ vault \in [Entries -> Row]
    BY DEF IInv, TypeOK, GetRow
  <1>1. CASE ~ Opens(e, calls[c].old)
    <2>1. Becomes(c, Failed(c), {})
      BY <1>1 DEF GetRow
    <2>. QED  BY <1>0, <2>1, FailsSafe DEF Inside
  <1>2. CASE Opens(e, calls[c].old)
    <2>0. vault[e] \in Secret /\ vault[e].pw = calls[c].old /\ vault[e].val \in 0..MaxWrites
      BY <1>0, <1>2 DEF Opens, Row, Secret
    <2>1. /\ call \in Call /\ call.pc = "set" /\ call.left = calls[c].left \ {e} /\ call.item = e
          /\ call.val = vault[e].val
          /\ call.backup = calls[c].backup /\ call.old = calls[c].old /\ call.new = calls[c].new
          /\ call.others = calls[c].others
          /\ call.skipped = calls[c].skipped /\ call.counted = calls[c].counted
      BY <1>0, <2>0 DEF Call, Inside
    <2>2. Becomes(c, call, {}) /\ calls'[c] = call
      BY <1>2 DEF GetRow, Becomes
    <2>. HIDE DEF call
    <2>3. KeysKept(c)' /\ SkippedWhole(c)' /\ CountedThere(c)'
      BY <1>0, <2>1, <2>2 DEF Safe, KeysKept, BackedUp, Inside, SkippedWhole, CountedThere
    <2>4. RowsKept(c)'
      BY <1>0, <2>1, <2>2 DEF Safe, RowsKept, RowsBackedUp, Inside, Old, New
    <2>5. KeysNew(c)' /\ RowsNew(c)'
      BY <1>0, <2>1, <2>2 DEF Safe, KeysNew, KeyAhead, KeysBegun, RowsNew, RowAhead, RowsBegun, New
    <2>6. RowInHand(c)'
      <3>1. vault[e] = [pw |-> calls[c].old, val |-> vault[e].val]
        BY <2>0 DEF Secret
      <3>0. /\ calls'[c].pc = "set" /\ calls'[c].item = e /\ calls'[c].val = vault[e].val
            /\ calls'[c].others = calls[c].others /\ calls'[c].backup = calls[c].backup
            /\ calls'[c].old = calls[c].old
        BY <2>1, <2>2
      <3>2. e \notin calls[c].others =>
               \/ vault[e] = calls[c].backup.rows[e]
               \/ calls[c].backup.rows[e] = Old(c, e) /\ vault[e] = New(c, e)
        BY <1>0 DEF Safe, RowsKept, RowsBackedUp, Inside
      <3>4. ASSUME vault[e] = New(c, e) PROVE vault[e].val = calls[c].backup.rows[e].val
        BY <3>4 DEF New
      <3>5. ASSUME calls[c].backup.rows[e] = Old(c, e), vault[e] = New(c, e)
            PROVE  calls[c].backup.rows[e] = [pw |-> calls[c].old, val |-> vault[e].val]
        BY <3>4, <3>5 DEF Old
      <3>3. e \notin calls[c].others => calls[c].backup.rows[e] = [pw |-> calls[c].old, val |-> vault[e].val]
        BY <3>1, <3>2, <3>5
      <3>. QED  BY <3>0, <3>3 DEF RowInHand
    <2>7. Safe(c)'
      BY <2>1, <2>2, <2>3, <2>4, <2>5, <2>6 DEF Safe, KeyInHand, EnvNew, EnvWritten, Apart, Before
    <2>. QED  BY <1>0, <2>1, <2>2, <2>7, GoesOn
  <1>. QED  BY <1>1, <1>2

(* An entry written again opens with the new password; the others stay.    *)
LEMMA SetRowSafe ==
  ASSUME IInv, NEW c \in Calls, SetRow(c)
  PROVE  /\ vault' \in [Entries -> Row] /\ latest' \in Entries
         /\ calls' \in [Calls -> Call] /\ \A d \in Calls : Safe(d)'
  <1>. DEFINE e == calls[c].item
              call == [calls[c] EXCEPT !.pc = "get", !.item = Nothing, !.val = 0,
                                       !.counted = @ \cup {e}]
              row == [pw |-> calls[c].new, val |-> calls[c].val]
  <1>0. /\ calls[c] \in Call /\ Safe(c) /\ calls[c].pc = "set" /\ e \in Entries
        /\ UNCHANGED <<keyfile, envFile>> /\ vault \in [Entries -> Row] /\ latest' = e
    BY DEF IInv, TypeOK, SetRow, Safe, RowInHand
  <1>1. /\ call \in Call /\ call.pc = "get" /\ call.left = calls[c].left
        /\ call.backup = calls[c].backup /\ call.old = calls[c].old /\ call.new = calls[c].new
        /\ call.others = calls[c].others
        /\ call.skipped = calls[c].skipped /\ call.counted = calls[c].counted \cup {e}
    <2>1. 0 \in 0..MaxWrites /\ "get" \in Inside
      BY RekeyAssumption DEF Inside
    <2>. QED  BY <1>0, <2>1 DEF Call
  <1>2. Becomes(c, call, {e}) /\ calls'[c] = call /\ vault' = [vault EXCEPT ![e] = row]
    BY DEF SetRow, Becomes
  <1>3. /\ row \in Secret /\ row \in Row /\ row # Absent
        /\ calls[c].skipped \subseteq Keyfiles /\ calls[c].counted \subseteq Entries
    <2>1. row \in Secret /\ calls[c].skipped \subseteq Keyfiles /\ calls[c].counted \subseteq Entries
      BY <1>0 DEF Call, Secret
    <2>2. row # Absent
      BY <2>1, RekeyAssumption
    <2>. QED  BY <2>1, <2>2 DEF Row
  <1>4. row.val = calls[c].val /\ row.pw = calls[c].new
    OBVIOUS
  <1>. HIDE DEF call
  <1>5. KeysKept(c)' /\ SkippedWhole(c)'
    BY <1>0, <1>1, <1>2 DEF Safe, KeysKept, BackedUp, Inside, SkippedWhole
  <1>6. e \notin calls[c].others =>
           /\ calls[c].backup.rows[e] = Old(c, e)
           /\ row = New(c, e)
    <2>1. ASSUME calls[c].backup.rows[e] = [pw |-> calls[c].old, val |-> calls[c].val]
          PROVE  calls[c].backup.rows[e] = Old(c, e) /\ row = New(c, e)
      <3>1. calls[c].backup.rows[e].val = calls[c].val
        BY <2>1
      <3>. QED  BY <2>1, <3>1 DEF Old, New
    <2>. QED  BY <1>0, <2>1 DEF Safe, RowInHand
  <1>. HIDE DEF row
  <1>7. \A f \in Entries : Old(c, f)' = Old(c, f) /\ New(c, f)' = New(c, f)
    BY <1>1, <1>2 DEF Old, New
  <1>8. RowsKept(c)'
    <2>1. ASSUME NEW f \in Entries \ calls[c].others
          PROVE  \/ vault'[f] = calls[c].backup.rows[f]
                 \/ calls[c].backup.rows[f] = Old(c, f) /\ vault'[f] = New(c, f)
      <3>1. CASE f = e
        BY <1>0, <1>2, <1>6, <3>1
      <3>2. CASE f # e
        BY <1>0, <1>2, <3>2 DEF Safe, RowsKept, RowsBackedUp, Inside
      <3>. QED  BY <3>1, <3>2
    <2>. QED  BY <1>1, <1>2, <1>7, <2>1 DEF RowsKept
  <1>9. KeysNew(c)'
    BY <1>0, <1>1, <1>2 DEF Safe, KeysNew, KeyAhead, KeysBegun
  <1>10. RowsNew(c)'
    <2>1. ASSUME NEW f \in Entries \ calls[c].others
          PROVE  vault'[f] \in {Absent, New(c, f)} \/ f \in calls[c].left
      <3>1. CASE f = e
        BY <1>0, <1>2, <1>6, <3>1
      <3>2. CASE f # e
        BY <1>0, <1>2, <3>2 DEF Safe, RowsNew, RowAhead, RowsBegun
      <3>. QED  BY <3>1, <3>2
    <2>. QED  BY <1>1, <1>2, <1>7, <2>1 DEF RowsNew, RowAhead
  <1>11. CountedThere(c)'
    BY <1>0, <1>1, <1>2, <1>3 DEF Safe, CountedThere
  <1>12. Safe(c)'
    BY <1>1, <1>2, <1>5, <1>8, <1>9, <1>10, <1>11 DEF Safe, KeyInHand, RowInHand, EnvNew,
       EnvWritten, Apart, Before
  <1>13. {e} \in SUBSET Items
    BY <1>0 DEF Items
  <1>. QED  BY <1>0, <1>1, <1>2, <1>3, <1>12, <1>13, GoesOn

(* A call that only goes on to its next stage, after what it has written. *)
LEMMA StageSafe ==
  ASSUME IInv, NEW c \in Calls, NEW call \in Call, NEW names \in SUBSET {"env"},
         Becomes(c, call, names), UNCHANGED <<keyfile, vault>>,
         "env" \in names \/ envFile' = envFile,
         call.old = calls[c].old, call.new = calls[c].new, call.backup = calls[c].backup,
         call.others = calls[c].others, call.skipped = calls[c].skipped,
         call.counted \subseteq calls[c].counted,
         \/ calls[c].pc = "get" /\ calls[c].left = {}
         \/ calls[c].pc \in {"verify", "sync"},
         call.pc \in {"verify", "sync", "done"},
         \/ envFile' = calls[c].new
         \/ EnvNew(c) /\ calls[c].pc # "get" /\ envFile' = envFile
  PROVE  calls' \in [Calls -> Call] /\ \A d \in Calls : Safe(d)'
  <1>0. calls[c] \in Call /\ Safe(c) /\ calls'[c] = call /\ names \in SUBSET Items
    BY DEF IInv, TypeOK, Becomes, Items
  <1>1. KeysKept(c)' /\ SkippedWhole(c)' /\ CountedThere(c)'
    BY <1>0 DEF Safe, KeysKept, BackedUp, Inside, SkippedWhole, CountedThere
  <1>2. RowsKept(c)'
    BY <1>0 DEF Safe, RowsKept, RowsBackedUp, Inside, Old, New
  <1>3. KeysNew(c)'
    BY <1>0 DEF Safe, KeysNew, KeyAhead, KeysBegun
  <1>4. RowsNew(c)'
    BY <1>0 DEF Safe, RowsNew, RowAhead, RowsBegun, New
  <1>5. EnvNew(c)'
    BY <1>0 DEF EnvNew, EnvWritten
  <1>6. Safe(c)'
    BY <1>0, <1>1, <1>2, <1>3, <1>4, <1>5 DEF Safe, KeyInHand, RowInHand, Apart, Before
  <1>. QED  BY <1>0, <1>6, GoesOn

(* All is written again: the daemon is told the new password.              *)
LEMMA WriteEnvSafe ==
  ASSUME IInv, NEW c \in Calls, WriteEnv(c)
  PROVE  /\ envFile' \in Passwords
         /\ calls' \in [Calls -> Call] /\ \A d \in Calls : Safe(d)'
  <1>. DEFINE call == [calls[c] EXCEPT !.pc = "verify"]
  <1>0. calls[c] \in Call /\ calls[c].pc = "get" /\ calls[c].left = {}
    BY DEF IInv, TypeOK, WriteEnv
  <1>1. /\ call \in Call /\ call.pc = "verify" /\ call.old = calls[c].old /\ call.new = calls[c].new
        /\ call.backup = calls[c].backup /\ call.others = calls[c].others
        /\ call.skipped = calls[c].skipped /\ call.counted = calls[c].counted
        /\ calls[c].new \in Passwords
    BY <1>0 DEF Call, Inside
  <1>2. Becomes(c, call, {"env"}) /\ UNCHANGED <<keyfile, vault>> /\ envFile' = calls[c].new
    BY DEF WriteEnv
  <1>. HIDE DEF call
  <1>. QED  BY <1>0, <1>1, <1>2, StageSafe

(* The check changes nothing.                                              *)
LEMMA VerifySafe ==
  ASSUME IInv, NEW c \in Calls, Verify(c)
  PROVE  calls' \in [Calls -> Call] /\ \A d \in Calls : Safe(d)'
  <1>. DEFINE call == [calls[c] EXCEPT !.pc = "sync"]
  <1>0. /\ calls[c] \in Call /\ calls[c].pc = "verify" /\ EnvNew(c)
        /\ UNCHANGED <<keyfile, vault, envFile>>
    BY DEF IInv, TypeOK, Verify, Safe
  <1>1. CASE Becomes(c, Failed(c), {})
    BY <1>0, <1>1, FailsSafe DEF Inside
  <1>2. CASE Becomes(c, call, {})
    <2>1. /\ call \in Call /\ call.pc = "sync" /\ call.old = calls[c].old /\ call.new = calls[c].new
          /\ call.backup = calls[c].backup /\ call.others = calls[c].others
          /\ call.skipped = calls[c].skipped /\ call.counted = calls[c].counted
      BY <1>0 DEF Call, Inside
    <2>. HIDE DEF call
    <2>. QED  BY <1>0, <1>2, <2>1, StageSafe
  <1>. QED  BY <1>1, <1>2 DEF Verify

(* The process that made the call takes the new password.                  *)
LEMMA SyncEnvSafe ==
  ASSUME IInv, NEW c \in Calls, SyncEnv(c)
  PROVE  /\ env' \in [Processes -> Passwords]
         /\ calls' \in [Calls -> Call] /\ \A d \in Calls : Safe(d)'
  <1>. DEFINE call == [calls[c] EXCEPT !.pc = "done", !.counted = {}]
  <1>0. /\ calls[c] \in Call /\ calls[c].pc = "sync" /\ EnvNew(c)
        /\ UNCHANGED <<keyfile, vault, envFile>> /\ env \in [Processes -> Passwords]
    BY DEF IInv, TypeOK, SyncEnv, Safe
  <1>1. /\ call \in Call /\ call.pc = "done" /\ call.old = calls[c].old /\ call.new = calls[c].new
        /\ call.backup = calls[c].backup /\ call.others = calls[c].others
        /\ call.skipped = calls[c].skipped /\ call.counted = {} /\ calls[c].new \in Passwords
    BY <1>0 DEF Call, Over
  <1>2. Becomes(c, call, {})
    BY DEF SyncEnv
  <1>3. env' \in [Processes -> Passwords]
    BY <1>0, <1>1 DEF SyncEnv
  <1>. HIDE DEF call
  <1>. QED  BY <1>0, <1>1, <1>2, <1>3, StageSafe

(* A call that ends early leaves everything with its backup.               *)
LEMMA StopsSafe ==
  ASSUME IInv, NEW c \in Calls, Stops(c)
  PROVE  calls' \in [Calls -> Call] /\ \A d \in Calls : Safe(d)'
  <1>1. calls[c] \in Call
    BY DEF IInv, TypeOK
  <1>2. calls[c].pc \in Before \cup Inside
    BY <1>1 DEF Stops, Call, Before
  <1>. QED  BY <1>2, FailsSafe DEF Stops

-----------------------------------------------------------------------------
(* The steps of the others.                                                *)
LEMMA WriteRowStep ==
  ASSUME IInv, NEW x \in Processes, NEW e \in Entries, WriteRow(x, e) PROVE IInv'
  <1>1. /\ vault \in [Entries -> Row] /\ env[x] \in Passwords /\ writes' \in 0..MaxWrites
        /\ latest' \in Entries /\ UNCHANGED <<keyfile, envFile, env>>
    BY RekeyAssumption DEF IInv, TypeOK, WriteRow
  <1>2. [pw |-> env[x], val |-> writes'] \in Row
    BY <1>1 DEF Row, Secret
  <1>3. /\ vault' \in [Entries -> Row] /\ {e} \in SUBSET Items
        /\ \A f \in Entries \ {e} : vault'[f] = vault[f]
    BY <1>1, <1>2 DEF WriteRow, Items
  <1>4. calls' \in [Calls -> Call] /\ \A d \in Calls : Safe(d)'
    BY <1>1, <1>3, OthersWrite DEF WriteRow
  <1>. QED  BY <1>1, <1>3, <1>4 DEF IInv, TypeOK

(* An entry deleted by somebody else is nobody's promise any more.         *)
LEMMA DeleteRowStep == ASSUME IInv, NEW e \in Entries, DeleteRow(e) PROVE IInv'
  <1>1. /\ vault \in [Entries -> Row] /\ writes' \in 0..MaxWrites
        /\ UNCHANGED <<keyfile, latest, envFile, env>>
    BY RekeyAssumption DEF IInv, TypeOK, DeleteRow
  <1>2. /\ vault' \in [Entries -> Row] /\ {e} \in SUBSET Items
        /\ \A f \in Entries \ {e} : vault'[f] = vault[f]
    BY <1>1 DEF DeleteRow, Items, Row
  <1>3. calls' \in [Calls -> Call] /\ \A d \in Calls : Safe(d)'
    BY <1>1, <1>2, OthersWrite DEF DeleteRow
  <1>. QED  BY <1>1, <1>2, <1>3 DEF IInv, TypeOK

(* Nor is a key file somebody else creates.                                *)
LEMMA CreateKeyStep ==
  ASSUME IInv, NEW x \in Processes, NEW k \in Keyfiles, CreateKey(x, k) PROVE IInv'
  <1>1. /\ keyfile \in [Keyfiles -> File] /\ env[x] \in Passwords /\ writes' \in 0..MaxWrites
        /\ UNCHANGED <<vault, latest, envFile, env>>
    BY RekeyAssumption DEF IInv, TypeOK, CreateKey
  <1>2. /\ keyfile' \in [Keyfiles -> File] /\ {k} \in SUBSET Items
        /\ \A l \in Keyfiles \ {k} : keyfile'[l] = keyfile[l]
    BY <1>1 DEF CreateKey, Items, File
  <1>3. calls' \in [Calls -> Call] /\ \A d \in Calls : Safe(d)'
    BY <1>1, <1>2, OthersWrite DEF CreateKey
  <1>. QED  BY <1>1, <1>2, <1>3 DEF IInv, TypeOK

(* A restart of the daemon is a failure of the calls it was in.            *)
LEMMA RestartDaemonStep == ASSUME IInv, RestartDaemon PROVE IInv'
  <1>1. /\ UNCHANGED <<keyfile, vault, latest, envFile, writes>>
        /\ env' \in [Processes -> Passwords]
    BY DEF IInv, TypeOK, RestartDaemon
  <1>2. ASSUME NEW c \in Calls PROVE calls'[c] \in Call /\ Safe(c)'
    <2>0. calls[c] \in Call /\ Safe(c)
      BY DEF IInv, TypeOK
    <2>1. CASE calls'[c] = calls[c]
      BY <1>1, <2>0, <2>1 DEF Safe, KeysKept, RowsKept, KeyInHand, RowInHand, KeysNew, RowsNew,
         EnvNew, SkippedWhole, CountedThere, Apart, KeyAhead, RowAhead, Old, New
    <2>2. CASE calls'[c] = Failed(c) /\ calls[c].pc \notin {"idle"} \cup Over
      <3>1. calls[c].pc \in Before \cup Inside
        BY <2>0, <2>2 DEF Call, Before
      <3>. QED  BY <1>1, <2>0, <2>2, <3>1, FailedSafe
    <2>. QED  BY <2>1, <2>2 DEF RestartDaemon
  <1>3. calls' \in [Calls -> Call]
    BY <1>2 DEF RestartDaemon
  <1>. QED  BY <1>1, <1>2, <1>3 DEF IInv, TypeOK

(* What a call is safe about does not change while the call, the files and *)
(* the rows stay.                                                          *)
LEMMA NothingMoves ==
  ASSUME IInv, UNCHANGED <<keyfile, vault, envFile, calls>>
  PROVE  \A c \in Calls : Safe(c)'
  BY DEF IInv, Safe, KeysKept, RowsKept, KeyInHand, RowInHand, KeysNew, RowsNew,
         EnvNew, SkippedWhole, CountedThere, Apart, KeyAhead, RowAhead, Old, New

(* A client that restarts takes its password anew.                         *)
LEMMA RestartClientStep == ASSUME IInv, NEW x \in Clients, RestartClient(x) PROVE IInv'
  <1>1. /\ UNCHANGED <<keyfile, vault, latest, envFile, writes, calls>>
        /\ env' \in [Processes -> Passwords]
    BY DEF IInv, TypeOK, RestartClient
  <1>. QED  BY <1>1, NothingMoves DEF IInv, TypeOK

(* The steps of a call keep the types of what they write, too.             *)
LEMMA CallStep == ASSUME IInv, NEW c \in Calls, Step(c) PROVE IInv'
  <1>1. CASE BackupKeys(c)
    BY <1>1, BackupKeysSafe DEF BackupKeys, IInv, TypeOK
  <1>2. CASE BackupRows(c)
    BY <1>2, BackupRowsSafe DEF BackupRows, IInv, TypeOK
  <1>3. CASE ListKeys(c)
    BY <1>3, ListKeysSafe DEF ListKeys, IInv, TypeOK
  <1>4. CASE \E k \in Keyfiles : ReadKey(c, k)
    BY <1>4, ReadKeySafe DEF ReadKey, IInv, TypeOK
  <1>5. CASE TearKey(c)
    BY <1>5, TearKeySafe DEF TearKey, IInv, TypeOK
  <1>6. CASE WriteKey(c)
    BY <1>6, WriteKeySafe DEF WriteKey, IInv, TypeOK
  <1>7. CASE ListRows(c)
    BY <1>7, ListRowsSafe DEF ListRows, IInv, TypeOK
  <1>8. CASE \E e \in Entries : GetRow(c, e)
    <2>1. PICK e \in Entries : GetRow(c, e)
      BY <1>8
    <2>2. latest' \in Entries \cup {Nothing}
      BY <2>1 DEF GetRow, IInv, TypeOK
    <2>. QED  BY <2>1, <2>2, GetRowSafe DEF GetRow, IInv, TypeOK
  <1>9. CASE SetRow(c)
    BY <1>9, SetRowSafe DEF SetRow, IInv, TypeOK
  <1>10. CASE WriteEnv(c)
    BY <1>10, WriteEnvSafe DEF WriteEnv, IInv, TypeOK
  <1>11. CASE Verify(c)
    BY <1>11, VerifySafe DEF Verify, IInv, TypeOK
  <1>12. CASE SyncEnv(c)
    BY <1>12, SyncEnvSafe DEF SyncEnv, IInv, TypeOK
  <1>13. CASE Stops(c)
    BY <1>13, StopsSafe DEF Stops, IInv, TypeOK
  <1>. QED  BY <1>1, <1>2, <1>3, <1>4, <1>5, <1>6, <1>7, <1>8, <1>9, <1>10, <1>11, <1>12, <1>13
         DEF Step

(* A call begins with nothing done.                                        *)
LEMMA BeginStep ==
  ASSUME IInv, NEW c \in Calls, NEW old \in Passwords, NEW new \in Passwords, Begin(c, old, new)
  PROVE  IInv'
  BY BeginSafe DEF Begin, IInv, TypeOK

(* Each step keeps the invariant.                                          *)
LEMMA NextIInv == IInv /\ [Next]_vars => IInv'
  <1>. SUFFICES ASSUME IInv, [Next]_vars PROVE IInv'
    OBVIOUS
  <1>1. CASE UNCHANGED vars
    BY <1>1, NothingMoves DEF IInv, TypeOK, vars
  <1>. QED
    BY <1>1, CallStep, BeginStep, WriteRowStep, DeleteRowStep, CreateKeyStep, RestartDaemonStep,
       RestartClientStep DEF Next

(* No call has begun, and every key file and entry is whole.               *)
LEMMA Initially == Init => IInv
  <1>. SUFFICES ASSUME NEW p \in Passwords,
                  /\ keyfile \in [Keyfiles -> Keys0]
                  /\ vault \in [Entries -> {[pw |-> p, val |-> 0]}]
                  /\ latest = Nothing
                  /\ envFile = p /\ env = [x \in Processes |-> p]
                  /\ calls = [c \in Calls |->
                        [pc |-> "idle", old |-> p, new |-> p, left |-> {}, item |-> Nothing,
                         val |-> 0, skipped |-> {}, counted |-> {}, others |-> {},
                         backup |-> [keys |-> keyfile, rows |-> vault]]]
                  /\ writes = 0
                PROVE IInv
    BY DEF Init
  <1>1. 0 \in 0..MaxWrites
    BY RekeyAssumption
  <1>2. [pw |-> p, val |-> 0] \in Row
    BY <1>1 DEF Row, Secret
  <1>3. keyfile \in [Keyfiles -> File] /\ vault \in [Entries -> Row]
    BY <1>2, RekeyAssumption DEF File
  <1>4. [keys |-> keyfile, rows |-> vault] \in Store
    BY <1>3 DEF Store
  <1>5. \A c \in Calls : calls[c] \in Call
    BY <1>1, <1>4 DEF Call, Before
  <1>6. TypeOK
    BY <1>1, <1>3, <1>5 DEF TypeOK
  <1>7. \A c \in Calls : calls[c].pc = "idle" /\ calls[c].skipped = {} /\ calls[c].counted = {}
    OBVIOUS
  <1>8. \A c \in Calls : Safe(c)
    BY <1>7 DEF Safe, KeysKept, RowsKept, KeyInHand, RowInHand, KeysNew, RowsNew, EnvNew,
       SkippedWhole, CountedThere, Apart, BackedUp, RowsBackedUp, KeysBegun, RowsBegun, EnvWritten,
       Inside, Before
  <1>. QED  BY <1>6, <1>8 DEF IInv

(* IInv is an invariant.                                                   *)
THEOREM Invariance == Spec => []IInv
  BY Initially, NextIInv, PTL DEF Spec

(* Every variable has its type, torn files included.                       *)
THEOREM TypeCorrect == Spec => []TypeOK
  <1>1. IInv => TypeOK
    BY DEF IInv
  <1>. QED  BY <1>1, Invariance, PTL

(* Wherever run_rekey is stopped, what nobody else wrote is as it was, has *)
(* gone from the old password to the new one, or is whole in the backup.   *)
THEOREM NothingIsLost == Spec => []NothingLost
  <1>1. ASSUME IInv PROVE NothingLost
    <2>1. ASSUME NEW c \in Calls, calls[c].pc \in Inside \cup {"done", "failed"}
          PROVE  KeysKept(c) /\ RowsKept(c) /\ calls[c].pc \in BackedUp \cap RowsBackedUp
      BY <1>1, <2>1 DEF IInv, Safe, BackedUp, RowsBackedUp
    <2>. QED  BY <2>1 DEF NothingLost, KeysKept, RowsKept, Old, New
  <1>. QED  BY <1>1, Invariance, PTL

(* A rekey that reports success has done all it says, but for what others  *)
(* wrote meanwhile and the key files it skipped.                           *)
THEOREM SuccessIsNew == Spec => []SuccessMeansNew
  <1>1. ASSUME IInv PROVE SuccessMeansNew
    <2>1. ASSUME NEW c \in Calls, calls[c].pc = "done"
          PROVE  /\ \A k \in Keyfiles \ (calls[c].others \cup calls[c].skipped) :
                       keyfile[k] \in {calls[c].new, Absent}
                 /\ \A e \in Entries \ calls[c].others : vault[e] \in {Absent, New(c, e)}
                 /\ "env" \in calls[c].others \/ envFile = calls[c].new
      <3>1. KeysNew(c) /\ RowsNew(c) /\ EnvNew(c)
        BY <1>1 DEF IInv, Safe
      <3>. QED  BY <2>1, <3>1 DEF KeysNew, KeyAhead, RowsNew, RowAhead, EnvNew, KeysBegun,
                RowsBegun, EnvWritten
    <2>. QED  BY <2>1 DEF SuccessMeansNew, New
  <1>. QED  BY <1>1, Invariance, PTL

-----------------------------------------------------------------------------
(* What the verification finds when nobody else has written.               *)
LEMMA KeysVerify ==
  ASSUME IInv, NEW c \in Calls, calls[c].pc = "verify", calls[c].others \subseteq {"env"}
  PROVE  VerifiesKey(c) \subseteq {TRUE}
  <1>0. /\ KeysNew(c) /\ SkippedWhole(c)
        /\ calls[c].new \in Passwords /\ Keyfiles \cap calls[c].others = {}
    BY RekeyAssumption DEF IInv, Safe, TypeOK, Call
  <1>1. \A k \in Keyfiles \ calls[c].skipped : keyfile[k] \in {calls[c].new, Absent}
    BY <1>0 DEF KeysNew, KeyAhead, KeysBegun
  <1>2. \A k \in Keyfiles \cap calls[c].skipped : keyfile[k] # Torn
    BY <1>0 DEF SkippedWhole
  <1>3. ~ \E k \in Keyfiles : keyfile[k] = Torn
    BY <1>0, <1>1, <1>2, RekeyAssumption
  <1>. QED  BY <1>1, <1>3 DEF VerifiesKey

(* The entry the check reads is one of those it wrote.                     *)
LEMMA RowsVerify ==
  ASSUME IInv, NEW c \in Calls, calls[c].pc = "verify", calls[c].others \subseteq {"env"}
  PROVE  VerifiesRow(c) \subseteq {TRUE}
  <1>0. /\ RowsNew(c) /\ CountedThere(c) /\ Entries \cap calls[c].others = {}
        /\ latest \in Entries \cup {Nothing} /\ calls[c].counted \subseteq Entries
    BY RekeyAssumption DEF IInv, Safe, TypeOK, Call
  <1>1. \A e \in Entries : vault[e] # Absent => Opens(e, calls[c].new)
    BY <1>0 DEF RowsNew, RowAhead, RowsBegun, New, Opens
  <1>2. calls[c].counted # {} => \E e \in Entries : vault[e] # Absent
    BY <1>0 DEF CountedThere
  <1>3. \A e \in FirstRows : e \in Entries /\ vault[e] # Absent
    BY <1>0 DEF FirstRows
  <1>4. (\E e \in Entries : vault[e] # Absent) => FirstRows # {}
    BY DEF FirstRows
  <1>5. \A e \in FirstRows : Opens(e, calls[c].new) = TRUE
    BY <1>1, <1>3 DEF Opens
  <1>. QED  BY <1>2, <1>4, <1>5 DEF VerifiesRow

(* The verification at the end fails a rekey only if others wrote.         *)
THEOREM VerificationAccepts == Spec => VerifyAccepts
  <1>. DEFINE Accepts == \A c \in Calls :
                 Verify(c) /\ calls[c].others \subseteq {"env"} => calls'[c].pc = "sync"
  <1>1. ASSUME IInv, NEW c \in Calls, Verify(c), calls[c].others \subseteq {"env"}
        PROVE  calls'[c].pc = "sync"
    <2>1. calls[c].pc = "verify" /\ calls[c] \in Call
      BY <1>1 DEF Verify, IInv, TypeOK
    <2>2. Becomes(c, [calls[c] EXCEPT !.pc = "sync"], {})
      BY <1>1, <2>1, KeysVerify, RowsVerify DEF Verify
    <2>. QED  BY <2>1, <2>2 DEF Becomes, Call
  <1>2. IInv /\ [Next]_vars => [Accepts]_vars
    BY <1>1
  <1>. QED  BY <1>2, Invariance, PTL DEF Spec, VerifyAccepts
=============================================================================
