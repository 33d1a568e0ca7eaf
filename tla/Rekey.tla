------------------------------- MODULE Rekey -------------------------------
(***************************************************************************)
(* Changing the password of the keystore and of the vault: run_rekey, from *)
(* the GUI (in the daemon) and from the CLI, while processes go on writing *)
(* vault entries and key files under the password they know.               *)
(*                                                                         *)
(* Every key file and every entry is encrypted under the password itself,  *)
(* and each is read and written in steps of its own.  What a ciphertext    *)
(* hides is left out for key files (it never changes); for an entry it is  *)
(* the number of the write that put it there.                              *)
(***************************************************************************)
EXTENDS Naturals, FiniteSets

CONSTANTS
    Keyfiles, Entries,  \* names of key files, keys of vault entries
    Passwords,
    Absent,             \* no such file, no such row
    Torn,               \* a file that was truncated and not yet written
    Daemon, Clients,    \* the daemon and the other processes that write
    GuiCalls, CliCalls, \* calls of run_rekey, by where they come from
    Keys0,              \* passwords the key files may have at first
    MaxWrites           \* bound: writes, deletions and new key files

Calls == GuiCalls \cup CliCalls
Processes == Clients \cup {Daemon}
Items == Keyfiles \cup Entries \cup {"env"}
Nothing == "nothing"

Secret == [pw : Passwords, val : 0..MaxWrites]

ASSUME RekeyAssumption ==
    /\ GuiCalls \cap CliCalls = {} /\ Daemon \notin Clients
    /\ Keyfiles \cap Entries = {} /\ "env" \notin Keyfiles \cup Entries
    /\ Nothing \notin Keyfiles \cup Entries
    /\ {Absent, Torn} \cap Passwords = {} /\ Absent # Torn
    /\ Absent \notin Secret
    /\ Keys0 \subseteq Passwords \cup {Absent}
    /\ MaxWrites \in Nat

File == Passwords \cup {Torn, Absent}
Row == Secret \cup {Absent}

Store == [keys : [Keyfiles -> File], rows : [Entries -> Row]]

VARIABLES
    keyfile,    \* the keystore directory: under which password each file is
    vault,      \* the table vault_entries
    latest,     \* the entry with the youngest last_accessed
    envFile,    \* the password in daemon.env
    env,        \* XGRAM_KEYSTORE_PASSWORD of each process
    calls,      \* the calls of run_rekey
    writes      \* how often the others wrote

vars == <<keyfile, vault, latest, envFile, env, calls, writes>>

Before == {"idle", "keys", "db"}
Inside == {"list", "key", "tear", "write", "get", "set", "verify", "sync"}
Over == {"done", "failed", "refused"}

(* others: what somebody else wrote since the backup of the call began.    *)
(* counted: the entries it has re-encrypted.                               *)
Call == [pc : Before \cup Inside \cup Over, old : Passwords, new : Passwords,
         left : SUBSET (Keyfiles \cup Entries), item : Keyfiles \cup Entries \cup {Nothing},
         val : 0..MaxWrites, skipped : SUBSET Keyfiles, counted : SUBSET Entries,
         backup : Store, others : SUBSET Items]

TypeOK ==
    /\ keyfile \in [Keyfiles -> File] /\ vault \in [Entries -> Row]
    /\ latest \in Entries \cup {Nothing}
    /\ envFile \in Passwords /\ env \in [Processes -> Passwords]
    /\ calls \in [Calls -> Call]
    /\ writes \in 0..MaxWrites

Init ==
    \E p \in Passwords :
        /\ keyfile \in [Keyfiles -> Keys0]
        /\ vault \in [Entries -> {[pw |-> p, val |-> 0]}]
        /\ latest = Nothing
        /\ envFile = p /\ env = [x \in Processes |-> p]
        /\ calls = [c \in Calls |->
              [pc |-> "idle", old |-> p, new |-> p, left |-> {}, item |-> Nothing, val |-> 0,
               skipped |-> {}, counted |-> {}, others |-> {},
               backup |-> [keys |-> keyfile, rows |-> vault]]]
        /\ writes = 0

(* What a call notes (for the properties) when others write `names`.       *)
Disturbed(d, names) ==
    IF calls[d].pc \in {"idle", "keys"} THEN calls[d]
    ELSE [calls[d] EXCEPT !.others = @ \cup names]

Touch(names) == calls' = [d \in Calls |-> Disturbed(d, names)]

(* Call c goes on as `call`, and has written `names`.                      *)
Becomes(c, call, names) ==
    calls' = [d \in Calls |-> IF d = c THEN call ELSE Disturbed(d, names)]

(***************************************************************************)
(* run_rekey.                                                              *)
(***************************************************************************)
(* The GUI compares the old password with the daemon's; the CLI takes it   *)
(* from its own environment, whatever that is.                             *)
Begin(c, old, new) ==
    /\ calls[c].pc = "idle" /\ old # new
    /\ c \in GuiCalls => old = env[Daemon]
    /\ Becomes(c, [calls[c] EXCEPT !.pc = "keys", !.old = old, !.new = new], {})
    /\ UNCHANGED <<keyfile, vault, latest, envFile, env, writes>>

(* backup: the key files, then the database.                               *)
BackupKeys(c) ==
    /\ calls[c].pc = "keys"
    /\ Becomes(c, [calls[c] EXCEPT !.pc = "db", !.backup.keys = keyfile], {})
    /\ UNCHANGED <<keyfile, vault, latest, envFile, env, writes>>

BackupRows(c) ==
    /\ calls[c].pc = "db"
    /\ Becomes(c, [calls[c] EXCEPT !.pc = "list", !.backup.rows = vault], {})
    /\ UNCHANGED <<keyfile, vault, latest, envFile, env, writes>>

(* An error.  Without a backup nothing has been done.                      *)
Failed(c) ==
    [calls[c] EXCEPT !.pc = IF @ \in Before THEN "refused" ELSE "failed",
                     !.left = {}, !.item = Nothing, !.val = 0, !.skipped = {}, !.counted = {}]

(* list of the keystore: a file that cannot be parsed is an error.         *)
ListKeys(c) ==
    /\ calls[c].pc = "list"
    /\ Becomes(c, IF \E k \in Keyfiles : keyfile[k] = Torn THEN Failed(c)
                  ELSE [calls[c] EXCEPT !.pc = "key",
                                        !.left = {k \in Keyfiles : keyfile[k] # Absent}], {})
    /\ UNCHANGED <<keyfile, vault, latest, envFile, env, writes>>

(* Mutant: a file that the old password does not open is written anew.     *)
ReadKeyAlways(c, k) ==
    /\ calls[c].pc = "key" /\ k \in calls[c].left
    /\ Becomes(c, IF keyfile[k] \in {Torn, Absent} THEN Failed(c)
                  ELSE [calls[c] EXCEPT !.pc = "tear", !.left = @ \ {k}, !.item = k], {})
    /\ UNCHANGED <<keyfile, vault, latest, envFile, env, writes>>

(* reencrypt_keyfile: a file that the old password does not open is        *)
(* skipped, any other error ends the call.                                 *)
ReadKey(c, k) ==
    /\ calls[c].pc = "key" /\ k \in calls[c].left
    /\ Becomes(c, IF keyfile[k] \in {Torn, Absent} THEN Failed(c)
                  ELSE IF keyfile[k] # calls[c].old
                  THEN [calls[c] EXCEPT !.left = @ \ {k}, !.skipped = @ \cup {k}]
                  ELSE [calls[c] EXCEPT !.pc = "tear", !.left = @ \ {k}, !.item = k], {})
    /\ UNCHANGED <<keyfile, vault, latest, envFile, env, writes>>

(* std::fs::write truncates the file and then writes it.                   *)
TearKey(c) ==
    LET k == calls[c].item IN
    /\ calls[c].pc = "tear"
    /\ IF keyfile[k] \in {Torn, Absent}
       THEN Becomes(c, Failed(c), {}) /\ UNCHANGED keyfile
       ELSE /\ keyfile' = [keyfile EXCEPT ![k] = Torn]
            /\ Becomes(c, [calls[c] EXCEPT !.pc = "write"], {k})
    /\ UNCHANGED <<vault, latest, envFile, env, writes>>

WriteKey(c) ==
    LET k == calls[c].item IN
    /\ calls[c].pc = "write"
    /\ keyfile' = [keyfile EXCEPT ![k] = calls[c].new]
    /\ Becomes(c, [calls[c] EXCEPT !.pc = "key", !.item = Nothing], {k})
    /\ UNCHANGED <<vault, latest, envFile, env, writes>>

ListRows(c) ==
    /\ calls[c].pc = "key" /\ calls[c].left = {}
    /\ Becomes(c, [calls[c] EXCEPT !.pc = "get",
                                   !.left = {e \in Entries : vault[e] # Absent}], {})
    /\ UNCHANGED <<keyfile, vault, latest, envFile, env, writes>>

Opens(e, pw) == vault[e] # Absent /\ vault[e].pw = pw

(* Mutant: an entry that the old password does not open is passed over.    *)
GetRowOrSkip(c, e) ==
    /\ calls[c].pc = "get" /\ e \in calls[c].left
    /\ IF Opens(e, calls[c].old)
       THEN /\ Becomes(c, [calls[c] EXCEPT !.pc = "set", !.left = @ \ {e}, !.item = e,
                                           !.val = vault[e].val], {})
            /\ latest' = e
       ELSE /\ Becomes(c, [calls[c] EXCEPT !.left = @ \ {e}, !.counted = @ \cup {e}], {})
            /\ UNCHANGED latest
    /\ UNCHANGED <<keyfile, vault, envFile, env, writes>>

(* reencrypt_all of the vault: get under the old password, set under the   *)
(* new one; the first entry that does not open ends the call.              *)
GetRow(c, e) ==
    /\ calls[c].pc = "get" /\ e \in calls[c].left
    /\ IF Opens(e, calls[c].old)
       THEN /\ Becomes(c, [calls[c] EXCEPT !.pc = "set", !.left = @ \ {e}, !.item = e,
                                           !.val = vault[e].val], {})
            /\ latest' = e
       ELSE Becomes(c, Failed(c), {}) /\ UNCHANGED latest
    /\ UNCHANGED <<keyfile, vault, envFile, env, writes>>

SetRow(c) ==
    LET e == calls[c].item IN
    /\ calls[c].pc = "set"
    /\ vault' = [vault EXCEPT ![e] = [pw |-> calls[c].new, val |-> calls[c].val]]
    /\ latest' = e
    /\ Becomes(c, [calls[c] EXCEPT !.pc = "get", !.item = Nothing, !.val = 0,
                                   !.counted = @ \cup {e}], {e})
    /\ UNCHANGED <<keyfile, envFile, env, writes>>

(* update_daemon_env.                                                      *)
WriteEnv(c) ==
    /\ calls[c].pc = "get" /\ calls[c].left = {}
    /\ envFile' = calls[c].new
    /\ Becomes(c, [calls[c] EXCEPT !.pc = "verify"], {"env"})
    /\ UNCHANGED <<keyfile, vault, latest, env, writes>>

(* verify: one key file that was not skipped, and the entry that was used  *)
(* last (if that one was deleted, any may be the next).                    *)
VerifiesKey(c) ==
    LET there == {k \in Keyfiles \ calls[c].skipped : keyfile[k] # Absent} IN
    IF \E k \in Keyfiles : keyfile[k] = Torn THEN {FALSE}
    ELSE IF there = {} THEN {TRUE}
    ELSE {keyfile[k] = calls[c].new : k \in there}

FirstRows ==
    IF latest # Nothing /\ vault[latest] # Absent THEN {latest}
    ELSE {e \in Entries : vault[e] # Absent}

VerifiesRow(c) ==
    IF calls[c].counted = {} THEN {TRUE}
    ELSE IF FirstRows = {} THEN {FALSE}
    ELSE {Opens(e, calls[c].new) : e \in FirstRows}

Verify(c) ==
    /\ calls[c].pc = "verify"
    /\ \E keyOk \in VerifiesKey(c), rowOk \in VerifiesRow(c) :
          Becomes(c, IF keyOk /\ rowOk THEN [calls[c] EXCEPT !.pc = "sync"] ELSE Failed(c), {})
    /\ UNCHANGED <<keyfile, vault, latest, envFile, env, writes>>

(* set_var in the daemon; the CLI has nothing to set, and neither has a    *)
(* handler whose client has gone away.                                     *)
SyncEnv(c) ==
    /\ calls[c].pc = "sync"
    /\ env' \in {env} \cup {[env EXCEPT ![Daemon] = calls[c].new] : x \in GuiCalls \cap {c}}
    /\ Becomes(c, [calls[c] EXCEPT !.pc = "done", !.counted = {}], {})
    /\ UNCHANGED <<keyfile, vault, latest, envFile, writes>>

(* An I/O error, a locked database, or the process of the CLI is killed.   *)
Stops(c) ==
    /\ calls[c].pc \notin {"idle"} \cup Over
    /\ Becomes(c, Failed(c), {})
    /\ UNCHANGED <<keyfile, vault, latest, envFile, env, writes>>

(***************************************************************************)
(* The others.                                                             *)
(***************************************************************************)
(* VaultStore::set under the password of the process.                      *)
WriteRow(x, e) ==
    /\ writes < MaxWrites
    /\ writes' = writes + 1
    /\ vault' = [vault EXCEPT ![e] = [pw |-> env[x], val |-> writes']]
    /\ latest' = e
    /\ Touch({e})
    /\ UNCHANGED <<keyfile, envFile, env>>

DeleteRow(e) ==
    /\ writes < MaxWrites /\ vault[e] # Absent
    /\ writes' = writes + 1
    /\ vault' = [vault EXCEPT ![e] = Absent]
    /\ Touch({e})
    /\ UNCHANGED <<keyfile, latest, envFile, env>>

(* A name that has no key file yet gets one.                               *)
CreateKey(x, k) ==
    /\ writes < MaxWrites /\ keyfile[k] = Absent
    /\ writes' = writes + 1
    /\ keyfile' = [keyfile EXCEPT ![k] = env[x]]
    /\ Touch({k})
    /\ UNCHANGED <<vault, latest, envFile, env>>

(* The daemon starts from daemon.env, and calls it was in are over.        *)
RestartDaemon ==
    /\ env' = [env EXCEPT ![Daemon] = envFile]
    /\ calls' = [c \in Calls |->
          IF c \in GuiCalls /\ calls[c].pc \notin {"idle"} \cup Over THEN Failed(c) ELSE calls[c]]
    /\ UNCHANGED <<keyfile, vault, latest, envFile, writes>>

(* mcp-serve keeps the password of its configuration, or reads daemon.env. *)
RestartClient(x) ==
    /\ env' = [env EXCEPT ![x] = envFile]
    /\ UNCHANGED <<keyfile, vault, latest, envFile, calls, writes>>

Step(c) ==
    \/ BackupKeys(c) \/ BackupRows(c) \/ ListKeys(c) \/ TearKey(c) \/ WriteKey(c)
    \/ ListRows(c) \/ SetRow(c) \/ WriteEnv(c) \/ Verify(c) \/ SyncEnv(c) \/ Stops(c)
    \/ \E k \in Keyfiles : ReadKey(c, k)
    \/ \E e \in Entries : GetRow(c, e)

Next ==
    \/ \E c \in Calls : Step(c) \/ \E old, new \in Passwords : Begin(c, old, new)
    \/ \E x \in Processes, e \in Entries : WriteRow(x, e)
    \/ \E e \in Entries : DeleteRow(e)
    \/ \E x \in Processes, k \in Keyfiles : CreateKey(x, k)
    \/ RestartDaemon \/ \E x \in Clients : RestartClient(x)

Spec == Init /\ [][Next]_vars

(***************************************************************************)
(* Properties.                                                             *)
(***************************************************************************)
(* A rekey that reports success has every key file it did not skip, every  *)
(* entry and daemon.env under the new password, and the entries hide what  *)
(* they hid: all but what somebody else wrote meanwhile or since.          *)
SuccessMeansNew ==
    \A c \in Calls : calls[c].pc = "done" =>
        LET call == calls[c] IN
        /\ \A k \in Keyfiles \ (call.others \cup call.skipped) : keyfile[k] \in {call.new, Absent}
        /\ \A e \in Entries \ call.others :
              vault[e] = Absent \/ vault[e] = [pw |-> call.new, val |-> call.backup.rows[e].val]
        /\ "env" \in call.others \/ envFile = call.new

(* Wherever a rekey is stopped, what nobody else wrote is as it was or has *)
(* gone from the old password to the new one; the one file that may be     *)
(* torn is whole in the backup, under the old password.                    *)
NothingLost ==
    \A c \in Calls : calls[c].pc \in Inside \cup {"done", "failed"} =>
        LET call == calls[c] IN
        /\ \A k \in Keyfiles \ call.others :
              \/ keyfile[k] = call.backup.keys[k]
              \/ call.backup.keys[k] = call.old /\ keyfile[k] \in {call.new, Torn}
        /\ \A e \in Entries \ call.others :
              \/ vault[e] = call.backup.rows[e]
              \/ /\ call.backup.rows[e] = [pw |-> call.old, val |-> call.backup.rows[e].val]
                 /\ vault[e] = [pw |-> call.new, val |-> call.backup.rows[e].val]

(* The verification at the end turns a rekey into a failure only if others *)
(* wrote meanwhile: never for a key file of another password, which it     *)
(* skipped.                                                                *)
VerifyAccepts ==
    [][\A c \in Calls :
         Verify(c) /\ calls[c].others \subseteq {"env"} => calls'[c].pc = "sync"]_vars
=============================================================================
