----------------------------- MODULE WalletFile -----------------------------
(***************************************************************************)
(* The encrypted wallet file of key_provider_localfile and the two scripts *)
(* that write it: wallet_create and wallet_rotate_passphrase.  One         *)
(* operator runs one script at a time, each may be killed between any two  *)
(* file operations, and other processes (the trading cycle, the exporter)  *)
(* read the wallet meanwhile.  A killed process leaves the files as they   *)
(* are; a machine that loses unflushed data is not modelled.               *)
(*                                                                         *)
(* A file is Missing, Partial (being written, or cut short), or whole: one *)
(* key encrypted under one passphrase.                                     *)
(***************************************************************************)
EXTENDS Naturals

CONSTANTS
    Keys, Passphrases,
    Readers,          \* processes with a KeyProviderLocalFile
    MaxCommands,      \* bound: scripts that are run
    NoKey, Missing, Partial

Whole == [key : Keys, pass : Passphrases]

ASSUME WalletAssumption ==
    /\ MaxCommands \in Nat
    /\ NoKey \notin Keys
    /\ Missing \notin Whole /\ Partial \notin Whole /\ Missing # Partial

Commands == 1 .. MaxCommands
Contents == Whole \union {Missing, Partial}

VARIABLES
    wallet,      \* the file at KEY_PROVIDER_PATH
    tmp,         \* its .tmp sibling
    backups,     \* its .bak-<UTC-ts> siblings, by the command that made them
    stage,       \* what the running script does next; "idle" if none runs
    command,     \* scripts started so far, standing for the timestamp
    key, pass,   \* the key and the new passphrase the script works with
    announced,   \* keys whose address a script has reported to the operator
    checked,     \* readers past the existence check of _unlock
    loaded       \* the key each reader has cached

fileVars   == <<wallet, tmp, backups>>
scriptVars == <<stage, command, key, pass>>
readerVars == <<checked, loaded>>
vars == <<fileVars, scriptVars, announced, readerVars>>

Init ==
    /\ wallet = Missing /\ tmp = Missing
    /\ backups = [c \in Commands |-> Missing]
    /\ stage = "idle" /\ command = 0
    /\ key \in Keys /\ pass \in Passphrases    \* meaningless until a script runs
    /\ announced = {}
    /\ checked = {}
    /\ loaded = [r \in Readers |-> NoKey]

Encrypted == [key |-> key, pass |-> pass]

(* A script starts with what it was given; timestamps tell scripts apart,  *)
(* deriving a key from a passphrase taking long enough.                    *)
Starts(next, k, p) ==
    /\ stage = "idle" /\ command < MaxCommands
    /\ stage' = next
    /\ command' = command + 1
    /\ key' = k /\ pass' = p

-----------------------------------------------------------------------------
(* create_new: refuses an existing file, then writes it in place.          *)

Create(k, p) ==
    /\ wallet = Missing
    /\ Starts("creating", k, p)
    /\ wallet' = Partial
    /\ UNCHANGED <<tmp, backups, announced, readerVars>>

CreateWritten ==
    /\ stage = "creating"
    /\ stage' = "idle"
    /\ wallet' = Encrypted
    /\ announced' = announced \union {key}
    /\ UNCHANGED <<tmp, backups, command, key, pass, readerVars>>

(* Slip: a left-over .tmp is taken for one that is already written.        *)
RotateResumes(old, new) ==
    /\ old # new
    /\ wallet \in Whole /\ wallet.pass = old
    /\ Starts(IF tmp \in Whole THEN "backup" ELSE "tmp", wallet.key, new)
    /\ tmp' = IF tmp \in Whole THEN tmp ELSE Partial
    /\ UNCHANGED <<wallet, backups, announced, readerVars>>

(* rotate_passphrase decrypts the file, which takes the right passphrase,  *)
(* and opens the .tmp sibling, truncating one that is there.               *)
Rotate(old, new) ==
    /\ old # new
    /\ wallet \in Whole /\ wallet.pass = old
    /\ Starts("tmp", wallet.key, new)
    /\ tmp' = Partial
    /\ UNCHANGED <<wallet, backups, announced, readerVars>>

TmpWritten ==
    /\ stage = "tmp"
    /\ stage' = "backup"
    /\ tmp' = Encrypted
    /\ UNCHANGED <<wallet, backups, command, key, pass, announced, readerVars>>

(* Slip: the wallet is removed where it should be kept.                    *)
WalletUnlinked ==
    /\ stage = "backup"
    /\ stage' = "place"
    /\ wallet' = Missing
    /\ UNCHANGED <<tmp, backups, command, key, pass, announced, readerVars>>

(* path.rename(backup): from here on there is no wallet.                   *)
MovedAside ==
    /\ stage = "backup"
    /\ stage' = "place"
    /\ backups' = [backups EXCEPT ![command] = wallet]
    /\ wallet' = Missing
    /\ UNCHANGED <<tmp, command, key, pass, announced, readerVars>>

(* tmp.rename(path)                                                        *)
Placed ==
    /\ stage = "place"
    /\ stage' = "idle"
    /\ wallet' = tmp
    /\ tmp' = Missing
    /\ announced' = announced \union {key}
    /\ UNCHANGED <<backups, command, key, pass, readerVars>>

Killed ==
    /\ stage # "idle"
    /\ stage' = "idle"
    /\ UNCHANGED <<fileVars, command, key, pass, announced, readerVars>>

Latest(c) == backups[c] # Missing /\ \A d \in Commands : d > c => backups[d] = Missing

(* The operator's "one-step rollback" when the wallet is gone (external).  *)
Rollback(c) ==
    /\ stage = "idle" /\ wallet = Missing
    /\ Latest(c)
    /\ wallet' = backups[c]
    /\ backups' = [backups EXCEPT ![c] = Missing]
    /\ UNCHANGED <<tmp, scriptVars, announced, readerVars>>

-----------------------------------------------------------------------------
(* _unlock in another process: a check, the passphrase, then the read.     *)

ReaderChecks(r) ==
    /\ r \notin checked /\ loaded[r] = NoKey
    /\ wallet # Missing
    /\ checked' = checked \union {r}
    /\ UNCHANGED <<fileVars, scriptVars, announced, loaded>>

(* The file may have gone, changed or be half written by now: then, or     *)
(* with another passphrase, it raises WalletDecryptError.                  *)
ReaderReads(r, p) ==
    /\ r \in checked
    /\ checked' = checked \ {r}
    /\ loaded' = IF wallet \in Whole /\ wallet.pass = p
                 THEN [loaded EXCEPT ![r] = wallet.key] ELSE loaded
    /\ UNCHANGED <<fileVars, scriptVars, announced>>

ReaderExits(r) ==
    /\ checked' = checked \ {r}
    /\ loaded' = [loaded EXCEPT ![r] = NoKey]
    /\ UNCHANGED <<fileVars, scriptVars, announced>>

Next ==
    \/ \E k \in Keys, p \in Passphrases : Create(k, p)
    \/ CreateWritten
    \/ \E old, new \in Passphrases : Rotate(old, new)
    \/ TmpWritten \/ MovedAside \/ Placed \/ Killed
    \/ \E c \in Commands : Rollback(c)
    \/ \E r \in Readers : ReaderChecks(r) \/ ReaderExits(r)
    \/ \E r \in Readers, p \in Passphrases : ReaderReads(r, p)

Spec == Init /\ [][Next]_vars

-----------------------------------------------------------------------------
(* The types of the variables. *)
TypeOK ==
    /\ wallet \in Contents /\ tmp \in Contents
    /\ backups \in [Commands -> Whole \union {Missing}]
    /\ stage \in {"idle", "creating", "tmp", "backup", "place"}
    /\ command \in 0 .. MaxCommands
    /\ stage # "idle" => command \in Commands
    /\ key \in Keys /\ pass \in Passphrases
    /\ announced \subseteq Keys
    /\ checked \subseteq Readers
    /\ loaded \in [Readers -> Keys \union {NoKey}]

Holds(file, k) == file \in Whole /\ file.key = k

(* A key whose address the operator was told, or that a process has loaded *)
(* to sign with, is never lost: wherever the scripts are killed and        *)
(* whatever is run after, the wallet or a backup holds it whole            *)
(* (key_provider_localfile.py:115-121).                                    *)
KeyRecoverable ==
    \A k \in announced \union {loaded[r] : r \in Readers} :
        \/ k = NoKey
        \/ Holds(wallet, k)
        \/ \E c \in Commands : Holds(backups[c], k)

(* While there is no wallet, once there was one, both versions of it are   *)
(* at hand, the old as a backup and the new as .tmp, under one key: a      *)
(* rotation killed between its renames (key_provider_localfile.py:169-171) *)
(* can be finished or rolled back by a single rename.                      *)
GapHasBoth ==
    wallet = Missing /\ announced # {} =>
        \E k \in Keys, c \in Commands :
            Holds(tmp, k) /\ Holds(backups[c], k)

(* The wallet changes its address only by being created anew: whatever     *)
(* earlier scripts left behind, a rotation ends with the key it began with *)
(* ("Same private key, same address", key_provider_localfile.py:117).      *)
RotationKeepsKey ==
    [][stage = "place" /\ wallet' \in Whole => wallet'.key = key]_vars
=============================================================================
