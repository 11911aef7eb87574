-------------------------- MODULE WalletFileProofs --------------------------
(***************************************************************************)
(* The properties of WalletFile, for any number of keys, passphrases,      *)
(* readers and scripts.  Inv says what each stage of a script relies on;   *)
(* KeyRecoverable alone is not inductive, because moving the wallet aside  *)
(* could overwrite the only backup that holds some other key.              *)
(***************************************************************************)
EXTENDS WalletFile, TLAPS

Recoverable(k) == Holds(wallet, k) \/ \E c \in Commands : Holds(backups[c], k)

(* Every key in use is in the wallet or in a backup.                       *)
KeysKept ==
    /\ \A k \in announced : Recoverable(k)
    /\ \A r \in Readers : loaded[r] \in announced \union {NoKey}
    /\ wallet \in Whole => wallet.key \in announced

(* What a running script relies on.                                        *)
ScriptOK ==
    /\ stage = "creating" => wallet = Partial
    /\ stage \in {"tmp", "backup"} =>
          wallet \in Whole /\ wallet.key = key /\ backups[command] = Missing
    /\ stage \in {"backup", "place"} => tmp = Encrypted
    /\ stage = "place" => wallet = Missing /\ Holds(backups[command], key)

BackupsOK ==
    /\ \A c \in Commands : c > command => backups[c] = Missing
    /\ \A c \in Commands : backups[c] \in Whole => backups[c].key \in announced

Inv == TypeOK /\ KeysKept /\ ScriptOK /\ BackupsOK /\ GapHasBoth

LEMMA TypeInit == Init => TypeOK
  BY WalletAssumption DEF Init, TypeOK, Contents, Commands

(* Encrypting gives a whole file, and a whole file holds a key.            *)
LEMMA EncryptedWhole ==
  ASSUME TypeOK
  PROVE  /\ Encrypted \in Whole /\ Encrypted.key = key
         /\ \A f \in Whole : f.key \in Keys
         /\ Missing \notin Whole /\ Partial \notin Whole /\ Missing # Partial
         /\ NoKey \notin Keys
  BY WalletAssumption DEF TypeOK, Encrypted, Whole

(* Each action, with its parameters, or a stuttering step.                 *)
LEMMA Cases ==
  ASSUME [Next]_vars
  PROVE  \/ \E k \in Keys, p \in Passphrases : Create(k, p)
         \/ CreateWritten
         \/ \E old, new \in Passphrases : Rotate(old, new)
         \/ TmpWritten \/ MovedAside \/ Placed \/ Killed
         \/ \E c \in Commands : Rollback(c)
         \/ \E r \in Readers : ReaderChecks(r) \/ ReaderExits(r)
         \/ \E r \in Readers, p \in Passphrases : ReaderReads(r, p)
         \/ UNCHANGED vars
  BY DEF Next

(* Types; moving the wallet aside makes a backup only of a whole file.     *)
LEMMA TypeNext == TypeOK /\ ScriptOK /\ [Next]_vars => TypeOK'
<1> SUFFICES ASSUME TypeOK, ScriptOK, [Next]_vars PROVE TypeOK'
  OBVIOUS
<1> USE EncryptedWhole, WalletAssumption
    DEF TypeOK, Contents, Commands, readerVars, scriptVars, fileVars
<1>1. ASSUME NEW k \in Keys, NEW p \in Passphrases, Create(k, p) PROVE TypeOK'
  BY <1>1 DEF Create, Starts
<1>2. CASE CreateWritten
  BY <1>2 DEF CreateWritten
<1>3. ASSUME NEW old \in Passphrases, NEW new \in Passphrases, Rotate(old, new)
      PROVE TypeOK'
  BY <1>3 DEF Rotate, Starts
<1>4. CASE TmpWritten
  BY <1>4 DEF TmpWritten
<1>5. CASE MovedAside
  BY <1>5 DEF MovedAside, ScriptOK
<1>6. CASE Placed
  BY <1>6 DEF Placed
<1>7. CASE Killed
  BY <1>7 DEF Killed
<1>8. ASSUME NEW c \in Commands, Rollback(c) PROVE TypeOK'
  BY <1>8 DEF Rollback, Latest
<1>9. ASSUME NEW r \in Readers, ReaderChecks(r) \/ ReaderExits(r) PROVE TypeOK'
  BY <1>9 DEF ReaderChecks, ReaderExits
<1>10. ASSUME NEW r \in Readers, NEW p \in Passphrases, ReaderReads(r, p) PROVE TypeOK'
  BY <1>10 DEF ReaderReads
<1>11. CASE UNCHANGED vars
  BY <1>11 DEF vars
<1> QED
  BY <1>1, <1>2, <1>3, <1>4, <1>5, <1>6, <1>7, <1>8, <1>9, <1>10, <1>11, Cases

LEMMA InvInit == Init => Inv
<1> SUFFICES ASSUME Init PROVE Inv
  OBVIOUS
<1>1. TypeOK
  BY TypeInit
<1>2. Missing \notin Whole
  BY WalletAssumption
<1> QED
  BY <1>1, <1>2
     DEF Init, Inv, KeysKept, ScriptOK, BackupsOK, GapHasBoth, Holds, Commands

(* A step that leaves the files, the script and the announced keys alone.  *)
LEMMA ReaderStep ==
  ASSUME Inv, TypeOK', UNCHANGED <<fileVars, scriptVars, announced>>,
         \A r \in Readers : loaded'[r] \in announced \union {NoKey}
  PROVE  Inv'
  BY DEF Inv, fileVars, scriptVars, KeysKept, Recoverable, ScriptOK, BackupsOK,
         GapHasBoth, Holds, Encrypted

LEMMA CreateStep ==
  ASSUME Inv, TypeOK', NEW k \in Keys, NEW p \in Passphrases, Create(k, p)
  PROVE  Inv'
<1> USE EncryptedWhole DEF Inv, Create, Starts, readerVars
<1>1. KeysKept'
  BY DEF KeysKept, Recoverable, Holds
<1>2. ScriptOK'
  BY DEF ScriptOK
<1>3. BackupsOK'
  BY DEF BackupsOK, Commands, TypeOK
<1>4. GapHasBoth'
  BY DEF GapHasBoth
<1> QED
  BY <1>1, <1>2, <1>3, <1>4

LEMMA CreateWrittenStep ==
  ASSUME Inv, TypeOK', CreateWritten
  PROVE  Inv'
<1> USE EncryptedWhole DEF Inv, CreateWritten, readerVars
<1>1. KeysKept'
  <2>1. Recoverable(key)'
    BY DEF Recoverable, Holds
  <2>2. ASSUME NEW k \in announced PROVE Recoverable(k)'
    BY <2>2 DEF KeysKept, Recoverable, Holds, ScriptOK
  <2> QED
    BY <2>1, <2>2 DEF KeysKept
<1>2. ScriptOK'
  BY DEF ScriptOK
<1>3. BackupsOK'
  BY DEF BackupsOK
<1>4. GapHasBoth'
  BY DEF GapHasBoth
<1> QED
  BY <1>1, <1>2, <1>3, <1>4

LEMMA RotateStep ==
  ASSUME Inv, TypeOK', NEW old \in Passphrases, NEW new \in Passphrases, Rotate(old, new)
  PROVE  Inv'
<1> USE EncryptedWhole DEF Inv, Rotate, Starts, readerVars
<1>1. KeysKept'
  BY DEF KeysKept, Recoverable, Holds
<1>2. ScriptOK'
  BY WalletAssumption DEF ScriptOK, BackupsOK, Commands, TypeOK
<1>3. BackupsOK'
  BY DEF BackupsOK, Commands, TypeOK
<1>4. GapHasBoth'
  BY DEF GapHasBoth
<1> QED
  BY <1>1, <1>2, <1>3, <1>4

LEMMA TmpWrittenStep ==
  ASSUME Inv, TypeOK', TmpWritten
  PROVE  Inv'
<1> USE EncryptedWhole DEF Inv, TmpWritten, readerVars
<1>1. KeysKept'
  BY DEF KeysKept, Recoverable, Holds
<1>2. ScriptOK'
  BY DEF ScriptOK, Encrypted
<1>3. BackupsOK'
  BY DEF BackupsOK
<1>4. GapHasBoth'
  BY DEF GapHasBoth, ScriptOK
<1> QED
  BY <1>1, <1>2, <1>3, <1>4

(* The wallet's key moves to a backup that did not exist.                  *)
LEMMA MovedAsideStep ==
  ASSUME Inv, TypeOK', MovedAside
  PROVE  Inv'
<1> USE EncryptedWhole DEF Inv, MovedAside, readerVars
<1>1. /\ command \in Commands
      /\ wallet \in Whole /\ wallet.key = key /\ backups[command] = Missing
      /\ backups'[command] = wallet
      /\ \A c \in Commands : c # command => backups'[c] = backups[c]
  BY DEF ScriptOK, TypeOK
<1>2. KeysKept'
  <2>1. ASSUME NEW k \in announced PROVE Recoverable(k)'
    BY <1>1, <2>1 DEF KeysKept, Recoverable, Holds
  <2> QED
    BY <2>1 DEF KeysKept
<1>3. ScriptOK'
  BY <1>1 DEF ScriptOK, Holds, Encrypted
<1>4. BackupsOK'
  BY <1>1 DEF BackupsOK, KeysKept, Commands, TypeOK
<1>5. GapHasBoth'
  BY <1>1 DEF GapHasBoth, ScriptOK, Holds, TypeOK
<1> QED
  BY <1>2, <1>3, <1>4, <1>5

LEMMA PlacedStep ==
  ASSUME Inv, TypeOK', Placed
  PROVE  Inv'
<1> USE EncryptedWhole DEF Inv, Placed, readerVars
<1>1. wallet' \in Whole /\ wallet'.key = key /\ wallet = Missing
  BY DEF ScriptOK
<1>2. KeysKept'
  <2>1. Recoverable(key)'
    BY <1>1 DEF Recoverable, Holds
  <2>2. ASSUME NEW k \in announced PROVE Recoverable(k)'
    BY <1>1, <2>2 DEF KeysKept, Recoverable, Holds
  <2> QED
    BY <1>1, <2>1, <2>2 DEF KeysKept
<1>3. ScriptOK'
  BY DEF ScriptOK
<1>4. BackupsOK'
  BY DEF BackupsOK
<1>5. GapHasBoth'
  BY <1>1 DEF GapHasBoth
<1> QED
  BY <1>2, <1>3, <1>4, <1>5

LEMMA KilledStep ==
  ASSUME Inv, TypeOK', Killed
  PROVE  Inv'
  BY DEF Inv, Killed, readerVars, fileVars, KeysKept, Recoverable, ScriptOK,
         BackupsOK, GapHasBoth, Holds

(* The key of the backup moves back to the wallet.                         *)
LEMMA RollbackStep ==
  ASSUME Inv, TypeOK', NEW c \in Commands, Rollback(c)
  PROVE  Inv'
<1> USE EncryptedWhole DEF Inv, Rollback, readerVars, scriptVars
<1>1. /\ backups[c] \in Whole /\ wallet' = backups[c]
      /\ backups'[c] = Missing
      /\ \A d \in Commands : d # c => backups'[d] = backups[d]
  BY DEF Latest, TypeOK
<1>2. KeysKept'
  <2>1. ASSUME NEW k \in announced PROVE Recoverable(k)'
    BY <1>1, <2>1 DEF KeysKept, Recoverable, Holds
  <2> QED
    BY <1>1, <2>1 DEF KeysKept, BackupsOK
<1>3. ScriptOK'
  BY DEF ScriptOK
<1>4. BackupsOK'
  BY <1>1 DEF BackupsOK
<1>5. GapHasBoth'
  BY <1>1 DEF GapHasBoth
<1> QED
  BY <1>2, <1>3, <1>4, <1>5

LEMMA InvNext == Inv /\ [Next]_vars => Inv'
<1> SUFFICES ASSUME Inv, [Next]_vars PROVE Inv'
  OBVIOUS
<1>1. TypeOK'
  BY TypeNext DEF Inv
<1>2. ASSUME NEW r \in Readers, ReaderChecks(r) \/ ReaderExits(r) PROVE Inv'
  <2>1. \A q \in Readers : loaded'[q] \in announced \union {NoKey}
    BY <1>2 DEF ReaderChecks, ReaderExits, Inv, KeysKept, TypeOK
  <2> QED
    BY <1>1, <1>2, <2>1, ReaderStep DEF ReaderChecks, ReaderExits
<1>3. ASSUME NEW r \in Readers, NEW p \in Passphrases, ReaderReads(r, p) PROVE Inv'
  <2>1. \A q \in Readers : loaded'[q] \in announced \union {NoKey}
    BY <1>3 DEF ReaderReads, Inv, KeysKept, TypeOK
  <2> QED
    BY <1>1, <1>3, <2>1, ReaderStep DEF ReaderReads
<1>4. ASSUME UNCHANGED vars PROVE Inv'
  BY <1>1, <1>4, ReaderStep DEF vars, fileVars, scriptVars, readerVars, Inv, KeysKept
<1> QED
  BY <1>1, <1>2, <1>3, <1>4, Cases, CreateStep, CreateWrittenStep, RotateStep,
     TmpWrittenStep, MovedAsideStep, PlacedStep, KilledStep, RollbackStep

(* Inv holds of every behaviour of the specification.                      *)
LEMMA Invariance == Spec => []Inv
  BY InvInit, InvNext, PTL DEF Spec

LEMMA InvImplies == Inv => TypeOK /\ KeyRecoverable /\ GapHasBoth
  BY DEF Inv, KeysKept, KeyRecoverable, Recoverable

(* The variables have their types, backups being whole files.              *)
THEOREM WalletTypeCorrect == Spec => []TypeOK
  BY Invariance, InvImplies, PTL

(* No announced or loaded key is ever lost.                                *)
THEOREM WalletKeyRecoverable == Spec => []KeyRecoverable
  BY Invariance, InvImplies, PTL

(* A killed rotation can be finished or rolled back with one rename.       *)
THEOREM WalletGapHasBoth == Spec => []GapHasBoth
  BY Invariance, InvImplies, PTL

(* A rotation ends with the key that it began with.                        *)
THEOREM WalletRotationKeepsKey == Spec => RotationKeepsKey
<1>1. ASSUME Inv, [Next]_vars, stage = "place", wallet' \in Whole
      PROVE  wallet'.key = key
  <2> USE <1>1, EncryptedWhole DEF Inv, ScriptOK
  <2>1. CASE Placed
    BY <2>1 DEF Placed
  <2>2. CASE UNCHANGED wallet
    BY <2>2
  <2>3. Placed \/ UNCHANGED wallet
    BY Cases DEF Create, CreateWritten, Rotate, Starts, TmpWritten, MovedAside, Killed,
       Rollback, ReaderChecks, ReaderExits, ReaderReads, fileVars, vars
  <2> QED
    BY <2>1, <2>2, <2>3
<1>2. Inv /\ [Next]_vars => [stage = "place" /\ wallet' \in Whole => wallet'.key = key]_vars
  BY <1>1
<1> QED
  BY <1>2, Invariance, PTL DEF Spec, RotationKeepsKey
=============================================================================
