----------------------------- MODULE DatabaseKey -----------------------------
(***************************************************************************)
(* The database key (DatabaseKeyProvider.swift): every process of the      *)
(* program, the daemon and each command, loads or creates it before it     *)
(* opens the one database, and any number of them start at the same time.  *)
(* Local builds keep it in a file, created with O_EXCL and then written;   *)
(* signed builds keep it in the Keychain.                                   *)
(***************************************************************************)
EXTENDS Naturals

CONSTANTS
    Processes,  \* processes that open the database; each draws a key of its own
    MaxFaults,  \* bound: system calls that fail
    MaxCrashes  \* bound: processes that die on the way

ASSUME ProcessesAssumption ==
    Processes \cap {"none", "absent", "empty", "short"} = {}

ASSUME LimitsAssumption ==
    /\ MaxFaults \in Nat
    /\ MaxCrashes \in Nat

VARIABLES
    signed,    \* hasStableSigningTeam of the installed build: Keychain or key file
    pc,
    kept,      \* content of the key file, or the Keychain item
    key,       \* the key that loadOrCreate() has returned to each process
    database,  \* the key the database was created with
    faults, crashes

vars == <<signed, pc, kept, key, database, faults, crashes>>

\* The key p draws is called p: 256 random bits never repeat.
Complete == Processes

Init ==
    /\ signed \in BOOLEAN
    /\ pc = [p \in Processes |-> "start"]
    /\ kept = "absent"
    /\ key = [p \in Processes |-> "none"]
    /\ database = "none"
    /\ faults = 0
    /\ crashes = 0

At(p, point) == pc[p] = point
Goto(p, point) == pc' = [pc EXCEPT ![p] = point]

Fails == faults < MaxFaults /\ faults' = faults + 1 /\ UNCHANGED crashes
Succeeds == UNCHANGED <<faults, crashes>>

\* loadOrCreate() returns k, and RecallStore.init goes on to open the database.
Return(p, k) == key' = [key EXCEPT ![p] = k] /\ Goto(p, "open")

-----------------------------------------------------------------------------
(* loadOrCreateLocalKeyFile()                                              *)

\* createDirectory, and fileExists at the path.
LookForFile(p) ==
    /\ ~signed /\ At(p, "start")
    /\ Goto(p, IF kept = "absent" THEN "create" ELSE "read")
    /\ Succeeds
    /\ UNCHANGED <<kept, key, database>>

\* Faulty: the content of the file is not validated.
ReadUnvalidated(p) ==
    /\ At(p, "read")
    /\ Return(p, kept)
    /\ Succeeds
    /\ UNCHANGED <<kept, database>>

\* validate(Data(contentsOf: keyURL)): 32 bytes are a key.
ReadKey(p) ==
    /\ At(p, "read")
    /\ kept \in Complete
    /\ Return(p, kept)
    /\ Succeeds
    /\ UNCHANGED <<kept, database>>

\* The file is incomplete, gone again, or cannot be read.
ReadThrows(p) ==
    /\ At(p, "read")
    /\ \/ kept \notin Complete /\ Succeeds
       \/ Fails
    /\ Goto(p, "failed")
    /\ UNCHANGED <<kept, key, database>>

\* Faulty: O_TRUNC instead of O_EXCL.
CreateOrTruncate(p) ==
    /\ At(p, "create")
    /\ kept' = "empty"
    /\ Goto(p, "write")
    /\ Succeeds
    /\ UNCHANGED <<key, database>>

\* open(O_CREAT | O_EXCL)
CreateFile(p) ==
    /\ At(p, "create")
    /\ kept = "absent"
    /\ kept' = "empty"
    /\ Goto(p, "write")
    /\ Succeeds
    /\ UNCHANGED <<key, database>>

\* EEXIST: another process has been faster.
CreateFindsFile(p) ==
    /\ At(p, "create")
    /\ kept # "absent"
    /\ Goto(p, "read")
    /\ Succeeds
    /\ UNCHANGED <<kept, key, database>>

WriteKey(p) ==
    /\ At(p, "write")
    /\ kept' = p
    /\ Goto(p, "sync")
    /\ Succeeds
    /\ UNCHANGED <<key, database>>

\* write() returns -1 or less than 32.
WriteFallsShort(p) ==
    /\ At(p, "write")
    /\ Fails
    /\ kept' \in {"empty", "short"}
    /\ Goto(p, "remove")
    /\ UNCHANGED <<key, database>>

SyncKey(p) ==
    /\ At(p, "sync")
    /\ Return(p, p)
    /\ Succeeds
    /\ UNCHANGED <<kept, database>>

\* fsync() fails: the complete key is withdrawn.
SyncThrows(p) ==
    /\ At(p, "sync")
    /\ Fails
    /\ Goto(p, "withdraw")
    /\ UNCHANGED <<kept, key, database>>

\* try? removeItem(at: keyURL), and throw.
RemoveFile(p) ==
    /\ \/ At(p, "remove") /\ Goto(p, "failed")
       \/ At(p, "withdraw") /\ Goto(p, "withdrawn")
    /\ \/ kept' = "absent" /\ Succeeds
       \/ kept' = kept /\ Fails
    /\ UNCHANGED <<key, database>>

KeyFile(p) ==
    \/ LookForFile(p)
    \/ ReadKey(p) \/ ReadThrows(p)
    \/ CreateFile(p) \/ CreateFindsFile(p)
    \/ WriteKey(p) \/ WriteFallsShort(p)
    \/ SyncKey(p) \/ SyncThrows(p)
    \/ RemoveFile(p)

-----------------------------------------------------------------------------
(* loadOrCreateApplicationBoundKeychainItem()                              *)

\* load() finds the item, at first or after errSecDuplicateItem.
LoadItem(p) ==
    /\ signed /\ (At(p, "start") \/ At(p, "reload"))
    /\ kept # "absent"
    /\ Return(p, kept)
    /\ Succeeds
    /\ UNCHANGED <<kept, database>>

\* errSecItemNotFound
MissItem(p) ==
    /\ signed /\ At(p, "start")
    /\ kept = "absent"
    /\ Goto(p, "add")
    /\ Succeeds
    /\ UNCHANGED <<kept, key, database>>

\* SecItemAdd
AddItem(p) ==
    /\ At(p, "add")
    /\ kept = "absent"
    /\ kept' = p
    /\ Return(p, p)
    /\ Succeeds
    /\ UNCHANGED database

\* errSecDuplicateItem
AddItemFindsOne(p) ==
    /\ At(p, "add")
    /\ kept # "absent"
    /\ Goto(p, "reload")
    /\ Succeeds
    /\ UNCHANGED <<kept, key, database>>

KeychainItem(p) == LoadItem(p) \/ MissItem(p) \/ AddItem(p) \/ AddItemFindsOne(p)

-----------------------------------------------------------------------------
\* RecallStore.init: whoever comes first creates the database with its key, and
\* a key other than that one cannot read it.
OpenDatabase(p) ==
    /\ At(p, "open")
    /\ database' = IF database = "none" THEN key[p] ELSE database
    /\ Goto(p, IF database' = key[p] THEN "ready" ELSE "unreadable")
    /\ Succeeds
    /\ UNCHANGED <<kept, key>>

\* createDirectory, SecRandomCopyBytes, open() or the Keychain fails.
Throws(p) ==
    /\ pc[p] \in {"start", "create", "add", "reload"}
    /\ Fails
    /\ Goto(p, "failed")
    /\ UNCHANGED <<kept, key, database>>

Ended(p) == pc[p] \in {"ready", "unreadable", "failed", "withdrawn", "crashed"}

Crash(p) ==
    /\ ~Ended(p)
    /\ crashes < MaxCrashes /\ crashes' = crashes + 1
    /\ Goto(p, "crashed")
    /\ UNCHANGED <<kept, key, database, faults>>

Step(p) ==
    /\ KeyFile(p) \/ KeychainItem(p) \/ OpenDatabase(p) \/ Throws(p) \/ Crash(p)
    /\ UNCHANGED signed

Terminated == (\A p \in Processes : Ended(p)) /\ UNCHANGED vars

Next == (\E p \in Processes : Step(p)) \/ Terminated

Spec == Init /\ [][Next]_vars

-----------------------------------------------------------------------------
Points == {"start", "read", "create", "write", "sync", "remove", "withdraw",
           "add", "reload", "open", "ready", "unreadable", "failed",
           "withdrawn", "crashed"}

\* Types; in particular no process ever gets an empty or a partial key, although
\* the file is visible before it is complete.
TypeOK ==
    /\ signed \in BOOLEAN
    /\ pc \in [Processes -> Points]
    /\ kept \in Complete \cup {"absent", "empty", "short"}
    /\ key \in [Processes -> Complete \cup {"none"}]
    /\ database \in Complete \cup {"none"}
    /\ faults \in 0 .. MaxFaults
    /\ crashes \in 0 .. MaxCrashes

\* No creator whose fsync failed has removed a file that was complete.
NoneWithdrawn == \A p \in Processes : pc[p] # "withdrawn"

\* All processes agree on the key, so none finds the database unreadable, however
\* their starts overlap and whichever calls fail or processes die; only an fsync
\* that fails on a complete key may break it.
AllCanRead == NoneWithdrawn => \A p \in Processes : pc[p] # "unreadable"

=============================================================================
