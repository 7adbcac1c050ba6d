-------------------------- MODULE DatabaseKeyProofs --------------------------
(***************************************************************************)
(* All processes can read the database (AllCanRead), for any number of     *)
(* processes, in local and in signed builds.                               *)
(***************************************************************************)
EXTENDS DatabaseKey, TLAPS

\* A process between the O_EXCL creation and the end of its work on the file.
Creating(p) == pc[p] \in {"write", "sync", "remove", "withdraw"}

\* There is one such process, and it knows what is in the file.
OneCreator ==
    /\ \A p, q \in Processes : Creating(p) /\ Creating(q) => p = q
    /\ \A p \in Processes :
         /\ pc[p] = "write" => kept = "empty"
         /\ pc[p] = "remove" => kept \in {"empty", "short"}
         /\ pc[p] \in {"sync", "withdraw"} => kept = p

\* Whoever has a key has the one that is kept, and so has the database.
OneKey ==
    /\ \A p \in Processes : key[p] # "none" => kept = key[p]
    /\ database # "none" => kept = database
    /\ \A p \in Processes : pc[p] = "open" => key[p] # "none"

\* Signed builds have no file to create, nor an incomplete item.
Builds ==
    /\ signed => kept \in Complete \cup {"absent"}
    /\ signed => \A p \in Processes : ~Creating(p) /\ pc[p] \notin {"create", "read"}
    /\ ~signed => \A p \in Processes : pc[p] \notin {"add", "reload"}

Inv ==
    /\ TypeOK
    /\ Builds
    /\ AllCanRead
    /\ NoneWithdrawn => OneCreator /\ OneKey

LEMMA InitInv == Init => Inv
BY ProcessesAssumption, LimitsAssumption
   DEF Init, Inv, TypeOK, Points, Complete, Builds, AllCanRead, OneCreator, OneKey,
       Creating

\* Counting keeps within the bounds.
LEMMA Counters ==
    ASSUME TypeOK, Fails \/ Succeeds
    PROVE  faults' \in 0 .. MaxFaults /\ crashes' \in 0 .. MaxCrashes
BY LimitsAssumption DEF TypeOK, Fails, Succeeds

LEMMA StepInv ==
    ASSUME Inv, NEW p \in Processes, Step(p)
    PROVE  Inv'
<1> USE ProcessesAssumption
    DEF Inv, TypeOK, Points, Complete, Builds, AllCanRead, NoneWithdrawn, OneCreator,
        OneKey, Creating, At, Goto, Return
<1>0. UNCHANGED signed
  BY DEF Step
<1> USE <1>0
<1>1. CASE LookForFile(p)
  BY <1>1, Counters DEF LookForFile
<1>2. CASE ReadKey(p)
  BY <1>2, Counters DEF ReadKey
<1>3. CASE ReadThrows(p)
  BY <1>3, Counters DEF ReadThrows
<1>4. CASE CreateFile(p)
  BY <1>4, Counters DEF CreateFile
<1>5. CASE CreateFindsFile(p)
  BY <1>5, Counters DEF CreateFindsFile
<1>6. CASE WriteKey(p)
  BY <1>6, Counters DEF WriteKey
<1>7. CASE WriteFallsShort(p)
  BY <1>7, Counters DEF WriteFallsShort
<1>8. CASE SyncKey(p)
  BY <1>8, Counters DEF SyncKey
<1>9. CASE SyncThrows(p)
  BY <1>9, Counters DEF SyncThrows
<1>10. CASE RemoveFile(p)
  BY <1>10, Counters DEF RemoveFile
<1>11. CASE LoadItem(p)
  BY <1>11, Counters DEF LoadItem
<1>12. CASE MissItem(p)
  BY <1>12, Counters DEF MissItem
<1>13. CASE AddItem(p)
  BY <1>13, Counters DEF AddItem
<1>14. CASE AddItemFindsOne(p)
  BY <1>14, Counters DEF AddItemFindsOne
<1>15. CASE OpenDatabase(p)
  BY <1>15, Counters DEF OpenDatabase
<1>16. CASE Throws(p)
  BY <1>16, Counters DEF Throws
<1>17. CASE Crash(p)
  <2>1. crashes' \in 0 .. MaxCrashes
    BY <1>17, LimitsAssumption DEF Crash
  <2>2. pc' = [pc EXCEPT ![p] = "crashed"] /\ UNCHANGED <<kept, key, database, faults>>
    BY <1>17 DEF Crash
  <2>3. TypeOK'
    BY <2>1, <2>2
  <2>4. Builds'
    BY <2>2
  <2>5. NoneWithdrawn' => OneCreator' /\ OneKey'
    BY <1>17, <2>2 DEF Crash, Ended
  <2>6. AllCanRead'
    BY <1>17, <2>2 DEF Crash, Ended
  <2>7. QED
    BY <2>3, <2>4, <2>5, <2>6
<1>18. QED
  BY <1>1, <1>2, <1>3, <1>4, <1>5, <1>6, <1>7, <1>8, <1>9, <1>10, <1>11, <1>12,
     <1>13, <1>14, <1>15, <1>16, <1>17 DEF Step, KeyFile, KeychainItem

LEMMA NextInv == Inv /\ [Next]_vars => Inv'
<1> SUFFICES ASSUME Inv, [Next]_vars PROVE Inv'
  OBVIOUS
<1>1. CASE \E p \in Processes : Step(p)
  BY <1>1, StepInv
<1>2. CASE UNCHANGED vars
  BY <1>2 DEF vars, Inv, TypeOK, Builds, AllCanRead, NoneWithdrawn, OneCreator, OneKey,
              Creating
<1>3. QED
  BY <1>1, <1>2 DEF Next, Terminated

\* The invariant of the processes that load or create the key.
THEOREM KeyInvariant == Spec => []Inv
BY InitInv, NextInv, PTL DEF Spec

\* No process gets a key that is not complete.
THEOREM KeysAreComplete == Spec => []TypeOK
<1>1. Inv => TypeOK
  BY DEF Inv
<1>2. QED
  BY KeyInvariant, <1>1, PTL

\* However many processes race through loadOrCreate(), and whichever of them die
\* or fail, all that get a key can read the database, unless an fsync failed.
THEOREM DatabaseIsReadable == Spec => []AllCanRead
<1>1. Inv => AllCanRead
  BY DEF Inv
<1>2. QED
  BY KeyInvariant, <1>1, PTL

=============================================================================
