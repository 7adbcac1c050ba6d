-------------------------- MODULE MomentStoreProofs --------------------------
(***************************************************************************)
(* The history keeps its images (NothingLost) and is the retained history  *)
(* its owner may rely on (ImplementsHistory), for any moments, purges,     *)
(* cutoffs, failures and crashes.                                          *)
(***************************************************************************)
EXTENDS MomentStore, TLAPS

Added == {m \in Moments : pc[m] = "done"}

\* A row appears with the last step of an add.
RowsAreAdded == rows \subseteq Added

\* An add that is about to insert its row has its file in place.
AddsHaveMedia == \A m \in Moments : pc[m] \in {"attributes", "insert"} => m \in media

\* A purge only touches files of moments whose add is over.
ClaimsAreAdded == \A p \in Purges : todo[p] \cup moving[p] \cup moved[p] \subseteq Added

\* Once a purge empties its trash, no row refers to what is in it.
EmptiesDeleted == \A p \in Purges : pc[p] = "empty" => moved[p] \cap rows = {}

Inv ==
    /\ TypeOK
    /\ NothingLost
    /\ RowsAreAdded
    /\ AddsHaveMedia
    /\ ClaimsAreAdded
    /\ EmptiesDeleted

-----------------------------------------------------------------------------
\* Before anything runs, the table and the media tree hold the stored moments.
LEMMA InitInv == Init => Inv
<1> SUFFICES ASSUME Init PROVE Inv
  OBVIOUS
<1> USE HistoryAssumption, FaultsAssumption DEF Init
<1>1. /\ \A m \in Moments : pc[m] = IF m \in Stored THEN "done" ELSE "idle"
      /\ \A p \in Purges : pc[p] = "idle"
  OBVIOUS
<1>2. TypeOK
  BY <1>1 DEF TypeOK, AddPoints, PurgePoints
<1>3. NothingLost
  BY DEF NothingLost, HasImage
<1>4. RowsAreAdded /\ AddsHaveMedia /\ ClaimsAreAdded /\ EmptiesDeleted
  BY <1>1 DEF RowsAreAdded, Added, AddsHaveMedia, ClaimsAreAdded, EmptiesDeleted
<1>5. QED
  BY <1>2, <1>3, <1>4 DEF Inv

\* A step that throws or swallows stays within the bounds.
LEMMA BudgetTypes ==
    ASSUME TypeOK, Throws \/ Swallows
    PROVE  /\ faults' \in 0 .. MaxFaults
           /\ swallowed' \in 0 .. MaxSwallowed
           /\ crashes' \in 0 .. MaxCrashes
BY FaultsAssumption DEF TypeOK, Throws, Swallows

\* No step of an add disturbs the invariant.
LEMMA AddInv ==
    ASSUME Inv, NEW m \in Moments, Add(m), raced' \subseteq Moments
    PROVE  Inv'
<1> USE HistoryAssumption, FaultsAssumption
    DEF Inv, TypeOK, NothingLost, HasImage, RowsAreAdded, Added, AddsHaveMedia,
        ClaimsAreAdded, EmptiesDeleted, AddPoints, PurgePoints, At, Goto, budget
<1>1. CASE WriteMedia(m)
  BY <1>1 DEF WriteMedia
<1>2. CASE WriteThrows(m)
  BY <1>2, BudgetTypes DEF WriteThrows
<1>3. CASE SetAttributes(m)
  BY <1>3 DEF SetAttributes
<1>4. CASE SetAttributesThrows(m)
  BY <1>4, BudgetTypes DEF SetAttributesThrows
<1>5. CASE InsertRow(m)
  BY <1>5 DEF InsertRow
<1>6. CASE InsertThrows(m)
  BY <1>6, BudgetTypes DEF InsertThrows
<1>7. CASE RemoveMedia(m)
  BY <1>7, BudgetTypes DEF RemoveMedia
<1>8. CASE AddCrashes(m)
  <2>1. crashes' \in 0 .. MaxCrashes
    BY <1>8 DEF AddCrashes
  <2>2. QED
    BY <1>8, <2>1 DEF AddCrashes, Adding
<1>9. QED
  BY <1>1, <1>2, <1>3, <1>4, <1>5, <1>6, <1>7, <1>8 DEF Add

\* No step of a purge disturbs the invariant.
LEMMA PurgeInv ==
    ASSUME Inv, NEW p \in Purges, Purge(p), raced' \subseteq Moments
    PROVE  Inv'
<1> USE HistoryAssumption, FaultsAssumption
    DEF Inv, TypeOK, NothingLost, HasImage, RowsAreAdded, Added, AddsHaveMedia,
        ClaimsAreAdded, EmptiesDeleted, AddPoints, PurgePoints, At, Goto, budget
<1>1. CASE SelectRows(p)
  BY <1>1 DEF SelectRows
<1>2. CASE SelectRowsThrows(p)
  BY <1>2, BudgetTypes DEF SelectRowsThrows
<1>3. CASE SelectRowsCutShort(p)
  <2>1. PICK found \in SUBSET (rows \cap Before(p)) :
           /\ todo' = [todo EXCEPT ![p] = found]
           /\ pc' = [pc EXCEPT ![p] = IF found = {} THEN "done" ELSE "check"]
    BY <1>3 DEF SelectRowsCutShort
  <2>2. UNCHANGED <<rows, media, trash, moving, moved>>
    BY <1>3 DEF SelectRowsCutShort
  <2>3. TypeOK'
    BY <1>3, <2>1, <2>2, BudgetTypes DEF SelectRowsCutShort
  <2>4. ClaimsAreAdded'
    BY <2>1, <2>2
  <2>5. NothingLost' /\ RowsAreAdded' /\ AddsHaveMedia' /\ EmptiesDeleted'
    BY <2>1, <2>2
  <2>6. QED
    BY <2>3, <2>4, <2>5
<1>4. ASSUME NEW m \in Moments, SkipMissing(p, m) PROVE Inv'
  BY <1>4 DEF SkipMissing
<1>5. ASSUME NEW m \in Moments, FindFile(p, m) PROVE Inv'
  <2>1. TypeOK'
    BY <1>5 DEF FindFile
  <2>2. NothingLost' /\ RowsAreAdded' /\ AddsHaveMedia'
    BY <1>5 DEF FindFile
  <2>3. ClaimsAreAdded' /\ EmptiesDeleted'
    BY <1>5 DEF FindFile
  <2>4. QED
    BY <2>1, <2>2, <2>3
<1>6. ASSUME NEW m \in Moments, MoveToTrash(p, m) PROVE Inv'
  <2>1. TypeOK'
    BY <1>6 DEF MoveToTrash
  <2>2. NothingLost'
    BY <1>6 DEF MoveToTrash
  <2>3. RowsAreAdded' /\ ClaimsAreAdded' /\ EmptiesDeleted'
    BY <1>6 DEF MoveToTrash
  <2>4. AddsHaveMedia'
    BY <1>6 DEF MoveToTrash
  <2>5. QED
    BY <2>1, <2>2, <2>3, <2>4
<1>7. ASSUME NEW m \in Moments, MoveThrows(p, m) PROVE Inv'
  BY <1>7, BudgetTypes DEF MoveThrows
<1>8. CASE BeginImmediate(p)
  BY <1>8 DEF BeginImmediate
<1>9. CASE BeginThrows(p)
  BY <1>9, BudgetTypes DEF BeginThrows
<1>10. CASE DeleteAndCommit(p)
  BY <1>10 DEF DeleteAndCommit, Before
<1>11. CASE CommitThrows(p)
  BY <1>11, BudgetTypes DEF CommitThrows
<1>12. ASSUME NEW m \in Moments, EmptyTrash(p, m) PROVE Inv'
  <2>1. m \notin rows
    BY <1>12 DEF EmptyTrash
  <2>2. TypeOK'
    BY <1>12, BudgetTypes DEF EmptyTrash
  <2>3. NothingLost'
    BY <1>12, <2>1 DEF EmptyTrash
  <2>4. RowsAreAdded' /\ AddsHaveMedia' /\ ClaimsAreAdded' /\ EmptiesDeleted'
    BY <1>12 DEF EmptyTrash
  <2>5. QED
    BY <2>2, <2>3, <2>4
<1>13. ASSUME NEW m \in Moments, RestoreFile(p, m) PROVE Inv'
  BY <1>13, BudgetTypes DEF RestoreFile
<1>14. CASE PurgeReturns(p)
  BY <1>14 DEF PurgeReturns
<1>15. CASE PurgeRethrows(p)
  BY <1>15 DEF PurgeRethrows
<1>16. CASE PurgeCrashes(p)
  <2>1. crashes' \in 0 .. MaxCrashes
    BY <1>16 DEF PurgeCrashes
  <2>2. QED
    BY <1>16, <2>1 DEF PurgeCrashes
<1>17. QED
  BY <1>1, <1>2, <1>3, <1>4, <1>5, <1>6, <1>7, <1>8, <1>9, <1>10, <1>11, <1>12,
     <1>13, <1>14, <1>15, <1>16 DEF Purge

\* Nor does any other step.
LEMMA NextInv == Inv /\ [Next]_vars => Inv'
<1> SUFFICES ASSUME Inv, [Next]_vars PROVE Inv'
  OBVIOUS
<1>0. raced' = raced \cup Meeting => raced' \subseteq Moments
  BY DEF Inv, TypeOK, Meeting
<1>1. ASSUME NEW m \in Moments, Add(m), raced' = raced \cup Meeting PROVE Inv'
  BY <1>0, <1>1, AddInv
<1>2. ASSUME NEW p \in Purges, Purge(p), raced' = raced \cup Meeting PROVE Inv'
  BY <1>0, <1>2, PurgeInv
<1>3. CASE UNCHANGED vars
  BY <1>3 DEF vars, Inv, TypeOK, NothingLost, HasImage, RowsAreAdded, Added,
              AddsHaveMedia, ClaimsAreAdded, EmptiesDeleted
<1>4. QED
  BY <1>1, <1>2, <1>3 DEF Next, Terminated

\* The inductive invariant of add and purge holds in every reachable state.
THEOREM StoreInvariant == Spec => []Inv
BY InitInv, NextInv, PTL DEF Spec

\* Every reachable state is well typed, and a purge only ever handles moments that
\* its own cutoff covers (the SELECT of mediaRows).
THEOREM StoreTypes == Spec => []TypeOK
<1>1. Inv => TypeOK
  BY DEF Inv
<1>2. QED
  BY StoreInvariant, <1>1, PTL

\* No throw, race or crash in add or purge destroys the image of a moment whose row
\* is still in the table.
THEOREM NoImageLost == Spec => []NothingLost
<1>1. Inv => NothingLost
  BY DEF Inv
<1>2. QED
  BY StoreInvariant, <1>1, PTL

-----------------------------------------------------------------------------
\* Every row has its image, so the refinement mapping is the table itself.
LEMMA KeptIsRows == Inv => {m \in rows : HasImage(m)} = rows
BY DEF Inv, NothingLost

\* A step of an add adds its moment to the history, or is invisible in it.
LEMMA AddImplements ==
    ASSUME Inv, NEW m \in Moments, Add(m)
    PROVE  \/ rows' = rows
           \/ m \notin rows /\ rows' = rows \cup {m}
<1>1. CASE InsertRow(m)
  BY <1>1 DEF InsertRow, Inv, RowsAreAdded, Added, At
<1>2. CASE ~InsertRow(m)
  BY <1>2 DEF Add, WriteMedia, WriteThrows, SetAttributes, SetAttributesThrows,
              InsertThrows, RemoveMedia, AddCrashes
<1>3. QED
  BY <1>1, <1>2

\* A step of a purge removes all the moments it covers, or is invisible.
LEMMA PurgeImplements ==
    ASSUME Inv, NEW p \in Purges, Purge(p)
    PROVE  \/ rows' = rows
           \/ rows' = {m \in rows : CapturedAt[m] >= Cutoff[p]}
<1>1. CASE DeleteAndCommit(p)
  <2>1. rows \subseteq Moments /\ rows' = rows \ Before(p)
    BY <1>1 DEF DeleteAndCommit, Inv, TypeOK
  <2>2. \A m \in Moments : m \notin Before(p) <=> CapturedAt[m] >= Cutoff[p]
    BY HistoryAssumption DEF Before
  <2>3. QED
    BY <2>1, <2>2
<1>2. CASE ~DeleteAndCommit(p)
  BY <1>2 DEF Purge, SelectRows, SelectRowsThrows, SelectRowsCutShort, SkipMissing,
              FindFile, MoveToTrash, MoveThrows, BeginImmediate, BeginThrows,
              CommitThrows, EmptyTrash, RestoreFile, PurgeReturns, PurgeRethrows,
              PurgeCrashes
<1>3. QED
  BY <1>1, <1>2

\* add and purge implement the retained history: moves, rollbacks, throws and
\* crashes are invisible in it, and a purge removes what it covers at once.
THEOREM KeepsHistory == Spec => ImplementsHistory
<1>1. Init => History!Init
  BY DEF Init, History!Init, HasImage
<1>2. Inv /\ Inv' /\ [Next]_vars => [History!Next]_{m \in rows : HasImage(m)}
  <2> SUFFICES ASSUME Inv, Inv', [Next]_vars
               PROVE  [History!Next]_{m \in rows : HasImage(m)}
    OBVIOUS
  <2>1. {m \in rows : HasImage(m)} = rows /\ {m \in rows : HasImage(m)}' = rows'
    BY KeptIsRows DEF Inv, NothingLost
  <2>2. CASE rows' = rows
    BY <2>1, <2>2
  <2>3. ASSUME NEW m \in Moments, m \notin rows, rows' = rows \cup {m}
        PROVE  History!Next
    BY <2>1, <2>3 DEF History!Next, History!Add
  <2>4. ASSUME NEW p \in Purges, rows' = {m \in rows : CapturedAt[m] >= Cutoff[p]}
        PROVE  History!Next
    BY <2>1, <2>4 DEF History!Next, History!Purge
  <2>5. QED
    BY <2>2, <2>3, <2>4, AddImplements, PurgeImplements DEF Next, Terminated, vars
<1>3. QED
  BY <1>1, <1>2, StoreInvariant, PTL DEF Spec, ImplementsHistory, History!Spec

-----------------------------------------------------------------------------
(* Consistency.  As long as no failure was swallowed, the trash holds what the  *)
(* purges have listed in moved, and no more; one that has ended lists nothing.  *)

Clean == swallowed = 0

TrashIsMoved ==
    /\ \A p \in Purges : pc[p] \in {"idle", "done", "failed"} => moved[p] = {}
    /\ \A p \in Purges : pc[p] = "crashed" => crashes # 0
    /\ Clean => \A m \in Moments, p \in Purges : <<m, p>> \in trash <=> m \in moved[p]

\* An add touches neither, unless it crashes.
LEMMA AddKeepsTrash ==
    ASSUME TypeOK, TrashIsMoved, NEW m \in Moments, Add(m)
    PROVE  TrashIsMoved'
<1> USE HistoryAssumption, FaultsAssumption DEF TypeOK
<1>1. \A p \in Purges : pc'[p] = pc[p]
  BY DEF Add, WriteMedia, WriteThrows, SetAttributes, SetAttributesThrows, InsertRow,
         InsertThrows, RemoveMedia, AddCrashes, Goto
<1>2. UNCHANGED <<trash, moved>>
  BY DEF Add, WriteMedia, WriteThrows, SetAttributes, SetAttributesThrows, InsertRow,
         InsertThrows, RemoveMedia, AddCrashes
<1>3. Clean' => Clean
  BY DEF Add, WriteMedia, WriteThrows, SetAttributes, SetAttributesThrows, InsertRow,
         InsertThrows, RemoveMedia, AddCrashes, Throws, Swallows, budget, Clean
<1>4. crashes # 0 => crashes' # 0
  BY DEF Add, WriteMedia, WriteThrows, SetAttributes, SetAttributesThrows, InsertRow,
         InsertThrows, RemoveMedia, AddCrashes, Throws, Swallows, budget
<1> QED BY <1>1, <1>2, <1>3, <1>4 DEF TrashIsMoved

\* What a purge moves it lists, and it ends with an empty list.
LEMMA PurgeKeepsTrash ==
    ASSUME TypeOK, TrashIsMoved, NEW p \in Purges, Purge(p)
    PROVE  TrashIsMoved'
<1> USE HistoryAssumption, FaultsAssumption DEF TypeOK, TrashIsMoved, Clean, At, Goto, budget
<1>1. CASE SelectRows(p) \/ SelectRowsThrows(p) \/ SelectRowsCutShort(p)
  BY <1>1 DEF SelectRows, SelectRowsThrows, SelectRowsCutShort, Throws, Swallows
<1>2. CASE BeginImmediate(p) \/ BeginThrows(p) \/ DeleteAndCommit(p) \/ CommitThrows(p)
  BY <1>2 DEF BeginImmediate, BeginThrows, DeleteAndCommit, CommitThrows, Throws
<1>3. CASE PurgeReturns(p) \/ PurgeRethrows(p)
  BY <1>3 DEF PurgeReturns, PurgeRethrows
<1>4. CASE PurgeCrashes(p)
  BY <1>4 DEF PurgeCrashes
<1>5. ASSUME NEW m \in Moments, SkipMissing(p, m) \/ FindFile(p, m) \/ MoveThrows(p, m)
      PROVE  TrashIsMoved'
  BY <1>5 DEF SkipMissing, FindFile, MoveThrows, Throws
<1>6. ASSUME NEW m \in Moments, MoveToTrash(p, m) PROVE TrashIsMoved'
  BY <1>6 DEF MoveToTrash
<1>7. ASSUME NEW m \in Moments, EmptyTrash(p, m) PROVE TrashIsMoved'
  BY <1>7 DEF EmptyTrash, Swallows
<1>8. ASSUME NEW m \in Moments, RestoreFile(p, m) PROVE TrashIsMoved'
  BY <1>8 DEF RestoreFile, Swallows
<1> QED BY <1>1, <1>2, <1>3, <1>4, <1>5, <1>6, <1>7, <1>8 DEF Purge

LEMMA TrashInvariant == Spec => []TrashIsMoved
<1>1. Init => TrashIsMoved
  BY HistoryAssumption DEF Init, TrashIsMoved, Clean
<1>2. Inv /\ TrashIsMoved /\ [Next]_vars => TrashIsMoved'
  BY AddKeepsTrash, PurgeKeepsTrash
     DEF Inv, Next, Terminated, vars, TrashIsMoved, Clean
<1> QED BY <1>1, <1>2, StoreInvariant, PTL DEF Spec

(* When all has ended and nothing was hidden, every row has its file in place   *)
(* and the trash is empty, whatever threw.                                      *)
THEOREM FailuresAreUndone == Spec => []Consistent
<1>1. Inv /\ TrashIsMoved => Consistent
  <2> SUFFICES ASSUME Inv, TrashIsMoved, Quiet, Clean, crashes = 0
               PROVE  rows \subseteq media /\ trash = {}
    BY DEF Consistent, Clean
  <2>1. \A p \in Purges : moved[p] = {}
    BY HistoryAssumption DEF Quiet, Ended, At, TrashIsMoved, Clean
  <2>2. trash = {}
    BY <2>1 DEF TrashIsMoved, Inv, TypeOK
  <2> QED BY <2>2 DEF Inv, NothingLost, HasImage, TypeOK
<1> QED BY <1>1, StoreInvariant, TrashInvariant, PTL

-----------------------------------------------------------------------------
(* Removal.  As long as no failure was swallowed, what a purge is about to delete *)
(* it holds, unless another call has had it in hand at the same time.            *)

\* A purge handles one file at a time, and deletes when it has handled all of them.
Stages ==
    \A p \in Purges :
       /\ pc[p] \in {"idle", "check", "commit", "empty"} => moving[p] = {}
       /\ \A m, n \in moving[p] : m = n
       /\ pc[p] = "commit" => todo[p] = {}

\* A file is in one place only.
FilesApart ==
    Clean => \A m \in Moments, p \in Purges :
                m \in moved[p] => m \notin media /\ \A q \in Purges : m \in moved[q] => q = p

\* A purge that has died will never move back what it holds.
HeldByDead(m) == \E p \in Purges : pc[p] = "crashed" /\ m \in moved[p]

Selected ==
    Clean => \A p \in Purges : Deleting(p) =>
                \A m \in (rows \cap Before(p)) \ raced :
                   m \in todo[p] \cup moving[p] \cup moved[p] \/ HeldByDead(m)

Deleted ==
    Clean => \A m \in Moments \ (rows \cup raced) :
                pc[m] = "done" /\ HasImage(m) =>
                   \E p \in Purges : m \in moved[p] /\ pc[p] \in {"empty", "crashed"}

Removal == Stages /\ FilesApart /\ Selected /\ Deleted

\* What has once been swallowed stays counted.
LEMMA CleanBefore ==
    ASSUME TypeOK, [Next]_vars, Clean'
    PROVE  Clean
<1> USE FaultsAssumption DEF TypeOK, Clean, Throws, Swallows, budget
<1>1. ASSUME NEW m \in Moments, Add(m) PROVE Clean
  BY <1>1 DEF Add, WriteMedia, WriteThrows, SetAttributes, SetAttributesThrows, InsertRow,
              InsertThrows, RemoveMedia, AddCrashes
<1>2. ASSUME NEW p \in Purges, Purge(p) PROVE Clean
  BY <1>2 DEF Purge, SelectRows, SelectRowsThrows, SelectRowsCutShort, SkipMissing,
              FindFile, MoveToTrash, MoveThrows, BeginImmediate, BeginThrows,
              DeleteAndCommit, CommitThrows, EmptyTrash, RestoreFile, PurgeReturns,
              PurgeRethrows, PurgeCrashes
<1> QED BY <1>1, <1>2 DEF Next, Terminated, vars

\* An add leaves the purges alone; a row it inserts while one of them is at work is
\* raced.
LEMMA AddKeepsRemoval ==
    ASSUME Inv, TrashIsMoved, Removal, NEW m \in Moments, Add(m),
           raced' = raced \cup Meeting, Clean' => Clean
    PROVE  Removal'
<1> USE HistoryAssumption DEF Inv, TypeOK, At, Goto
<1>1. /\ UNCHANGED <<trash, todo, moving, moved>>
      /\ \A p \in Purges : pc'[p] = pc[p]
      /\ \A n \in Moments : n # m => /\ pc'[n] = pc[n]
                                     /\ n \in media' <=> n \in media
                                     /\ n \in rows' <=> n \in rows
      /\ rows \subseteq rows'
  BY DEF Add, WriteMedia, WriteThrows, SetAttributes, SetAttributesThrows, InsertRow,
         InsertThrows, RemoveMedia, AddCrashes
<1>2. pc[m] # "done" /\ m \notin rows
  BY DEF Add, WriteMedia, WriteThrows, SetAttributes, SetAttributesThrows, InsertRow,
         InsertThrows, RemoveMedia, AddCrashes, Adding, RowsAreAdded, Added
<1>3. pc'[m] = "done" => m \in rows'
  BY <1>2 DEF Add, WriteMedia, WriteThrows, SetAttributes, SetAttributesThrows, InsertRow,
         InsertThrows, RemoveMedia, AddCrashes
<1>4. \A p \in Purges : m \notin moved[p]
  BY <1>2 DEF ClaimsAreAdded, Added
<1>5. Stages'
  BY <1>1 DEF Removal, Stages
<1>6. FilesApart'
  BY <1>1, <1>4 DEF Removal, FilesApart, Clean
<1>7. Selected'
  <2> SUFFICES ASSUME Clean', NEW p \in Purges, Deleting(p)',
                      NEW n \in (rows' \cap Before(p)) \ raced'
               PROVE  n \in todo'[p] \cup moving'[p] \cup moved'[p] \/ HeldByDead(n)'
    BY DEF Selected, Before
  <2>1. Deleting(p)
    BY <1>1 DEF Deleting
  <2>2. n \in rows
    <3>1. n \in Moments
      BY DEF Before
    <3> QED BY <1>1, <1>2, <2>1, <3>1 DEF Meeting
  <2>3. n \in todo[p] \cup moving[p] \cup moved[p] \/ HeldByDead(n)
    BY <2>1, <2>2 DEF Removal, Selected
  <2> QED BY <1>1, <2>3 DEF HeldByDead
<1>8. Deleted'
  <2> SUFFICES ASSUME Clean', NEW n \in Moments \ (rows' \cup raced'), pc'[n] = "done",
                      HasImage(n)'
               PROVE  \E p \in Purges : n \in moved'[p] /\ pc'[p] \in {"empty", "crashed"}
    BY DEF Deleted
  <2>1. n # m /\ n \notin rows \cup raced /\ pc[n] = "done" /\ HasImage(n)
    BY <1>1, <1>3 DEF HasImage
  <2> QED BY <1>1, <2>1 DEF Removal, Deleted
<1> QED BY <1>5, <1>6, <1>7, <1>8 DEF Removal

\* Stages and places of files are a matter of the one purge that takes a step.
LEMMA PurgeKeepsPlaces ==
    ASSUME Inv, TrashIsMoved, Stages, FilesApart, NEW p \in Purges, Purge(p),
           Clean' => Clean
    PROVE  Stages' /\ FilesApart'
<1> USE HistoryAssumption, FaultsAssumption
    DEF Inv, TypeOK, Stages, FilesApart, At, Goto, Clean, budget
<1>1. CASE SelectRows(p) \/ SelectRowsThrows(p) \/ SelectRowsCutShort(p)
  BY <1>1 DEF SelectRows, SelectRowsThrows, SelectRowsCutShort
<1>2. CASE BeginImmediate(p) \/ BeginThrows(p) \/ DeleteAndCommit(p) \/ CommitThrows(p)
  BY <1>2 DEF BeginImmediate, BeginThrows, DeleteAndCommit, CommitThrows
<1>3. CASE PurgeReturns(p) \/ PurgeRethrows(p) \/ PurgeCrashes(p)
  BY <1>3 DEF PurgeReturns, PurgeRethrows, PurgeCrashes
<1>4. ASSUME NEW m \in Moments, SkipMissing(p, m) \/ FindFile(p, m) \/ MoveThrows(p, m)
      PROVE  Stages' /\ FilesApart'
  BY <1>4 DEF SkipMissing, FindFile, MoveThrows
<1>5. ASSUME NEW m \in Moments, MoveToTrash(p, m) PROVE Stages' /\ FilesApart'
  <2>1. Stages'
    BY <1>5 DEF MoveToTrash
  <2>2. FilesApart'
    BY <1>5 DEF MoveToTrash
  <2> QED BY <2>1, <2>2
<1>6. ASSUME NEW m \in Moments, EmptyTrash(p, m) PROVE Stages' /\ FilesApart'
  BY <1>6 DEF EmptyTrash
<1>7. ASSUME NEW m \in Moments, RestoreFile(p, m) PROVE Stages' /\ FilesApart'
  <2>1. Stages'
    BY <1>7 DEF RestoreFile
  <2>2. FilesApart'
    BY <1>7 DEF RestoreFile, Swallows
  <2> QED BY <2>1, <2>2
<1> QED BY <1>1, <1>2, <1>3, <1>4, <1>5, <1>6, <1>7 DEF Purge

\* A purge holds what it has selected: what it passes over is held by one that has
\* died, deleted already, or raced.
LEMMA PurgeKeepsSelected ==
    ASSUME Inv, TrashIsMoved, Removal, NEW p \in Purges, Purge(p),
           raced' = raced \cup Meeting, Clean' => Clean
    PROVE  Selected'
<1> USE HistoryAssumption, FaultsAssumption
    DEF Inv, TypeOK, Removal, Selected, Deleting, HeldByDead, At, Goto
<1> SUFFICES ASSUME Clean', NEW q \in Purges, Deleting(q)',
                    NEW n \in (rows' \cap Before(q)) \ raced'
             PROVE  n \in todo'[q] \cup moving'[q] \cup moved'[q] \/ HeldByDead(n)'
  BY DEF Before
<1>0. /\ Clean
      /\ n \in Moments /\ n \in Before(q) /\ n \notin raced
      /\ rows' \subseteq rows
  BY DEF Before, Purge, SelectRows, SelectRowsThrows, SelectRowsCutShort, SkipMissing,
         FindFile, MoveToTrash, MoveThrows, BeginImmediate, BeginThrows, DeleteAndCommit,
         CommitThrows, EmptyTrash, RestoreFile, PurgeReturns, PurgeRethrows, PurgeCrashes
<1>00. Deleting(q) => n \in todo[q] \cup moving[q] \cup moved[q] \/ HeldByDead(n)
  BY <1>0
<1>1. CASE SelectRows(p)
  BY <1>0, <1>00, <1>1 DEF SelectRows
<1>2. CASE SelectRowsThrows(p)
  BY <1>0, <1>00, <1>2 DEF SelectRowsThrows
<1>3. CASE SelectRowsCutShort(p)
  BY <1>0, <1>3 DEF SelectRowsCutShort, Swallows, Clean
<1>4. CASE BeginImmediate(p) \/ BeginThrows(p) \/ DeleteAndCommit(p) \/ CommitThrows(p)
  BY <1>0, <1>00, <1>4 DEF BeginImmediate, BeginThrows, DeleteAndCommit, CommitThrows
<1>5. CASE PurgeReturns(p) \/ PurgeRethrows(p) \/ PurgeCrashes(p)
  BY <1>0, <1>00, <1>5 DEF PurgeReturns, PurgeRethrows, PurgeCrashes
<1>6. ASSUME NEW m \in Moments, SkipMissing(p, m)
      PROVE  n \in todo'[q] \cup moving'[q] \cup moved'[q] \/ HeldByDead(n)'
  <2>1. CASE p # q \/ m # n
    BY <1>0, <1>00, <1>6, <2>1 DEF SkipMissing
  <2>2. CASE p = q /\ m = n
    <3>1. n \notin media /\ n \in rows /\ n \in todo[p] /\ n \notin todo'[p]
      BY <1>0, <1>6, <2>2 DEF SkipMissing
    <3>2. PICK holder \in Purges : n \in moved[holder]
      BY <1>0, <3>1 DEF NothingLost, HasImage, TrashIsMoved
    <3>3. ~Undecided(holder)
      BY <1>0, <3>1, <3>2 DEF Meeting
    <3>4. pc[holder] = "crashed"
      BY <3>1, <3>2, <3>3 DEF Undecided, PurgePoints, TrashIsMoved, EmptiesDeleted
    <3> QED BY <1>6, <3>2, <3>4 DEF SkipMissing
  <2> QED BY <2>1, <2>2
<1>7. ASSUME NEW m \in Moments, FindFile(p, m) \/ MoveToTrash(p, m) \/ MoveThrows(p, m)
      PROVE  n \in todo'[q] \cup moving'[q] \cup moved'[q] \/ HeldByDead(n)'
  <2>1. CASE FindFile(p, m)
    BY <1>0, <1>00, <2>1 DEF FindFile, Stages
  <2>2. CASE MoveToTrash(p, m)
    <3>1. pc[p] = "move" /\ moving[p] \ moving'[p] \subseteq moved'[p]
      BY <2>2 DEF MoveToTrash, Stages
    <3> QED BY <1>0, <1>00, <2>2, <3>1 DEF MoveToTrash
  <2>3. CASE MoveThrows(p, m)
    BY <1>0, <1>00, <2>3 DEF MoveThrows
  <2> QED BY <1>7, <2>1, <2>2, <2>3
<1>8. ASSUME NEW m \in Moments, EmptyTrash(p, m) \/ RestoreFile(p, m)
      PROVE  n \in todo'[q] \cup moving'[q] \cup moved'[q] \/ HeldByDead(n)'
  BY <1>0, <1>00, <1>8 DEF EmptyTrash, RestoreFile
<1> QED BY <1>1, <1>2, <1>3, <1>4, <1>5, <1>6, <1>7, <1>8 DEF Purge

\* A purge that deletes a row holds its file until it has removed it, and what it may
\* still move back has its row.
LEMMA PurgeKeepsDeleted ==
    ASSUME Inv, TrashIsMoved, Removal, NEW p \in Purges, Purge(p),
           raced \subseteq raced', Clean' => Clean
    PROVE  Deleted'
<1> USE HistoryAssumption, FaultsAssumption
    DEF Inv, TypeOK, Removal, Deleted, HasImage, At, Goto
<1> SUFFICES ASSUME Clean', NEW n \in Moments \ (rows' \cup raced'), pc'[n] = "done",
                    HasImage(n)'
             PROVE  \E q \in Purges : n \in moved'[q] /\ pc'[q] \in {"empty", "crashed"}
  OBVIOUS
<1>0. /\ Clean
      /\ n \notin raced
      /\ \A m \in Moments, q \in Purges : <<m, q>> \in trash <=> m \in moved[q]
  BY DEF TrashIsMoved
<1>00. pc[n] = "done"
  BY DEF Purge, SelectRows, SelectRowsThrows, SelectRowsCutShort, SkipMissing, FindFile,
         MoveToTrash, MoveThrows, BeginImmediate, BeginThrows, DeleteAndCommit,
         CommitThrows, EmptyTrash, RestoreFile, PurgeReturns, PurgeRethrows, PurgeCrashes
<1>000. n \notin rows /\ HasImage(n) =>
           \E q \in Purges : n \in moved[q] /\ pc[q] \in {"empty", "crashed"}
  BY <1>0, <1>00
<1>1. CASE SelectRows(p) \/ SelectRowsThrows(p) \/ SelectRowsCutShort(p)
  BY <1>000, <1>1 DEF SelectRows, SelectRowsThrows, SelectRowsCutShort
<1>2. CASE BeginImmediate(p) \/ BeginThrows(p) \/ CommitThrows(p)
  BY <1>000, <1>2 DEF BeginImmediate, BeginThrows, CommitThrows
<1>3. CASE PurgeReturns(p) \/ PurgeRethrows(p) \/ PurgeCrashes(p)
  BY <1>000, <1>3 DEF PurgeReturns, PurgeRethrows, PurgeCrashes
<1>4. CASE DeleteAndCommit(p)
  <2>1. CASE n \notin rows
    BY <1>000, <1>4, <2>1 DEF DeleteAndCommit
  <2>2. CASE n \in rows
    <3>1. n \in Before(p) /\ Deleting(p) /\ todo[p] = {} /\ moving[p] = {}
      BY <1>4, <2>2 DEF DeleteAndCommit, Deleting, Stages
    <3>2. n \in moved[p] \/ HeldByDead(n)
      BY <1>0, <2>2, <3>1 DEF Selected
    <3> QED BY <1>4, <3>2 DEF DeleteAndCommit, HeldByDead
  <2> QED BY <2>1, <2>2
<1>5. ASSUME NEW m \in Moments, SkipMissing(p, m) \/ FindFile(p, m) \/ MoveThrows(p, m)
      PROVE  \E q \in Purges : n \in moved'[q] /\ pc'[q] \in {"empty", "crashed"}
  BY <1>000, <1>5 DEF SkipMissing, FindFile, MoveThrows
<1>6. ASSUME NEW m \in Moments, MoveToTrash(p, m)
      PROVE  \E q \in Purges : n \in moved'[q] /\ pc'[q] \in {"empty", "crashed"}
  <2>1. n \notin rows /\ HasImage(n)
    BY <1>6 DEF MoveToTrash
  <2> QED BY <1>000, <1>6, <2>1 DEF MoveToTrash
<1>7. ASSUME NEW m \in Moments, EmptyTrash(p, m)
      PROVE  \E q \in Purges : n \in moved'[q] /\ pc'[q] \in {"empty", "crashed"}
  <2>1. trash' = trash \ {<<m, p>>} /\ media' = media /\ rows' = rows
    BY <1>0, <1>7 DEF EmptyTrash, Swallows, Clean
  <2>2. n # m
    BY <1>0, <1>7, <2>1 DEF EmptyTrash, FilesApart
  <2>3. n \notin rows /\ HasImage(n)
    BY <2>1
  <2> QED BY <1>000, <1>7, <2>2, <2>3 DEF EmptyTrash
<1>8. ASSUME NEW m \in Moments, RestoreFile(p, m)
      PROVE  \E q \in Purges : n \in moved'[q] /\ pc'[q] \in {"empty", "crashed"}
  <2>1. n \notin rows /\ HasImage(n)
    BY <1>0, <1>8 DEF RestoreFile
  <2>2. PICK q \in Purges : n \in moved[q] /\ pc[q] \in {"empty", "crashed"}
    BY <1>000, <2>1
  <2> QED BY <1>8, <2>2 DEF RestoreFile
<1> QED BY <1>1, <1>2, <1>3, <1>4, <1>5, <1>6, <1>7, <1>8 DEF Purge

LEMMA RemovalInvariant == Spec => []Removal
<1>1. Init => Removal
  BY HistoryAssumption
     DEF Init, Removal, Stages, FilesApart, Selected, Deleting, Deleted, HasImage
<1>2. Inv /\ TrashIsMoved /\ Removal /\ [Next]_vars => Removal'
  <2> SUFFICES ASSUME Inv, TrashIsMoved, Removal, [Next]_vars PROVE Removal'
    OBVIOUS
  <2>1. Clean' => Clean
    BY CleanBefore DEF Inv
  <2>2. ASSUME NEW m \in Moments, Add(m), raced' = raced \cup Meeting PROVE Removal'
    BY <2>1, <2>2, AddKeepsRemoval
  <2>3. ASSUME NEW p \in Purges, Purge(p), raced' = raced \cup Meeting PROVE Removal'
    BY <2>1, <2>3, PurgeKeepsPlaces, PurgeKeepsSelected, PurgeKeepsDeleted DEF Removal
  <2>4. CASE UNCHANGED vars
    BY <2>4 DEF vars, Removal, Stages, FilesApart, Selected, Deleting, HeldByDead, Deleted,
                HasImage, Clean, Before
  <2> QED BY <2>2, <2>3, <2>4 DEF Next, Terminated
<1> QED BY <1>1, <1>2, StoreInvariant, TrashInvariant, PTL DEF Spec

(* Retention removes rows and images together, whatever throws and crashes: the *)
(* only images that outlive their rows are those of moments that another call   *)
(* had in hand meanwhile.                                                       *)
THEOREM RetentionIsWhole == Spec => []RemovedTogether
<1>1. TrashIsMoved /\ Removal => RemovedTogether
  <2> SUFFICES ASSUME TrashIsMoved, Removal, Clean, NEW m \in Moments \ (rows \cup raced),
                      pc[m] = "done", HasImage(m)
               PROVE  /\ m \notin media
                      /\ \E p \in Purges : <<m, p>> \in trash /\ pc[p] \in {"empty", "crashed"}
    BY DEF RemovedTogether, Clean, At
  <2>1. PICK p \in Purges : m \in moved[p] /\ pc[p] \in {"empty", "crashed"}
    BY DEF Removal, Deleted
  <2> QED BY <2>1 DEF Removal, FilesApart, TrashIsMoved
<1> QED BY <1>1, TrashInvariant, RemovalInvariant, PTL

=============================================================================
