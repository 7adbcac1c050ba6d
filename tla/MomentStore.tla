----------------------------- MODULE MomentStore -----------------------------
(***************************************************************************)
(* The history on disk (RecallStore.swift): the table moments, the media   *)
(* tree and the .trash directory, as add(_:) of the daemon and any number  *)
(* of purge(before:) calls in other processes change them.  SQLite makes   *)
(* each statement and each transaction atomic; the file operations before, *)
(* between and after them are separate steps, each of which may throw, and *)
(* each process may crash between any two.                                 *)
(***************************************************************************)
EXTENDS Naturals

CONSTANTS
    Moments,       \* moments; every one has an id and a media path of its own
    Stored,        \* the moments of earlier days, stored before the start
    Purges,        \* calls of purge(before:), each in a process of its own
    CapturedAt,    \* captured_at of each moment
    Cutoff,        \* the cutoff of each purge
    MaxFaults,     \* bound: calls that throw
    MaxSwallowed,  \* bound: failures that a `try?` hides
    MaxCrashes     \* bound: crashes of a process

ASSUME HistoryAssumption ==
    /\ Stored \subseteq Moments
    /\ Moments \cap Purges = {}
    /\ CapturedAt \in [Moments -> Nat]
    /\ Cutoff \in [Purges -> Nat]

ASSUME FaultsAssumption ==
    /\ MaxFaults \in Nat
    /\ MaxSwallowed \in Nat
    /\ MaxCrashes \in Nat

VARIABLES
    rows,       \* moments that have a row
    media,      \* moments whose file is at its media path
    trash,      \* <<m, p>>: the file of m, renamed into .trash by purge p
    pc,         \* where the add of each moment and each purge stands
    todo,       \* of each purge: the rows of mediaRows(before:) not yet handled
    moving,     \* of each purge: the file it has found and is about to move
    moved,      \* of each purge: its array `moved`, less what it has undone
    faults, swallowed, crashes,
    raced       \* history: the moments that two calls have had in hand at once

vars == <<rows, media, trash, pc, todo, moving, moved, faults, swallowed,
          crashes, raced>>
budget == <<faults, swallowed, crashes>>

Before(p) == {m \in Moments : CapturedAt[m] < Cutoff[p]}

Init ==
    /\ rows = Stored
    /\ media = Stored
    /\ trash = {}
    /\ pc = [t \in Moments \cup Purges |-> IF t \in Stored THEN "done" ELSE "idle"]
    /\ todo = [p \in Purges |-> {}]
    /\ moving = [p \in Purges |-> {}]
    /\ moved = [p \in Purges |-> {}]
    /\ faults = 0 /\ swallowed = 0 /\ crashes = 0
    /\ raced = {}

At(t, point) == pc[t] = point
Goto(t, point) == pc' = [pc EXCEPT ![t] = point]

\* BEGIN IMMEDIATE holds SQLite's write lock until COMMIT or ROLLBACK, and a
\* crash releases it.
Locked == \E p \in Purges : At(p, "commit")

Throws == faults < MaxFaults /\ faults' = faults + 1 /\ UNCHANGED <<swallowed, crashes>>
Swallows == swallowed < MaxSwallowed /\ swallowed' = swallowed + 1
                                     /\ UNCHANGED <<faults, crashes>>

-----------------------------------------------------------------------------
(* add(_:), serialised by the store actor of the daemon                    *)

Adding(m) == pc[m] \in {"attributes", "insert", "remove"}

\* imageData.write(options: .atomic): the whole file or none.
WriteMedia(m) ==
    /\ At(m, "idle")
    /\ \A n \in Moments : ~Adding(n)
    /\ media' = media \cup {m}
    /\ Goto(m, "attributes")
    /\ UNCHANGED <<rows, trash, todo, moving, moved, budget>>

\* The directory or the file cannot be written.
WriteThrows(m) ==
    /\ At(m, "idle")
    /\ \A n \in Moments : ~Adding(n)
    /\ Throws
    /\ Goto(m, "failed")
    /\ UNCHANGED <<rows, media, trash, todo, moving, moved>>

\* setAttributes; its catch rethrows and leaves the file.
SetAttributes(m) ==
    /\ At(m, "attributes")
    /\ Goto(m, "insert")
    /\ UNCHANGED <<rows, media, trash, todo, moving, moved, budget>>

SetAttributesThrows(m) ==
    /\ At(m, "attributes")
    /\ Throws
    /\ Goto(m, "failed")
    /\ UNCHANGED <<rows, media, trash, todo, moving, moved>>

InsertRow(m) ==
    /\ At(m, "insert") /\ ~Locked
    /\ rows' = rows \cup {m}
    /\ Goto(m, "done")
    /\ UNCHANGED <<media, trash, todo, moving, moved, budget>>

\* The statement fails, or waits busy_timeout for another process's lock.
InsertThrows(m) ==
    /\ At(m, "insert")
    /\ \/ Throws
       \/ Locked /\ UNCHANGED budget
    /\ Goto(m, "remove")
    /\ UNCHANGED <<rows, media, trash, todo, moving, moved>>

\* try? removeItem(at: mediaURL)
RemoveMedia(m) ==
    /\ At(m, "remove")
    /\ \/ media' = media \ {m} /\ UNCHANGED budget
       \/ Swallows /\ UNCHANGED media
    /\ Goto(m, "failed")
    /\ UNCHANGED <<rows, trash, todo, moving, moved>>

\* The daemon dies between two steps of an add.
AddCrashes(m) ==
    /\ Adding(m)
    /\ crashes < MaxCrashes /\ crashes' = crashes + 1
    /\ Goto(m, "crashed")
    /\ UNCHANGED <<rows, media, trash, todo, moving, moved, faults, swallowed>>

Add(m) ==
    \/ WriteMedia(m) \/ WriteThrows(m)
    \/ SetAttributes(m) \/ SetAttributesThrows(m)
    \/ InsertRow(m) \/ InsertThrows(m) \/ RemoveMedia(m)
    \/ AddCrashes(m)

-----------------------------------------------------------------------------
(* purge(before:)                                                          *)

\* Faulty, for the checks: the SELECT without its WHERE.
SelectRowsAll(p) ==
    /\ At(p, "idle")
    /\ todo' = [todo EXCEPT ![p] = rows]
    /\ Goto(p, IF rows = {} THEN "done" ELSE "check")
    /\ UNCHANGED <<rows, media, trash, moving, moved, budget>>

\* mediaRows(before:); without rows there is nothing to do.
SelectRows(p) ==
    /\ At(p, "idle")
    /\ todo' = [todo EXCEPT ![p] = rows \cap Before(p)]
    /\ Goto(p, IF rows \cap Before(p) = {} THEN "done" ELSE "check")
    /\ UNCHANGED <<rows, media, trash, moving, moved, budget>>

\* mediaRows, or preparing the trash directory, throws: nothing is moved yet.
SelectRowsThrows(p) ==
    /\ At(p, "idle")
    /\ Throws
    /\ Goto(p, "failed")
    /\ UNCHANGED <<rows, media, trash, todo, moving, moved>>

\* An error while stepping through the rows looks like the end of the rows.
SelectRowsCutShort(p) ==
    /\ At(p, "idle")
    /\ Swallows
    /\ \E found \in SUBSET (rows \cap Before(p)) :
         /\ todo' = [todo EXCEPT ![p] = found]
         /\ Goto(p, IF found = {} THEN "done" ELSE "check")
    /\ UNCHANGED <<rows, media, trash, moving, moved>>

\* `guard fileExists(atPath: original.path) else { continue }`
SkipMissing(p, m) ==
    /\ At(p, "check") /\ m \in todo[p]
    /\ m \notin media
    /\ todo' = [todo EXCEPT ![p] = @ \ {m}]
    /\ UNCHANGED <<rows, media, trash, pc, moving, moved, budget>>

FindFile(p, m) ==
    /\ At(p, "check") /\ m \in todo[p]
    /\ m \in media
    /\ todo' = [todo EXCEPT ![p] = @ \ {m}]
    /\ moving' = [moving EXCEPT ![p] = {m}]
    /\ Goto(p, "move")
    /\ UNCHANGED <<rows, media, trash, moved, budget>>

MoveToTrash(p, m) ==
    /\ At(p, "move") /\ m \in moving[p]
    /\ m \in media
    /\ media' = media \ {m}
    /\ trash' = trash \cup {<<m, p>>}
    /\ moved' = [moved EXCEPT ![p] = @ \cup {m}]
    /\ moving' = [moving EXCEPT ![p] = {}]
    /\ Goto(p, "check")
    /\ UNCHANGED <<rows, todo, budget>>

\* The path is not a valid one, moveItem fails, or another purge has moved the
\* file since it was found.
MoveThrows(p, m) ==
    /\ \/ At(p, "check") /\ m \in todo[p] /\ Throws
       \/ At(p, "move") /\ m \in moving[p] /\ Throws
       \/ At(p, "move") /\ m \in moving[p] /\ m \notin media /\ UNCHANGED budget
    /\ Goto(p, "restore")
    /\ UNCHANGED <<rows, media, trash, todo, moving, moved>>

\* BEGIN IMMEDIATE, once every row is handled.
BeginImmediate(p) ==
    /\ At(p, "check") /\ todo[p] = {}
    /\ ~Locked
    /\ Goto(p, "commit")
    /\ UNCHANGED <<rows, media, trash, todo, moving, moved, budget>>

\* Faulty: BEGIN outside the do block whose catch restores the files.
BeginThrowsOutside(p) ==
    /\ At(p, "check") /\ todo[p] = {}
    /\ \/ Throws
       \/ Locked /\ UNCHANGED budget
    /\ Goto(p, "failed")
    /\ UNCHANGED <<rows, media, trash, todo, moving, moved>>

\* It fails, or waits busy_timeout for another process's lock.
BeginThrows(p) ==
    /\ At(p, "check") /\ todo[p] = {}
    /\ \/ Throws
       \/ Locked /\ UNCHANGED budget
    /\ Goto(p, "restore")
    /\ UNCHANGED <<rows, media, trash, todo, moving, moved>>

\* Faulty: only the rows whose files were moved are deleted.
DeleteMoved(p) ==
    /\ At(p, "commit")
    /\ rows' = rows \ moved[p]
    /\ Goto(p, "empty")
    /\ UNCHANGED <<media, trash, todo, moving, moved, budget>>

\* DELETE by the cutoff, whatever mediaRows had found, and COMMIT.
DeleteAndCommit(p) ==
    /\ At(p, "commit")
    /\ rows' = rows \ Before(p)
    /\ Goto(p, "empty")
    /\ UNCHANGED <<media, trash, todo, moving, moved, budget>>

\* Faulty: the trash is emptied although the transaction failed (`try? COMMIT`).
CommitThrowsUnseen(p) ==
    /\ At(p, "commit")
    /\ Throws
    /\ Goto(p, "empty")
    /\ UNCHANGED <<rows, media, trash, todo, moving, moved>>

\* DELETE or COMMIT fails: ROLLBACK.
CommitThrows(p) ==
    /\ At(p, "commit")
    /\ Throws
    /\ Goto(p, "restore")
    /\ UNCHANGED <<rows, media, trash, todo, moving, moved>>

\* Faulty: `try`, so that a file that cannot be removed ends in the catch.
EmptyTrashThrows(p, m) ==
    /\ At(p, "empty") /\ m \in moved[p]
    /\ \/ /\ trash' = trash \ {<<m, p>>}
          /\ moved' = [moved EXCEPT ![p] = @ \ {m}]
          /\ UNCHANGED <<pc, budget>>
       \/ Throws /\ Goto(p, "restore") /\ UNCHANGED <<trash, moved>>
    /\ UNCHANGED <<rows, media, todo, moving>>

\* try? removeItem(at: item.trash)
EmptyTrash(p, m) ==
    /\ At(p, "empty") /\ m \in moved[p]
    /\ \/ trash' = trash \ {<<m, p>>} /\ UNCHANGED budget
       \/ Swallows /\ UNCHANGED trash
    /\ moved' = [moved EXCEPT ![p] = @ \ {m}]
    /\ UNCHANGED <<rows, media, pc, todo, moving>>

\* Faulty: the rollback removes the file instead of moving it back.
RestoreFileRemoves(p, m) ==
    /\ At(p, "restore") /\ m \in moved[p]
    /\ trash' = trash \ {<<m, p>>}
    /\ moved' = [moved EXCEPT ![p] = @ \ {m}]
    /\ UNCHANGED <<rows, media, pc, todo, moving, budget>>

\* try? moveItem(at: item.trash, to: item.original)
RestoreFile(p, m) ==
    /\ At(p, "restore") /\ m \in moved[p]
    /\ \/ trash' = trash \ {<<m, p>>} /\ media' = media \cup {m} /\ UNCHANGED budget
       \/ Swallows /\ UNCHANGED <<trash, media>>
    /\ moved' = [moved EXCEPT ![p] = @ \ {m}]
    /\ UNCHANGED <<rows, pc, todo, moving>>

PurgeReturns(p) ==
    /\ At(p, "empty") /\ moved[p] = {}
    /\ Goto(p, "done")
    /\ UNCHANGED <<rows, media, trash, todo, moving, moved, budget>>

PurgeRethrows(p) ==
    /\ At(p, "restore") /\ moved[p] = {}
    /\ Goto(p, "failed")
    /\ UNCHANGED <<rows, media, trash, todo, moving, moved, budget>>

Ended(t) == pc[t] \in {"done", "failed", "crashed"}

\* The process dies; SQLite rolls its transaction back.
PurgeCrashes(p) ==
    /\ ~At(p, "idle") /\ ~Ended(p)
    /\ crashes < MaxCrashes /\ crashes' = crashes + 1
    /\ Goto(p, "crashed")
    /\ UNCHANGED <<rows, media, trash, todo, moving, moved, faults, swallowed>>

Purge(p) ==
    \/ SelectRows(p) \/ SelectRowsThrows(p) \/ SelectRowsCutShort(p)
    \/ \E m \in Moments :
         \/ SkipMissing(p, m) \/ FindFile(p, m)
         \/ MoveToTrash(p, m) \/ MoveThrows(p, m)
         \/ EmptyTrash(p, m) \/ RestoreFile(p, m)
    \/ BeginImmediate(p) \/ BeginThrows(p)
    \/ DeleteAndCommit(p) \/ CommitThrows(p)
    \/ PurgeReturns(p) \/ PurgeRethrows(p)
    \/ PurgeCrashes(p)

-----------------------------------------------------------------------------
Deleting(p) == pc[p] \in {"check", "move", "commit"}

\* p may still move back what it has moved.
Undecided(p) == Deleting(p) \/ At(p, "restore")

\* The moments that a step makes two calls share: their rows are inserted between the
\* SELECT and the DELETE of a purge that covers them, or a purge passes over them
\* because another one, which may still fail, has their file.
Meeting ==
    {m \in Moments \ rows : m \in rows' /\ \E p \in Purges : Deleting(p) /\ m \in Before(p)}
    \cup {m \in Moments \ media : \E p, q \in Purges :
             m \in todo[p] \ todo'[p] /\ m \in moved[q] /\ Undecided(q)}

Quiet == \A t \in Moments \cup Purges : Ended(t) \/ (t \in Moments /\ At(t, "idle"))

Terminated == Quiet /\ UNCHANGED vars

Next ==
    \/ /\ (\E m \in Moments : Add(m)) \/ (\E p \in Purges : Purge(p))
       /\ raced' = raced \cup Meeting
    \/ Terminated

Spec == Init /\ [][Next]_vars

-----------------------------------------------------------------------------
AddPoints == {"idle", "attributes", "insert", "remove", "done", "failed", "crashed"}
PurgePoints == {"idle", "check", "move", "commit", "empty", "restore",
                "done", "failed", "crashed"}

\* Types; a purge only ever handles moments captured before its own cutoff, and
\* SQLite has one writer at a time.
TypeOK ==
    /\ rows \subseteq Moments
    /\ media \subseteq Moments
    /\ trash \subseteq Moments \X Purges
    /\ DOMAIN pc = Moments \cup Purges
    /\ \A m \in Moments : pc[m] \in AddPoints
    /\ \A p \in Purges : pc[p] \in PurgePoints
    /\ DOMAIN todo = Purges /\ DOMAIN moving = Purges /\ DOMAIN moved = Purges
    /\ \A p \in Purges : todo[p] \cup moving[p] \cup moved[p] \subseteq Before(p)
    /\ faults \in 0 .. MaxFaults
    /\ swallowed \in 0 .. MaxSwallowed
    /\ crashes \in 0 .. MaxCrashes
    /\ raced \subseteq Moments

HasImage(m) == m \in media \/ \E p \in Purges : <<m, p>> \in trash

\* Whatever throws, crashes or races, no step of add or purge destroys the image
\* of a moment that the history still holds: it is at its media path or in the
\* trash.
NothingLost == \A m \in rows : HasImage(m)

\* The history as its owner sees it: a moment joins when it is added and leaves
\* only by a purge whose cutoff covers it, all such moments at once.
History == INSTANCE RetainedHistory WITH kept <- {m \in rows : HasImage(m)}

\* Media moves, failures, rollbacks and crashes are invisible in it.
ImplementsHistory == History!Spec

\* Unless a process has died or a failure has been swallowed, a moment is never left
\* half purged: once everything has ended, every row has its file in place again
\* and the trash is empty, whatever threw and however adds and purges overlapped.
Consistent ==
    Quiet /\ crashes = 0 /\ swallowed = 0 => rows \subseteq media /\ trash = {}

\* "retention removes media, SQLite, and FTS together" (docs/evidence.md:28), whatever
\* throws or crashes, as far as the moments are concerned that no two calls shared and
\* failures that a `try?` does not hide: once its row is gone, the image of a moment is
\* nowhere but in the trash of a purge that is about to empty it, or has died.
RemovedTogether ==
    swallowed = 0 =>
       \A m \in Moments \ (rows \cup raced) :
          At(m, "done") /\ HasImage(m) =>
             /\ m \notin media
             /\ \E p \in Purges : <<m, p>> \in trash /\ pc[p] \in {"empty", "crashed"}

\* "retention removes media, SQLite, and FTS together" (docs/evidence.md:28): once
\* everything has ended, an image remains only where a row does.
RetentionRemovesTogether == Quiet => \A m \in Moments : HasImage(m) => m \in rows

=============================================================================
