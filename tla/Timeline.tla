------------------------------- MODULE Timeline -------------------------------
(***************************************************************************)
(* From a captured frame to a searchable moment: the exclusion policy      *)
(* (ExclusionPolicy.swift), CapturePipeline.process with its memory of the *)
(* last stored frame (CapturePipeline.swift), and the table moments with   *)
(* the full-text index its triggers maintain (RecallStore.swift), while    *)
(* `star` and `purge` run in other processes.  A frame that is excluded or *)
(* a duplicate changes nothing here; what the daemon counts of it is in    *)
(* RecallDaemon, and the media files are in MomentStore.                   *)
(***************************************************************************)
EXTENDS Naturals, Sequences

CONSTANTS
    Images,       \* what a screen can show; its encoding has a hash of its own
    NoImage,      \* previousFrameHash = nil
    Text,         \* the words Vision reads in each image
    Contexts,     \* AppContext: [name, bundle, title], the title as its words
    Blank,        \* an application name of white space only
    NoBundle,     \* bundleIdentifier = nil
    Policy,       \* ExclusionPolicy: [bundles, names, markers, unknown]
    Fold(_),      \* a word or a name without its case
    Times,        \* what the wall clock can say; it may be set back
    MaxMoments,   \* bound: moments stored
    MaxLives      \* bound: lives of the daemon

ASSUME TimelineAssumption ==
    /\ NoImage \notin Images
    /\ Times \subseteq Nat
    /\ MaxMoments \in Nat
    /\ MaxLives \in Nat

ASSUME TitlesAssumption == \A context \in Contexts : Len(context.title) \in Nat

\* Markers are lower-case sequences of words.  decision(for:) lowercases the title
\* and never the marker; those it has by default (ExclusionPolicy.swift:23-27) are
\* lower case, and runDaemon (RappRecallCLI.swift:247) gives it no others.
ASSUME MarkersAssumption ==
    \A marker \in Policy.markers :
       Len(marker) \in Nat /\ marker = [k \in 1 .. Len(marker) |-> Fold(marker[k])]

VARIABLES
    rows,      \* the table moments
    index,     \* moments_fts: the words it holds of each row id
    added,     \* every moment ever inserted, [image, life]; an id is a place in it
    inflight,  \* frames inside CapturePipeline.process
    previous,  \* previousFrameHash
    life       \* the daemon that runs; previousFrameHash is of one life

vars == <<rows, index, added, inflight, previous, life>>

Init ==
    /\ rows = {}
    /\ index = {}
    /\ added = <<>>
    /\ inflight = {}
    /\ previous = NoImage
    /\ life = 1

-----------------------------------------------------------------------------
(* ExclusionPolicy.decision(for:)                                          *)

\* Does phrase occur in text, word by word?
Occurs(phrase, text) ==
    \E i \in 0 .. Len(text) - Len(phrase) :
       \A j \in 1 .. Len(phrase) : text[i + j] = phrase[j]

FoldAll(text) == [i \in 1 .. Len(text) |-> Fold(text[i])]

Unknown(context) == context.name = Blank /\ Policy.unknown

ExcludedApplication(context) ==
    \/ context.bundle # NoBundle /\ context.bundle \in Policy.bundles
    \/ \E name \in Policy.names : Fold(name) = Fold(context.name)

\* Faulty, for the checks: the title is compared as it is written.
PrivateWindowAsWritten(context) ==
    \E marker \in Policy.markers : Occurs(marker, context.title)

PrivateWindow(context) ==
    \E marker \in Policy.markers : Occurs(marker, FoldAll(context.title))

Excluded(context) ==
    Unknown(context) \/ ExcludedApplication(context) \/ PrivateWindow(context)

-----------------------------------------------------------------------------
(* The triggers of moments: what they put into, and take out of, the index *)

\* The columns of moments_fts; a missing title is indexed as the empty one.
Posting(row) ==
    [id |-> row.id,
     columns |-> {FoldAll(row.text), <<Fold(row.context.name)>>,
                  FoldAll(row.context.title)}]

Postings(set) == {Posting(row) : row \in set}

-----------------------------------------------------------------------------
(* CapturePipeline.process, called by RecallDaemon.receive                 *)

\* Faulty: without the daemon's processingFrame, and the actor is reentrant.
ReceiveReentrant(image, context, time) ==
    /\ ~Excluded(context)
    /\ image # previous
    /\ inflight' = inflight \cup {[step |-> "ocr", image |-> image,
                                   context |-> context, at |-> time]}
    /\ UNCHANGED <<rows, index, added, previous, life>>

\* Faulty: the frame is remembered before it is stored.
ReceiveRemembers(image, context, time) ==
    /\ inflight = {}
    /\ ~Excluded(context)
    /\ image # previous
    /\ inflight' = {[step |-> "ocr", image |-> image,
                     context |-> context, at |-> time]}
    /\ previous' = image
    /\ UNCHANGED <<rows, index, added, life>>

\* guard !processingFrame, then process(_:) up to its first await: the policy
\* before anything else, encode, hash, compare.
Receive(image, context, time) ==
    /\ inflight = {}
    /\ ~Excluded(context)
    /\ image # previous
    /\ inflight' = {[step |-> "ocr", image |-> image,
                     context |-> context, at |-> time]}
    /\ UNCHANGED <<rows, index, added, previous, life>>

\* extractText returns, and process(_:) waits for the store.
ExtractText(frame) ==
    /\ frame.step = "ocr"
    /\ inflight' = (inflight \ {frame}) \cup {[frame EXCEPT !.step = "add"]}
    /\ UNCHANGED <<rows, index, added, previous, life>>

\* AUTOINCREMENT: an id is used once.
NextId == Len(added) + 1

\* The row that add(_:) writes.
RowOf(frame) ==
    [id |-> NextId, image |-> frame.image, text |-> Text[frame.image],
     context |-> frame.context, at |-> frame.at, starred |-> FALSE]

\* INSERT INTO moments, with moments_after_insert in the same transaction.
Insert(frame) ==
    /\ frame.step = "add"
    /\ rows' = rows \cup {RowOf(frame)}
    /\ index' = index \cup Postings({RowOf(frame)})
    /\ added' = Append(added, [image |-> frame.image, life |-> life])
    /\ inflight' = (inflight \ {frame}) \cup {[frame EXCEPT !.step = "remember"]}
    /\ UNCHANGED <<previous, life>>

\* previousFrameHash = frameHash, when add(_:) has returned.
Remember(frame) ==
    /\ frame.step = "remember"
    /\ previous' = frame.image
    /\ inflight' = inflight \ {frame}
    /\ UNCHANGED <<rows, index, added, life>>

\* The daemon stops, dies, or ends because encode, extractText or add has thrown;
\* another is started.
Restart ==
    /\ life < MaxLives
    /\ life' = life + 1
    /\ inflight' = {}
    /\ previous' = NoImage
    /\ UNCHANGED <<rows, index, added>>

-----------------------------------------------------------------------------
(* setStarred and purge(before:), in processes of their own                *)

Starring(row, starred) == [row EXCEPT !.starred = starred]

\* Faulty: moments_after_update takes the words out and does not put them back.
SetStarredUnindexed(starred, id) ==
    LET hit == {row \in rows : row.id = id}
    IN  /\ rows' = (rows \ hit) \cup {Starring(row, starred) : row \in hit}
        /\ index' = index \ Postings(hit)
        /\ UNCHANGED <<added, inflight, previous, life>>

\* UPDATE moments SET starred, with moments_after_update: the words of the old
\* row out, those of the new row in.  No row with the id: momentNotFound.
SetStarred(starred, id) ==
    LET hit == {row \in rows : row.id = id}
        new == {Starring(row, starred) : row \in hit}
    IN  /\ rows' = (rows \ hit) \cup new
        /\ index' = (index \ Postings(hit)) \cup Postings(new)
        /\ UNCHANGED <<added, inflight, previous, life>>

\* DELETE FROM moments WHERE captured_at < ?, with moments_after_delete.
Purge(cutoff) ==
    LET old == {row \in rows : row.at < cutoff}
    IN  /\ rows' = rows \ old
        /\ index' = index \ Postings(old)
        /\ UNCHANGED <<added, inflight, previous, life>>

Process ==
    \/ \E image \in Images, context \in Contexts, time \in Times :
         Len(added) < MaxMoments /\ Receive(image, context, time)
    \/ \E frame \in inflight : ExtractText(frame) \/ Insert(frame) \/ Remember(frame)

Next ==
    \/ Process
    \/ Restart
    \/ \E id \in 1 .. Len(added), starred \in BOOLEAN : SetStarred(starred, id)
    \/ \E cutoff \in Times : Purge(cutoff)

Spec == Init /\ [][Next]_vars

-----------------------------------------------------------------------------
Frames == [step : {"ocr", "add", "remember"}, image : Images,
           context : Contexts, at : Times]

Rows == [id : 1 .. Len(added), image : Images, text : {Text[i] : i \in Images},
         context : Contexts, at : Times, starred : BOOLEAN]

\* Types; an id names one row, and process(_:) has one frame at a time.
TypeOK ==
    /\ rows \subseteq Rows
    /\ \A r, s \in rows : r.id = s.id => r = s
    /\ added \in Seq([image : Images, life : 1 .. life])
    /\ inflight \subseteq Frames
    /\ \A f, g \in inflight : f = g
    /\ previous \in Images \cup {NoImage}
    /\ life \in Nat \ {0}

\* "The schema uses a content-backed FTS5 table and triggers so text index rows
\* cannot drift from moment rows" (docs/architecture.md:57): whatever adds, stars
\* and purges have overlapped, the index holds the words of every row, and of no
\* other.
IndexFollowsRows == index = Postings(rows)

\* What the policy has to keep out: an application without a name, one that is
\* configured, and a window some stretch of whose title reads like a marker when
\* case is ignored in both.
Forbidden(context) ==
    \/ Policy.unknown /\ context.name = Blank
    \/ context.bundle \in Policy.bundles \ {NoBundle}
    \/ Fold(context.name) \in {Fold(name) : name \in Policy.names}
    \/ \E first, last \in 0 .. Len(context.title) :
         /\ first <= last
         /\ [k \in 1 .. last - first |-> Fold(context.title[first + k])]
              \in {FoldAll(marker) : marker \in Policy.markers}

\* "An exclusion feature that writes first and deletes later is not an exclusion
\* feature" (docs/architecture.md:40-41): at no time is such a frame in the pipeline
\* beyond the policy or in the table, and so (IndexFollowsRows) none of its words in
\* the index.
ExcludedLeavesNoTrace ==
    /\ \A frame \in inflight : ~Forbidden(frame.context)
    /\ \A row \in rows : ~Forbidden(row.context)

\* The hash is compared before two awaits and remembered after them, yet a life of
\* the daemon never stores the same image twice in a row.
NoRepeats ==
    \A i \in 1 .. Len(added) - 1 :
       added[i].life = added[i + 1].life => added[i].image # added[i + 1].image

\* Moments whose process(_:) has returned.
Returned ==
    IF \E frame \in inflight : frame.step = "remember" THEN Len(added) - 1 ELSE Len(added)

\* A frame is only dropped as a duplicate of what this life of the daemon really
\* stored last: nothing is remembered of a frame that is still being read or
\* written, that has failed, or that an earlier life stored.
RemembersLastStored ==
    previous = IF Returned > 0 /\ added[Returned].life = life
               THEN added[Returned].image
               ELSE NoImage

=============================================================================
