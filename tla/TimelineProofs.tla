---------------------------- MODULE TimelineProofs ----------------------------
(***************************************************************************)
(* The invariants of Timeline, for any images, contexts, policy and number *)
(* of moments and lives.  Neither NoRepeats nor RemembersLastStored is     *)
(* inductive: a frame in flight carries the hash comparison of its start,  *)
(* which must still be true of what has been stored when it is inserted.   *)
(***************************************************************************)
EXTENDS Timeline, SequenceTheorems, TLAPS

(* A frame in flight is not what was stored last; after the insert, it is. *)
StillNew ==
    \A frame \in inflight :
       /\ frame.step \in {"ocr", "add"} => frame.image # previous
       /\ frame.step = "remember" =>
             /\ Len(added) > 0
             /\ added[Len(added)] = [image |-> frame.image, life |-> life]

(* No frame that the policy excludes has come in.                          *)
NothingExcluded ==
    /\ \A frame \in inflight : ~Excluded(frame.context)
    /\ \A row \in rows : ~Excluded(row.context)
    /\ \A entry \in index : \E row \in rows : entry.id = row.id

Parts == TypeOK /\ IndexFollowsRows /\ NothingExcluded
Memory == NoRepeats /\ RemembersLastStored /\ StillNew

Inv == Parts /\ Memory

USE TimelineAssumption

LEMMA InitInv == Init => Inv
BY DEF Init, Inv, Parts, Memory, TypeOK, IndexFollowsRows, Postings, NothingExcluded,
       NoRepeats, RemembersLastStored, StillNew, Returned, Rows, Frames

LEMMA ReceiveInv ==
    ASSUME NEW image \in Images, NEW context \in Contexts, NEW time \in Times,
           Inv, Receive(image, context, time)
    PROVE  Inv'
<1>1. Parts'
  BY DEF Inv, Parts, Receive, TypeOK, Frames, Rows, IndexFollowsRows, Postings, Posting,
         NothingExcluded, Excluded, Unknown, ExcludedApplication, PrivateWindow
<1>2. Memory'
  BY DEF Inv, Memory, Receive, NoRepeats, RemembersLastStored, StillNew, Returned
<1>3. QED  BY <1>1, <1>2 DEF Inv

LEMMA ExtractTextInv ==
    ASSUME NEW frame \in inflight, Inv, ExtractText(frame)
    PROVE  Inv'
<1> DEFINE next == [frame EXCEPT !.step = "add"]
<1>1. /\ frame \in Frames
      /\ inflight' = {next}
  BY DEF Inv, Parts, TypeOK, ExtractText
<1>2. /\ next \in Frames
      /\ next.step = "add" /\ next.image = frame.image /\ next.context = frame.context
  BY <1>1 DEF Frames
<1>3. Parts'
  BY <1>1, <1>2 DEF Inv, Parts, ExtractText, TypeOK, Rows, IndexFollowsRows, Postings,
         Posting, NothingExcluded, Excluded, Unknown, ExcludedApplication,
         PrivateWindow
<1>4. \A f \in inflight : f = frame
  BY DEF Inv, Parts, TypeOK
<1>5. Memory'
  BY <1>1, <1>2, <1>4 DEF Inv, Memory, ExtractText, NoRepeats, RemembersLastStored,
         StillNew, Returned
<1>6. QED  BY <1>3, <1>5 DEF Inv

LEMMA InsertInv ==
    ASSUME NEW frame \in inflight, Inv, Insert(frame)
    PROVE  Inv'
<1> DEFINE next == [frame EXCEPT !.step = "remember"]
           row == RowOf(frame)
           moment == [image |-> frame.image, life |-> life]
<1>1. /\ frame \in Frames
      /\ inflight' = {next}
      /\ \A f \in inflight : f = frame
      /\ frame.step = "add"
  BY DEF Inv, Parts, TypeOK, Insert
<1>2. /\ next \in Frames
      /\ next.step = "remember" /\ next.image = frame.image
      /\ next.context = frame.context
  BY <1>1 DEF Frames
<1>3. /\ added \in Seq([image : Images, life : 1 .. life])
      /\ life \in Nat \ {0}
      /\ moment \in [image : Images, life : 1 .. life]
  BY <1>1 DEF Inv, Parts, TypeOK, Frames
<1>4. /\ added' = Append(added, moment)
      /\ added' \in Seq([image : Images, life : 1 .. life])
      /\ Len(added) \in Nat
      /\ Len(added') = Len(added) + 1
      /\ \A i \in 1 .. Len(added) : added'[i] = added[i]
      /\ added'[Len(added) + 1] = moment
  BY <1>3 DEF Insert
<1>5. /\ row \in Rows'
      /\ row.id = Len(added) + 1
      /\ row.context = frame.context
  BY <1>1, <1>4 DEF RowOf, NextId, Rows, Frames
<1>6. Rows \subseteq Rows' /\ \A r \in rows : r \in Rows /\ r.id # row.id
  BY <1>4, <1>5 DEF Inv, Parts, TypeOK, Rows
<1>7. TypeOK'
  BY <1>1, <1>2, <1>4, <1>5, <1>6 DEF Inv, Parts, TypeOK, Insert
<1>8. IndexFollowsRows'
  BY DEF Inv, Parts, Insert, IndexFollowsRows, Postings
<1>9. NothingExcluded'
  <2>1. \A f \in inflight' : ~Excluded(f.context)'
    BY <1>1, <1>2 DEF Inv, Parts, NothingExcluded, Excluded, Unknown,
           ExcludedApplication, PrivateWindow
  <2>2. \A r \in rows' : ~Excluded(r.context)'
    BY <1>1, <1>5 DEF Inv, Parts, Insert, NothingExcluded, Excluded, Unknown,
           ExcludedApplication, PrivateWindow
  <2>3. \A entry \in index' : \E r \in rows' : entry.id = r.id
    BY <1>8 DEF IndexFollowsRows, Postings, Posting
  <2>4. QED  BY <2>1, <2>2, <2>3 DEF NothingExcluded
<1>10. Returned = Len(added) /\ Returned' = Len(added)
  BY <1>1, <1>2, <1>4 DEF Returned
<1>11. RemembersLastStored'
  BY <1>4, <1>10 DEF Inv, Memory, Insert, RemembersLastStored
<1>12. StillNew'
  <2>1. added'[Len(added')] = [image |-> next.image, life |-> life'] /\ Len(added') > 0
    BY <1>2, <1>4 DEF Insert
  <2>2. \A f \in inflight' : f = next
    BY <1>1
  <2>3. QED  BY <1>2, <2>1, <2>2 DEF StillNew
<1>13. NoRepeats'
  <2>1. \A i \in 1 .. Len(added) - 1 :
           added'[i].life = added'[i + 1].life => added'[i].image # added'[i + 1].image
    BY <1>4 DEF Inv, Memory, NoRepeats
  <2>2. ASSUME Len(added) > 0, added[Len(added)].life = life
        PROVE  added[Len(added)].image # frame.image
    BY <1>1, <1>10, <2>2 DEF Inv, Memory, RemembersLastStored, StillNew
  <2>3. QED  BY <1>4, <2>1, <2>2 DEF NoRepeats
<1>14. QED  BY <1>7, <1>8, <1>9, <1>11, <1>12, <1>13 DEF Inv, Parts, Memory

LEMMA RememberInv ==
    ASSUME NEW frame \in inflight, Inv, Remember(frame)
    PROVE  Inv'
<1>1. /\ frame \in Frames
      /\ inflight' = {}
      /\ frame.step = "remember"
      /\ previous' = frame.image
  BY DEF Inv, Parts, TypeOK, Remember
<1>2. Parts'
  BY <1>1 DEF Inv, Parts, Remember, TypeOK, Frames, Rows, IndexFollowsRows, Postings,
         Posting, NothingExcluded, Excluded, Unknown, ExcludedApplication,
         PrivateWindow
<1>3. RemembersLastStored'
  <2>1. /\ Len(added) > 0
        /\ added[Len(added)] = [image |-> frame.image, life |-> life]
    BY <1>1 DEF Inv, Memory, StillNew
  <2>2. added' = added /\ life' = life
    BY DEF Remember
  <2>3. Returned' = Len(added)
    BY <1>1, <2>2 DEF Returned
  <2>4. QED  BY <1>1, <2>1, <2>2, <2>3 DEF RemembersLastStored
<1>4. NoRepeats' /\ StillNew'
  BY <1>1 DEF Inv, Memory, Remember, NoRepeats, StillNew
<1>5. QED  BY <1>2, <1>3, <1>4 DEF Inv, Memory

LEMMA RestartInv == Inv /\ Restart => Inv'
<1> SUFFICES ASSUME Inv, Restart PROVE Inv'
  OBVIOUS
<1>1. life \in Nat \ {0} /\ life' = life + 1 /\ added' = added
      /\ added \in Seq([image : Images, life : 1 .. life])
  BY DEF Inv, Parts, TypeOK, Restart
<1>2. added \in Seq([image : Images, life : 1 .. life'])
      /\ \A i \in 1 .. Len(added) : added[i].life # life'
  <2> DEFINE Moments == [image : Images, life : 1 .. life]
             Later == [image : Images, life : 1 .. life']
  <2>1. \A i \in 1 .. Len(added) : added[i] \in Moments
    BY <1>1, ElementOfSeq
  <2>2. Moments \subseteq Later
    BY <1>1
  <2>3. \A i \in 1 .. Len(added) : added[i] \in Later
    BY <2>1, <2>2
  <2>4. added \in Seq(Later)
    <3>1. added = [i \in 1 .. Len(added) |-> added[i]] /\ Len(added) \in Nat
      BY <1>1
    <3> HIDE DEF Later, Moments
    <3>2. QED  BY <2>3, <3>1
  <2>5. \A i \in 1 .. Len(added) : added[i].life # life'
    BY <1>1, <2>1
  <2>6. QED  BY <2>4, <2>5
<1>3. Parts'
  BY <1>1, <1>2 DEF Inv, Parts, Restart, TypeOK, Frames, Rows, IndexFollowsRows, Postings,
         Posting, NothingExcluded, Excluded, Unknown, ExcludedApplication,
         PrivateWindow
<1>4. Memory'
  BY <1>1, <1>2 DEF Inv, Memory, Restart, NoRepeats, RemembersLastStored, StillNew, Returned
<1>5. QED  BY <1>3, <1>4 DEF Inv

LEMMA SetStarredInv ==
    ASSUME NEW starred \in BOOLEAN, NEW id, Inv, SetStarred(starred, id)
    PROVE  Inv'
<1> DEFINE hit == {row \in rows : row.id = id}
           new == {Starring(row, starred) : row \in hit}
<1>1. \A row \in rows :
         /\ Starring(row, starred) \in Rows
         /\ Starring(row, starred).id = row.id
         /\ Starring(row, starred).context = row.context
         /\ Posting(Starring(row, starred)) = Posting(row)
  BY DEF Inv, Parts, TypeOK, Rows, Starring, Posting
<1>2. rows' = (rows \ hit) \cup new
  BY DEF SetStarred
<1>3. rows' \subseteq Rows'
  BY <1>1, <1>2 DEF Inv, Parts, TypeOK, SetStarred, Rows
<1>4. \A r, s \in rows' : r.id = s.id => r = s
  BY <1>1, <1>2 DEF Inv, Parts, TypeOK
<1>5. TypeOK'
  BY <1>3, <1>4 DEF Inv, Parts, TypeOK, SetStarred, Frames
<1>6. Postings(hit) = Postings(new)
  BY <1>1 DEF Postings
<1>7. IndexFollowsRows'
  <2>1. index' = (Postings(rows) \ Postings(hit)) \cup Postings(hit)
    BY <1>6 DEF Inv, Parts, IndexFollowsRows, SetStarred
  <2>2. Postings(rows') = Postings(rows \ hit) \cup Postings(new)
    BY <1>2 DEF Postings
  <2>3. Postings(rows) = Postings(rows \ hit) \cup Postings(hit)
    BY DEF Postings
  <2>4. QED  BY <1>6, <2>1, <2>2, <2>3 DEF IndexFollowsRows, Postings, Posting
<1>8. NothingExcluded'
  <2>1. \A r \in rows' : ~Excluded(r.context)'
    BY <1>1, <1>2 DEF Inv, Parts, NothingExcluded, Excluded, Unknown,
           ExcludedApplication, PrivateWindow
  <2>2. \A f \in inflight' : ~Excluded(f.context)'
    BY DEF Inv, Parts, SetStarred, NothingExcluded, Excluded, Unknown,
           ExcludedApplication, PrivateWindow
  <2>3. \A entry \in index' : \E r \in rows' : entry.id = r.id
    BY <1>7 DEF IndexFollowsRows, Postings, Posting
  <2>4. QED  BY <2>1, <2>2, <2>3 DEF NothingExcluded
<1>9. Memory'
  BY DEF Inv, Memory, SetStarred, NoRepeats, RemembersLastStored, StillNew, Returned
<1>10. QED  BY <1>5, <1>7, <1>8, <1>9 DEF Inv, Parts

LEMMA PurgeInv ==
    ASSUME NEW cutoff \in Times, Inv, Purge(cutoff)
    PROVE  Inv'
<1> DEFINE old == {row \in rows : row.at < cutoff}
<1>1. TypeOK'
  BY DEF Inv, Parts, TypeOK, Purge, Frames, Rows
<1>2. IndexFollowsRows'
  <2>1. ASSUME NEW r \in rows, NEW s \in rows, Posting(r) = Posting(s)
        PROVE  r = s
    BY <2>1 DEF Inv, Parts, TypeOK, Posting
  <2>2. Postings(rows \ old) = Postings(rows) \ Postings(old)
    BY <2>1 DEF Postings
  <2>3. QED  BY <2>2 DEF Inv, Parts, IndexFollowsRows, Purge, Postings, Posting
<1>3. NothingExcluded'
  <2>1. \A entry \in index' : \E r \in rows' : entry.id = r.id
    BY <1>2 DEF IndexFollowsRows, Postings, Posting
  <2>2. QED  BY <2>1 DEF Inv, Parts, Purge, NothingExcluded, Excluded, Unknown,
                     ExcludedApplication, PrivateWindow
<1>4. Memory'
  BY DEF Inv, Memory, Purge, NoRepeats, RemembersLastStored, StillNew, Returned
<1>5. QED  BY <1>1, <1>2, <1>3, <1>4 DEF Inv, Parts

LEMMA StutterInv == Inv /\ UNCHANGED vars => Inv'
BY DEF vars, Inv, Parts, Memory, TypeOK, Frames, Rows, IndexFollowsRows, Postings, Posting,
       NothingExcluded, Excluded, Unknown, ExcludedApplication, PrivateWindow,
       NoRepeats, RemembersLastStored, StillNew, Returned

LEMMA NextInv == Inv /\ [Next]_vars => Inv'
<1> SUFFICES ASSUME Inv, [Next]_vars PROVE Inv'
  OBVIOUS
<1>1. CASE Process
  BY <1>1, ReceiveInv, ExtractTextInv, InsertInv, RememberInv DEF Process
<1>2. CASE Restart
  BY <1>2, RestartInv
<1>3. CASE \E id \in 1 .. Len(added), starred \in BOOLEAN : SetStarred(starred, id)
  BY <1>3, SetStarredInv
<1>4. CASE \E cutoff \in Times : Purge(cutoff)
  BY <1>4, PurgeInv
<1>5. CASE UNCHANGED vars
  BY <1>5, StutterInv
<1>6. QED  BY <1>1, <1>2, <1>3, <1>4, <1>5 DEF Next

-----------------------------------------------------------------------------

THEOREM Invariant == Spec => []Inv
BY InitInv, NextInv, PTL DEF Spec

(* Types, unique ids, and one frame at a time in the pipeline. *)
THEOREM TypeCorrect == Spec => []TypeOK
BY Invariant, PTL DEF Inv, Parts

(* The index cannot drift from the table: docs/architecture.md:57. *)
THEOREM IndexNeverDrifts == Spec => []IndexFollowsRows
BY Invariant, PTL DEF Inv, Parts

(* The decision of the policy covers all that it has to keep out.          *)
LEMMA ForbiddenIsExcluded ==
    ASSUME NEW context \in Contexts, Forbidden(context)
    PROVE  Excluded(context)
<1>1. CASE Policy.unknown /\ context.name = Blank
  BY <1>1 DEF Excluded, Unknown
<1>2. CASE context.bundle \in Policy.bundles \ {NoBundle}
  BY <1>2 DEF Excluded, ExcludedApplication
<1>3. CASE Fold(context.name) \in {Fold(name) : name \in Policy.names}
  BY <1>3 DEF Excluded, ExcludedApplication
<1>4. ASSUME NEW first \in 0 .. Len(context.title), NEW last \in 0 .. Len(context.title),
             first <= last,
             [k \in 1 .. last - first |-> Fold(context.title[first + k])]
               \in {FoldAll(marker) : marker \in Policy.markers}
      PROVE  Excluded(context)
  <2> DEFINE title == context.title
             stretch == [k \in 1 .. last - first |-> Fold(title[first + k])]
  <2>1. Len(title) \in Nat
    BY TitlesAssumption
  <2>2. Len(stretch) = last - first /\ Len(FoldAll(title)) = Len(title)
    <3>1. ASSUME NEW n \in Nat, NEW words, DOMAIN words = 1 .. n,
                 words = [k \in 1 .. n |-> words[k]]
          PROVE  Len(words) = n
      BY <3>1
    <3>2. last - first \in Nat
      BY <1>4, <2>1
    <3> QED BY <3>1, <3>2, <2>1 DEF FoldAll
  <2>3. first \in 0 .. Len(FoldAll(title)) - Len(stretch)
    BY <1>4, <2>1, <2>2
  <2>4. ASSUME NEW k \in 1 .. Len(stretch)
        PROVE  FoldAll(title)[first + k] = stretch[k]
    BY <1>4, <2>1, <2>2 DEF FoldAll
  <2> HIDE DEF stretch
  <2>5. PICK marker \in Policy.markers : stretch = FoldAll(marker)
    BY <1>4 DEF stretch
  <2>6. stretch = marker
    BY <2>5, MarkersAssumption DEF FoldAll
  <2>7. Occurs(stretch, FoldAll(title))
    BY <2>3, <2>4 DEF Occurs
  <2> QED BY <2>5, <2>6, <2>7 DEF Excluded, PrivateWindow
<1> QED BY <1>1, <1>2, <1>3, <1>4 DEF Forbidden

(* No frame that has to be kept out is in the pipeline or in the table.     *)
THEOREM ExclusionComesFirst == Spec => []ExcludedLeavesNoTrace
<1>1. Inv => ExcludedLeavesNoTrace
  BY ForbiddenIsExcluded
     DEF Inv, Parts, TypeOK, Frames, Rows, NothingExcluded, ExcludedLeavesNoTrace
<1> QED BY <1>1, Invariant, PTL

(* No life of the daemon stores the same image twice in a row. *)
THEOREM StoresAreDistinct == Spec => []NoRepeats
BY Invariant, PTL DEF Inv, Memory

(* previousFrameHash is of what this life has really stored last. *)
THEOREM MemoryIsTrue == Spec => []RemembersLastStored
BY Invariant, PTL DEF Inv, Memory

=============================================================================
