----------------------------- MODULE SearchProofs -----------------------------
(***************************************************************************)
(* What `rapp-recall search` answers, proved for any query, any alphabet   *)
(* and any timeline.  The scan of ftsExpression is a loop over the         *)
(* characters of the query, so that its invariant is proved by an          *)
(* induction over places, written as "there is no first place where it     *)
(* fails".                                                                 *)
(***************************************************************************)
EXTENDS TimelineSearch, TimelineProofs, FiniteSetTheorems, WellFoundedInduction

-----------------------------------------------------------------------------
(* Natural numbers and intervals                                           *)

(* Every nonempty set of natural numbers has a least one: the principle by *)
(* which the inductions of this module are made.                           *)
LEMMA LeastNatural ==
    ASSUME NEW T \in SUBSET Nat, T # {}
    PROVE  \E n \in T : \A m \in T : n <= m
<1> DEFINE R == OpToRel(<, Nat)
<1>1. \A x, y \in Nat : <<x, y>> \in R <=> x < y
  BY DEF OpToRel
<1>2. IsWellFoundedOn(R, Nat)
  BY NatLessThanWellFounded
<1> HIDE DEF R
<1>3. PICK n \in T : \A m \in T : ~ (<<m, n>> \in R)
  BY <1>2, WFMin
<1>4. ASSUME NEW m \in T PROVE n <= m
  <2>1. m \in Nat /\ n \in Nat
    BY <1>3, <1>4
  <2>2. ~ (m < n)
    BY <1>1, <1>3, <1>4, <2>1
  <2> QED BY <2>1, <2>2
<1> QED BY <1>3, <1>4

(* A nonempty set of places has a first and a last one. *)
LEMMA FirstAndLast ==
    ASSUME NEW n \in Nat, NEW T \in SUBSET (1 .. n), T # {}
    PROVE  /\ Min(T) \in T /\ \A m \in T : Min(T) <= m
           /\ Max(T) \in T /\ \A m \in T : m <= Max(T)
<1>1. \E i \in T : \A m \in T : i <= m
  BY LeastNatural
<1>2. \E i \in T : \A m \in T : m <= i
  <2> DEFINE U == {n - m : m \in T}
  <2>1. U \in SUBSET Nat /\ U # {}
    <3>1. \A m \in T : m \in 1 .. n /\ n - m \in Nat
      OBVIOUS
    <3>2. U \subseteq Nat
      BY <3>1
    <3>3. U # {}
      OBVIOUS
    <3> QED BY <3>2, <3>3
  <2>2. PICK u \in U : \A v \in U : u <= v
    BY <2>1, LeastNatural
  <2>3. PICK i \in T : u = n - i
    BY <2>2
  <2>4. \A m \in T : n - i <= n - m
    BY <2>2, <2>3
  <2> QED BY <2>3, <2>4
<1>3. Min(T) \in T /\ \A m \in T : Min(T) <= m
  BY <1>1 DEF Min
<1>4. Max(T) \in T /\ \A m \in T : m <= Max(T)
  BY <1>2 DEF Max
<1> QED BY <1>3, <1>4

(* If something holds of 0 and passes from each place to the next, no place fails. *)
LEMMA UpTo ==
    ASSUME NEW n \in Nat, NEW T \in SUBSET (0 .. n),
           0 \in T, \A i \in 1 .. n : i - 1 \in T => i \in T
    PROVE  T = 0 .. n
<1> SUFFICES ASSUME (0 .. n) \ T # {} PROVE FALSE
  OBVIOUS
<1>1. (0 .. n) \ T \in SUBSET Nat
  OBVIOUS
<1>2. PICK i \in (0 .. n) \ T : \A m \in (0 .. n) \ T : i <= m
  BY <1>1, LeastNatural
<1>3. i \in 1 .. n /\ i - 1 \in 0 .. n /\ ~(i <= i - 1)
  BY <1>2
<1>4. i - 1 \in T
  BY <1>2, <1>3
<1> QED BY <1>2, <1>3, <1>4

-----------------------------------------------------------------------------
(* The scan of a query                                                     *)

(* The recursion of Scans has a solution: the loop goes through the query. *)
LEMMA ScansDef ==
    ASSUME NEW query, Len(query) \in Nat
    PROVE  /\ Scans(query)[0] = Start
           /\ \A i \in 1 .. Len(query) :
                 Scans(query)[i] = Scan(Scans(query)[i - 1], query[i])
<1> DEFINE n == Len(query)
           Turn(g, i) == IF i = 0 THEN Start ELSE Scan(g[i - 1], query[i])
           Solved == {m \in 0 .. n : \E g : g = [i \in 0 .. m |-> Turn(g, i)]}
<1>1. 0 \in Solved
  <2> DEFINE g == [i \in 0 .. 0 |-> Start]
  <2>1. g = [i \in 0 .. 0 |-> Turn(g, i)]
    OBVIOUS
  <2> HIDE DEF g, Turn
  <2> QED BY <2>1
<1>2. ASSUME NEW m \in 1 .. n, m - 1 \in Solved
      PROVE  m \in Solved
  <2>1. PICK g : g = [i \in 0 .. m - 1 |-> Turn(g, i)]
    BY <1>2
  <2> DEFINE h == [i \in 0 .. m |-> IF i = m THEN Scan(g[m - 1], query[m]) ELSE g[i]]
  <2>2. \A i \in 0 .. m - 1 : h[i] = g[i] /\ g[i] = Turn(g, i)
    BY <2>1
  <2>3. h[m] = Scan(g[m - 1], query[m])
    OBVIOUS
  <2>4. h = [i \in 0 .. m |-> h[i]]
    OBVIOUS
  <2> HIDE DEF h
  <2>6. ASSUME NEW i \in 0 .. m PROVE h[i] = Turn(h, i)
    <3>1. CASE i = 0
      <4>1. h[0] = Turn(g, 0)
        BY <2>2
      <4> QED BY <3>1, <4>1
    <3>2. CASE i \in 1 .. m - 1
      <4>1. h[i] = Turn(g, i) /\ h[i - 1] = g[i - 1] /\ i # 0
        BY <2>2, <3>2
      <4> QED BY <4>1
    <3>3. CASE i = m
      <4>1. m - 1 \in 0 .. m - 1 /\ m # 0
        OBVIOUS
      <4>2. h[m - 1] = g[m - 1]
        BY <2>2, <4>1
      <4> QED BY <2>3, <3>3, <4>1, <4>2
    <3> QED BY <3>1, <3>2, <3>3
  <2> HIDE DEF h, Turn
  <2>5. h = [i \in 0 .. m |-> Turn(h, i)]
    BY <2>6, <2>4
  <2> QED BY <2>5
<1>3. n \in Solved
  <2>1. Solved \in SUBSET (0 .. n) /\ n \in 0 .. n
    OBVIOUS
  <2> HIDE DEF Solved
  <2> QED BY <1>1, <1>2, <2>1, UpTo
<1>4. PICK g : g = [i \in 0 .. n |-> Turn(g, i)]
  BY <1>3
<1>5. Scans(query) = [i \in 0 .. n |-> Turn(Scans(query), i)]
  BY <1>4 DEF Scans
<1> QED BY <1>5

Scanned == [terms : Seq(Seq(Characters)), current : Seq(Characters), inside : BOOLEAN]

LEMMA EndTermType ==
    ASSUME NEW scan \in Scanned
    PROVE  /\ EndTerm(scan) \in Scanned
           /\ EndTerm(scan).current = <<>>
           /\ EndTerm(scan).inside = scan.inside
           /\ ToSet(EndTerm(scan).terms) =
                 ToSet(scan.terms) \cup ({scan.current} \ {<<>>})
<1>1. scan.terms \in Seq(Seq(Characters)) /\ scan.current \in Seq(Characters)
  BY DEF Scanned
<1>2. ASSUME NEW list \in Seq(Seq(Characters)), NEW term \in Seq(Characters)
      PROVE  /\ Append(list, term) \in Seq(Seq(Characters))
             /\ ToSet(Append(list, term)) = ToSet(list) \cup {term}
  <2>1. /\ Append(list, term) \in Seq(Seq(Characters))
        /\ Len(Append(list, term)) = Len(list) + 1
        /\ Len(list) \in Nat
        /\ \A i \in 1 .. Len(list) : Append(list, term)[i] = list[i]
        /\ Append(list, term)[Len(list) + 1] = term
        /\ DOMAIN list = 1 .. Len(list)
        /\ DOMAIN Append(list, term) = 1 .. Len(list) + 1
    OBVIOUS
  <2> QED BY <2>1 DEF ToSet
<1>3. <<>> \in Seq(Characters)
  OBVIOUS
<1>4. CASE scan.current = <<>>
  BY <1>1, <1>3, <1>4 DEF EndTerm, Scanned
<1>5. CASE scan.current # <<>>
  <2>1. EndTerm(scan) = [scan EXCEPT !.terms = Append(scan.terms, scan.current),
                                     !.current = <<>>]
    BY <1>5 DEF EndTerm
  <2>2. /\ EndTerm(scan).terms = Append(scan.terms, scan.current)
        /\ EndTerm(scan).current = <<>>
        /\ EndTerm(scan).inside = scan.inside
    BY <2>1 DEF Scanned
  <2>3. EndTerm(scan) \in Scanned
    BY <1>1, <1>2, <1>3, <2>1 DEF Scanned
  <2> QED BY <1>1, <1>2, <1>5, <2>2, <2>3
<1> QED BY <1>4, <1>5

LEMMA ScanType ==
    ASSUME NEW scan \in Scanned, NEW character \in Characters
    PROVE  Scan(scan, character) \in Scanned
<1>1. EndTerm(scan) \in Scanned
  BY EndTermType
<1>2. Append(scan.current, character) \in Seq(Characters)
  BY DEF Scanned
<1> QED BY <1>1, <1>2 DEF Scan, Scanned

LEMMA ScansType ==
    ASSUME NEW query \in Seq(Characters), NEW i \in 0 .. Len(query)
    PROVE  Scans(query)[i] \in Scanned
<1> DEFINE n == Len(query)
           T == {j \in 0 .. n : Scans(query)[j] \in Scanned}
<1>1. n \in Nat /\ \A j \in 1 .. n : query[j] \in Characters
  OBVIOUS
<1>2. Start \in Scanned
  BY DEF Start, Scanned
<1>3. 0 \in T
  BY <1>1, <1>2, ScansDef
<1>4. \A j \in 1 .. n : j - 1 \in T => j \in T
  BY <1>1, ScansDef, ScanType
<1>5. T \in SUBSET (0 .. n)
  OBVIOUS
<1> HIDE DEF T
<1>6. T = 0 .. n
  BY <1>1, <1>3, <1>4, <1>5, UpTo
<1> QED BY <1>6 DEF T

-----------------------------------------------------------------------------
(* Quotes                                                                  *)

LEMMA InsideStart == ASSUME NEW query PROVE ~Inside(query, 1)
<1>1. {j \in 1 .. 0 : query[j] = Quote} = {}
  OBVIOUS
<1>2. Cardinality({j \in 1 .. 0 : query[j] = Quote}) = 0
  BY <1>1, FS_EmptySet
<1> QED BY <1>2 DEF Inside

(* Between two quotes, nothing opens or closes. *)
LEMMA InsideConstant ==
    ASSUME NEW query, NEW i \in Nat \ {0}, NEW k \in Nat, i <= k,
           \A j \in i .. k - 1 : query[j] # Quote
    PROVE  Inside(query, k) = Inside(query, i)
<1>1. {j \in 1 .. k - 1 : query[j] = Quote} = {j \in 1 .. i - 1 : query[j] = Quote}
  OBVIOUS
<1> QED BY <1>1 DEF Inside

LEMMA InsideToggles ==
    ASSUME NEW query, NEW i \in Nat \ {0}, query[i] = Quote
    PROVE  Inside(query, i + 1) = ~Inside(query, i)
<1> DEFINE Q == {j \in 1 .. i - 1 : query[j] = Quote}
<1>1. {j \in 1 .. (i + 1) - 1 : query[j] = Quote} = Q \cup {i}
  OBVIOUS
<1>2. IsFiniteSet(Q)
  BY FS_Interval, FS_Subset
<1>3. i \notin Q
  OBVIOUS
<1> HIDE DEF Q
<1>4. Cardinality(Q \cup {i}) = Cardinality(Q) + 1 /\ Cardinality(Q) \in Nat
  BY <1>2, <1>3, FS_AddElement, FS_CardinalityType
<1>5. (Cardinality(Q) + 1) % 2 = 1 <=> ~ (Cardinality(Q) % 2 = 1)
  BY <1>4
<1> QED BY <1>1, <1>4, <1>5 DEF Inside, Q

-----------------------------------------------------------------------------
(* The loop of ftsExpression                                               *)

(* The places at which a term ends. *)
Break(query, j) == query[j] = Quote \/ (query[j] = Space /\ ~Inside(query, j))

(* The stretches between breaks that have ended within the first n places. *)
Closed(query, n) ==
    {p \in (1 .. n) \X (1 .. n) :
        /\ p[1] <= p[2]
        /\ \A k \in p[1] .. p[2] : ~Break(query, k)
        /\ p[1] = 1 \/ Break(query, p[1] - 1)
        /\ p[2] < n /\ Break(query, p[2] + 1)}

(* What stays true from turn to turn: after n characters the scan knows     *)
(* whether it is inside quotes, its terms are the closed stretches, and its *)
(* current term is all that follows the last break, which is at a - 1.      *)
LoopInv(query, n) ==
    LET scan == Scans(query)[n]
    IN  /\ scan.inside = Inside(query, n + 1)
        /\ ToSet(scan.terms) = {At(query, p) : p \in Closed(query, n)}
        /\ \E a \in 1 .. n + 1 :
              /\ \A k \in a .. n : ~Break(query, k)
              /\ a = 1 \/ Break(query, a - 1)
              /\ scan.current = SubSeq(query, a, n)

LEMMA LoopInvStart ==
    ASSUME NEW query \in Seq(Characters)
    PROVE  LoopInv(query, 0)
<1>1. Scans(query)[0] = Start
  BY ScansDef
<1>2. Closed(query, 0) = {}
  BY DEF Closed
<1>3. ToSet(Start.terms) = {} /\ Start.inside = FALSE /\ Start.current = <<>>
  BY DEF Start, ToSet
<1>4. SubSeq(query, 1, 0) = <<>>
  BY SubSeqEmpty
<1>5. /\ \A k \in 1 .. 0 : ~Break(query, k)
      /\ Start.current = SubSeq(query, 1, 0)
  BY <1>3, <1>4
<1>6. {At(query, p) : p \in {}} = {}
  OBVIOUS
<1>7. Start.inside = Inside(query, 0 + 1)
  <2>1. ~Inside(query, 0 + 1)
    BY InsideStart
  <2>2. Inside(query, 0 + 1) \in BOOLEAN
    BY DEF Inside
  <2> QED BY <1>3, <2>1, <2>2
<1> QED BY <1>1, <1>2, <1>3, <1>5, <1>6, <1>7 DEF LoopInv

(* Where a term ends, what was current becomes a term. *)
LEMMA ClosedAtBreak ==
    ASSUME NEW query, NEW n \in Nat, NEW a \in 1 .. n + 1,
           \A k \in a .. n : ~Break(query, k),
           a = 1 \/ Break(query, a - 1),
           Break(query, n + 1)
    PROVE  Closed(query, n + 1) =
              Closed(query, n) \cup (IF a <= n THEN {<<a, n>>} ELSE {})
<1>1. ASSUME NEW p \in Closed(query, n + 1), p \notin Closed(query, n)
      PROVE  a <= n /\ p = <<a, n>>
  <2>1. /\ p \in (1 .. n + 1) \X (1 .. n + 1)
        /\ p[1] <= p[2] /\ p[2] < n + 1
        /\ \A k \in p[1] .. p[2] : ~Break(query, k)
        /\ p[1] = 1 \/ Break(query, p[1] - 1)
        /\ Break(query, p[2] + 1)
    BY DEF Closed
  <2>2. p \in (1 .. n) \X (1 .. n)
    BY <2>1
  <2>3. p[2] = n
    BY <1>1, <2>1, <2>2 DEF Closed
  <2>4. ~ (p[1] < a)
    BY <2>1, <2>3
  <2>5. ~ (a < p[1])
    BY <2>1, <2>3
  <2> QED BY <2>1, <2>3, <2>4, <2>5
<1>2. ASSUME NEW p \in Closed(query, n) PROVE p \in Closed(query, n + 1)
  BY DEF Closed
<1>3. a <= n => <<a, n>> \in Closed(query, n + 1)
  BY DEF Closed
<1> QED BY <1>1, <1>2, <1>3

LEMMA ClosedWithoutBreak ==
    ASSUME NEW query, NEW n \in Nat, ~Break(query, n + 1)
    PROVE  Closed(query, n + 1) = Closed(query, n)
<1>1. ASSUME NEW p \in Closed(query, n + 1) PROVE p \in Closed(query, n)
  BY DEF Closed
<1>2. ASSUME NEW p \in Closed(query, n) PROVE p \in Closed(query, n + 1)
  BY DEF Closed
<1> QED BY <1>1, <1>2

(* One turn of the loop. *)
LEMMA LoopInvTurn ==
    ASSUME NEW query \in Seq(Characters), NEW n \in 1 .. Len(query),
           LoopInv(query, n - 1)
    PROVE  LoopInv(query, n)
<1> DEFINE m == n - 1
           before == Scans(query)[m]
           scan == Scans(query)[n]
           c == query[n]
<1>1. /\ m \in Nat /\ m + 1 = n /\ m \in 0 .. Len(query) /\ n \in 1 .. Len(query)
      /\ Len(query) \in Nat /\ c \in Characters
      /\ \A i \in 1 .. Len(query) : query[i] \in Characters
  OBVIOUS
<1>2. before \in Scanned /\ scan = Scan(before, c)
  BY <1>1, ScansType, ScansDef
<1>3. /\ before.inside = Inside(query, n)
      /\ ToSet(before.terms) = {At(query, p) : p \in Closed(query, m)}
  BY <1>1 DEF LoopInv
<1>4. PICK a \in 1 .. n :
         /\ \A k \in a .. m : ~Break(query, k)
         /\ a = 1 \/ Break(query, a - 1)
         /\ before.current = SubSeq(query, a, m)
  BY <1>1 DEF LoopInv
<1> HIDE DEF m, before, scan, c
<1>5. before.current = <<>> <=> a > m
  <2>1. \A i \in a .. m : query[i] \in Characters
    BY <1>1
  <2>2. Len(SubSeq(query, a, m)) = IF a <= m THEN m - a + 1 ELSE 0
    BY <1>1, <2>1, SubSeqProperties
  <2>3. a > m => SubSeq(query, a, m) = <<>>
    BY <1>1, SubSeqEmpty
  <2>4. Len(<<>>) = 0
    OBVIOUS
  <2> QED BY <1>1, <1>4, <2>2, <2>3, <2>4
<1>6. CASE Break(query, n)
  <2>1. /\ scan.terms = EndTerm(before).terms
        /\ scan.current = <<>>
        /\ scan.inside = IF c = Quote THEN ~before.inside ELSE before.inside
    <3>1. EndTerm(before) \in Scanned /\ EndTerm(before).current = <<>>
          /\ EndTerm(before).inside = before.inside
      BY <1>2, EndTermType
    <3>2. CASE c = Quote
      <4>1. scan = [EndTerm(before) EXCEPT !.inside = ~before.inside]
        BY <1>2, <3>2 DEF Scan
      <4> HIDE DEF EndTerm
      <4> QED BY <3>1, <3>2, <4>1 DEF Scanned
    <3>3. CASE c # Quote
      <4>1. c = Space /\ ~before.inside
        BY <1>3, <1>6, <3>3 DEF Break, c
      <4>2. scan = EndTerm(before)
        BY <1>2, <3>3, <4>1 DEF Scan
      <4> QED BY <3>1, <3>3, <4>2
    <3> QED BY <3>2, <3>3
  <2>2. ToSet(scan.terms) = {At(query, p) : p \in Closed(query, n)}
    <3>1. ToSet(scan.terms) = ToSet(before.terms) \cup ({before.current} \ {<<>>})
      BY <1>2, <2>1, EndTermType
    <3>2. Closed(query, n) =
             Closed(query, m) \cup (IF a <= m THEN {<<a, m>>} ELSE {})
      BY <1>1, <1>4, <1>6, ClosedAtBreak
    <3>3. before.current = At(query, <<a, m>>)
      BY <1>4 DEF At
    <3>4. CASE a <= m
      <4>1. {before.current} \ {<<>>} = {At(query, <<a, m>>)}
        BY <1>1, <1>5, <3>3, <3>4
      <4>2. Closed(query, n) = Closed(query, m) \cup {<<a, m>>}
        BY <3>2, <3>4
      <4> QED BY <1>3, <3>1, <4>1, <4>2
    <3>5. CASE a > m
      <4>1. {before.current} \ {<<>>} = {}
        BY <1>5, <3>5
      <4>2. Closed(query, n) = Closed(query, m)
        BY <1>1, <3>2, <3>5
      <4> QED BY <1>3, <3>1, <4>1, <4>2
    <3> QED BY <1>1, <3>4, <3>5
  <2>3. scan.inside = Inside(query, n + 1)
    <3>1. CASE c = Quote
      BY <1>1, <1>3, <2>1, <3>1, InsideToggles DEF c
    <3>2. CASE c # Quote
      <4>1. Inside(query, n + 1) = Inside(query, n)
        BY <1>1, <3>2, InsideConstant DEF c
      <4> QED BY <1>3, <2>1, <3>2, <4>1
    <3> QED BY <3>1, <3>2
  <2>4. /\ \A k \in n + 1 .. n : ~Break(query, k)
        /\ Break(query, (n + 1) - 1)
        /\ scan.current = SubSeq(query, n + 1, n)
        /\ n + 1 \in 1 .. n + 1
    BY <1>1, <1>6, <2>1, SubSeqEmpty
  <2> QED BY <2>2, <2>3, <2>4 DEF LoopInv, scan
<1>7. CASE ~Break(query, n)
  <2>1. scan = [before EXCEPT !.current = Append(before.current, c)]
    BY <1>2, <1>3, <1>7 DEF Scan, Break, c
  <2>2. /\ scan.terms = before.terms
        /\ scan.inside = before.inside
        /\ scan.current = Append(before.current, c)
    BY <1>2, <2>1 DEF Scanned
  <2>3. Closed(query, n) = Closed(query, m)
    BY <1>1, <1>7, ClosedWithoutBreak
  <2>4. Inside(query, n + 1) = Inside(query, n)
    BY <1>1, <1>7, InsideConstant DEF Break
  <2>5. scan.current = SubSeq(query, a, n)
    BY <1>1, <1>4, <2>2 DEF c
  <2>6. \A k \in a .. n : ~Break(query, k)
    BY <1>1, <1>4, <1>7
  <2>7. a \in 1 .. n + 1
    BY <1>1
  <2> QED BY <1>3, <1>4, <2>2, <2>3, <2>4, <2>5, <2>6, <2>7 DEF LoopInv, scan
<1> QED BY <1>6, <1>7

LEMMA LoopInvariant ==
    ASSUME NEW query \in Seq(Characters)
    PROVE  LoopInv(query, Len(query))
<1> DEFINE T == {n \in 0 .. Len(query) : LoopInv(query, n)}
<1>1. Len(query) \in Nat
  OBVIOUS
<1>2. 0 \in T
  BY <1>1, LoopInvStart
<1>3. \A n \in 1 .. Len(query) : n - 1 \in T => n \in T
  BY <1>1, LoopInvTurn
<1>4. T \in SUBSET (0 .. Len(query))
  OBVIOUS
<1> HIDE DEF T
<1>5. T = 0 .. Len(query)
  BY <1>1, <1>2, <1>3, <1>4, UpTo
<1> QED BY <1>1, <1>5 DEF T

-----------------------------------------------------------------------------
(* The terms of a query                                                    *)

(* The longest stretches between breaks. *)
Runs(query) ==
    {p \in (1 .. Len(query)) \X (1 .. Len(query)) :
        /\ p[1] <= p[2]
        /\ \A k \in p[1] .. p[2] : ~Break(query, k)
        /\ p[1] = 1 \/ Break(query, p[1] - 1)
        /\ p[2] = Len(query) \/ Break(query, p[2] + 1)}

LEMMA TermsAreRuns ==
    ASSUME NEW query \in Seq(Characters)
    PROVE  ToSet(Terms(query)) = {At(query, p) : p \in Runs(query)}
<1> DEFINE n == Len(query)
           scan == Scans(query)[n]
<1>1. n \in Nat /\ \A i \in 1 .. n : query[i] \in Characters
  OBVIOUS
<1>2. scan \in Scanned
  BY <1>1, ScansType
<1>3. ToSet(scan.terms) = {At(query, p) : p \in Closed(query, n)}
  BY LoopInvariant DEF LoopInv
<1>4. PICK a \in 1 .. n + 1 :
         /\ \A k \in a .. n : ~Break(query, k)
         /\ a = 1 \/ Break(query, a - 1)
         /\ scan.current = SubSeq(query, a, n)
  BY LoopInvariant DEF LoopInv
<1>5. ToSet(Terms(query)) = ToSet(scan.terms) \cup ({scan.current} \ {<<>>})
  BY <1>2, EndTermType DEF Terms
<1>6. scan.current = <<>> <=> a > n
  <2>1. \A i \in a .. n : query[i] \in Characters
    BY <1>1
  <2> HIDE DEF scan
  <2>2. Len(SubSeq(query, a, n)) = IF a <= n THEN n - a + 1 ELSE 0
    BY <1>1, <2>1, SubSeqProperties
  <2>3. a > n => SubSeq(query, a, n) = <<>>
    BY <1>1, SubSeqEmpty
  <2>4. Len(<<>>) = 0
    OBVIOUS
  <2> QED BY <1>1, <1>4, <2>2, <2>3, <2>4
<1>7. Runs(query) = Closed(query, n) \cup (IF a <= n THEN {<<a, n>>} ELSE {})
  <2>1. ASSUME NEW p \in Runs(query), p \notin Closed(query, n)
        PROVE  a <= n /\ p = <<a, n>>
    <3>1. /\ p \in (1 .. n) \X (1 .. n)
          /\ p[1] <= p[2]
          /\ \A k \in p[1] .. p[2] : ~Break(query, k)
          /\ p[1] = 1 \/ Break(query, p[1] - 1)
      BY DEF Runs
    <3>2. p[2] = n
      BY <1>1, <2>1, <3>1 DEF Closed, Runs
    <3>3. ~ (p[1] < a) /\ ~ (a < p[1])
      BY <1>1, <1>4, <3>1, <3>2
    <3> QED BY <1>1, <3>1, <3>2, <3>3
  <2>2. ASSUME NEW p \in Closed(query, n) PROVE p \in Runs(query)
    BY DEF Closed, Runs
  <2>3. a <= n => <<a, n>> \in Runs(query)
    BY <1>1, <1>4 DEF Runs
  <2> QED BY <2>1, <2>2, <2>3
<1> HIDE DEF scan, n
<1>8. scan.current = At(query, <<a, n>>)
  BY <1>4 DEF At
<1>9. CASE a <= n
  <2>1. {scan.current} \ {<<>>} = {At(query, <<a, n>>)}
    BY <1>1, <1>6, <1>8, <1>9
  <2>2. Runs(query) = Closed(query, n) \cup {<<a, n>>}
    BY <1>7, <1>9
  <2> QED BY <1>3, <1>5, <2>1, <2>2
<1>10. CASE a > n
  <2>1. {scan.current} \ {<<>>} = {}
    BY <1>6, <1>10
  <2>2. Runs(query) = Closed(query, n)
    BY <1>1, <1>7, <1>10
  <2> QED BY <1>3, <1>5, <2>1, <2>2
<1> QED BY <1>1, <1>9, <1>10

(* Outside quotes a term is a word, inside it is what the quotes enclose. *)
LEMMA RunsAreStretches ==
    ASSUME NEW query \in Seq(Characters)
    PROVE  Runs(query) =
              {p \in Stretches(query, {Space, Quote}) : ~Inside(query, p[1])}
              \cup {p \in Stretches(query, {Quote}) : Inside(query, p[1])}
<1> DEFINE n == Len(query)
           Places(p) == p \in (1 .. n) \X (1 .. n) /\ p[1] <= p[2]
           Calm(p) == \A k \in p[1] .. p[2] : query[k] # Quote
<1>1. n \in Nat
  OBVIOUS
<1>2. ASSUME NEW p, Places(p), Calm(p)
      PROVE  /\ \A k \in p[1] .. p[2] + 1 : Inside(query, k) = Inside(query, p[1])
             /\ p[1] # 1 /\ query[p[1] - 1] # Quote
                   => Inside(query, p[1] - 1) = Inside(query, p[1])
  <2>1. ASSUME NEW k \in p[1] .. p[2] + 1
        PROVE  Inside(query, k) = Inside(query, p[1])
    BY <1>1, <1>2, <2>1, InsideConstant
  <2>2. ASSUME p[1] # 1, query[p[1] - 1] # Quote
        PROVE  Inside(query, p[1]) = Inside(query, p[1] - 1)
    <3>1. /\ p[1] - 1 \in Nat \ {0} /\ p[1] \in Nat /\ p[1] - 1 <= p[1]
          /\ \A j \in p[1] - 1 .. p[1] - 1 : query[j] # Quote
      BY <1>1, <1>2, <2>2
    <3> QED BY <3>1, InsideConstant
  <2> QED BY <2>1, <2>2
<1>3. ASSUME NEW p, Places(p), Calm(p), ~Inside(query, p[1])
      PROVE  p \in Runs(query) <=> p \in Stretches(query, {Space, Quote})
  <2>1. \A k \in p[1] .. p[2] : Break(query, k) <=> query[k] \in {Space, Quote}
    BY <1>1, <1>2, <1>3 DEF Break
  <2>2. p[2] # n => (Break(query, p[2] + 1) <=> query[p[2] + 1] \in {Space, Quote})
    BY <1>1, <1>2, <1>3 DEF Break
  <2>3. p[1] # 1 => (Break(query, p[1] - 1) <=> query[p[1] - 1] \in {Space, Quote})
    BY <1>1, <1>2, <1>3 DEF Break
  <2> QED BY <1>3, <2>1, <2>2, <2>3 DEF Runs, Stretches
<1>4. ASSUME NEW p, Places(p), Calm(p), Inside(query, p[1])
      PROVE  p \in Runs(query) <=> p \in Stretches(query, {Quote})
  <2>1. \A k \in p[1] .. p[2] : Break(query, k) <=> query[k] \in {Quote}
    BY <1>1, <1>2, <1>4 DEF Break
  <2>2. p[2] # n => (Break(query, p[2] + 1) <=> query[p[2] + 1] \in {Quote})
    BY <1>1, <1>2, <1>4 DEF Break
  <2>3. p[1] # 1 => (Break(query, p[1] - 1) <=> query[p[1] - 1] \in {Quote})
    BY <1>1, <1>2, <1>4 DEF Break
  <2> QED BY <1>4, <2>1, <2>2, <2>3 DEF Runs, Stretches
<1>5. ASSUME NEW p \in Runs(query) PROVE Places(p) /\ Calm(p)
  BY DEF Runs, Break
<1>6. ASSUME NEW p \in Stretches(query, {Space, Quote}) PROVE Places(p) /\ Calm(p)
  BY DEF Stretches
<1>7. ASSUME NEW p \in Stretches(query, {Quote}) PROVE Places(p) /\ Calm(p)
  BY DEF Stretches
<1> HIDE DEF Places, Calm
<1> QED BY <1>3, <1>4, <1>5, <1>6, <1>7

-----------------------------------------------------------------------------
(* The phrases of a query                                                  *)

(* Text without a space or a quote is one word to the tokenizer. *)
LEMMA TokensOfAWord ==
    ASSUME NEW s \in Seq(Characters), s # <<>>,
           \A k \in 1 .. Len(s) : s[k] \notin {Space, Quote}
    PROVE  Tokens(s) = <<s>>
<1> DEFINE n == Len(s)
           all == <<1, n>>
<1>1. n \in Nat \ {0}
  OBVIOUS
<1>2. Stretches(s, {Space, Quote}) = {all}
  <2>1. ASSUME NEW p \in Stretches(s, {Space, Quote}) PROVE p = all
    <3>1. /\ p \in (1 .. n) \X (1 .. n)
          /\ p[1] = 1 \/ s[p[1] - 1] \in {Space, Quote}
          /\ p[2] = n \/ s[p[2] + 1] \in {Space, Quote}
      BY DEF Stretches
    <3>2. p[1] = 1 /\ p[2] = n
      BY <1>1, <3>1
    <3> QED BY <3>1, <3>2
  <2>2. all \in Stretches(s, {Space, Quote})
    BY <1>1 DEF Stretches
  <2> QED BY <2>1, <2>2
<1>3. Cardinality({all}) = 1
  BY FS_Singleton
<1>4. Ordered({all}, Earlier)[1] = all
  <2> DEFINE seq == [i \in 1 .. 1 |-> all]
             Sorted(f) == \A i, j \in 1 .. 1 : i < j => Earlier(f[i], f[j])
  <2>1. seq \in [1 .. 1 -> {all}] /\ Sorted(seq)
    OBVIOUS
  <2>2. \E f \in [1 .. 1 -> {all}] : Sorted(f)
    BY <2>1
  <2>3. Ordered({all}, Earlier) = CHOOSE f \in [1 .. 1 -> {all}] : Sorted(f)
    BY <1>3 DEF Ordered
  <2> HIDE DEF Sorted, seq, all
  <2>4. Ordered({all}, Earlier) \in [1 .. 1 -> {all}]
    BY <2>2, <2>3
  <2> QED BY <2>4
<1>5. At(s, all) = s
  BY SubSeqFull DEF At
<1> HIDE DEF all
<1>6. Tokens(s) = [i \in 1 .. 1 |-> At(s, Ordered({all}, Earlier)[i])]
  BY <1>2, <1>3 DEF Tokens
<1>7. Tokens(s) = [i \in 1 .. 1 |-> s]
  BY <1>4, <1>5, <1>6
<1> QED BY <1>7

LEMMA StretchIsText ==
    ASSUME NEW query \in Seq(Characters), NEW breaks, NEW p \in Stretches(query, breaks)
    PROVE  /\ At(query, p) \in Seq(Characters)
           /\ At(query, p) # <<>>
           /\ \A k \in 1 .. Len(At(query, p)) : At(query, p)[k] \notin breaks
<1>1. /\ p \in (1 .. Len(query)) \X (1 .. Len(query)) /\ p[1] <= p[2]
      /\ \A k \in p[1] .. p[2] : query[k] \notin breaks
      /\ Len(query) \in Nat
      /\ \A k \in p[1] .. p[2] : query[k] \in Characters
  BY DEF Stretches
<1>2. /\ At(query, p) \in Seq(Characters)
      /\ Len(At(query, p)) = p[2] - p[1] + 1
      /\ \A k \in 1 .. p[2] - p[1] + 1 : At(query, p)[k] = query[p[1] + k - 1]
  <2>1. p[1] \in Int /\ p[2] \in Int
    BY <1>1
  <2> QED BY <1>1, <2>1, SubSeqProperties DEF At
<1>3. At(query, p) # <<>>
  <2>1. Len(<<>>) = 0
    OBVIOUS
  <2> QED BY <1>1, <1>2, <2>1
<1>4. ASSUME NEW k \in 1 .. Len(At(query, p))
      PROVE  At(query, p)[k] \notin breaks
  <2>1. p[1] + k - 1 \in p[1] .. p[2] /\ At(query, p)[k] = query[p[1] + k - 1]
    BY <1>1, <1>2
  <2> QED BY <1>1, <2>1
<1> QED BY <1>2, <1>3, <1>4

(* The words outside quotes and the quoted texts are what ftsExpression asks *)
(* of the index, for every query: docs/cli.md:79.                           *)
LEMMA PhrasesAreAsked ==
    ASSUME NEW query \in Seq(Characters)
    PROVE  Phrases(query) = Asked(query)
<1> DEFINE outside == {p \in Stretches(query, {Space, Quote}) : ~Inside(query, p[1])}
           quoted == {p \in Stretches(query, {Quote}) : Inside(query, p[1])}
<1>1. Phrases(query) = {Tokens(At(query, p)) : p \in outside \cup quoted} \ {<<>>}
  BY TermsAreRuns, RunsAreStretches DEF Phrases
<1>2. ASSUME NEW p \in outside
      PROVE  Tokens(At(query, p)) = <<At(query, p)>> /\ <<At(query, p)>> # <<>>
  BY StretchIsText, TokensOfAWord
<1>3. Asked(query) = {<<At(query, p)>> : p \in outside}
                     \cup ({Tokens(At(query, p)) : p \in quoted} \ {<<>>})
  BY DEF Asked
<1> HIDE DEF outside, quoted
<1> QED BY <1>1, <1>2, <1>3

-----------------------------------------------------------------------------
(* Sorting                                                                 *)

(* A finite set has an enumeration in the order of a relation that is      *)
(* strict, total and transitive on it: each element goes to the place that *)
(* the number of elements before it gives.                                 *)
LEMMA SortedExists ==
    ASSUME NEW S, IsFiniteSet(S), NEW R,
           \A a \in S : <<a, a>> \notin R,
           \A a, b \in S : a # b => <<a, b>> \in R \/ <<b, a>> \in R,
           \A a, b, c \in S : <<a, b>> \in R /\ <<b, c>> \in R => <<a, c>> \in R
    PROVE  \E f \in [1 .. Cardinality(S) -> S] :
              \A i, j \in 1 .. Cardinality(S) : i < j => <<f[i], f[j]>> \in R
<1> DEFINE n == Cardinality(S)
           Below(a) == {b \in S : <<b, a>> \in R}
           rank == [a \in S |-> Cardinality(Below(a)) + 1]
<1>1. n \in Nat
  BY FS_CardinalityType
<1>2. \A a \in S : Below(a) \in SUBSET S /\ a \notin Below(a)
  OBVIOUS
<1>3. ASSUME NEW a \in S
      PROVE  IsFiniteSet(Below(a)) /\ Cardinality(Below(a)) \in Nat
             /\ Cardinality(Below(a)) < n
  <2> HIDE DEF Below
  <2>1. IsFiniteSet(Below(a)) /\ Cardinality(Below(a)) <= n /\ Cardinality(Below(a)) # n
    BY <1>2, FS_Subset
  <2> QED BY <1>1, <2>1, FS_CardinalityType
<1>4. ASSUME NEW a \in S, NEW b \in S, <<a, b>> \in R
      PROVE  rank[a] < rank[b]
  <2>1. Below(a) \in SUBSET Below(b) /\ a \in Below(b) /\ a \notin Below(a)
    BY <1>4
  <2>2. rank[a] = Cardinality(Below(a)) + 1 /\ rank[b] = Cardinality(Below(b)) + 1
    OBVIOUS
  <2> HIDE DEF Below, rank
  <2>3. /\ Cardinality(Below(a)) <= Cardinality(Below(b))
        /\ Cardinality(Below(a)) # Cardinality(Below(b))
    BY <1>3, <2>1, FS_Subset
  <2> QED BY <1>3, <2>2, <2>3
<1>5. rank \in [S -> 1 .. n]
  <2>1. ASSUME NEW a \in S PROVE Cardinality(Below(a)) + 1 \in 1 .. n
    <3> HIDE DEF Below, n
    <3> QED BY <1>1, <1>3
  <2> QED BY <2>1
<1> HIDE DEF rank, n
<1>6. rank \in Surjection(S, 1 .. n)
  <2>1. ASSUME NEW a \in S, NEW b \in S, rank[a] = rank[b] PROVE a = b
    <3>1. rank[a] \in Nat /\ rank[b] \in Nat
      BY <1>1, <1>5
    <3>2. ~ (rank[a] < rank[b]) /\ ~ (rank[b] < rank[a])
      BY <2>1, <3>1
    <3> QED BY <1>4, <3>2
  <2>2. rank \in Injection(S, 1 .. n)
    BY <1>5, <2>1 DEF Injection, IsInjective
  <2>3. IsFiniteSet(1 .. n) /\ Cardinality(1 .. n) = n
    BY <1>1, FS_Interval
  <2> QED BY <2>2, <2>3, FS_Injection DEF n
<1> DEFINE f == [i \in 1 .. n |-> CHOOSE a \in S : rank[a] = i]
<1>7. \A i \in 1 .. n : f[i] \in S /\ rank[f[i]] = i
  <2>1. \A i \in 1 .. n : \E a \in S : rank[a] = i
    BY <1>6 DEF Surjection
  <2> QED BY <2>1
<1>8. f \in [1 .. n -> S]
  <2>1. f = [i \in 1 .. n |-> f[i]]
    OBVIOUS
  <2> HIDE DEF f
  <2> QED BY <1>7, <2>1
<1> HIDE DEF f
<1>9. ASSUME NEW i \in 1 .. n, NEW j \in 1 .. n, i < j
      PROVE  <<f[i], f[j]>> \in R
  <2>1. f[i] # f[j]
    BY <1>1, <1>7, <1>9
  <2>2. <<f[j], f[i]>> \notin R
    <3> SUFFICES ASSUME <<f[j], f[i]>> \in R PROVE FALSE
      OBVIOUS
    <3>1. rank[f[j]] < rank[f[i]]
      BY <1>4, <1>7
    <3>2. j < i
      BY <1>7, <3>1
    <3> QED BY <1>1, <1>9, <3>2
  <2> QED BY <1>7, <2>1, <2>2
<1> QED BY <1>8, <1>9 DEF n

(* The words of a text stand in the order in which they come. *)
LEMMA WordsAreOrdered ==
    ASSUME NEW s \in Seq(Characters), NEW breaks
    PROVE  Ordered(Stretches(s, breaks), Earlier)
              \in [1 .. Cardinality(Stretches(s, breaks)) -> Stretches(s, breaks)]
<1> DEFINE W == Stretches(s, breaks)
           n == Len(s)
           R == {x \in W \X W : Earlier(x[1], x[2])}
<1>1. n \in Nat
  OBVIOUS
<1>2. IsFiniteSet(W)
  <2>1. IsFiniteSet(1 .. n)
    BY <1>1, FS_Interval
  <2>2. IsFiniteSet((1 .. n) \X (1 .. n))
    BY <2>1, FS_Product
  <2>3. W \in SUBSET ((1 .. n) \X (1 .. n))
    BY DEF Stretches
  <2> QED BY <2>2, <2>3, FS_Subset
<1>3. \A p \in W : /\ p \in (1 .. n) \X (1 .. n) /\ p[1] <= p[2]
                   /\ \A k \in p[1] .. p[2] : s[k] \notin breaks
                   /\ p[1] = 1 \/ s[p[1] - 1] \in breaks
                   /\ p[2] = n \/ s[p[2] + 1] \in breaks
  BY DEF Stretches
<1> HIDE DEF W, n
<1>4. \A p, q \in W : <<p, q>> \in R <=> p[1] < q[1]
  BY DEF Earlier
<1>5. ASSUME NEW p \in W, NEW q \in W, p[1] = q[1]
      PROVE  p = q
  <2>1. ~ (p[2] < q[2])
    <3> SUFFICES ASSUME p[2] < q[2] PROVE FALSE
      OBVIOUS
    <3>1. p[2] + 1 \in q[1] .. q[2] /\ p[2] # n
      BY <1>1, <1>3, <1>5
    <3> QED BY <1>3, <3>1
  <2>2. ~ (q[2] < p[2])
    <3> SUFFICES ASSUME q[2] < p[2] PROVE FALSE
      OBVIOUS
    <3>1. q[2] + 1 \in p[1] .. p[2] /\ q[2] # n
      BY <1>1, <1>3, <1>5
    <3> QED BY <1>3, <3>1
  <2> QED BY <1>1, <1>3, <1>5, <2>1, <2>2
<1> HIDE DEF R
<1>6. \A p, q \in W : p # q => <<p, q>> \in R \/ <<q, p>> \in R
  BY <1>1, <1>3, <1>4, <1>5
<1>7. \A p \in W : <<p, p>> \notin R
  BY <1>1, <1>3, <1>4
<1>8. \A p, q, r \in W : <<p, q>> \in R /\ <<q, r>> \in R => <<p, r>> \in R
  BY <1>1, <1>3, <1>4
<1>9. \E f \in [1 .. Cardinality(W) -> W] :
         \A i, j \in 1 .. Cardinality(W) : i < j => <<f[i], f[j]>> \in R
  BY <1>2, <1>6, <1>7, <1>8, SortedExists
<1>10. \E f \in [1 .. Cardinality(W) -> W] :
          \A i, j \in 1 .. Cardinality(W) : i < j => Earlier(f[i], f[j])
  <2>1. \A p, q \in W : <<p, q>> \in R => Earlier(p, q)
    BY <1>4 DEF Earlier
  <2> QED BY <1>9, <2>1
<1> QED BY <1>10 DEF Ordered, W

(* A space after a text is not part of a word. *)
LEMMA TokensBeforeSpace ==
    ASSUME NEW s \in Seq(Characters)
    PROVE  Tokens(Append(s, Space)) = Tokens(s)
<1> DEFINE n == Len(s)
           t == Append(s, Space)
           B == {Space, Quote}
           W == Stretches(s, B)
<1>1. /\ n \in Nat /\ Len(t) = n + 1
      /\ \A k \in 1 .. n : t[k] = s[k]
      /\ t[n + 1] = Space
  OBVIOUS
<1> HIDE DEF t
<1>2. Stretches(t, B) = W
  <2>1. ASSUME NEW p \in Stretches(t, B) PROVE p \in W
    <3>1. /\ p \in (1 .. n + 1) \X (1 .. n + 1) /\ p[1] <= p[2]
          /\ \A k \in p[1] .. p[2] : t[k] \notin B
          /\ p[1] = 1 \/ t[p[1] - 1] \in B
          /\ p[2] = n + 1 \/ t[p[2] + 1] \in B
      BY <1>1 DEF Stretches
    <3>2. p[2] # n + 1
      BY <1>1, <3>1
    <3>3. p \in (1 .. n) \X (1 .. n)
      BY <1>1, <3>1, <3>2
    <3>4. \A k \in p[1] .. p[2] : s[k] \notin B
      BY <1>1, <3>1, <3>3
    <3>5. p[1] = 1 \/ s[p[1] - 1] \in B
      BY <1>1, <3>1, <3>3
    <3>6. p[2] = n \/ s[p[2] + 1] \in B
      BY <1>1, <3>1, <3>3
    <3> QED BY <3>1, <3>3, <3>4, <3>5, <3>6 DEF Stretches
  <2>2. ASSUME NEW p \in W PROVE p \in Stretches(t, B)
    <3>1. /\ p \in (1 .. n) \X (1 .. n) /\ p[1] <= p[2]
          /\ \A k \in p[1] .. p[2] : s[k] \notin B
          /\ p[1] = 1 \/ s[p[1] - 1] \in B
          /\ p[2] = n \/ s[p[2] + 1] \in B
      BY DEF Stretches
    <3>2. \A k \in p[1] .. p[2] : t[k] \notin B
      BY <1>1, <3>1
    <3>3. p[1] = 1 \/ t[p[1] - 1] \in B
      BY <1>1, <3>1
    <3>4. t[p[2] + 1] \in B
      BY <1>1, <3>1
    <3>5. p \in (1 .. n + 1) \X (1 .. n + 1)
      BY <1>1, <3>1
    <3> QED BY <1>1, <3>1, <3>2, <3>3, <3>4, <3>5 DEF Stretches
  <2> QED BY <2>1, <2>2
<1>3. ASSUME NEW p \in W PROVE At(t, p) = At(s, p)
  <2>1. p \in (1 .. n) \X (1 .. n)
    BY DEF Stretches
  <2>2. At(s, p) = [i \in 1 .. p[2] - p[1] + 1 |-> s[p[1] + i - 1]]
    BY <1>1, <2>1 DEF At
  <2>3. At(t, p) = [i \in 1 .. p[2] - p[1] + 1 |-> t[p[1] + i - 1]]
    BY <1>1, <2>1 DEF At
  <2>4. \A i \in 1 .. p[2] - p[1] + 1 : t[p[1] + i - 1] = s[p[1] + i - 1]
    BY <1>1, <2>1
  <2> QED BY <2>2, <2>3, <2>4
<1>4. Ordered(W, Earlier) \in [1 .. Cardinality(W) -> W]
  BY WordsAreOrdered
<1> HIDE DEF W
<1>5. \A i \in 1 .. Cardinality(W) :
         At(t, Ordered(W, Earlier)[i]) = At(s, Ordered(W, Earlier)[i])
  BY <1>3, <1>4
<1> QED BY <1>2, <1>5 DEF Tokens, W, t

-----------------------------------------------------------------------------
(* The spaces around a query                                               *)

LEMMA TokensOfNothing == Tokens(<<>>) = <<>>
<1>1. Stretches(<<>>, {Space, Quote}) = {}
  BY DEF Stretches
<1>2. Cardinality({}) = 0
  BY FS_EmptySet
<1>3. Tokens(<<>>) = [i \in 1 .. 0 |-> At(<<>>, Ordered({}, Earlier)[i])]
  BY <1>1, <1>2 DEF Tokens
<1> QED BY <1>3

(* The phrases of the terms that a scan would return if it ended here. *)
PhrasesSoFar(scan) ==
    ({Tokens(term) : term \in ToSet(scan.terms)} \cup {Tokens(scan.current)}) \ {<<>>}

LEMMA PhrasesOfScan ==
    ASSUME NEW scan \in Scanned
    PROVE  /\ {Tokens(term) : term \in ToSet(EndTerm(scan).terms)} \ {<<>>}
                 = PhrasesSoFar(scan)
           /\ PhrasesSoFar(EndTerm(scan)) = PhrasesSoFar(scan)
<1>1. /\ ToSet(EndTerm(scan).terms) = ToSet(scan.terms) \cup ({scan.current} \ {<<>>})
      /\ EndTerm(scan).current = <<>>
  BY EndTermType
<1> DEFINE T == ToSet(scan.terms)
           c == scan.current
<1>2. {Tokens(term) : term \in T \cup ({c} \ {<<>>})} \ {<<>>}
         = ({Tokens(term) : term \in T} \cup {Tokens(c)}) \ {<<>>}
  <2>1. CASE c = <<>>
    <3>1. T \cup ({c} \ {<<>>}) = T
      BY <2>1
    <3> QED BY <2>1, <3>1, TokensOfNothing
  <2>2. CASE c # <<>>
    <3>1. T \cup ({c} \ {<<>>}) = T \cup {c}
      BY <2>2
    <3> HIDE DEF T, c
    <3> QED BY <3>1
  <2> QED BY <2>1, <2>2
<1>3. PhrasesSoFar(scan) = ({Tokens(term) : term \in T} \cup {Tokens(c)}) \ {<<>>}
  BY DEF PhrasesSoFar
<1>4. PhrasesSoFar(EndTerm(scan)) =
         {Tokens(term) : term \in T \cup ({c} \ {<<>>})} \ {<<>>}
  BY <1>1, TokensOfNothing DEF PhrasesSoFar
<1> HIDE DEF T, c
<1> QED BY <1>1, <1>2, <1>3, <1>4 DEF T, c

(* A space adds no phrase, inside quotes or outside. *)
LEMMA SpaceAddsNothing ==
    ASSUME NEW scan \in Scanned
    PROVE  PhrasesSoFar(Scan(scan, Space)) = PhrasesSoFar(scan)
<1>1. CASE ~scan.inside
  <2>1. Scan(scan, Space) = EndTerm(scan)
    BY <1>1, CharactersAssumption DEF Scan
  <2> QED BY <2>1, PhrasesOfScan
<1>2. CASE scan.inside
  <2>1. Scan(scan, Space) = [scan EXCEPT !.current = Append(scan.current, Space)]
    BY <1>2, CharactersAssumption DEF Scan
  <2>2. /\ Scan(scan, Space).terms = scan.terms
        /\ Scan(scan, Space).current = Append(scan.current, Space)
    BY <2>1 DEF Scanned
  <2>3. scan.current \in Seq(Characters)
    BY DEF Scanned
  <2>4. Tokens(Append(scan.current, Space)) = Tokens(scan.current)
    BY <2>3, TokensBeforeSpace
  <2> QED BY <2>2, <2>4 DEF PhrasesSoFar
<1> QED BY <1>1, <1>2

(* trimmingCharacters does not change what a query asks for: not even where *)
(* a quote is open at its end.                                              *)
LEMMA TrimmingIsHarmless ==
    ASSUME NEW query \in Seq(Characters), HasText(query)
    PROVE  /\ Trimmed(query) \in Seq(Characters)
           /\ Phrases(Trimmed(query)) = Phrases(query)
<1> DEFINE n == Len(query)
           ink == {i \in DOMAIN query : query[i] # Space}
           first == Min(ink)
           last == Max(ink)
           text == Trimmed(query)
<1>1. n \in Nat /\ DOMAIN query = 1 .. n /\ \A i \in 1 .. n : query[i] \in Characters
  OBVIOUS
<1>2. ink \in SUBSET (1 .. n) /\ ink # {}
  BY <1>1 DEF HasText
<1>3. /\ first \in 1 .. n /\ last \in first .. n
      /\ \A i \in 1 .. n : i < first \/ last < i => query[i] = Space
  <2>1. /\ first \in ink /\ last \in ink
        /\ \A i \in ink : first <= i /\ i <= last
    BY <1>1, <1>2, FirstAndLast
  <2>2. first \in 1 .. n /\ last \in 1 .. n /\ first <= last
    BY <1>1, <1>2, <2>1
  <2>3. ASSUME NEW i \in 1 .. n, i < first \/ last < i PROVE query[i] = Space
    <3>1. i \notin ink
      <4> HIDE DEF first, last, ink
      <4> QED BY <1>1, <2>1, <2>2, <2>3
    <3> QED BY <1>1, <3>1
  <2> HIDE DEF first, last, ink
  <2> QED BY <1>1, <2>2, <2>3
<1>4. text = SubSeq(query, first, last)
  BY <1>2 DEF Trimmed
<1> HIDE DEF first, last, text, ink
<1>5. /\ text \in Seq(Characters)
      /\ Len(text) = last - first + 1
      /\ \A i \in 1 .. last - first + 1 : text[i] = query[first + i - 1]
  <2>1. first \in Int /\ last \in Int /\ first <= last
    BY <1>1, <1>3
  <2>2. \A i \in first .. last : query[i] \in Characters
    BY <1>1, <1>3
  <2> QED BY <1>4, <2>1, <2>2, SubSeqProperties
<1>6. Scans(query)[0] = Start /\ \A i \in 1 .. n :
         Scans(query)[i] = Scan(Scans(query)[i - 1], query[i])
  BY <1>1, ScansDef
<1>7. Scans(query)[first - 1] = Start
  <2> DEFINE T == {i \in 0 .. first - 1 : Scans(query)[i] = Start}
  <2>1. Scan(Start, Space) = Start
    BY CharactersAssumption DEF Scan, EndTerm, Start
  <2>2. 0 \in T
    BY <1>1, <1>3, <1>6
  <2>3. ASSUME NEW i \in 1 .. first - 1, i - 1 \in T PROVE i \in T
    <3>1. i \in 1 .. n /\ query[i] = Space
      BY <1>1, <1>3
    <3> QED BY <1>6, <2>1, <2>3, <3>1
  <2>4. T \in SUBSET (0 .. first - 1) /\ first - 1 \in Nat
    BY <1>1, <1>3
  <2> HIDE DEF T
  <2>5. T = 0 .. first - 1
    BY <2>2, <2>3, <2>4, UpTo
  <2> QED BY <2>4, <2>5 DEF T
<1>8. Scans(text)[Len(text)] = Scans(query)[last]
  <2> DEFINE m == Len(text)
             T == {i \in 0 .. m : Scans(text)[i] = Scans(query)[first - 1 + i]}
  <2>1. m \in Nat /\ m = last - first + 1
    BY <1>1, <1>3, <1>5
  <2>2. Scans(text)[0] = Start /\ \A i \in 1 .. m :
           Scans(text)[i] = Scan(Scans(text)[i - 1], text[i])
    BY <2>1, ScansDef
  <2> HIDE DEF m
  <2>3. 0 \in T
    <3>1. first - 1 + 0 = first - 1
      BY <1>1, <1>3
    <3> QED BY <1>7, <2>1, <2>2, <3>1
  <2>4. ASSUME NEW i \in 1 .. m, i - 1 \in T PROVE i \in T
    <3>1. /\ first - 1 + i \in 1 .. n
          /\ (first - 1 + i) - 1 = first - 1 + (i - 1)
          /\ first + i - 1 = first - 1 + i
          /\ i \in 1 .. last - first + 1
      BY <1>1, <1>3, <2>1
    <3>2. text[i] = query[first - 1 + i]
      BY <1>5, <3>1
    <3>3. Scans(text)[i - 1] = Scans(query)[first - 1 + (i - 1)]
      BY <2>4
    <3>4. Scans(query)[first - 1 + i] =
             Scan(Scans(query)[first - 1 + (i - 1)], query[first - 1 + i])
      BY <1>6, <3>1
    <3> QED BY <2>1, <2>2, <3>2, <3>3, <3>4
  <2>5. T \in SUBSET (0 .. m)
    OBVIOUS
  <2> HIDE DEF T
  <2>6. T = 0 .. m
    BY <2>1, <2>3, <2>4, <2>5, UpTo
  <2>7. m \in T /\ first - 1 + m = last
    BY <1>1, <1>3, <2>1, <2>6
  <2> QED BY <2>7 DEF T, m
<1>9. PhrasesSoFar(Scans(query)[n]) = PhrasesSoFar(Scans(query)[last])
  <2> DEFINE T == {i \in 0 .. n - last : PhrasesSoFar(Scans(query)[last + i])
                                            = PhrasesSoFar(Scans(query)[last])}
  <2>1. n - last \in Nat /\ last + 0 = last
    BY <1>1, <1>3
  <2>2. 0 \in T
    BY <2>1
  <2>3. ASSUME NEW i \in 1 .. n - last, i - 1 \in T PROVE i \in T
    <3>1. /\ last + i \in 1 .. n /\ last + i - 1 \in 0 .. n
          /\ last + (i - 1) = last + i - 1 /\ query[last + i] = Space
      BY <1>1, <1>3
    <3>2. Scans(query)[last + i - 1] \in Scanned
      BY <3>1, ScansType
    <3>3. Scans(query)[last + i] = Scan(Scans(query)[last + i - 1], Space)
      <4>1. \A j \in 1 .. n :
               query[j] = Space => Scans(query)[j] = Scan(Scans(query)[j - 1], Space)
        BY <1>6
      <4>2. PICK j \in 1 .. n : j = last + i
        BY <3>1
      <4>3. query[j] = Space
        BY <3>1, <4>2
      <4>4. Scans(query)[j] = Scan(Scans(query)[j - 1], Space)
        BY <4>1, <4>2, <4>3
      <4>5. j - 1 = last + i - 1
        BY <1>1, <1>3, <4>2
      <4> QED BY <4>2, <4>4, <4>5
    <3>4. PhrasesSoFar(Scans(query)[last + i]) =
             PhrasesSoFar(Scans(query)[last + i - 1])
      BY <3>2, <3>3, SpaceAddsNothing
    <3> QED BY <2>1, <2>3, <3>1, <3>4
  <2>4. T \in SUBSET (0 .. n - last)
    OBVIOUS
  <2> HIDE DEF T
  <2>5. T = 0 .. n - last
    BY <2>1, <2>2, <2>3, <2>4, UpTo
  <2>6. n - last \in T /\ last + (n - last) = n
    BY <1>1, <1>3, <2>1, <2>5
  <2> QED BY <2>6 DEF T
<1>10. ASSUME NEW q \in Seq(Characters)
       PROVE  Phrases(q) = PhrasesSoFar(Scans(q)[Len(q)])
  <2>1. Len(q) \in Nat /\ Len(q) \in 0 .. Len(q)
    OBVIOUS
  <2>2. Scans(q)[Len(q)] \in Scanned
    BY <2>1, ScansType
  <2> QED BY <2>2, PhrasesOfScan DEF Phrases, Terms
<1> QED BY <1>5, <1>8, <1>9, <1>10 DEF text, n

-----------------------------------------------------------------------------
(* A search of the timeline                                                *)

(* The index says of a row what its own words say. *)
LEMMA IndexSays ==
    ASSUME TypeOK, IndexFollowsRows, NEW row \in rows, NEW phrase
    PROVE  (\E entry \in index : entry.id = row.id /\ \E column \in entry.columns :
                Occurs(FoldAll(phrase), column))
           <=> Says(row, phrase)
<1>1. FoldAll(<<row.context.name>>) = <<Fold(row.context.name)>>
  BY DEF FoldAll
<1>2. Posting(row) \in index
  BY DEF IndexFollowsRows, Postings
<1>3. ASSUME NEW entry \in index, entry.id = row.id
      PROVE  entry = Posting(row)
  <2>1. PICK other \in rows : entry = Posting(other)
    BY DEF IndexFollowsRows, Postings
  <2>2. other.id = row.id
    BY <1>3, <2>1 DEF Posting
  <2> QED BY <2>1, <2>2 DEF TypeOK
<1>4. /\ Posting(row).id = row.id
      /\ Posting(row).columns = {FoldAll(text) :
             text \in {row.text, row.context.title, <<row.context.name>>}}
  <2>1. {FoldAll(text) : text \in {row.text, row.context.title, <<row.context.name>>}}
           = {FoldAll(row.text), FoldAll(<<row.context.name>>),
              FoldAll(row.context.title)}
    OBVIOUS
  <2> QED BY <1>1, <2>1 DEF Posting
<1>5. (\E column \in Posting(row).columns : Occurs(FoldAll(phrase), column))
         <=> Says(row, phrase)
  BY <1>4 DEF Says
<1> QED BY <1>2, <1>3, <1>4, <1>5

LEMMA SelectedIsAsked ==
    ASSUME TypeOK, IndexFollowsRows, NEW request \in Requests
    PROVE  Selected(request) = {row \in rows : Answers(row, request)}
<1> DEFINE text == request.text
<1>1. text \in Seq(Characters)
  BY SearchAssumption
<1> HIDE DEF text
<1>2. ASSUME NEW row \in rows, HasText(text)
      PROVE  row \in Matches(text) <=> \E phrase \in Asked(text) : Says(row, phrase)
  <2>1. Phrases(Trimmed(text)) = Asked(text)
    BY <1>1, <1>2, TrimmingIsHarmless, PhrasesAreAsked
  <2>2. row \in Matches(text) <=>
           \E phrase \in Asked(text) :
              \E entry \in index : entry.id = row.id /\ \E column \in entry.columns :
                 Occurs(FoldAll(phrase), column)
    BY <2>1 DEF Matches
  <2> QED BY <2>2, IndexSays
<1>3. Matches(text) \subseteq rows
  BY DEF Matches
<1> QED BY <1>2, <1>3 DEF Selected, Answers, text

LEMMA NewestFirst ==
    ASSUME TypeOK, NEW S \in SUBSET rows
    PROVE  /\ IsFiniteSet(S)
           /\ Cardinality(S) \in Nat
           /\ Ordered(S, Newer) \in [1 .. Cardinality(S) -> S]
           /\ \A i, j \in 1 .. Cardinality(S) :
                 i < j => Newer(Ordered(S, Newer)[i], Ordered(S, Newer)[j])
<1>1. \A row \in rows : row.id \in 1 .. Len(added) /\ row.at \in Nat
  BY TimelineAssumption DEF TypeOK, Rows
<1>2. Len(added) \in Nat
  BY DEF TypeOK
<1>3. IsFiniteSet(rows)
  <2> DEFINE f == [row \in rows |-> row.id]
  <2>1. f \in Injection(rows, 1 .. Len(added))
    BY <1>1 DEF TypeOK, Injection, IsInjective
  <2>2. IsFiniteSet(1 .. Len(added))
    BY <1>2, FS_Interval
  <2> QED BY <2>1, <2>2, FS_Injection
<1>4. IsFiniteSet(S) /\ Cardinality(S) \in Nat
  BY <1>3, FS_Subset, FS_CardinalityType
<1> DEFINE R == {x \in S \X S : Newer(x[1], x[2])}
<1>5. \A a, b \in S : <<a, b>> \in R <=> Newer(a, b)
  OBVIOUS
<1> HIDE DEF R
<1>6. \A a \in S : <<a, a>> \notin R
  BY <1>1, <1>5 DEF Newer
<1>7. \A a, b \in S : a # b => <<a, b>> \in R \/ <<b, a>> \in R
  BY <1>1, <1>5 DEF Newer, TypeOK
<1>8. \A a, b, c \in S : <<a, b>> \in R /\ <<b, c>> \in R => <<a, c>> \in R
  BY <1>1, <1>5 DEF Newer
<1>9. \E f \in [1 .. Cardinality(S) -> S] :
         \A i, j \in 1 .. Cardinality(S) : i < j => <<f[i], f[j]>> \in R
  BY <1>4, <1>6, <1>7, <1>8, SortedExists
<1> DEFINE Sorted(f) == \A i, j \in 1 .. Cardinality(S) : i < j => Newer(f[i], f[j])
<1>10. \E f \in [1 .. Cardinality(S) -> S] : Sorted(f)
  BY <1>5, <1>9
<1>11. Ordered(S, Newer) = CHOOSE f \in [1 .. Cardinality(S) -> S] : Sorted(f)
  BY DEF Ordered
<1> HIDE DEF Sorted
<1>12. Ordered(S, Newer) \in [1 .. Cardinality(S) -> S] /\ Sorted(Ordered(S, Newer))
  BY <1>10, <1>11
<1> QED BY <1>4, <1>12 DEF Sorted

LEMMA LimitBounded ==
    ASSUME NEW request \in Requests, NEW n \in Nat
    PROVE  /\ BoundedLimit(request.limit) \in Nat
           /\ Min({n, BoundedLimit(request.limit)}) \in Nat
           /\ Min({n, BoundedLimit(request.limit)}) <= n
           /\ Min({n, BoundedLimit(request.limit)}) # n
                 => Min({n, BoundedLimit(request.limit)}) = BoundedLimit(request.limit)
<1>1. ASSUME NEW a \in Int, NEW b \in Int
      PROVE  /\ Min({a, b}) \in {a, b} /\ Min({a, b}) <= a /\ Min({a, b}) <= b
             /\ Max({a, b}) \in {a, b} /\ a <= Max({a, b}) /\ b <= Max({a, b})
  <2>1. (\E x \in {a, b} : \A y \in {a, b} : x <= y)
        /\ (\E x \in {a, b} : \A y \in {a, b} : x >= y)
    BY <1>1
  <2> QED BY <2>1 DEF Min, Max
<1> DEFINE capped == Max({request.limit, 1})
<1>2. request.limit \in Int /\ ResultLimit \in Nat \ {0}
  BY SearchAssumption
<1>3. capped \in Nat
  <2>1. 1 \in Int
    OBVIOUS
  <2>2. capped \in {request.limit, 1} /\ 1 <= capped
    BY <1>1, <1>2, <2>1
  <2> QED BY <1>2, <2>2
<1> HIDE DEF capped
<1>4. BoundedLimit(request.limit) \in Nat
  <2>1. Min({capped, ResultLimit}) \in {capped, ResultLimit}
    BY <1>1, <1>2, <1>3
  <2> QED BY <1>2, <1>3, <2>1 DEF BoundedLimit, capped
<1> DEFINE limit == BoundedLimit(request.limit)
<1> HIDE DEF limit
<1>5. Min({n, limit}) \in {n, limit} /\ Min({n, limit}) <= n
  <2>1. n \in Int /\ limit \in Int
    BY <1>4 DEF limit
  <2> QED BY <1>1, <2>1
<1> QED BY <1>4, <1>5 DEF limit

LEMMA SearchIsResult ==
    ASSUME TypeOK, IndexFollowsRows, NEW request \in Requests
    PROVE  IsResult(Search(request), request)
<1> DEFINE S == Selected(request)
           f == Ordered(S, Newer)
           n == Cardinality(S)
           limit == BoundedLimit(request.limit)
           m == Min({n, limit})
           result == SubSeq(f, 1, m)
<1>1. S = {row \in rows : Answers(row, request)} /\ S \in SUBSET rows
  BY SelectedIsAsked
<1> HIDE DEF S
<1>2. /\ IsFiniteSet(S) /\ n \in Nat
      /\ f \in [1 .. n -> S]
      /\ \A i, j \in 1 .. n : i < j => Newer(f[i], f[j])
  BY <1>1, NewestFirst
<1>3. \A row \in S : row.id \in Nat /\ row.at \in Nat
  <2>1. \A row \in rows : row.id \in 1 .. Len(added) /\ row.at \in Nat
    BY TimelineAssumption DEF TypeOK, Rows
  <2>2. Len(added) \in Nat
    BY DEF TypeOK
  <2> QED BY <1>1, <2>1, <2>2
<1> HIDE DEF n, f, limit
<1>4. m \in Nat /\ m <= n /\ (m # n => m = limit)
  BY <1>2, LimitBounded DEF limit
<1> HIDE DEF m
<1>5. /\ Len(result) = m
      /\ DOMAIN result = 1 .. m
      /\ \A i \in 1 .. m : result[i] = f[i] /\ i \in 1 .. n
  <2>1. \A i \in 1 .. m : f[i] \in S
    BY <1>2, <1>4
  <2>2. /\ result \in Seq(S)
        /\ Len(result) = IF 1 <= m THEN m - 1 + 1 ELSE 0
        /\ \A i \in 1 .. m - 1 + 1 : result[i] = f[1 + i - 1]
    BY <1>4, <2>1, SubSeqProperties
  <2>3. Len(result) = m
    BY <1>4, <2>2
  <2>4. \A i \in 1 .. m : result[i] = f[i]
    <3>1. \A i \in 1 .. m : i \in 1 .. m - 1 + 1 /\ 1 + i - 1 = i
      BY <1>4
    <3> QED BY <2>2, <3>1
  <2> HIDE DEF result
  <2> QED BY <1>2, <1>4, <2>2, <2>3, <2>4
<1> HIDE DEF result
<1>6. ToSet(result) \subseteq S
  BY <1>2, <1>5 DEF ToSet
<1>7. \A i, j \in 1 .. n : f[i] = f[j] => i = j
  <2>1. \A i, j \in 1 .. n : i < j => f[i] # f[j]
    BY <1>2, <1>3 DEF Newer
  <2> QED BY <1>2, <2>1
<1>8. IsInjective(result)
  BY <1>5, <1>7 DEF IsInjective
<1>9. \A i \in 1 .. Len(result) - 1 : result[i].at >= result[i + 1].at
  <2> SUFFICES ASSUME NEW i \in 1 .. m - 1 PROVE result[i].at >= result[i + 1].at
    BY <1>5
  <2>1. i \in 1 .. m /\ i + 1 \in 1 .. m /\ i < i + 1
    BY <1>4
  <2>2. Newer(result[i], result[i + 1])
    BY <1>2, <1>5, <2>1
  <2>3. result[i] \in S /\ result[i + 1] \in S
    BY <1>2, <1>5, <2>1
  <2> QED BY <1>3, <2>2, <2>3 DEF Newer
<1>10. ASSUME NEW row \in S \ ToSet(result)
       PROVE  Len(result) = limit /\ \A i \in DOMAIN result : result[i].at >= row.at
  <2>1. \E k \in 1 .. n : f[k] = row
    <3>1. f \in Injection(1 .. n, S)
      BY <1>2, <1>7 DEF Injection, IsInjective
    <3>2. Cardinality(1 .. n) = n
      BY <1>2, FS_Interval
    <3>3. f \in Surjection(1 .. n, S)
      BY <1>2, <3>1, <3>2, FS_Injection DEF n
    <3>4. row \in S
      BY <1>10
    <3> HIDE DEF f
    <3> QED BY <3>3, <3>4 DEF Surjection
  <2>2. PICK k \in 1 .. n : f[k] = row
    BY <2>1
  <2>3. k \notin 1 .. m
    BY <1>5, <2>2 DEF ToSet
  <2>4. m # n /\ \A i \in 1 .. m : i < k
    BY <1>2, <1>4, <2>3
  <2>5. ASSUME NEW i \in DOMAIN result PROVE result[i].at >= row.at
    <3>1. i \in 1 .. m /\ i \in 1 .. n /\ result[i] = f[i] /\ f[i] \in S
      BY <1>2, <1>5
    <3>2. Newer(result[i], row)
      BY <1>2, <2>2, <2>4, <3>1
    <3> QED BY <1>3, <3>1, <3>2 DEF Newer
  <2> QED BY <1>4, <1>5, <2>4, <2>5
<1>11. Search(request) = result
  BY DEF Search, S, f, n, m, limit, result
<1> QED BY <1>1, <1>6, <1>8, <1>9, <1>10, <1>11 DEF IsResult, limit

-----------------------------------------------------------------------------

(* For every query and not only the short ones: a word outside quotes and a  *)
(* quoted text each become one phrase, and nothing else does (docs/cli.md:79). *)
THEOREM QueriesMeanWhatTheySay == ExpressionsMeanQueries
BY PhrasesAreAsked, SearchAssumption DEF ExpressionsMeanQueries

(* In every state a search returns what the documentation promises of the    *)
(* rows there are: those that answer it, once, newest first, up to the limit. *)
THEOREM SearchIsFaithful == Spec => []SearchFindsWhatIsAsked
<1>1. Inv => SearchFindsWhatIsAsked
  BY QueriesMeanWhatTheySay, SearchIsResult DEF SearchFindsWhatIsAsked, Inv, Parts
<1> QED BY <1>1, Invariant, PTL

=============================================================================
