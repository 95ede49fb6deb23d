---------------------------- MODULE ClientProofs ----------------------------
(***************************************************************************)
(* Proofs about the calls of pkg/xolu that take several requests: list,    *)
(* describe and the calendar, each about its own specification, while      *)
(* others change xolu between the requests.                                *)
(*                                                                         *)
(* ListInv says of a list how far it has read (PageInv), and where what it *)
(* has and what it lacks must lie: what was collected is not ahead         *)
(* (OnceInv), what stayed is collected or ahead (StayedInv).  DescribeInv  *)
(* says that what stayed in a group was found, and that what was found has *)
(* its details or is still to be asked for them (TodoInv, WholeInv).       *)
(* CalendarInv says that the answers so far are about instants of the call *)
(* (CheckInv) and that a booking is named, or its answer is lost           *)
(* (BookingInv).                                                           *)
(***************************************************************************)
EXTENDS ListPaging, Describe, Calendar, Induction, SequenceTheorems, FiniteSetTheorems, TLAPS

-----------------------------------------------------------------------------
(***************************************************************************)
(* ListPaging.  Parts of sequences, and of sequences with a row more or    *)
(* less.                                                                   *)
(***************************************************************************)

LEMMA Part ==
    ASSUME NEW T, NEW s \in Seq(T), NEW a \in 1..(Len(s) + 1), NEW b \in 0..Len(s), a <= b + 1
    PROVE  /\ SubSeq(s, a, b) \in Seq(T) /\ Len(SubSeq(s, a, b)) = b - a + 1
           /\ \A j \in 1..(b - a + 1) : SubSeq(s, a, b)[j] = s[a + j - 1]
<1>1. a \in Int /\ b \in Int /\ \A i \in a..b : s[i] \in T
  OBVIOUS
<1>2. IF a <= b THEN TRUE ELSE b - a + 1 = 0
  OBVIOUS
<1> QED
  BY <1>1, <1>2, SubSeqProperties

(***************************************************************************)
(* What RemoveAt and InsertAt return.                                      *)
(***************************************************************************)
LEMMA RemovedAt ==
    ASSUME NEW T, NEW s \in Seq(T), NEW i \in 1..Len(s)
    PROVE  /\ RemoveAt(s, i) \in Seq(T) /\ Len(RemoveAt(s, i)) = Len(s) - 1
           /\ \A j \in 1..(Len(s) - 1) : RemoveAt(s, i)[j] = IF j < i THEN s[j] ELSE s[j + 1]
<1>1. PICK a, b : a = SubSeq(s, 1, i - 1) /\ b = SubSeq(s, i + 1, Len(s))
  OBVIOUS
<1>2. a \in Seq(T) /\ Len(a) = i - 1 /\ \A j \in 1..(i - 1) : a[j] = s[j]
  <2>1. 1 \in 1..(Len(s) + 1) /\ i - 1 \in 0..Len(s) /\ 1 <= (i - 1) + 1
    OBVIOUS
  <2> QED
    BY <1>1, <2>1, Part
<1>3. b \in Seq(T) /\ Len(b) = Len(s) - i /\ \A j \in 1..(Len(s) - i) : b[j] = s[i + j]
  <2>1. i + 1 \in 1..(Len(s) + 1) /\ Len(s) \in 0..Len(s) /\ i + 1 <= Len(s) + 1
    OBVIOUS
  <2> QED
    BY <1>1, <2>1, Part
<1>4. RemoveAt(s, i) = a \o b
  BY <1>1 DEF RemoveAt
<1>5. \A j \in 1..(Len(s) - 1) : (a \o b)[j] = IF j < i THEN s[j] ELSE s[j + 1]
  <2> SUFFICES ASSUME NEW j \in 1..(Len(s) - 1) PROVE (a \o b)[j] = IF j < i THEN s[j] ELSE s[j + 1]
    OBVIOUS
  <2>1. (a \o b)[j] = IF j <= Len(a) THEN a[j] ELSE b[j - Len(a)]
    BY <1>2, <1>3, ConcatProperties
  <2> QED
    BY <1>2, <1>3, <2>1
<1>6. a \o b \in Seq(T) /\ Len(a \o b) = Len(a) + Len(b)
  BY <1>2, <1>3, ConcatProperties
<1>7. Len(a) + Len(b) = Len(s) - 1
  BY <1>2, <1>3
<1> QED
  BY <1>4, <1>5, <1>6, <1>7

LEMMA InsertedAt ==
    ASSUME NEW T, NEW s \in Seq(T), NEW i \in 1..Len(s) + 1, NEW e \in T
    PROVE  /\ InsertAt(s, i, e) \in Seq(T) /\ Len(InsertAt(s, i, e)) = Len(s) + 1
           /\ \A j \in 1..(Len(s) + 1) :
                  InsertAt(s, i, e)[j] = IF j < i THEN s[j] ELSE IF j = i THEN e ELSE s[j - 1]
<1>1. PICK a, b, one : a = SubSeq(s, 1, i - 1) /\ b = SubSeq(s, i, Len(s)) /\ one = <<e>>
  OBVIOUS
<1>2. a \in Seq(T) /\ Len(a) = i - 1 /\ \A j \in 1..(i - 1) : a[j] = s[j]
  <2>1. 1 \in 1..(Len(s) + 1) /\ i - 1 \in 0..Len(s) /\ 1 <= (i - 1) + 1
    OBVIOUS
  <2> QED
    BY <1>1, <2>1, Part
<1>3. b \in Seq(T) /\ Len(b) = Len(s) - i + 1 /\ \A j \in 1..(Len(s) - i + 1) : b[j] = s[i + j - 1]
  <2>1. i \in 1..(Len(s) + 1) /\ Len(s) \in 0..Len(s) /\ i <= Len(s) + 1
    OBVIOUS
  <2> QED
    BY <1>1, <2>1, Part
<1>4. one \in Seq(T) /\ Len(one) = 1 /\ one[1] = e
  BY <1>1
<1>5. InsertAt(s, i, e) = (a \o one) \o b
  BY <1>1 DEF InsertAt
<1>6. /\ a \o one \in Seq(T) /\ Len(a \o one) = i
      /\ \A j \in 1..i : (a \o one)[j] = IF j < i THEN s[j] ELSE e
  <2>1. \A j \in 1..i : (a \o one)[j] = IF j <= Len(a) THEN a[j] ELSE one[j - Len(a)]
    BY <1>2, <1>4, ConcatProperties
  <2>2. Len(a \o one) = i /\ a \o one \in Seq(T)
    <3>1. a \o one \in Seq(T) /\ Len(a \o one) = Len(a) + Len(one)
      BY <1>2, <1>4, ConcatProperties
    <3> QED
      BY <1>2, <1>4, <3>1
  <2> QED
    BY <1>2, <1>4, <2>1, <2>2
<1>7. PICK c : c = a \o one
  OBVIOUS
<1>8. \A j \in 1..(Len(s) + 1) : (c \o b)[j] = IF j < i THEN s[j] ELSE IF j = i THEN e ELSE s[j - 1]
  <2> SUFFICES ASSUME NEW j \in 1..(Len(s) + 1)
               PROVE  (c \o b)[j] = IF j < i THEN s[j] ELSE IF j = i THEN e ELSE s[j - 1]
    OBVIOUS
  <2>1. (c \o b)[j] = IF j <= Len(c) THEN c[j] ELSE b[j - Len(c)]
    BY <1>3, <1>6, <1>7, ConcatProperties
  <2> QED
    BY <1>3, <1>6, <1>7, <2>1
<1>9. c \o b \in Seq(T) /\ Len(c \o b) = Len(c) + Len(b)
  BY <1>3, <1>6, <1>7, ConcatProperties
<1>10. Len(c) + Len(b) = Len(s) + 1
  <2>1. Len(s) \in Nat /\ i \in Nat /\ Len(c) = i /\ Len(b) = Len(s) - i + 1
    BY <1>3, <1>6, <1>7
  <2> QED
    BY ONLY <2>1
<1> QED
  BY <1>5, <1>7, <1>8, <1>9, <1>10
-----------------------------------------------------------------------------

Min2(a, b) == IF a <= b THEN a ELSE b
Max2(a, b) == IF a <= b THEN b ELSE a

\* The first and the last row of page p that are in the window.
FirstOf(p) == Max2(offset, (p - 1) * PerPage) + 1
LastOf(p) == Min2(Min2(Len(rows), end), p * PerPage)

ListParameters ==
    /\ rows \in Seq(Row) /\ limit \in Nat /\ offset \in Nat /\ page \in Nat \ {0}

LEMMA Pages ==
    ASSUME NEW p \in Nat \ {0}
    PROVE  /\ PerPage \in Nat \ {0}
           /\ (p - 1) * PerPage \in Nat /\ p * PerPage \in Nat
           /\ p * PerPage = (p - 1) * PerPage + PerPage
<1>1. PerPage \in Nat \ {0} /\ p - 1 \in Nat
  BY ListPagingAssumption
<1> QED
  BY <1>1

(***************************************************************************)
(* The rows of a page that fall into the window are a run of the rows.     *)
(***************************************************************************)
LEMMA WindowIsRun ==
    ASSUME ListParameters, NEW p \in Nat \ {0}
    PROVE  {i \in Data(p) : InWindow(i - 1)} = FirstOf(p)..LastOf(p)
<1>1. PICK a, b, len, to : /\ a = (p - 1) * PerPage /\ b = p * PerPage /\ len = Len(rows) /\ to = end
                           /\ a \in Nat /\ b \in Nat /\ len \in Nat /\ to \in Nat
  <2>1. (p - 1) * PerPage \in Nat /\ p * PerPage \in Nat
    BY Pages
  <2>2. Len(rows) \in Nat /\ end \in Nat
    BY DEF ListParameters, end
  <2> QED
    BY <2>1, <2>2
<1>2. \A i : i \in {j \in Data(p) : InWindow(j - 1)}
                <=> i \in Nat /\ 1 <= i /\ i <= len /\ a < i /\ i <= b /\ offset <= i - 1 /\ i - 1 < to
  BY <1>1 DEF Data, InWindow
<1>3. FirstOf(p) = Max2(offset, a) + 1 /\ LastOf(p) = Min2(Min2(len, to), b)
  BY <1>1 DEF FirstOf, LastOf
<1>4. \A i : i \in (Max2(offset, a) + 1)..Min2(Min2(len, to), b)
                <=> i \in Nat /\ 1 <= i /\ i <= len /\ a < i /\ i <= b /\ offset <= i - 1 /\ i - 1 < to
  <2>1. offset \in Nat
    BY DEF ListParameters
  <2> QED
    BY <1>1, <2>1 DEF Max2, Min2
<1> QED
  BY <1>2, <1>3, <1>4

LEMMA CountUpTo ==
    ASSUME NEW lo \in Nat, NEW hi \in Nat, NEW window, window = lo..hi, NEW i \in window
    PROVE  Cardinality({j \in window : j <= i}) = i - lo + 1
<1>1. {j \in window : j <= i} = lo..i
  OBVIOUS
<1>2. lo \in Int /\ i \in Int /\ ~(lo > i)
  OBVIOUS
<1> QED
  BY <1>1, <1>2, FS_Interval

(***************************************************************************)
(* Cut returns that run.                                                   *)
(***************************************************************************)
LEMMA CutIsRun ==
    ASSUME ListParameters, NEW p \in Nat \ {0}
    PROVE  /\ FirstOf(p) \in Nat \ {0} /\ LastOf(p) \in Nat /\ LastOf(p) <= Len(rows)
           /\ Cut(p) \in Seq(Row)
           /\ Len(Cut(p)) = IF FirstOf(p) <= LastOf(p) THEN LastOf(p) - FirstOf(p) + 1 ELSE 0
           /\ \A n \in 1..Len(Cut(p)) : Cut(p)[n] = rows[FirstOf(p) + n - 1]
           /\ Cut(p) = SubSeq(rows, FirstOf(p), LastOf(p))
<1>1. PICK lo, hi : lo = FirstOf(p) /\ hi = LastOf(p)
  OBVIOUS
<1>2. lo \in Nat /\ 1 <= lo /\ hi \in Nat /\ hi <= Len(rows)
  <2>1. (p - 1) * PerPage \in Nat /\ p * PerPage \in Nat /\ Len(rows) \in Nat /\ end \in Nat /\ offset \in Nat
    BY Pages DEF ListParameters, end
  <2> QED
    BY <1>1, <2>1 DEF FirstOf, LastOf, Max2, Min2
<1>3. PICK window : window = {i \in Data(p) : InWindow(i - 1)}
  OBVIOUS
<1>4. window = lo..hi
  BY <1>1, <1>3, WindowIsRun
<1>5. PICK size : size = IF lo <= hi THEN hi - lo + 1 ELSE 0
  OBVIOUS
<1>6. Cardinality(window) = size /\ size \in Nat
  <2>1. Cardinality(lo..hi) = IF lo > hi THEN 0 ELSE hi - lo + 1
    BY <1>2, FS_Interval
  <2> QED
    BY <1>2, <1>4, <1>5, <2>1
<1>7. Cut(p) = [n \in 1..size |-> rows[CHOOSE i \in window : Cardinality({j \in window : j <= i}) = n]]
  BY <1>3, <1>6 DEF Cut
<1>8. \A n \in 1..size : (CHOOSE i \in window : Cardinality({j \in window : j <= i}) = n) = lo + n - 1
  <2> SUFFICES ASSUME NEW n \in 1..size
               PROVE  (CHOOSE i \in window : Cardinality({j \in window : j <= i}) = n) = lo + n - 1
    OBVIOUS
  <2> DEFINE IsNth(i) == Cardinality({j \in window : j <= i}) = n
  <2>1. \A i \in window : Cardinality({j \in window : j <= i}) = i - lo + 1
    BY <1>2, <1>4, CountUpTo
  <2>2. lo + n - 1 \in window
    BY <1>2, <1>4, <1>5
  <2>3. \A i \in window : i - lo + 1 = n <=> i = lo + n - 1
    BY <1>2, <1>4
  <2>4. \A i \in window : IsNth(i) <=> i = lo + n - 1
    BY <2>1, <2>3
  <2> HIDE DEF IsNth
  <2>5. (CHOOSE i \in window : IsNth(i)) = lo + n - 1
    BY <2>2, <2>4
  <2> QED
    BY <2>5 DEF IsNth
<1>9. Cut(p) = [n \in 1..size |-> rows[lo + n - 1]]
  BY <1>7, <1>8
<1>10. \A n \in 1..size : lo + n - 1 \in 1..Len(rows) /\ rows[lo + n - 1] \in Row
  <2>1. \A n \in 1..size : lo + n - 1 \in 1..Len(rows)
    BY <1>2, <1>5
  <2> QED
    BY <2>1 DEF ListParameters
<1>11. Cut(p) \in Seq(Row) /\ Len(Cut(p)) = size
  BY <1>6, <1>9, <1>10
<1>12. \A n \in 1..size : Cut(p)[n] = rows[lo + n - 1]
  BY <1>9
<1>13. Cut(p) = SubSeq(rows, lo, hi)
  <2>1. \A i \in lo..hi : rows[i] \in Row
    BY <1>2 DEF ListParameters
  <2>2. /\ SubSeq(rows, lo, hi) \in Seq(Row)
        /\ Len(SubSeq(rows, lo, hi)) = IF lo <= hi THEN hi - lo + 1 ELSE 0
        /\ \A i \in 1..(hi - lo + 1) : SubSeq(rows, lo, hi)[i] = rows[lo + i - 1]
    BY <1>2, <2>1, SubSeqProperties
  <2>3. \A n \in 1..size : n \in 1..(hi - lo + 1)
    BY <1>2, <1>5
  <2>4. Len(SubSeq(rows, lo, hi)) = size /\ \A n \in 1..size : SubSeq(rows, lo, hi)[n] = Cut(p)[n]
    BY <1>5, <1>12, <2>2, <2>3
  <2> QED
    BY <1>11, <2>2, <2>4, SeqEqual
<1> QED
  BY <1>1, <1>2, <1>5, <1>11, <1>12, <1>13

\* A page whose rows are all there is full.
LEMMA FullPage ==
    ASSUME ListParameters, NEW p \in Nat \ {0}, p * PerPage <= Len(rows)
    PROVE  Cardinality(Data(p)) = PerPage
<1>1. PICK a, b : /\ a = (p - 1) * PerPage /\ b = p * PerPage /\ a \in Nat /\ b \in Nat
                  /\ b = a + PerPage /\ PerPage \in Nat \ {0}
  BY Pages
<1>2. Len(rows) \in Nat /\ b <= Len(rows)
  BY <1>1 DEF ListParameters
<1>3. Data(p) = (a + 1)..b
  BY <1>1, <1>2 DEF Data
<1>4. a + 1 \in Int /\ b \in Int /\ ~(a + 1 > b)
  BY <1>1
<1>5. Cardinality((a + 1)..b) = b - (a + 1) + 1
  BY <1>4, FS_Interval
<1> QED
  BY <1>1, <1>3, <1>5

\* Some set of rows in some order, as the call begins.
LEMMA SomeRows ==
    ASSUME NEW some \in SUBSET Row
    PROVE  SetToSeq(some) \in Seq(Row) /\ IsInjective(SetToSeq(some))
<1>1. IsFiniteSet(some)
  BY ListPagingAssumption, FS_Subset
<1>2. Cardinality(some) \in Nat /\ ExistsBijection(1..Cardinality(some), some)
  BY <1>1, FS_CardinalityType
<1>3. \E f \in [1..Cardinality(some) -> some] : IsInjective(f)
  BY <1>2 DEF ExistsBijection, Bijection, Injection, Surjection
<1>4. SetToSeq(some) \in [1..Cardinality(some) -> some] /\ IsInjective(SetToSeq(some))
  BY <1>3 DEF SetToSeq
<1>5. \A f \in [1..Cardinality(some) -> some] : f \in Seq(Row)
  BY <1>2
<1> QED
  BY <1>4, <1>5

\* There are no more rows than Row has.
LEMMA RowsAreFew ==
    ASSUME NEW s \in Seq(Row), IsInjective(s)
    PROVE  Len(s) \in 0..Cardinality(Row)
<1>1. Len(s) \in Nat /\ s \in [1..Len(s) -> Row]
  OBVIOUS
<1>2. s \in Injection(1..Len(s), Row)
  BY <1>1 DEF Injection
<1>3. IsFiniteSet(Row) /\ Cardinality(Row) \in Nat
  BY ListPagingAssumption, FS_CardinalityType
<1>4. Cardinality(1..Len(s)) <= Cardinality(Row)
  BY <1>2, <1>3, FS_Injection
<1>5. Cardinality(1..Len(s)) = IF 1 > Len(s) THEN 0 ELSE Len(s) - 1 + 1
  BY <1>1, FS_Interval
<1> QED
  BY <1>1, <1>3, <1>4, <1>5
-----------------------------------------------------------------------------

(***************************************************************************)
(* The invariant: how far the call has read, what it has cost and what it  *)
(* has collected.                                                          *)
(***************************************************************************)
\* The rows of xolu that have been asked for.
ReadTo == (IF answered THEN page ELSE page - 1) * PerPage

\* The pages that the window touches.
First == offset \div PerPage + 1
Deepest == (end - 1) \div PerPage + 1

PageInv == First <= page /\ page <= Deepest /\ Len(asRead) = page - First + (IF answered THEN 1 ELSE 0)

AmountInv == Len(collected) <= Max2(offset, Min2(end, ReadTo)) - offset

\* What was collected has not moved to the rows still to be read.
OnceInv ==
    Had("insert") \/ /\ IsInjective(collected)
                     /\ \A n \in 1..Len(collected), i \in 1..Len(rows) : rows[i] = collected[n] => i <= ReadTo

\* What stayed in the window was collected or is still to be read.
StayedInv ==
    counts /\ ~Had("delete") =>
        \A r \in Row : Stayed(r) /\ asRead # <<>> /\ Occurs(r) = {} =>
            ~answered /\ \E i \in 1..Len(rows) : rows[i] = r /\ i > ReadTo

\* Undisturbed, the window has been collected as far as it was read.
ExactInv ==
    changes = <<>> /\ counts =>
        /\ collected = SubSeq(rows, offset + 1, Min2(Min2(Len(rows), end), ReadTo))
        /\ answered => ReadTo >= end \/ ReadTo >= Len(rows)

RowsType == rows \in Seq(Row) /\ IsInjective(rows)

WindowType == limit \in 1..MaxLimit /\ offset \in 0..MaxOffset /\ counts \in BOOLEAN

ReadType ==
    /\ page \in Nat \ {0} /\ collected \in Seq(Row) /\ total \in 0..Cardinality(Row)
    /\ answered \in BOOLEAN /\ asRead \in Seq(Seq(Row))

ChangesType == changes \in Seq({"insert", "delete"})

ListInv ==
    /\ RowsType /\ WindowType /\ ReadType /\ ChangesType
    /\ PageInv /\ AmountInv /\ OnceInv /\ StayedInv /\ ExactInv

LEMMA Numbers ==
    ASSUME ListInv
    PROVE  /\ ListParameters /\ Len(rows) \in Nat /\ end \in Nat /\ 1 <= end /\ offset < end /\ ReadTo \in Nat
           /\ First \in Nat \ {0} /\ Deepest \in Nat \ {0} /\ Deepest <= end
           /\ Len(asRead) \in Nat /\ Len(collected) \in Nat
<1>1. ListParameters /\ 1 <= limit
  BY ListPagingAssumption DEF ListInv, RowsType, WindowType, ReadType, ListParameters
<1>2. Len(rows) \in Nat /\ end \in Nat /\ 1 <= end /\ offset < end
  BY <1>1 DEF ListParameters, end
<1>3. ReadTo \in Nat
  <2>1. (page - 1) * PerPage \in Nat /\ page * PerPage \in Nat
    BY <1>1, Pages DEF ListParameters
  <2> QED
    BY <2>1 DEF ReadTo
<1>4. \A x \in Nat : x \div PerPage \in Nat /\ x \div PerPage <= x
  BY ListPagingAssumption
<1>5. First \in Nat \ {0} /\ Deepest \in Nat \ {0} /\ Deepest <= end
  <2>1. offset \in Nat /\ end - 1 \in Nat
    BY <1>1, <1>2 DEF ListParameters
  <2>2. offset \div PerPage \in Nat /\ (end - 1) \div PerPage \in Nat /\ (end - 1) \div PerPage <= end - 1
    BY <1>4, <2>1
  <2> QED
    BY <1>2, <2>2 DEF First, Deepest
<1>6. Len(asRead) \in Nat /\ Len(collected) \in Nat
  BY DEF ListInv, ReadType
<1> QED
  BY <1>1, <1>2, <1>3, <1>5, <1>6

(***************************************************************************)
(* Others insert and delete rows.                                          *)
(***************************************************************************)
LEMMA ChangeInv ==
    ASSUME ListInv, NEW kind \in {"insert", "delete"}, Change(kind), RowsType',
           kind = "insert" => \A i \in 1..Len(rows) : \E j \in 1..Len(rows') : i <= j /\ rows'[j] = rows[i],
           kind = "delete" => \A j \in 1..Len(rows') : \E i \in 1..Len(rows) : j <= i /\ rows'[j] = rows[i]
    PROVE  ListInv'
<1>1. /\ ~answered /\ changes' = Append(changes, kind)
      /\ limit' = limit /\ offset' = offset /\ counts' = counts /\ page' = page /\ collected' = collected
      /\ total' = total /\ answered' = answered /\ asRead' = asRead
  BY DEF Change, call
<1>2. end' = end /\ ReadTo' = ReadTo /\ First' = First /\ Deepest' = Deepest
  BY <1>1 DEF end, ReadTo, First, Deepest
<1>3. changes \in Seq({"insert", "delete"})
  BY DEF ListInv, ChangesType
<1>4. ChangesType' /\ changes' # <<>> /\ Had(kind)' /\ \A k : Had(k) => Had(k)'
  <2>1. /\ changes' \in Seq({"insert", "delete"}) /\ Len(changes') = Len(changes) + 1 /\ Len(changes) \in Nat
        /\ changes'[Len(changes) + 1] = kind /\ \A n \in 1..Len(changes) : changes'[n] = changes[n]
    BY <1>1, <1>3
  <2>2. DOMAIN changes = 1..Len(changes) /\ DOMAIN changes' = 1..(Len(changes) + 1)
    BY <1>3, <2>1
  <2>3. Len(changes) + 1 \in 1..(Len(changes) + 1) /\ \A n \in 1..Len(changes) : n \in 1..(Len(changes) + 1)
    BY <2>1
  <2>4. Had(kind)' /\ \A k : Had(k) => Had(k)'
    BY <2>1, <2>2, <2>3 DEF Had
  <2>5. changes' # <<>>
    BY <2>1
  <2> QED
    BY <2>1, <2>4, <2>5 DEF ChangesType
<1>5. WindowType' /\ ReadType' /\ PageInv' /\ AmountInv'
  BY <1>1, <1>2 DEF ListInv, WindowType, ReadType, PageInv, AmountInv
<1>6. ExactInv'
  BY <1>4 DEF ExactInv
<1>7. OnceInv'
  <2>1. CASE kind = "insert"
    BY <1>4, <2>1 DEF OnceInv
  <2>2. CASE kind = "delete"
    <3>1. CASE Had("insert")
      BY <1>4, <3>1 DEF OnceInv
    <3>2. CASE ~Had("insert")
      <4>1. /\ IsInjective(collected)
            /\ \A n \in 1..Len(collected), i \in 1..Len(rows) : rows[i] = collected[n] => i <= ReadTo
        BY <3>2 DEF ListInv, OnceInv
      <4>2. ASSUME NEW n \in 1..Len(collected), NEW j \in 1..Len(rows'), rows'[j] = collected[n]
            PROVE  j <= ReadTo
        <5>1. PICK i \in 1..Len(rows) : j <= i /\ rows'[j] = rows[i]
          BY <2>2
        <5>2. i <= ReadTo
          BY <4>1, <4>2, <5>1
        <5>3. Len(rows) \in Nat /\ Len(rows') \in Nat /\ ReadTo \in Nat
          BY Numbers DEF RowsType
        <5> QED
          BY <5>1, <5>2, <5>3
      <4> QED
        BY <1>1, <1>2, <4>1, <4>2 DEF OnceInv
    <3> QED
      BY <3>1, <3>2
  <2> QED
    BY <2>1, <2>2
<1>8. StayedInv'
  <2>1. CASE kind = "delete"
    BY <1>4, <2>1 DEF StayedInv
  <2>2. CASE kind = "insert"
    <3> SUFFICES ASSUME counts, ~Had("delete"), NEW r \in Row, Stayed(r), asRead # <<>>, Occurs(r) = {}
                 PROVE  ~answered /\ \E j \in 1..Len(rows') : rows'[j] = r /\ j > ReadTo
      <4>1. \A r : (Stayed(r)' <=> Stayed(r)) /\ Occurs(r)' = Occurs(r)
        BY <1>1, <1>2 DEF Stayed, Occurs, InWindow
      <4> QED
        BY <1>1, <1>2, <1>4, <4>1 DEF StayedInv
    <3>1. PICK i \in 1..Len(rows) : rows[i] = r /\ i > ReadTo
      BY DEF ListInv, StayedInv
    <3>2. PICK j \in 1..Len(rows') : i <= j /\ rows'[j] = rows[i]
      BY <2>2
    <3>3. Len(rows) \in Nat /\ Len(rows') \in Nat /\ ReadTo \in Nat
      BY Numbers DEF RowsType
    <3>4. j > ReadTo
      BY <3>1, <3>2, <3>3
    <3> QED
      BY <1>1, <3>1, <3>2, <3>4
  <2> QED
    BY <2>1, <2>2
<1> QED
  BY <1>4, <1>5, <1>6, <1>7, <1>8 DEF ListInv

LEMMA Apart ==
    ASSUME NEW T, NEW s \in Seq(T)
    PROVE  IsInjective(s) <=> \A j, k \in 1..Len(s) : s[j] = s[k] => j = k
<1>1. DOMAIN s = 1..Len(s)
  OBVIOUS
<1> QED
  BY <1>1 DEF IsInjective

LEMMA DeleteInv ==
    ASSUME ListInv, Delete
    PROVE  ListInv'
<1>1. PICK i \in 1..Len(rows) : rows' = RemoveAt(rows, i)
  BY DEF Delete
<1>2. rows \in Seq(Row) /\ Len(rows) \in Nat /\ \A j, k \in 1..Len(rows) : rows[j] = rows[k] => j = k
  BY Apart DEF ListInv, RowsType
<1>3. /\ rows' \in Seq(Row) /\ Len(rows') = Len(rows) - 1
      /\ \A j \in 1..(Len(rows) - 1) : rows'[j] = IF j < i THEN rows[j] ELSE rows[j + 1]
  BY <1>1, <1>2, RemovedAt
<1>4. PICK new, n : new = rows' /\ n = Len(rows)
  OBVIOUS
<1>5. \A j \in 1..(n - 1) : \E k \in 1..n : j <= k /\ new[j] = rows[k] /\ k = IF j < i THEN j ELSE j + 1
  BY <1>2, <1>3, <1>4
<1>6. IsInjective(new)
  <2> SUFFICES ASSUME NEW j \in 1..(n - 1), NEW k \in 1..(n - 1), new[j] = new[k] PROVE j = k
    BY <1>3, <1>4, Apart
  <2>1. PICK jj \in 1..n : new[j] = rows[jj] /\ jj = IF j < i THEN j ELSE j + 1
    BY <1>5
  <2>2. PICK kk \in 1..n : new[k] = rows[kk] /\ kk = IF k < i THEN k ELSE k + 1
    BY <1>5
  <2>3. jj = kk
    BY <1>2, <1>4, <2>1, <2>2
  <2> QED
    BY <2>1, <2>2, <2>3, <1>2, <1>4
<1>7. RowsType'
  BY <1>3, <1>4, <1>6 DEF RowsType
<1>8. \A j \in 1..Len(rows') : \E k \in 1..Len(rows) : j <= k /\ rows'[j] = rows[k]
  BY <1>3, <1>4, <1>5
<1>9. Change("delete")
  BY DEF Delete
<1> QED
  BY <1>7, <1>8, <1>9, ChangeInv

LEMMA InsertInv ==
    ASSUME ListInv, Insert
    PROVE  ListInv'
<1>1. PICK r \in Row \ ToSet(rows), i \in 1..Len(rows) + 1 : rows' = InsertAt(rows, i, r)
  BY DEF Insert
<1>2. rows \in Seq(Row) /\ Len(rows) \in Nat /\ \A j, k \in 1..Len(rows) : rows[j] = rows[k] => j = k
  BY Apart DEF ListInv, RowsType
<1>3. r \in Row /\ \A j \in 1..Len(rows) : rows[j] # r
  BY <1>2 DEF ToSet
<1>4. /\ rows' \in Seq(Row) /\ Len(rows') = Len(rows) + 1
      /\ \A j \in 1..(Len(rows) + 1) :
             rows'[j] = IF j < i THEN rows[j] ELSE IF j = i THEN r ELSE rows[j - 1]
  <2>1. r \in Row /\ i \in 1..Len(rows) + 1
    BY <1>3
  <2>2. /\ InsertAt(rows, i, r) \in Seq(Row) /\ Len(InsertAt(rows, i, r)) = Len(rows) + 1
        /\ \A j \in 1..(Len(rows) + 1) :
               InsertAt(rows, i, r)[j] = IF j < i THEN rows[j] ELSE IF j = i THEN r ELSE rows[j - 1]
    BY <1>2, <2>1, InsertedAt
  <2> QED
    BY <1>1, <2>2
<1>5. PICK new, n : new = rows' /\ n = Len(rows)
  OBVIOUS
<1>6. IsInjective(new)
  <2> SUFFICES ASSUME NEW j \in 1..(n + 1), NEW k \in 1..(n + 1), new[j] = new[k] PROVE j = k
    BY <1>4, <1>5, Apart
  <2>1. \A m \in 1..(n + 1) : \/ m = i /\ new[m] = r
                              \/ \E mm \in 1..n : new[m] = rows[mm] /\ mm = IF m < i THEN m ELSE m - 1
    <3> SUFFICES ASSUME NEW m \in 1..(n + 1), m # i
                 PROVE  \E mm \in 1..n : new[m] = rows[mm] /\ mm = IF m < i THEN m ELSE m - 1
      BY <1>4, <1>5
    <3>1. new[m] = rows[IF m < i THEN m ELSE m - 1]
      BY <1>4, <1>5
    <3>2. (IF m < i THEN m ELSE m - 1) \in 1..n
      BY <1>2, <1>5
    <3> QED
      BY <3>1, <3>2
  <2>2. CASE j = i \/ k = i
    <3>1. \A m \in 1..(n + 1) : m # i => \E mm \in 1..n : new[m] = rows[mm]
      BY <2>1
    <3>2. \A m \in 1..(n + 1) : m # i => new[m] # r
      BY <1>3, <1>5, <3>1
    <3>3. new[i] = r
      BY <1>2, <1>4, <1>5
    <3> QED
      BY <2>2, <3>2, <3>3
  <2>3. CASE j # i /\ k # i
    <3>1. PICK jj \in 1..n : new[j] = rows[jj] /\ jj = IF j < i THEN j ELSE j - 1
      BY <2>1, <2>3
    <3>2. PICK kk \in 1..n : new[k] = rows[kk] /\ kk = IF k < i THEN k ELSE k - 1
      BY <2>1, <2>3
    <3>3. jj = kk
      BY <1>2, <1>5, <3>1, <3>2
    <3> QED
      BY <1>2, <1>5, <2>3, <3>1, <3>2, <3>3
  <2> QED
    BY <2>2, <2>3
<1>7. RowsType'
  BY <1>4, <1>5, <1>6 DEF RowsType
<1>8. \A j \in 1..Len(rows) : \E k \in 1..Len(rows') : j <= k /\ rows'[k] = rows[j]
  <2> SUFFICES ASSUME NEW j \in 1..n PROVE \E k \in 1..(n + 1) : j <= k /\ new[k] = rows[j]
    BY <1>4, <1>5
  <2>1. CASE j < i
    <3>1. j \in 1..(n + 1) /\ new[j] = rows[j]
      BY <1>2, <1>4, <1>5, <2>1
    <3> QED
      BY <3>1
  <2>2. CASE ~(j < i)
    <3>1. j + 1 \in 1..(n + 1) /\ new[j + 1] = rows[j] /\ j <= j + 1
      BY <1>2, <1>4, <1>5, <2>2
    <3> QED
      BY <3>1
  <2> QED
    BY <2>1, <2>2
<1>9. Change("insert")
  BY DEF Insert
<1> QED
  BY <1>7, <1>8, <1>9, ChangeInv
-----------------------------------------------------------------------------

(***************************************************************************)
(* A page is read.                                                         *)
(***************************************************************************)
LEMMA NextRun ==
    ASSUME NEW T, NEW s \in Seq(T), NEW from, from \in Nat, NEW m, m \in 0..Len(s),
           NEW a, NEW b, a \in Nat, b \in Nat, a <= b, NEW u, NEW v, NEW x, NEW y,
           u = from + 1, v = (IF from <= a THEN a ELSE from) + 1,
           x = (IF m <= a THEN m ELSE a), y = (IF m <= b THEN m ELSE b)
    PROVE  SubSeq(s, u, x) \o SubSeq(s, v, y) = SubSeq(s, u, y)
<1> SUFFICES SubSeq(s, from + 1, Min2(m, a)) \o SubSeq(s, Max2(from, a) + 1, Min2(m, b))
               = SubSeq(s, from + 1, Min2(m, b))
  BY DEF Min2, Max2
<1>1. Len(s) \in Nat /\ m \in Nat /\ m <= Len(s)
  OBVIOUS
<1>2. \A z \in Nat : z <= m =>
        /\ SubSeq(s, from + 1, z) \in Seq(T)
        /\ SubSeq(s, Max2(from, a) + 1, z) \in Seq(T)
  <2> SUFFICES ASSUME NEW z \in Nat, z <= m
               PROVE  \A w \in Nat : SubSeq(s, w + 1, z) \in Seq(T)
    BY DEF Max2
  <2> TAKE w \in Nat
  <2>1. w + 1 \in Int /\ z \in Int /\ \A i \in (w + 1)..z : s[i] \in T
    BY <1>1
  <2> QED
    BY <2>1, SubSeqProperties
<1>3. CASE a <= from
  <2>1. Min2(m, a) < from + 1 /\ Min2(m, a) \in Int /\ from + 1 \in Int /\ Max2(from, a) = from
    BY <1>1, <1>3 DEF Min2, Max2
  <2>2. SubSeq(s, from + 1, Min2(m, a)) = <<>>
    BY <2>1, SubSeqEmpty
  <2>3. Min2(m, b) \in Nat /\ Min2(m, b) <= m
    BY <1>1 DEF Min2
  <2>4. SubSeq(s, from + 1, Min2(m, b)) \in Seq(T)
    BY <1>2, <2>3
  <2>5. <<>> \o SubSeq(s, from + 1, Min2(m, b)) = SubSeq(s, from + 1, Min2(m, b))
    BY <2>4, ConcatEmptySeq
  <2> QED
    BY <2>1, <2>2, <2>5
<1>4. CASE from < a /\ a <= m
  <2>1. Min2(m, a) = a /\ Max2(from, a) = a
    BY <1>1, <1>4 DEF Min2, Max2
  <2>2. /\ from + 1 \in 1..Len(s) + 1 /\ a \in (from + 1) - 1..Len(s)
        /\ Min2(m, b) \in a..Len(s)
    BY <1>1, <1>4 DEF Min2
  <2>3. SubSeq(s, from + 1, a) \o SubSeq(s, a + 1, Min2(m, b)) = SubSeq(s, from + 1, Min2(m, b))
    BY <2>2, ConcatAdjacentSubSeq
  <2> QED
    BY <2>1, <2>3
<1>5. CASE from < a /\ m < a
  <2>1. /\ Min2(m, a) = m /\ Max2(from, a) = a /\ Min2(m, b) = m
        /\ m < a + 1 /\ m \in Int /\ a + 1 \in Int
    BY <1>1, <1>5 DEF Min2, Max2
  <2>2. SubSeq(s, a + 1, m) = <<>>
    BY <2>1, SubSeqEmpty
  <2>3. SubSeq(s, from + 1, m) \in Seq(T)
    BY <1>1, <1>2
  <2>4. SubSeq(s, from + 1, m) \o <<>> = SubSeq(s, from + 1, m)
    BY <2>3, ConcatEmptySeq
  <2> QED
    BY <2>1, <2>2, <2>4
<1>6. a <= from \/ (from < a /\ a <= m) \/ (from < a /\ m < a)
  BY <1>1
<1> QED
  BY <1>3, <1>4, <1>5, <1>6

LEMMA Quotient ==
    ASSUME NEW d \in Nat \ {0}, NEW x \in Nat, NEW q \in Nat, q * d <= x
    PROVE  q <= x \div d
OBVIOUS

LEMMA ReadInv ==
    ASSUME ListInv, Read
    PROVE  ListInv'
<1>1. PICK a, b, t, c, lo, hi, to :
        /\ a = (page - 1) * PerPage /\ b = page * PerPage /\ t = Len(rows) /\ c = Cut(page)
        /\ lo = FirstOf(page) /\ hi = LastOf(page) /\ to = end
  OBVIOUS
<1>2. /\ ~answered /\ total' = (IF counts THEN t ELSE total)
      /\ collected' = collected \o c /\ asRead' = Append(asRead, rows)
      /\ rows' = rows /\ limit' = limit /\ offset' = offset /\ counts' = counts /\ changes' = changes
  BY <1>1 DEF Read, call
<1>3. IF LastPage(page, total') THEN answered' = TRUE /\ page' = page ELSE page' = page + 1 /\ answered' = FALSE
  BY <1>2 DEF Read, ListInv, ReadType
<1>4. ListParameters /\ page \in Nat \ {0} /\ t \in Nat /\ to \in Nat /\ 1 <= to /\ offset \in Nat /\ offset < to
  BY <1>1, Numbers DEF ListParameters
<1>5. a \in Nat /\ b \in Nat /\ PerPage \in Nat \ {0} /\ b = a + PerPage
  BY <1>1, <1>4, Pages
<1>6. end' = to /\ First' = First /\ Deepest' = Deepest /\ ReadTo = a
  BY <1>1, <1>2 DEF end, First, Deepest, ReadTo
<1>7. ReadTo' = b
  <2>1. CASE answered' /\ page' = page
    BY <1>1, <2>1 DEF ReadTo
  <2>2. CASE ~answered' /\ page' = page + 1
    <3>1. page' - 1 = page
      BY <1>4, <2>2
    <3> QED
      BY <1>1, <2>2, <3>1 DEF ReadTo
  <2> QED
    BY <1>3, <2>1, <2>2
<1>8. /\ lo = Max2(offset, a) + 1 /\ hi = Min2(Min2(t, to), b)
      /\ c \in Seq(Row) /\ Len(c) = (IF lo <= hi THEN hi - lo + 1 ELSE 0)
      /\ \A n \in 1..Len(c) : c[n] = rows[lo + n - 1]
      /\ c = SubSeq(rows, lo, hi)
  <2>1. lo = Max2(offset, a) + 1 /\ hi = Min2(Min2(t, to), b)
    BY <1>1 DEF FirstOf, LastOf
  <2>2. /\ Cut(page) \in Seq(Row)
        /\ Len(Cut(page)) = IF FirstOf(page) <= LastOf(page) THEN LastOf(page) - FirstOf(page) + 1 ELSE 0
        /\ \A n \in 1..Len(Cut(page)) : Cut(page)[n] = rows[FirstOf(page) + n - 1]
        /\ Cut(page) = SubSeq(rows, FirstOf(page), LastOf(page))
    BY <1>4, CutIsRun
  <2> QED
    BY <1>1, <2>1, <2>2
<1>9. lo \in Nat \ {0} /\ hi \in Nat /\ hi <= t /\ hi <= b /\ a < lo /\ offset < lo
  BY <1>4, <1>5, <1>8 DEF Max2, Min2
<1>10. /\ ~answered' => b < to
       /\ answered' /\ counts => b >= to \/ b >= t
       /\ counts /\ b < to /\ b < t => ~answered'
  <2>1. b <= t => Cardinality(Data(page)) = PerPage
    BY <1>1, <1>4, FullPage
  <2>2. LastPage(page, total') <=> \/ Cardinality(Data(page)) < PerPage \/ b >= to \/ b >= total'
    BY <1>1 DEF LastPage
  <2>3. ~answered' => b < to
    BY <1>3, <1>4, <1>5, <2>2
  <2>4. answered' /\ counts => b >= to \/ b >= t
    BY <1>2, <1>3, <1>4, <1>5, <2>1, <2>2
  <2>5. counts /\ b < to /\ b < t => ~answered'
    BY <1>2, <1>3, <1>4, <1>5, <2>1, <2>2
  <2> QED
    BY <2>3, <2>4, <2>5
<1>11. RowsType' /\ WindowType' /\ ChangesType'
  BY <1>2 DEF ListInv, RowsType, WindowType, ChangesType
<1>12. /\ collected \in Seq(Row) /\ collected' \in Seq(Row) /\ Len(collected') = Len(collected) + Len(c)
       /\ Len(collected) \in Nat /\ Len(c) \in Nat
       /\ \A n \in 1..(Len(collected) + Len(c)) :
              collected'[n] = IF n <= Len(collected) THEN collected[n] ELSE c[n - Len(collected)]
  <2>1. collected \in Seq(Row) /\ Len(collected) \in Nat /\ Len(c) \in Nat
    BY <1>8 DEF ListInv, ReadType
  <2>2. /\ collected \o c \in Seq(Row) /\ Len(collected \o c) = Len(collected) + Len(c)
        /\ \A n \in 1..(Len(collected) + Len(c)) :
              (collected \o c)[n] = IF n <= Len(collected) THEN collected[n] ELSE c[n - Len(collected)]
    BY <1>8, <2>1, ConcatProperties
  <2> QED
    BY <1>2, <2>1, <2>2
<1>13. asRead' \in Seq(Seq(Row)) /\ Len(asRead') = Len(asRead) + 1 /\ Len(asRead) \in Nat
  <2>1. asRead \in Seq(Seq(Row)) /\ rows \in Seq(Row)
    BY DEF ListInv, RowsType, ReadType
  <2> QED
    BY <1>2, <2>1, AppendProperties
<1>14. ReadType'
  <2>1. page' \in Nat \ {0} /\ answered' \in BOOLEAN
    <3>1. page' = page \/ page' = page + 1
      BY <1>3
    <3>2. answered' = TRUE \/ answered' = FALSE
      BY <1>3
    <3>3. answered' \in BOOLEAN
      BY <3>2
    <3>4. page' \in Nat \ {0}
      BY <1>4, <3>1
    <3> QED
      BY <3>3, <3>4
  <2>2. total' \in 0..Cardinality(Row)
    <3>1. t \in 0..Cardinality(Row) /\ total \in 0..Cardinality(Row)
      BY <1>1, RowsAreFew DEF ListInv, RowsType, ReadType
    <3> QED
      BY <1>2, <3>1
  <2> QED
    BY <1>12, <1>13, <2>1, <2>2 DEF ReadType
<1>15. PageInv'
  <2>1. First \in Nat /\ Deepest \in Nat /\ First <= page /\ page <= Deepest /\ Len(asRead) = page - First
    <3>1. First \in Nat /\ Deepest \in Nat
      BY Numbers
    <3>2. First <= page /\ page <= Deepest /\ Len(asRead) = page - First + 0
      BY <1>2 DEF ListInv, PageInv
    <3> QED
      BY <1>4, <3>1, <3>2
  <2>2. b < to => page + 1 <= Deepest
    <3> SUFFICES ASSUME b < to PROVE page + 1 <= Deepest
      OBVIOUS
    <3>1. to - 1 \in Nat /\ b <= to - 1
      BY <1>4, <1>5
    <3>2. page <= (to - 1) \div PerPage
      BY <1>1, <1>4, <1>5, <3>1, Quotient
    <3>3. (to - 1) \div PerPage \in Int
      BY <1>5, <3>1
    <3> QED
      BY <1>1, <1>4, <3>2, <3>3 DEF Deepest
  <2>3. First <= page' /\ page' <= Deepest
    BY <1>3, <1>4, <1>10, <2>1, <2>2
  <2>4. Len(asRead') = page' - First + (IF answered' THEN 1 ELSE 0)
    <3>1. Len(asRead') = page - First + 1
      BY <1>13, <2>1
    <3> QED
      BY <1>3, <1>4, <2>1, <3>1
  <2> QED
    BY <1>6, <2>3, <2>4 DEF PageInv
<1>16. AmountInv'
  <2>1. Len(collected) <= Max2(offset, Min2(to, a)) - offset /\ Len(collected) \in Nat
    BY <1>1, <1>6, <1>12 DEF ListInv, AmountInv
  <2>2. Len(c) = (IF lo <= hi THEN hi - lo + 1 ELSE 0)
    BY <1>8
  <2>3. Len(collected) + Len(c) <= Max2(offset, Min2(to, b)) - offset
    <3>1. PICK n, k : n = Len(collected) /\ k = Len(c)
      OBVIOUS
    <3>2. /\ n \in Nat /\ n <= Max2(offset, Min2(to, a)) - offset
          /\ k = (IF lo <= hi THEN hi - lo + 1 ELSE 0)
      BY <2>1, <2>2, <3>1
    <3>3. lo = Max2(offset, a) + 1 /\ hi = Min2(Min2(t, to), b)
      BY <1>8
    <3>4. a <= b /\ a \in Nat /\ b \in Nat
      BY <1>5
    <3>5. n + k <= Max2(offset, Min2(to, b)) - offset
      BY ONLY <1>4, <3>2, <3>3, <3>4 DEF Max2, Min2
    <3> QED
      BY <3>1, <3>5
  <2> QED
    BY <1>1, <1>2, <1>6, <1>7, <1>12, <2>3 DEF AmountInv
<1>17. \A n \in 1..Len(c) : lo + n - 1 \in 1..t /\ a < lo + n - 1 /\ lo + n - 1 <= b
  <2>1. PICK k : k = Len(c) /\ k = (IF lo <= hi THEN hi - lo + 1 ELSE 0)
    BY <1>8
  <2>2. \A n \in 1..k : lo + n - 1 \in 1..t /\ a < lo + n - 1 /\ lo + n - 1 <= b
    BY <1>4, <1>5, <1>9, <2>1
  <2> QED
    BY <2>1, <2>2
<1>18. \A j, k \in 1..t : rows[j] = rows[k] => j = k
  BY <1>1, Apart DEF ListInv, RowsType
<1>19. OnceInv'
  <2> SUFFICES ASSUME ~Had("insert")
               PROVE  /\ IsInjective(collected')
                      /\ \A n \in 1..Len(collected'), i \in 1..t : rows[i] = collected'[n] => i <= b
    BY <1>1, <1>2, <1>7 DEF OnceInv, Had
  <2>1. /\ IsInjective(collected)
        /\ \A n \in 1..Len(collected), i \in 1..t : rows[i] = collected[n] => i <= a
    BY <1>1, <1>6 DEF ListInv, OnceInv
  <2>2. PICK new, old, m, k : /\ new = collected' /\ old = collected /\ m = Len(collected) /\ k = Len(c)
                              /\ m \in Nat /\ k \in Nat
    BY <1>12
  <2>3. \A n, nn \in 1..m : old[n] = old[nn] => n = nn
    BY <1>12, <2>1, <2>2, Apart
  <2>4. \A n \in 1..(m + k) :
          \/ n \in 1..m /\ new[n] = old[n]
          \/ /\ n \in (m + 1)..(m + k) /\ lo + (n - m) - 1 \in 1..t
             /\ a < lo + (n - m) - 1 /\ lo + (n - m) - 1 <= b /\ new[n] = rows[lo + (n - m) - 1]
    <3> SUFFICES ASSUME NEW n \in 1..(m + k), n \notin 1..m
                 PROVE  /\ n \in (m + 1)..(m + k) /\ lo + (n - m) - 1 \in 1..t
                        /\ a < lo + (n - m) - 1 /\ lo + (n - m) - 1 <= b /\ new[n] = rows[lo + (n - m) - 1]
      BY <1>12, <2>2
    <3>1. n - m \in 1..k /\ n \in (m + 1)..(m + k) /\ ~(n <= m)
      BY <2>2
    <3>2. new[n] = c[n - m]
      BY <1>12, <2>2, <3>1
    <3>3. c[n - m] = rows[lo + (n - m) - 1]
      BY <1>8, <2>2, <3>1
    <3> QED
      BY <1>17, <2>2, <3>1, <3>2, <3>3
  <2>5. \A n \in 1..(m + k), i \in 1..t : rows[i] = new[n] => i <= b
    <3> SUFFICES ASSUME NEW n \in 1..(m + k), NEW i \in 1..t, rows[i] = new[n] PROVE i <= b
      OBVIOUS
    <3>1. CASE n \in 1..m /\ new[n] = old[n]
      <4>1. i <= a
        BY <2>1, <2>2, <3>1
      <4> QED
        BY <1>4, <1>5, <4>1
    <3>2. CASE lo + (n - m) - 1 \in 1..t /\ lo + (n - m) - 1 <= b /\ new[n] = rows[lo + (n - m) - 1]
      BY <1>18, <3>2
    <3> QED
      BY <2>4, <3>1, <3>2
  <2>6. \A n, nn \in 1..(m + k) : new[n] = new[nn] => n = nn
    <3> SUFFICES ASSUME NEW n \in 1..(m + k), NEW nn \in 1..(m + k), n <= nn, new[n] = new[nn] PROVE n = nn
      BY <2>2
    <3>1. CASE n \in 1..m /\ nn \in 1..m
      <4>1. new[n] = old[n] /\ new[nn] = old[nn]
        BY <2>2, <2>4, <3>1
      <4> QED
        BY <2>3, <3>1, <4>1
    <3>2. CASE n \in 1..m /\ nn \notin 1..m
      <4>1. new[n] = old[n]
        BY <2>2, <2>4, <3>2
      <4>2. PICK i : /\ i = lo + (nn - m) - 1 /\ i \in 1..t /\ a < i /\ new[nn] = rows[i]
        BY <2>4, <3>2
      <4>3. i <= a
        BY <2>1, <2>2, <3>2, <4>1, <4>2
      <4> QED
        BY <1>4, <1>5, <4>2, <4>3
    <3>3. CASE n \notin 1..m /\ nn \notin 1..m
      <4>1. PICK i : i = lo + (n - m) - 1 /\ i \in 1..t /\ new[n] = rows[i]
        BY <2>4, <3>3
      <4>2. PICK ii : ii = lo + (nn - m) - 1 /\ ii \in 1..t /\ new[nn] = rows[ii]
        BY <2>4, <3>3
      <4>3. i = ii
        BY <1>18, <4>1, <4>2
      <4> QED
        BY <1>9, <2>2, <4>1, <4>2, <4>3
    <3>4. n \in 1..m \/ nn \notin 1..m
      BY <2>2
    <3> QED
      BY <3>1, <3>2, <3>3, <3>4
  <2>7. IsInjective(new)
    BY <1>12, <2>2, <2>6, Apart
  <2> QED
    BY <1>12, <2>2, <2>5, <2>7
<1>20. StayedInv'
  <2> SUFFICES ASSUME counts, ~Had("delete"), NEW r \in Row, Stayed(r)', Occurs(r)' = {}
               PROVE  ~answered' /\ \E i \in 1..t : rows[i] = r /\ i > b
    BY <1>1, <1>2, <1>7 DEF StayedInv, Had
  <2>1. DOMAIN asRead = 1..Len(asRead) /\ DOMAIN asRead' = 1..(Len(asRead) + 1)
    BY <1>13 DEF ListInv, ReadType
  <2>2. asRead'[Len(asRead) + 1] = rows /\ \A n \in 1..Len(asRead) : asRead'[n] = asRead[n]
    <3>1. asRead \in Seq(Seq(Row)) /\ rows \in Seq(Row)
      BY DEF ListInv, ReadType, RowsType
    <3> QED
      BY <1>2, <3>1, AppendProperties
  <2>3. \A i : InWindow(i)' <=> InWindow(i)
    BY <1>1, <1>2, <1>6 DEF InWindow
  <2>4. Stayed(r)
    <3> SUFFICES ASSUME NEW n \in 1..Len(asRead)
                 PROVE  \E i \in DOMAIN asRead[n] : asRead[n][i] = r /\ InWindow(i - 1)
      BY <2>1 DEF Stayed
    <3>1. n \in DOMAIN asRead' /\ asRead'[n] = asRead[n]
      <4>1. Len(asRead) \in Nat
        BY <1>13
      <4>2. n \in 1..(Len(asRead) + 1)
        BY ONLY <4>1, n \in 1..Len(asRead)
      <4> QED
        BY <2>1, <2>2, <4>2
    <3> QED
      BY <2>3, <3>1 DEF Stayed
  <2>5. PICK j \in 1..t : rows[j] = r /\ offset < j /\ j <= to
    <3>1. Len(asRead) + 1 \in DOMAIN asRead'
      BY <1>13, <2>1
    <3>2. PICK j \in DOMAIN rows : rows[j] = r /\ InWindow(j - 1)
      BY <2>2, <2>3, <3>1 DEF Stayed
    <3>3. DOMAIN rows = 1..t
      BY <1>1 DEF ListInv, RowsType
    <3>4. offset <= j - 1 /\ j - 1 < to
      BY <1>1, <3>2 DEF InWindow
    <3> QED
      BY <1>4, <3>2, <3>3, <3>4
  <2>6. j > a
    <3>1. CASE asRead = <<>>
      <4>1. page = First /\ First - 1 = offset \div PerPage
        <5>1. Len(asRead) = 0 /\ First \in Nat /\ Len(asRead) = page - First
          <6>1. Len(asRead) = 0
            BY <3>1
          <6>2. First \in Nat
            BY Numbers
          <6>3. Len(asRead) = page - First + 0
            BY <1>2 DEF ListInv, PageInv
          <6> QED
            BY <1>4, <6>1, <6>2, <6>3
        <5>2. page = First
          BY <1>4, <5>1
        <5>3. offset \div PerPage \in Int
          BY <1>4, <1>5
        <5> QED
          BY <5>2, <5>3 DEF First
      <4>2. (offset \div PerPage) * PerPage <= offset
        BY <1>4, <1>5
      <4>3. a <= offset
        BY <1>1, <4>1, <4>2
      <4> QED
        BY <1>4, <1>5, <2>5, <4>3
    <3>2. CASE asRead # <<>>
      <4>1. DOMAIN collected = 1..Len(collected) /\ DOMAIN collected' = 1..(Len(collected) + Len(c))
        BY <1>12
      <4>2. \A n \in 1..Len(collected) : n \in 1..(Len(collected) + Len(c)) /\ n <= Len(collected)
        BY <1>8, <1>12
      <4>3. Occurs(r) = {}
        BY <1>12, <4>1, <4>2 DEF Occurs
      <4>4. PICK i \in 1..t : rows[i] = r /\ i > a
        BY <1>1, <1>6, <2>4, <3>2, <4>3 DEF ListInv, StayedInv
      <4> QED
        BY <1>18, <2>5, <4>4
    <3> QED
      BY <3>1, <3>2
  <2>7. j > b
    <3> SUFFICES ASSUME j <= b PROVE FALSE
      BY <1>5, <2>5
    <3>1. PICK k, m : /\ k = Len(c) /\ k = (IF lo <= hi THEN hi - lo + 1 ELSE 0)
                      /\ m = Len(collected) /\ m \in Nat
      <4>1. Len(c) = (IF lo <= hi THEN hi - lo + 1 ELSE 0) /\ Len(collected) \in Nat
        BY <1>8, <1>12
      <4> QED
        BY <4>1
    <3>2. lo <= j /\ j <= hi
      <4>1. lo = Max2(offset, a) + 1 /\ hi = Min2(Min2(t, to), b)
        BY <1>8
      <4>2. j \in 1..t /\ offset < j /\ j <= to /\ a < j /\ j <= b /\ a \in Nat /\ b \in Nat
        BY <1>5, <2>5, <2>6
      <4> QED
        BY ONLY <1>4, <4>1, <4>2 DEF Max2, Min2
    <3>3. PICK n : n = j - lo + 1 /\ n \in 1..k /\ j = lo + n - 1 /\ m + n \in 1..(m + k) /\ ~(m + n <= m) /\ (m + n) - m = n
      <4>1. j \in Int
        OBVIOUS
      <4> QED
        BY <1>9, <3>1, <3>2, <4>1
    <3>4. c[n] = r
      BY <1>8, <2>5, <3>1, <3>3
    <3>5. collected'[m + n] = r
      BY <1>12, <3>1, <3>3, <3>4
    <3>6. m + n \in DOMAIN collected'
      <4>1. collected' \in Seq(Row) /\ Len(collected') = m + k
        BY <1>12, <3>1
      <4>2. m + n \in 1..(m + k)
        BY <3>3
      <4> QED
        BY ONLY <4>1, <4>2
    <3> QED
      BY <3>5, <3>6 DEF Occurs
  <2>8. b < to /\ b < t
    BY <1>4, <1>5, <2>5, <2>7
  <2> QED
    BY <1>10, <2>5, <2>7, <2>8
<1>21. ExactInv'
  <2> SUFFICES ASSUME changes = <<>>, counts
               PROVE  /\ collected' = SubSeq(rows, offset + 1, Min2(Min2(t, to), b))
                      /\ answered' => b >= to \/ b >= t
    BY <1>1, <1>2, <1>6, <1>7 DEF ExactInv
  <2>1. collected = SubSeq(rows, offset + 1, Min2(Min2(t, to), a))
    BY <1>1, <1>6 DEF ListInv, ExactInv
  <2>2. rows \in Seq(Row) /\ Min2(t, to) \in 0..Len(rows) /\ a <= b
    BY <1>1, <1>4, <1>5 DEF Min2, ListInv, RowsType
  <2>3. SubSeq(rows, offset + 1, Min2(Min2(t, to), a)) \o SubSeq(rows, Max2(offset, a) + 1, Min2(Min2(t, to), b))
          = SubSeq(rows, offset + 1, Min2(Min2(t, to), b))
    <3>1. PICK m, u, v, x, y : /\ m = Min2(t, to) /\ u = offset + 1 /\ v = Max2(offset, a) + 1
                               /\ x = Min2(m, a) /\ y = Min2(m, b)
      OBVIOUS
    <3>2. rows \in Seq(Row) /\ offset \in Nat /\ m \in 0..Len(rows) /\ a \in Nat /\ b \in Nat /\ a <= b
      BY <1>4, <1>5, <2>2, <3>1
    <3>3. PICK s, from : s = rows /\ from = offset
      OBVIOUS
    <3>4. s \in Seq(Row) /\ from \in Nat /\ m \in 0..Len(s) /\ a \in Nat /\ b \in Nat /\ a <= b
      BY <3>2, <3>3
    <3>5. /\ u = from + 1 /\ v = (IF from <= a THEN a ELSE from) + 1
          /\ x = (IF m <= a THEN m ELSE a) /\ y = (IF m <= b THEN m ELSE b)
      BY <3>1, <3>3 DEF Min2, Max2
    <3>6. SubSeq(s, u, x) \o SubSeq(s, v, y) = SubSeq(s, u, y)
      BY ONLY <3>4, <3>5, NextRun
    <3> QED
      BY <3>1, <3>3, <3>6
  <2>4. c = SubSeq(rows, Max2(offset, a) + 1, Min2(Min2(t, to), b))
    BY <1>8
  <2> QED
    BY <1>2, <1>10, <2>1, <2>3, <2>4
<1> QED
  BY <1>11, <1>14, <1>15, <1>16, <1>19, <1>20, <1>21 DEF ListInv
-----------------------------------------------------------------------------

(***************************************************************************)
(* The call begins; every step; the theorems.                              *)
(***************************************************************************)
LEMMA ListInitInv ==
    ASSUME Init
    PROVE  ListInv
<1>1. /\ limit \in 1..MaxLimit /\ offset \in 0..MaxOffset /\ page = offset \div PerPage + 1 /\ collected = <<>>
      /\ total = 0 /\ counts \in BOOLEAN /\ answered = FALSE /\ asRead = <<>> /\ changes = <<>>
  BY DEF Init
<1>2. RowsType
  BY SomeRows DEF Init, RowsType
<1>3. /\ limit \in Nat \ {0} /\ offset \in Nat /\ PerPage \in Nat \ {0} /\ end = offset + limit
      /\ offset <= end - 1 /\ end - 1 \in Nat
  BY <1>1, ListPagingAssumption DEF end
<1>4. offset \div PerPage \in Nat /\ (end - 1) \div PerPage \in Nat
  BY <1>3
<1>5. (offset \div PerPage) * PerPage <= offset /\ (offset \div PerPage) * PerPage \in Nat
  BY <1>3
<1>6. ReadTo = (offset \div PerPage) * PerPage
  <2>1. page - 1 = offset \div PerPage
    BY <1>1, <1>4
  <2> QED
    BY <1>1, <2>1 DEF ReadTo
<1>7. WindowType
  BY <1>1 DEF WindowType
<1>8. ReadType
  <2>1. Cardinality(Row) \in Nat
    BY ListPagingAssumption, FS_CardinalityType
  <2>2. page \in Nat \ {0} /\ total \in 0..Cardinality(Row)
    BY <1>1, <1>4, <2>1
  <2>3. answered \in BOOLEAN
    BY <1>1
  <2>4. collected \in Seq(Row) /\ asRead \in Seq(Seq(Row))
    BY <1>1, EmptySeq
  <2> QED
    BY <2>2, <2>3, <2>4 DEF ReadType
<1>9. ChangesType /\ \A kind : ~Had(kind)
  BY <1>1 DEF ChangesType, Had
<1>10. PageInv
  <2>1. First = page /\ Len(asRead) = 0 /\ ~answered
    BY <1>1 DEF First
  <2>2. offset \div PerPage <= (end - 1) \div PerPage
    <3>1. (offset \div PerPage) * PerPage <= end - 1
      BY <1>3, <1>5
    <3> QED
      BY <1>3, <1>4, <3>1, Quotient
  <2>3. page <= Deepest /\ page \in Nat
    BY <1>1, <1>4, <2>2 DEF Deepest
  <2>4. First <= page /\ 0 = page - First + 0
    BY <2>1, <2>3
  <2> QED
    BY <2>1, <2>3, <2>4 DEF PageInv
<1>11. AmountInv
  <2>1. Len(collected) = 0
    BY <1>1
  <2>2. 0 <= Max2(offset, Min2(end, ReadTo)) - offset
    BY <1>3, <1>5, <1>6 DEF Max2, Min2
  <2> QED
    BY <2>1, <2>2 DEF AmountInv
<1>12. OnceInv
  <2>1. IsInjective(collected) /\ Len(collected) = 0
    BY <1>1 DEF IsInjective
  <2> QED
    BY <2>1 DEF OnceInv
<1>13. StayedInv
  BY <1>1 DEF StayedInv
<1>14. ExactInv
  <2>1. Len(rows) \in Nat
    BY <1>2 DEF RowsType
  <2>2. PICK x : x = Min2(Min2(Len(rows), end), ReadTo)
    OBVIOUS
  <2>3. x \in Int /\ x < offset + 1 /\ offset + 1 \in Int
    BY <1>3, <1>5, <1>6, <2>1, <2>2 DEF Min2
  <2>4. SubSeq(rows, offset + 1, x) = <<>>
    BY <2>3, SubSeqEmpty
  <2> QED
    BY <1>1, <2>2, <2>4 DEF ExactInv
<1> QED
  BY <1>2, <1>7, <1>8, <1>9, <1>10, <1>11, <1>12, <1>13, <1>14 DEF ListInv

LEMMA ListNextInv ==
    ASSUME ListInv, [Next]_vars
    PROVE  ListInv'
<1>1. CASE Next
  BY <1>1, ReadInv, InsertInv, DeleteInv DEF Next
<1>2. CASE UNCHANGED vars
  <2>1. /\ rows' = rows /\ limit' = limit /\ offset' = offset /\ counts' = counts /\ page' = page
        /\ collected' = collected /\ total' = total /\ answered' = answered /\ asRead' = asRead
        /\ changes' = changes
    BY <1>2 DEF vars, call
  <2>2. RowsType' /\ WindowType' /\ ReadType' /\ ChangesType'
    BY <2>1 DEF ListInv, RowsType, WindowType, ReadType, ChangesType
  <2>3. end' = end /\ ReadTo' = ReadTo
    BY <2>1 DEF end, ReadTo
  <2>4. PageInv' /\ AmountInv'
    BY <2>1, <2>3 DEF ListInv, PageInv, AmountInv, First, Deepest
  <2>5. OnceInv' /\ ExactInv'
    BY <2>1, <2>3 DEF ListInv, OnceInv, ExactInv, Had
  <2>6. \A r : (Stayed(r)' <=> Stayed(r)) /\ Occurs(r)' = Occurs(r)
    BY <2>1, <2>3 DEF Stayed, Occurs, InWindow
  <2>7. StayedInv'
    BY <2>1, <2>3, <2>6 DEF ListInv, StayedInv, Had
  <2> QED
    BY <2>2, <2>4, <2>5, <2>7 DEF ListInv
<1> QED
  BY <1>1, <1>2

(***************************************************************************)
(* The invariant of executeList holds however others move the rows between *)
(* its pages.                                                              *)
(***************************************************************************)
THEOREM ListInvariant == Spec => []ListInv
<1>1. Init => ListInv
  BY ListInitInv
<1>2. ListInv /\ [Next]_vars => ListInv'
  BY ListNextInv
<1> QED
  BY <1>1, <1>2, PTL DEF Spec

(***************************************************************************)
(* executeList reads no page behind its window and returns no more rows    *)
(* than limit.                                                             *)
(***************************************************************************)
THEOREM ListTypes == Spec => []ListTypeOK
<1>1. ASSUME ListInv PROVE ListTypeOK
  <2>1. /\ MaxLimit \in Nat /\ MaxOffset \in Nat /\ limit \in 1..MaxLimit /\ offset \in 0..MaxOffset
        /\ ReadTo \in Nat /\ end = offset + limit
    BY <1>1, ListPagingAssumption, Numbers DEF ListInv, WindowType, end
  <2>2. page \in 1..(MaxOffset + MaxLimit)
    <3>1. page \in Nat \ {0} /\ Deepest \in Nat /\ page <= Deepest /\ Deepest <= end
      BY <1>1, Numbers DEF ListInv, ReadType, PageInv
    <3> QED
      BY <2>1, <3>1
  <2>3. Len(collected) <= limit
    <3>1. Len(collected) <= Max2(offset, Min2(end, ReadTo)) - offset
      BY <1>1 DEF ListInv, AmountInv
    <3>2. Max2(offset, Min2(end, ReadTo)) - offset <= limit /\ Max2(offset, Min2(end, ReadTo)) - offset \in Int
      BY <2>1 DEF Max2, Min2
    <3>3. Len(collected) \in Nat
      BY <1>1, Numbers
    <3> QED
      BY <2>1, <3>1, <3>2, <3>3
  <2> QED
    BY <1>1, <2>2, <2>3 DEF ListInv, RowsType, WindowType, ReadType, ChangesType, ListTypeOK
<1> QED
  BY <1>1, ListInvariant, PTL

(***************************************************************************)
(* executeList asks for no more pages than its window touches.             *)
(***************************************************************************)
THEOREM ListCosts == Spec => []ListCostsItsWindow
<1>1. ASSUME ListInv PROVE ListCostsItsWindow
  <2>1. page \in Nat /\ page <= Deepest /\ Len(asRead) = page - First + (IF answered THEN 1 ELSE 0)
    BY <1>1 DEF ListInv, ReadType, PageInv
  <2>2. First \in Nat /\ Deepest \in Nat
    BY <1>1, Numbers
  <2>3. Len(asRead) <= Deepest - First + 1
    BY <2>1, <2>2
  <2>4. Deepest - First + 1 = (end - 1) \div PerPage - offset \div PerPage + 1
    <3>1. PerPage \in Nat \ {0} /\ end - 1 \in Nat /\ offset \in Nat
      BY <1>1, ListPagingAssumption, Numbers DEF ListParameters
    <3>2. (end - 1) \div PerPage \in Int /\ offset \div PerPage \in Int
      BY <3>1
    <3> QED
      BY <3>2 DEF First, Deepest
  <2> QED
    BY <2>3, <2>4 DEF ListCostsItsWindow
<1> QED
  BY <1>1, ListInvariant, PTL

(***************************************************************************)
(* What executeList returns: no row twice unless one was inserted, no row  *)
(* of the window left out unless one was deleted, and exactly the window   *)
(* where nothing changed.                                                  *)
(***************************************************************************)
THEOREM ListsFollowRows == Spec => []ListFollowsTheRows
<1>1. ASSUME ListInv PROVE ListFollowsTheRows
  <2> SUFFICES ASSUME answered
               PROVE  /\ \A r \in Row : Cardinality(Occurs(r)) > 1 => Had("insert")
                      /\ counts => \A r \in Row : Stayed(r) /\ Occurs(r) = {} => Had("delete")
                      /\ changes = <<>> /\ counts =>
                           collected = SubSeq(rows, offset + 1, IF end < Len(rows) THEN end ELSE Len(rows))
    BY DEF ListFollowsTheRows
  <2>1. ASSUME ~Had("insert"), NEW r \in Row PROVE ~(Cardinality(Occurs(r)) > 1)
    <3>1. IsInjective(collected)
      BY <1>1, <2>1 DEF ListInv, OnceInv
    <3>2. CASE Occurs(r) = {}
      <4>1. Cardinality(Occurs(r)) = 0
        BY <3>2, FS_EmptySet
      <4> QED
        BY <4>1
    <3>3. ASSUME NEW n, n \in Occurs(r) PROVE ~(Cardinality(Occurs(r)) > 1)
      <4>1. Occurs(r) = {n}
        BY <3>1, <3>3 DEF Occurs, IsInjective
      <4>2. Cardinality({n}) = 1
        BY FS_Singleton
      <4> QED
        BY <4>1, <4>2
    <3> QED
      BY <3>2, <3>3
  <2>2. ASSUME counts, NEW r \in Row, Stayed(r), Occurs(r) = {} PROVE Had("delete")
    <3>1. First \in Nat /\ page \in Nat /\ First <= page /\ Len(asRead) = page - First + 1
      BY <1>1, Numbers DEF ListInv, ReadType, PageInv
    <3>2. asRead # <<>>
      <4> SUFFICES ASSUME asRead = <<>> PROVE FALSE
        OBVIOUS
      <4>1. Len(asRead) = 0
        OBVIOUS
      <4> QED
        BY <3>1, <4>1
    <3> QED
      BY <1>1, <2>2, <3>2 DEF ListInv, StayedInv
  <2>3. ASSUME changes = <<>>, counts
        PROVE  collected = SubSeq(rows, offset + 1, IF end < Len(rows) THEN end ELSE Len(rows))
    <3>1. collected = SubSeq(rows, offset + 1, Min2(Min2(Len(rows), end), ReadTo))
      BY <1>1, <2>3 DEF ListInv, ExactInv
    <3>2. ReadTo >= end \/ ReadTo >= Len(rows)
      BY <1>1, <2>3 DEF ListInv, ExactInv
    <3>3. ReadTo \in Nat /\ end \in Nat /\ Len(rows) \in Nat
      BY <1>1, Numbers
    <3>4. Min2(Min2(Len(rows), end), ReadTo) = IF end < Len(rows) THEN end ELSE Len(rows)
      BY <3>2, <3>3 DEF Min2
    <3> QED
      BY <3>1, <3>4
  <2> QED
    BY <2>1, <2>2, <2>3
<1> QED
  BY <1>1, ListInvariant, PTL
-----------------------------------------------------------------------------
(***************************************************************************)
(* Describe.                                                               *)
(***************************************************************************)

\* The groups whose listing the call has.
Seen == {Order[i] : i \in 1..(at - 1)} \cup (IF todo.listed THEN {group} ELSE {})

\* The histories: what has been there all along is there and was never deleted.
PastInv == \A g \in Groups : stayed[g] \subseteq items[g] /\ stayed[g] \cap deleted[g] = {}

\* The requests still to be made are about the group in hand and what was listed of it.
TodoInv ==
    /\ todo.listed => at <= 4 /\ group \in Asked
    /\ ~todo.listed => todo = NotListed
    /\ todo.schema \cup todo.suggestion # {} => at = 1
    /\ todo.spec # {} => at = 2
    /\ todo.schema \subseteq found["entities"] \cap (registered \cup deleted["entities"])
    /\ todo.spec \subseteq found["machines"]
    /\ todo.suggestion \cap kept = {}

\* What was found was asked for, and is there or was deleted meanwhile.
FoundInv == \A g \in Groups : \A n \in found[g] : name \in {n, Every} /\ n \in items[g] \cup deleted[g]

\* The group is whole, but for the requests still to be made.
WholeSoFar(g, n) ==
    /\ name \in {n, Every} /\ n \in stayed[g] => n \in found[g]
    /\ g = "machines" /\ n \in found[g] => detail[<<g, n>>] = "spec" \/ n \in todo.spec
    /\ g = "entities" /\ n \in found[g] /\ n \in kept => detail[<<g, n>>] = "schema" \/ n \in todo.schema
    /\ g = "entities" /\ n \in found[g] /\ name = n =>
           detail[<<g, n>>] # "none" \/ n \in todo.schema \cup todo.suggestion

WholeInv == \A g \in (Asked \cap Seen) \ unavailable : \A n \in Name : WholeSoFar(g, n)

ReturnedInv ==
    /\ outcome \in {"ok", "not found"} => at = 5
    /\ outcome = "not found" => name # Every /\ \A g \in Groups : found[g] = {}

DescribeInv ==
    DescribeTypeOK /\ PastInv /\ TodoInv /\ FoundInv /\ A404HasACause /\ WholeInv /\ ReturnedInv

\* The types, in parts that the actions change together.
GroupsType ==
    /\ items \in [Groups -> SUBSET Name] /\ stayed \in [Groups -> SUBSET Name]
    /\ deleted \in [Groups -> SUBSET Name]
    /\ kept \subseteq registered /\ registered \subseteq items["entities"]
    /\ v2 \in BOOLEAN /\ disturbed \in 0..MaxDescribeChanges

CallType ==
    /\ scope \in Groups \cup {"all"} /\ name \in Name \cup {Every}
    /\ at \in 1..5

TodoType == todo \in [listed : BOOLEAN, schema : SUBSET Name, suggestion : SUBSET Name, spec : SUBSET Name]

ResultType ==
    /\ found \in [Groups -> SUBSET Name]
    /\ unavailable \subseteq Groups \ {"entities"}
    /\ detail \in [Groups \X Name -> {"none", "schema", "suggestion", "refused", "spec"}]
    /\ outcome \in {"none", "ok", "not found", "404", "unavailable"}

LEMMA TheOrder ==
    /\ Len(Order) = 4 /\ DOMAIN Order = 1..4
    /\ Order[1] = "entities" /\ Order[2] = "machines" /\ Order[3] = "generators" /\ Order[4] = "events"
    /\ Groups = {"entities", "machines", "generators", "events"}
    /\ "all" \notin Groups
<1>1. /\ Len(Order) = 4 /\ DOMAIN Order = 1..4
      /\ Order[1] = "entities" /\ Order[2] = "machines" /\ Order[3] = "generators" /\ Order[4] = "events"
  BY DEF Order
<1>2. Groups = {"entities", "machines", "generators", "events"}
  <2>1. \A i \in 1..4 : i = 1 \/ i = 2 \/ i = 3 \/ i = 4
    OBVIOUS
  <2>2. 1 \in 1..4 /\ 2 \in 1..4 /\ 3 \in 1..4 /\ 4 \in 1..4
    OBVIOUS
  <2> QED
    BY <1>1, <2>1, <2>2 DEF Groups
<1> QED
  BY <1>1, <1>2

LEMMA DescribeParts ==
    DescribeInv <=> /\ GroupsType /\ CallType /\ TodoType /\ ResultType
                    /\ PastInv /\ TodoInv /\ FoundInv /\ A404HasACause /\ WholeInv /\ ReturnedInv
<1>1. 1..Len(Order) + 1 = 1..5
  BY TheOrder
<1> QED
  BY <1>1 DEF DescribeInv, DescribeTypeOK, GroupsType, CallType, TodoType, ResultType

LEMMA DescribePartsAfter ==
    DescribeInv' <=> /\ GroupsType' /\ CallType' /\ TodoType' /\ ResultType'
                     /\ PastInv' /\ TodoInv' /\ FoundInv' /\ A404HasACause' /\ WholeInv' /\ ReturnedInv'
<1>1. 1..Len(Order) + 1 = 1..5
  BY TheOrder
<1> QED
  BY <1>1 DEF DescribeInv, DescribeTypeOK, GroupsType, CallType, TodoType, ResultType

LEMMA InLoop ==
    ASSUME CallType, Running
    PROVE  /\ outcome = "none" /\ at \in 1..4 /\ at + 1 \in 1..5 /\ group \in Groups
           /\ (group = "entities") <=> (at = 1)
           /\ (group = "machines") <=> (at = 2)
<1>1. outcome = "none" /\ at \in 1..4 /\ at + 1 \in 1..5
  BY TheOrder DEF CallType, Running
<1>2. at = 1 \/ at = 2 \/ at = 3 \/ at = 4
  BY <1>1
<1> QED
  BY <1>1, <1>2, TheOrder DEF group

\* The loop goes on to the next group: no more is seen than the group it was at.
LEMMA SeenGrows ==
    ASSUME CallType, Running, at' = at + 1, ~todo'.listed
    PROVE  Seen' \subseteq Seen \cup {group}
<1>1. Seen' = {Order[i] : i \in 1..(at' - 1)}
  BY DEF Seen
<1>2. at \in 1..4 /\ at' - 1 = at
  BY InLoop
<1>3. \A i \in 1..at : i \in 1..(at - 1) \/ i = at
  BY <1>2
<1> QED
  BY <1>1, <1>2, <1>3 DEF Seen, group

LEMMA EmptyTodo ==
    /\ NotListed = [listed |-> FALSE, schema |-> {}, suggestion |-> {}, spec |-> {}]
    /\ Nothing = [listed |-> TRUE, schema |-> {}, suggestion |-> {}, spec |-> {}]
<1>1. PICK empty, no, yes : empty = {} /\ no = FALSE /\ yes = TRUE
  OBVIOUS
<1>2. [[listed |-> no, schema |-> empty, suggestion |-> empty, spec |-> empty] EXCEPT !.listed = yes]
          = [listed |-> yes, schema |-> empty, suggestion |-> empty, spec |-> empty]
  OBVIOUS
<1> QED
  BY <1>1, <1>2 DEF NotListed, Nothing

LEMMA OffersKept == ASSUME UNCHANGED v2 PROVE \A g : Offered(g)' <=> Offered(g)
BY DEF Offered

-----------------------------------------------------------------------------

(***************************************************************************)
(* The request for a listing.                                              *)
(***************************************************************************)
LEMMA ListOfferedInv ==
    ASSUME DescribeInv, Running, group \in Asked, ~todo.listed,
           found' = [found EXCEPT ![group] = Matching(group)],
           todo' = Details(group),
           UNCHANGED <<xoluGroups, args, at, unavailable, detail, outcome>>
    PROVE  DescribeInv'
<1>1. /\ GroupsType /\ CallType /\ TodoType /\ ResultType
      /\ PastInv /\ TodoInv /\ FoundInv /\ A404HasACause /\ WholeInv /\ ReturnedInv
  BY DescribeParts
<1>2. /\ items' = items /\ registered' = registered /\ v2' = v2 /\ stayed' = stayed /\ kept' = kept
      /\ deleted' = deleted /\ disturbed' = disturbed /\ scope' = scope /\ name' = name /\ at' = at
      /\ unavailable' = unavailable /\ detail' = detail /\ outcome' = outcome
  BY DEF xoluGroups, args
<1>3. /\ outcome = "none" /\ at \in 1..4 /\ group \in Groups
      /\ (group = "entities") <=> (at = 1)
      /\ (group = "machines") <=> (at = 2)
  BY <1>1, InLoop
<1>4. PICK g, f : g = group /\ f = Matching(g)
  OBVIOUS
<1>5. /\ f \subseteq items[g] /\ f \subseteq Name /\ \A n \in f : name \in {n, Every}
      /\ \A n \in items[g] : name \in {n, Every} => n \in f
  BY <1>1, <1>3, <1>4 DEF Matching, GroupsType
<1>6. /\ found'[g] = f /\ \A h \in Groups \ {g} : found'[h] = found[h]
      /\ found' \in [Groups -> SUBSET Name]
  <2>1. found' = [found EXCEPT ![g] = f]
    BY <1>4
  <2> QED
    BY <1>1, <1>3, <1>4, <1>5, <2>1 DEF ResultType
<1>7. /\ todo'.listed = TRUE
      /\ todo'.schema = (IF g = "entities" THEN f \cap registered ELSE {})
      /\ todo'.suggestion = (IF g = "entities" /\ name # Every THEN f \ registered ELSE {})
      /\ todo'.spec = (IF g = "machines" THEN f ELSE {})
      /\ TodoType'
  BY <1>4, <1>5 DEF Details, TodoType
<1>8. todo.schema = {} /\ todo.suggestion = {} /\ todo.spec = {}
  BY <1>1, EmptyTodo DEF TodoInv
<1>9. Seen' \subseteq Seen \cup {g} /\ Asked' = Asked /\ group' = group
  <2>1. group' = group
    BY <1>2 DEF group
  <2>2. Asked' = Asked
    BY <1>2 DEF Asked
  <2> QED
    BY <1>2, <1>4, <2>1, <2>2 DEF Seen
<1>10. GroupsType' /\ CallType' /\ ResultType' /\ PastInv' /\ ReturnedInv'
  BY <1>1, <1>2, <1>3, <1>6 DEF GroupsType, CallType, ResultType, PastInv, ReturnedInv
<1>11. TodoInv'
  <2>1. g \in Asked
    BY <1>4
  <2>2. "entities" \in Groups /\ "machines" \in Groups
    BY TheOrder
  <2>3. kept \subseteq registered
    BY <1>1 DEF GroupsType
  <2> QED
    BY <1>2, <1>3, <1>4, <1>6, <1>7, <1>9, <2>1, <2>2, <2>3 DEF TodoInv
<1>12. FoundInv'
  BY <1>1, <1>2, <1>3, <1>4, <1>5, <1>6 DEF FoundInv
<1>13. A404HasACause'
  BY <1>1, <1>2, <1>3, <1>9, OffersKept DEF A404HasACause, Gone
<1>14. WholeInv'
  <2> SUFFICES ASSUME NEW h \in (Asked' \cap Seen') \ unavailable', NEW n \in Name
               PROVE  WholeSoFar(h, n)'
    BY DEF WholeInv
  <2>1. h \in Groups
    BY <1>1, <1>9, TheOrder DEF Asked, CallType
  <2>2. CASE h = g
    <3>1. stayed[g] \subseteq items[g] /\ kept \subseteq registered
      BY <1>1, <1>3, <1>4 DEF PastInv, GroupsType
    <3> QED
      BY <1>2, <1>5, <1>6, <1>7, <2>2, <3>1, DescribeAssumption DEF WholeSoFar
  <2>3. CASE h # g
    <3>1. WholeSoFar(h, n)
      BY <1>1, <1>2, <1>9, <2>3 DEF WholeInv
    <3> QED
      BY <1>2, <1>6, <1>8, <2>1, <2>3, <3>1 DEF WholeSoFar
  <2> QED
    BY <2>2, <2>3
<1> QED
  BY <1>7, <1>10, <1>11, <1>12, <1>13, <1>14, DescribePartsAfter
-----------------------------------------------------------------------------

\* What the requests of the call leave alone.
LEMMA CallRests ==
    ASSUME DescribeInv, UNCHANGED <<xoluGroups, args>>
    PROVE  /\ items' = items /\ registered' = registered /\ stayed' = stayed /\ kept' = kept
           /\ deleted' = deleted /\ name' = name /\ scope' = scope
           /\ GroupsType' /\ PastInv' /\ Asked' = Asked /\ v2' = v2
           /\ \A g : Gone(g)' <=> Gone(g)
<1>1. /\ items' = items /\ registered' = registered /\ v2' = v2 /\ stayed' = stayed /\ kept' = kept
      /\ deleted' = deleted /\ disturbed' = disturbed /\ scope' = scope /\ name' = name
  BY DEF xoluGroups, args
<1>2. GroupsType' /\ PastInv'
  BY <1>1, DescribeParts DEF GroupsType, PastInv
<1>3. Asked' = Asked /\ \A g : Gone(g)' <=> Gone(g)
  BY <1>1 DEF Asked, Gone
<1> QED
  BY <1>1, <1>2, <1>3

(***************************************************************************)
(* The call fails, with 404 only for a cause.                              *)
(***************************************************************************)
LEMMA FailInv ==
    ASSUME DescribeInv, NEW how \in {"404", "unavailable"}, Fail(how),
           how = "404" => (\E g \in Asked : ~Offered(g)) \/ Gone("entities") \/ Gone("machines")
    PROVE  DescribeInv'
<1>1. /\ outcome' = how /\ UNCHANGED <<xoluGroups, args>>
      /\ at' = at /\ todo' = todo /\ found' = found /\ unavailable' = unavailable /\ detail' = detail
  BY DEF Fail, args, result
<1>2. /\ items' = items /\ registered' = registered /\ stayed' = stayed /\ kept' = kept
      /\ deleted' = deleted /\ name' = name /\ scope' = scope
      /\ GroupsType' /\ PastInv' /\ Asked' = Asked /\ v2' = v2
      /\ \A g : Gone(g)' <=> Gone(g)
  BY <1>1, CallRests
<1>3. group' = group /\ Seen' = Seen
  BY <1>1 DEF group, Seen
<1>4. CallType' /\ TodoType' /\ ResultType' /\ ReturnedInv'
  BY <1>1, <1>2, DescribeParts DEF CallType, TodoType, ResultType, ReturnedInv
<1>5. TodoInv' /\ FoundInv'
  BY <1>1, <1>2, <1>3, DescribeParts DEF TodoInv, FoundInv
<1>6. A404HasACause'
  BY <1>1, <1>2, OffersKept, DescribeParts DEF A404HasACause
<1>7. WholeInv'
  BY <1>1, <1>2, <1>3, DescribeParts DEF WholeInv, WholeSoFar
<1> QED
  BY <1>2, <1>4, <1>5, <1>6, <1>7, DescribePartsAfter

(***************************************************************************)
(* The group is given up as unavailable.                                   *)
(***************************************************************************)
LEMMA GiveUpInv ==
    ASSUME DescribeInv, Running, group # "entities",
           unavailable' = unavailable \cup {group},
           at' = at + 1, todo' = NotListed,
           found' = [found EXCEPT ![group] = {}],
           UNCHANGED <<xoluGroups, args, detail, outcome>>,
           ~Offered(group) \/ (group = "machines" /\ Gone(group))
    PROVE  DescribeInv'
<1>1. /\ items' = items /\ registered' = registered /\ stayed' = stayed /\ kept' = kept
      /\ deleted' = deleted /\ name' = name /\ scope' = scope
      /\ GroupsType' /\ PastInv' /\ Asked' = Asked /\ v2' = v2
      /\ \A g : Gone(g)' <=> Gone(g)
  BY CallRests
<1>2. CallType
  BY DescribeParts
<1>3. /\ outcome = "none" /\ at \in 1..4 /\ at + 1 \in 1..5 /\ group \in Groups /\ at # 1
  BY <1>2, InLoop
<1>4. PICK g : g = group
  OBVIOUS
<1>5. found'[g] = {} /\ \A h \in Groups \ {g} : found'[h] = found[h]
      /\ found' \in [Groups -> SUBSET Name]
  <2>1. found' = [found EXCEPT ![g] = {}]
    BY <1>4
  <2> QED
    BY <1>3, <1>4, <2>1, DescribeParts DEF ResultType
<1>6. /\ todo'.listed = FALSE /\ todo'.schema = {} /\ todo'.suggestion = {} /\ todo'.spec = {}
      /\ TodoType'
  BY EmptyTodo DEF TodoType
<1>7. Seen' \subseteq Seen \cup {g}
  BY <1>2, <1>4, <1>6, SeenGrows
<1>8. CallType'
  BY <1>1, <1>2, <1>3 DEF CallType
<1>9. ResultType' /\ ReturnedInv'
  BY <1>3, <1>4, <1>5, DescribeParts DEF ResultType, ReturnedInv
<1>10. TodoInv'
  BY <1>6 DEF TodoInv
<1>11. FoundInv'
  BY <1>1, <1>3, <1>4, <1>5, DescribeParts DEF FoundInv
<1>12. A404HasACause'
  BY <1>1, <1>3, OffersKept, DescribeParts DEF A404HasACause
<1>13. WholeInv'
  <2> SUFFICES ASSUME NEW h \in (Asked' \cap Seen') \ unavailable', NEW n \in Name
               PROVE  WholeSoFar(h, n)'
    BY DEF WholeInv
  <2>1. h # g /\ h \in Seen /\ h \notin unavailable /\ h \in Asked /\ h \in Groups
    BY <1>1, <1>2, <1>4, <1>7, TheOrder DEF Asked, CallType
  <2>2. WholeSoFar(h, n)
    BY <2>1, DescribeParts DEF WholeInv
  <2>3. todo.schema = {} /\ todo.suggestion = {} /\ (todo.spec # {} => g = "machines")
    BY <1>2, <1>3, <1>4, InLoop, DescribeParts DEF TodoInv
  <2> QED
    BY <1>1, <1>5, <1>6, <2>1, <2>2, <2>3 DEF WholeSoFar
<1> QED
  BY <1>1, <1>6, <1>8, <1>9, <1>10, <1>11, <1>12, <1>13, DescribePartsAfter

LEMMA NotThereInv ==
    ASSUME DescribeInv, Running, group \in Asked, NotThere,
           ~Offered(group) \/ (group \in {"entities", "machines"} /\ Gone(group))
    PROVE  DescribeInv'
<1>1. CASE scope = "all" /\ group # "entities"
  BY <1>1, GiveUpInv DEF NotThere
<1>2. CASE ~(scope = "all" /\ group # "entities")
  <2>1. Fail("404")
    BY <1>2 DEF NotThere
  <2>2. (\E g \in Asked : ~Offered(g)) \/ Gone("entities") \/ Gone("machines")
    OBVIOUS
  <2> QED
    BY <2>1, <2>2, FailInv
<1> QED
  BY <1>1, <1>2

LEMMA ListGroupInv == ASSUME DescribeInv, ListGroup PROVE DescribeInv'
<1>1. Running /\ group \in Asked /\ ~todo.listed
  BY DEF ListGroup
<1>2. CASE Offered(group)
  BY <1>1, <1>2, ListOfferedInv DEF ListGroup
<1>3. CASE ~Offered(group)
  BY <1>1, <1>3, NotThereInv DEF ListGroup
<1> QED
  BY <1>2, <1>3

(***************************************************************************)
(* The answer for one item is attached to it, and the item is done.        *)
(***************************************************************************)
LEMMA AttachInv ==
    ASSUME DescribeInv, Running, NEW n \in Name, NEW what \in {"schema", "suggestion", "refused", "spec"},
           todo.listed, todo'.listed, TodoType',
           todo'.schema \subseteq todo.schema, todo.schema \subseteq todo'.schema \cup {n},
           todo'.suggestion \subseteq todo.suggestion, todo.suggestion \subseteq todo'.suggestion \cup {n},
           todo'.spec \subseteq todo.spec, todo.spec \subseteq todo'.spec \cup {n},
           detail' = [detail EXCEPT ![<<group, n>>] = what],
           UNCHANGED <<xoluGroups, args, at, found, unavailable, outcome>>,
           group = "entities" /\ n \in kept => what = "schema",
           group = "machines" => what = "spec"
    PROVE  DescribeInv'
<1>1. /\ items' = items /\ registered' = registered /\ stayed' = stayed /\ kept' = kept
      /\ deleted' = deleted /\ name' = name /\ scope' = scope
      /\ GroupsType' /\ PastInv' /\ Asked' = Asked /\ v2' = v2
      /\ \A g : Gone(g)' <=> Gone(g)
  BY CallRests
<1>2. CallType /\ at' = at /\ found' = found /\ unavailable' = unavailable /\ outcome' = outcome
  BY DescribeParts
<1>3. /\ outcome = "none" /\ at \in 1..4 /\ group \in Groups
      /\ (group = "entities") <=> (at = 1)
      /\ (group = "machines") <=> (at = 2)
  BY <1>2, InLoop
<1>4. group' = group /\ Seen' = Seen
  BY <1>2 DEF group, Seen
<1>5. PICK g : g = group
  OBVIOUS
<1>6. /\ detail' \in [Groups \X Name -> {"none", "schema", "suggestion", "refused", "spec"}]
      /\ detail'[<<g, n>>] = what
      /\ \A h \in Groups, m \in Name : h # g \/ m # n => detail'[<<h, m>>] = detail[<<h, m>>]
  <2>1. detail' = [detail EXCEPT ![<<g, n>>] = what] /\ g \in Groups
    BY <1>3, <1>5
  <2>2. detail \in [Groups \X Name -> {"none", "schema", "suggestion", "refused", "spec"}]
    BY DescribeParts DEF ResultType
  <2> QED
    BY <2>1, <2>2
<1>7. CallType' /\ ResultType' /\ ReturnedInv'
  BY <1>1, <1>2, <1>3, <1>6, DescribeParts DEF CallType, ResultType, ReturnedInv
<1>8. TodoInv'
  BY <1>1, <1>2, <1>4, DescribeParts DEF TodoInv
<1>9. FoundInv'
  BY <1>1, <1>2, DescribeParts DEF FoundInv
<1>10. A404HasACause'
  BY <1>1, <1>2, OffersKept, DescribeParts DEF A404HasACause
<1>11. WholeInv'
  <2> SUFFICES ASSUME NEW h \in (Asked' \cap Seen') \ unavailable', NEW m \in Name
               PROVE  WholeSoFar(h, m)'
    BY DEF WholeInv
  <2>1. h \in Groups
    BY <1>1, <1>2, TheOrder DEF Asked, CallType
  <2>2. WholeSoFar(h, m)
    BY <1>1, <1>2, <1>4, DescribeParts DEF WholeInv
  <2>3. CASE h = g /\ m = n
    BY <1>1, <1>2, <1>5, <1>6, <2>2, <2>3 DEF WholeSoFar
  <2>4. CASE m # n
    BY <1>1, <1>2, <1>6, <2>1, <2>2, <2>4 DEF WholeSoFar
  <2>5. CASE h # g /\ m = n
    <3>1. /\ h = "entities" => todo.schema = {} /\ todo.suggestion = {}
          /\ h = "machines" => todo.spec = {}
      BY <1>3, <1>5, <2>5, DescribeParts DEF TodoInv
    <3> QED
      BY <1>1, <1>2, <1>6, <2>1, <2>2, <2>5, <3>1 DEF WholeSoFar
  <2> QED
    BY <2>3, <2>4, <2>5
<1> QED
  BY <1>1, <1>7, <1>8, <1>9, <1>10, <1>11, DescribePartsAfter

\* Items still to be asked for are of the group in hand, which is listed.
LEMMA Pending ==
    ASSUME DescribeInv, Running
    PROVE  /\ todo.schema \cup todo.suggestion \cup todo.spec # {} => todo.listed /\ group \in Asked
           /\ todo.schema \cup todo.suggestion # {} => group = "entities"
           /\ todo.spec # {} => group = "machines"
           /\ todo.schema \subseteq Name /\ todo.suggestion \subseteq Name /\ todo.spec \subseteq Name
<1>1. CallType /\ TodoType /\ TodoInv
  BY DescribeParts
<1>2. todo.schema \subseteq Name /\ todo.suggestion \subseteq Name /\ todo.spec \subseteq Name
  BY <1>1 DEF TodoType
<1>3. todo.schema \cup todo.suggestion \cup todo.spec # {} => todo.listed /\ group \in Asked
  BY <1>1, EmptyTodo DEF TodoInv
<1> QED
  BY <1>1, <1>2, <1>3, InLoop DEF TodoInv

\* One item is taken out of one of the three lists of requests.
LEMMA OneRequestLess ==
    ASSUME TodoType, NEW n
    PROVE  /\ [todo EXCEPT !.schema = @ \ {n}]
                  = [listed |-> todo.listed, schema |-> todo.schema \ {n},
                     suggestion |-> todo.suggestion, spec |-> todo.spec]
           /\ [todo EXCEPT !.suggestion = @ \ {n}]
                  = [listed |-> todo.listed, schema |-> todo.schema,
                     suggestion |-> todo.suggestion \ {n}, spec |-> todo.spec]
           /\ [todo EXCEPT !.spec = @ \ {n}]
                  = [listed |-> todo.listed, schema |-> todo.schema,
                     suggestion |-> todo.suggestion, spec |-> todo.spec \ {n}]
<1>1. PICK l, a, b, c : todo = [listed |-> l, schema |-> a, suggestion |-> b, spec |-> c]
  BY DEF TodoType
<1>2. [todo EXCEPT !.schema = @ \ {n}] = [listed |-> l, schema |-> a \ {n}, suggestion |-> b, spec |-> c]
  BY <1>1
<1>3. [todo EXCEPT !.suggestion = @ \ {n}] = [listed |-> l, schema |-> a, suggestion |-> b \ {n}, spec |-> c]
  BY <1>1
<1>4. [todo EXCEPT !.spec = @ \ {n}] = [listed |-> l, schema |-> a, suggestion |-> b, spec |-> c \ {n}]
  BY <1>1
<1>5. todo.listed = l /\ todo.schema = a /\ todo.suggestion = b /\ todo.spec = c
  BY <1>1
<1> QED
  BY <1>2, <1>3, <1>4, <1>5

LEMMA SchemaInv == ASSUME DescribeInv, Schema PROVE DescribeInv'
<1>1. PICK n \in todo.schema : IF n \in registered THEN Attach("schema", n, "schema") ELSE NotThere
  BY DEF Schema
<1>2. Running
  BY DEF Schema
<1>3. todo.listed /\ group \in Asked /\ group = "entities" /\ n \in Name
  BY <1>1, <1>2, Pending
<1>4. CASE n \in registered
  <2>1. /\ todo' = [todo EXCEPT !.schema = @ \ {n}]
        /\ detail' = [detail EXCEPT ![<<group, n>>] = "schema"]
        /\ UNCHANGED <<xoluGroups, args, at, found, unavailable, outcome>>
    BY <1>1, <1>4 DEF Attach
  <2>2. TodoType /\ todo' = [listed |-> todo.listed, schema |-> todo.schema \ {n},
                             suggestion |-> todo.suggestion, spec |-> todo.spec]
    BY <2>1, OneRequestLess, DescribeParts
  <2>3. /\ todo'.listed /\ TodoType'
        /\ todo'.schema = todo.schema \ {n} /\ todo'.suggestion = todo.suggestion /\ todo'.spec = todo.spec
    BY <1>3, <2>2 DEF TodoType
  <2> QED
    BY <1>2, <1>3, <2>1, <2>3, AttachInv
<1>5. CASE n \notin registered
  <2>1. Gone("entities")
    <3>1. n \in found["entities"] /\ n \in deleted["entities"] /\ name \in {n, Every}
      BY <1>1, <1>5, TheOrder, DescribeParts DEF TodoInv, FoundInv
    <3> QED
      BY <3>1 DEF Gone
  <2> QED
    BY <1>1, <1>2, <1>3, <1>5, <2>1, NotThereInv
<1> QED
  BY <1>4, <1>5

LEMMA SuggestionInv == ASSUME DescribeInv, Suggestion PROVE DescribeInv'
<1>1. PICK n \in todo.suggestion, what \in {"suggestion", "refused"} : Attach("suggestion", n, what)
  BY DEF Suggestion
<1>2. Running
  BY DEF Suggestion
<1>3. todo.listed /\ group = "entities" /\ n \in Name /\ n \notin kept
  BY <1>1, <1>2, Pending, DescribeParts DEF TodoInv
<1>4. /\ todo' = [todo EXCEPT !.suggestion = @ \ {n}]
      /\ detail' = [detail EXCEPT ![<<group, n>>] = what]
      /\ UNCHANGED <<xoluGroups, args, at, found, unavailable, outcome>>
  BY <1>1 DEF Attach
<1>5. TodoType /\ todo' = [listed |-> todo.listed, schema |-> todo.schema,
                           suggestion |-> todo.suggestion \ {n}, spec |-> todo.spec]
  BY <1>4, OneRequestLess, DescribeParts
<1>6. /\ todo'.listed /\ TodoType'
      /\ todo'.schema = todo.schema /\ todo'.suggestion = todo.suggestion \ {n} /\ todo'.spec = todo.spec
  BY <1>3, <1>5 DEF TodoType
<1> QED
  BY <1>1, <1>2, <1>3, <1>4, <1>6, AttachInv

LEMMA DefinitionInv == ASSUME DescribeInv, Definition PROVE DescribeInv'
<1>1. PICK n \in todo.spec : IF n \in items["machines"] THEN Attach("spec", n, "spec") ELSE NotThere
  BY DEF Definition
<1>2. Running
  BY DEF Definition
<1>3. todo.listed /\ group \in Asked /\ group = "machines" /\ n \in Name
  BY <1>1, <1>2, Pending
<1>4. CASE n \in items["machines"]
  <2>1. /\ todo' = [todo EXCEPT !.spec = @ \ {n}]
        /\ detail' = [detail EXCEPT ![<<group, n>>] = "spec"]
        /\ UNCHANGED <<xoluGroups, args, at, found, unavailable, outcome>>
    BY <1>1, <1>4 DEF Attach
  <2>2. TodoType /\ todo' = [listed |-> todo.listed, schema |-> todo.schema,
                             suggestion |-> todo.suggestion, spec |-> todo.spec \ {n}]
    BY <2>1, OneRequestLess, DescribeParts
  <2>3. /\ todo'.listed /\ TodoType'
        /\ todo'.schema = todo.schema /\ todo'.suggestion = todo.suggestion /\ todo'.spec = todo.spec \ {n}
    BY <1>3, <2>2 DEF TodoType
  <2> QED
    BY <1>2, <1>3, <2>1, <2>3, AttachInv
<1>5. CASE n \notin items["machines"]
  <2>1. Gone("machines")
    <3>1. n \in found["machines"] /\ n \in deleted["machines"] /\ name \in {n, Every}
      BY <1>1, <1>5, TheOrder, DescribeParts DEF TodoInv, FoundInv
    <3> QED
      BY <3>1 DEF Gone
  <2> QED
    BY <1>1, <1>2, <1>3, <1>5, <2>1, NotThereInv
<1> QED
  BY <1>4, <1>5

(***************************************************************************)
(* The loop goes on: the group is done, or was not asked for.              *)
(***************************************************************************)
LEMMA GoOnInv ==
    ASSUME DescribeInv, Running, at' = at + 1, todo' = NotListed,
           todo.listed \/ group \notin Asked,
           todo.schema = {} /\ todo.suggestion = {} /\ todo.spec = {},
           UNCHANGED <<xoluGroups, args, found, unavailable, detail, outcome>>
    PROVE  DescribeInv'
<1>1. /\ items' = items /\ registered' = registered /\ stayed' = stayed /\ kept' = kept
      /\ deleted' = deleted /\ name' = name /\ scope' = scope
      /\ GroupsType' /\ PastInv' /\ Asked' = Asked /\ v2' = v2
      /\ \A g : Gone(g)' <=> Gone(g)
  BY CallRests
<1>2. CallType
  BY DescribeParts
<1>3. outcome = "none" /\ at + 1 \in 1..5
  BY <1>2, InLoop
<1>4. /\ todo'.listed = FALSE /\ todo'.schema = {} /\ todo'.suggestion = {} /\ todo'.spec = {}
      /\ TodoType'
  BY EmptyTodo DEF TodoType
<1>5. Seen' \subseteq Seen \cup {group} /\ (todo.listed => group \in Seen)
  BY <1>2, <1>4, SeenGrows DEF Seen
<1>6. CallType' /\ ResultType' /\ ReturnedInv'
  BY <1>1, <1>2, <1>3, DescribeParts DEF CallType, ResultType, ReturnedInv
<1>7. TodoInv' /\ FoundInv'
  BY <1>1, <1>4, DescribeParts DEF TodoInv, FoundInv
<1>8. A404HasACause'
  BY <1>1, <1>3, OffersKept, DescribeParts DEF A404HasACause
<1>9. WholeInv'
  <2>1. \A h \in (Asked' \cap Seen') \ unavailable' : h \in (Asked \cap Seen) \ unavailable
    BY <1>1, <1>5
  <2> QED
    BY <1>1, <1>4, <2>1, DescribeParts DEF WholeInv, WholeSoFar
<1> QED
  BY <1>1, <1>4, <1>6, <1>7, <1>8, <1>9, DescribePartsAfter

LEMMA GroupDoneInv == ASSUME DescribeInv, GroupDone PROVE DescribeInv'
<1>1. todo.listed /\ todo.schema = {} /\ todo.suggestion = {} /\ todo.spec = {}
  BY EmptyTodo DEF GroupDone
<1> QED
  BY <1>1, GoOnInv DEF GroupDone, result

LEMMA SkipInv == ASSUME DescribeInv, Skip PROVE DescribeInv'
<1>1. Running /\ group \notin Asked /\ at' = at + 1
      /\ UNCHANGED <<xoluGroups, args, todo, found, unavailable, detail, outcome>>
  BY DEF Skip, result
<1>2. todo = NotListed
  BY <1>1, DescribeParts DEF TodoInv
<1>3. todo.schema = {} /\ todo.suggestion = {} /\ todo.spec = {}
  BY <1>2, EmptyTodo
<1> QED
  BY <1>1, <1>2, <1>3, GoOnInv

LEMMA SubstrateFailsInv == ASSUME DescribeInv, SubstrateFails PROVE DescribeInv'
BY FailInv DEF SubstrateFails

LEMMA ReturnInv == ASSUME DescribeInv, Return PROVE DescribeInv'
<1>1. /\ outcome = "none" /\ at > Len(Order) /\ UNCHANGED <<xoluGroups, args>>
      /\ at' = at /\ todo' = todo /\ found' = found /\ unavailable' = unavailable /\ detail' = detail
      /\ outcome' = IF name # Every /\ \A g \in Groups : found[g] = {} THEN "not found" ELSE "ok"
  BY DEF Return, args, result
<1>2. /\ items' = items /\ registered' = registered /\ stayed' = stayed /\ kept' = kept
      /\ deleted' = deleted /\ name' = name /\ scope' = scope
      /\ GroupsType' /\ PastInv' /\ Asked' = Asked /\ v2' = v2
      /\ \A g : Gone(g)' <=> Gone(g)
  BY <1>1, CallRests
<1>3. group' = group /\ Seen' = Seen
  BY <1>1 DEF group, Seen
<1>4. at = 5
  <2>1. at \in 1..5
    BY DescribeParts DEF CallType
  <2>2. at > 4
    BY <1>1, TheOrder
  <2> QED
    BY <2>1, <2>2
<1>5. CallType' /\ TodoType' /\ ResultType' /\ ReturnedInv'
  BY <1>1, <1>2, <1>4, DescribeParts DEF CallType, TodoType, ResultType, ReturnedInv
<1>6. TodoInv' /\ FoundInv'
  BY <1>1, <1>2, <1>3, DescribeParts DEF TodoInv, FoundInv
<1>7. A404HasACause'
  BY <1>1, <1>2, OffersKept, DescribeParts DEF A404HasACause
<1>8. WholeInv'
  BY <1>1, <1>2, <1>3, DescribeParts DEF WholeInv, WholeSoFar
<1> QED
  BY <1>2, <1>5, <1>6, <1>7, <1>8, DescribePartsAfter
-----------------------------------------------------------------------------

(***************************************************************************)
(* Others create, delete and register: what was found and did not stay was *)
(* deleted, and the causes of a 404 only grow.                             *)
(***************************************************************************)
LEMMA DisturbInv ==
    ASSUME DescribeInv, Disturb, GroupsType', PastInv',
           \A g \in Groups : items[g] \cup deleted[g] \subseteq items'[g] \cup deleted'[g],
           \A g \in Groups : stayed'[g] \subseteq stayed[g] /\ deleted[g] \subseteq deleted'[g],
           kept' \subseteq kept,
           registered \cup deleted["entities"] \subseteq registered' \cup deleted'["entities"]
    PROVE  DescribeInv'
<1>1. /\ outcome = "none" /\ v2' = v2 /\ scope' = scope /\ name' = name /\ at' = at /\ todo' = todo
      /\ found' = found /\ unavailable' = unavailable /\ detail' = detail /\ outcome' = outcome
  BY DEF Disturb, args, result
<1>2. group' = group /\ Seen' = Seen /\ Asked' = Asked
  BY <1>1 DEF group, Seen, Asked
<1>3. CallType' /\ TodoType' /\ ResultType' /\ ReturnedInv'
  BY <1>1, DescribeParts DEF CallType, TodoType, ResultType, ReturnedInv
<1>4. TodoInv' /\ FoundInv'
  BY <1>1, <1>2, DescribeParts DEF TodoInv, FoundInv
<1>5. A404HasACause'
  <2>1. Gone("machines") => Gone("machines")'
    BY <1>1, TheOrder DEF Gone
  <2> QED
    BY <1>1, <2>1, OffersKept, DescribeParts DEF A404HasACause
<1>6. WholeInv'
  <2> SUFFICES ASSUME NEW g \in (Asked' \cap Seen') \ unavailable', NEW n \in Name
               PROVE  WholeSoFar(g, n)'
    BY DEF WholeInv
  <2>1. g \in Groups
    BY <1>2, TheOrder, DescribeParts DEF Asked, CallType
  <2>2. WholeSoFar(g, n)
    BY <1>1, <1>2, DescribeParts DEF WholeInv
  <2> QED
    BY <1>1, <2>1, <2>2 DEF WholeSoFar
<1> QED
  BY <1>3, <1>4, <1>5, <1>6, DescribePartsAfter

LEMMA DisturbType == ASSUME GroupsType, Disturb PROVE v2' \in BOOLEAN /\ disturbed' \in 0..MaxDescribeChanges
<1>1. disturbed \in Nat /\ disturbed < MaxDescribeChanges /\ MaxDescribeChanges \in Nat
  BY DescribeAssumption DEF GroupsType, Disturb
<1> QED
  BY <1>1 DEF GroupsType, Disturb

LEMMA CreateInv == ASSUME DescribeInv, Create PROVE DescribeInv'
<1>1. PICK g \in Groups, n \in Name : items' = [items EXCEPT ![g] = @ \cup {n}]
  BY DEF Create
<1>2. Disturb /\ registered' = registered /\ stayed' = stayed /\ kept' = kept /\ deleted' = deleted
  BY DEF Create
<1>3. GroupsType /\ PastInv
  BY DescribeParts
<1>4. /\ items' \in [Groups -> SUBSET Name] /\ \A h \in Groups : items[h] \subseteq items'[h]
  BY <1>1, <1>3 DEF GroupsType
<1>5. GroupsType'
  BY <1>2, <1>3, <1>4, DisturbType, TheOrder DEF GroupsType
<1>6. PastInv'
  BY <1>2, <1>3, <1>4 DEF PastInv
<1> QED
  BY <1>2, <1>4, <1>5, <1>6, DisturbInv

LEMMA RegisterInv == ASSUME DescribeInv, Register PROVE DescribeInv'
<1>1. PICK n \in items["entities"] : registered' = registered \cup {n}
  BY DEF Register
<1>2. Disturb /\ items' = items /\ stayed' = stayed /\ kept' = kept /\ deleted' = deleted
  BY DEF Register
<1>3. GroupsType /\ PastInv
  BY DescribeParts
<1>4. GroupsType'
  BY <1>1, <1>2, <1>3, DisturbType DEF GroupsType
<1>5. PastInv'
  BY <1>2, <1>3 DEF PastInv
<1> QED
  BY <1>1, <1>2, <1>4, <1>5, DisturbInv

LEMMA DeleteItemInv == ASSUME DescribeInv, DeleteItem PROVE DescribeInv'
<1>1. PICK g, n :
        /\ g \in Groups /\ n \in items[g]
        /\ items' = [items EXCEPT ![g] = @ \ {n}]
        /\ stayed' = [stayed EXCEPT ![g] = @ \ {n}]
        /\ deleted' = [deleted EXCEPT ![g] = @ \cup {n}]
        /\ registered' = IF g = "entities" THEN registered \ {n} ELSE registered
        /\ kept' = IF g = "entities" THEN kept \ {n} ELSE kept
  BY DEF DeleteItem
<1>2. Disturb
  BY DEF DeleteItem
<1>3. GroupsType /\ PastInv
  BY DescribeParts
<1>4. n \in Name
  BY <1>1, <1>3 DEF GroupsType
<1>5. /\ items' \in [Groups -> SUBSET Name] /\ stayed' \in [Groups -> SUBSET Name]
      /\ deleted' \in [Groups -> SUBSET Name]
  BY <1>1, <1>3, <1>4 DEF GroupsType
<1>6. \A h \in Groups :
        /\ items'[h] = (IF h = g THEN items[h] \ {n} ELSE items[h])
        /\ stayed'[h] = (IF h = g THEN stayed[h] \ {n} ELSE stayed[h])
        /\ deleted'[h] = (IF h = g THEN deleted[h] \cup {n} ELSE deleted[h])
  BY <1>1, <1>3 DEF GroupsType
<1>7. GroupsType'
  BY <1>1, <1>2, <1>3, <1>5, <1>6, DisturbType, TheOrder DEF GroupsType
<1>8. PastInv'
  BY <1>3, <1>6 DEF PastInv
<1>9. /\ \A h \in Groups : items[h] \cup deleted[h] \subseteq items'[h] \cup deleted'[h]
      /\ \A h \in Groups : stayed'[h] \subseteq stayed[h] /\ deleted[h] \subseteq deleted'[h]
  BY <1>6
<1>10. kept' \subseteq kept /\ registered \cup deleted["entities"] \subseteq registered' \cup deleted'["entities"]
  BY <1>1, <1>6, TheOrder
<1> QED
  BY <1>2, <1>7, <1>8, <1>9, <1>10, DisturbInv
-----------------------------------------------------------------------------

LEMMA DescribeInitInv == DescribeInit => DescribeInv
<1> SUFFICES ASSUME DescribeInit PROVE DescribeInv
  OBVIOUS
<1>1. GroupsType /\ PastInv
  <2>1. disturbed \in 0..MaxDescribeChanges
    BY DescribeAssumption DEF DescribeInit
  <2> QED
    BY <2>1 DEF DescribeInit, GroupsType, PastInv
<1>2. CallType /\ TodoType /\ ResultType
  BY EmptyTodo DEF DescribeInit, CallType, TodoType, ResultType
<1>3. ~todo.listed /\ todo = NotListed /\ todo.schema = {} /\ todo.suggestion = {} /\ todo.spec = {}
  BY EmptyTodo DEF DescribeInit
<1>4. TodoInv
  BY <1>3 DEF TodoInv
<1>5. FoundInv /\ A404HasACause /\ ReturnedInv
  BY DEF DescribeInit, FoundInv, A404HasACause, ReturnedInv
<1>6. WholeInv
  <2>1. Seen = {}
    <3>1. 1..(at - 1) = {}
      BY DEF DescribeInit
    <3> QED
      BY <1>3, <3>1 DEF Seen
  <2> QED
    BY <2>1 DEF WholeInv
<1> QED
  BY <1>1, <1>2, <1>4, <1>5, <1>6, DescribeParts

LEMMA DescribeNextInv == DescribeInv /\ [DescribeNext]_describeVars => DescribeInv'
<1> SUFFICES ASSUME DescribeInv, [DescribeNext]_describeVars PROVE DescribeInv'
  OBVIOUS
<1>1. CASE Describing
  BY <1>1, ListGroupInv, SchemaInv, SuggestionInv, DefinitionInv, GroupDoneInv, SkipInv, ReturnInv,
     SubstrateFailsInv DEF Describing
<1>2. CASE Others
  BY <1>2, CreateInv, DeleteItemInv, RegisterInv DEF Others
<1>3. CASE UNCHANGED describeVars
  <2>1. /\ UNCHANGED <<xoluGroups, args>> /\ outcome' = outcome
        /\ at' = at /\ todo' = todo /\ found' = found /\ unavailable' = unavailable /\ detail' = detail
    BY <1>3 DEF describeVars, args, result
  <2>2. /\ items' = items /\ registered' = registered /\ stayed' = stayed /\ kept' = kept
        /\ deleted' = deleted /\ name' = name /\ scope' = scope
        /\ GroupsType' /\ PastInv' /\ Asked' = Asked /\ v2' = v2
        /\ \A g : Gone(g)' <=> Gone(g)
    BY <2>1, CallRests
  <2>3. group' = group /\ Seen' = Seen
    BY <2>1 DEF group, Seen
  <2>4. CallType' /\ TodoType' /\ ResultType' /\ ReturnedInv'
    BY <2>1, <2>2, DescribeParts DEF CallType, TodoType, ResultType, ReturnedInv
  <2>5. TodoInv' /\ FoundInv'
    BY <2>1, <2>2, <2>3, DescribeParts DEF TodoInv, FoundInv
  <2>6. A404HasACause'
    BY <2>1, <2>2, OffersKept, DescribeParts DEF A404HasACause
  <2>7. WholeInv'
    BY <2>1, <2>2, <2>3, DescribeParts DEF WholeInv, WholeSoFar
  <2> QED
    BY <2>2, <2>4, <2>5, <2>6, <2>7, DescribePartsAfter
<1> QED
  BY <1>1, <1>2, <1>3 DEF DescribeNext

(***************************************************************************)
(* The invariant of executeDescribe holds however others change the groups *)
(* between the call's requests.                                            *)
(***************************************************************************)
THEOREM DescribeInvariant == DescribeSpec => []DescribeInv
BY DescribeInitInv, DescribeNextInv, PTL DEF DescribeSpec

(***************************************************************************)
(* The call's arguments, its place in the loop and its result keep their   *)
(* types.                                                                  *)
(***************************************************************************)
THEOREM DescribeTypes == DescribeSpec => []DescribeTypeOK
<1>1. DescribeInv => DescribeTypeOK
  BY DEF DescribeInv
<1> QED
  BY <1>1, DescribeInvariant, PTL

(***************************************************************************)
(* executeDescribe reports a group as unavailable, or fails with 404, only *)
(* if xolu does not offer it or an item of it was deleted under the call.  *)
(***************************************************************************)
THEOREM A404IsExplained == DescribeSpec => []A404HasACause
<1>1. DescribeInv => A404HasACause
  BY DEF DescribeInv
<1> QED
  BY <1>1, DescribeInvariant, PTL

(***************************************************************************)
(* A describe that succeeds is whole, and one that finds nothing honest,   *)
(* for any number of items and of changes during the call.                 *)
(***************************************************************************)
THEOREM DescribesAreWhole == DescribeSpec => []DescribeIsWhole
<1>1. DescribeInv => DescribeIsWhole
  <2> SUFFICES ASSUME DescribeInv PROVE DescribeIsWhole
    OBVIOUS
  <2>1. /\ GroupsType /\ CallType /\ ResultType /\ PastInv /\ TodoInv /\ A404HasACause /\ WholeInv
        /\ ReturnedInv
    BY DescribeParts
  <2>2. Asked \subseteq Groups
    BY <2>1 DEF Asked, CallType
  <2>3. ASSUME outcome \in {"ok", "not found"}
        PROVE  todo.schema = {} /\ todo.suggestion = {} /\ todo.spec = {} /\ Groups \subseteq Seen
    <3>1. at = 5
      BY <2>1, <2>3 DEF ReturnedInv
    <3>2. todo.schema = {} /\ todo.suggestion = {} /\ todo.spec = {}
      BY <2>1, <3>1 DEF TodoInv
    <3>3. \A i \in 1..4 : Order[i] \in Seen
      BY <3>1 DEF Seen
    <3>4. 1 \in 1..4 /\ 2 \in 1..4 /\ 3 \in 1..4 /\ 4 \in 1..4
      OBVIOUS
    <3> QED
      BY <3>2, <3>3, <3>4, TheOrder
  <2>4. ASSUME outcome = "ok", NEW g \in Asked \ unavailable, NEW n \in Name
        PROVE  /\ name \in {n, Every} /\ n \in stayed[g] => n \in found[g]
               /\ g = "machines" /\ n \in found[g] => detail[<<g, n>>] = "spec"
               /\ g = "entities" /\ n \in found[g] /\ n \in kept => detail[<<g, n>>] = "schema"
               /\ g = "entities" /\ n \in found[g] /\ name = n => detail[<<g, n>>] # "none"
    <3>1. WholeSoFar(g, n)
      BY <2>1, <2>2, <2>3, <2>4 DEF WholeInv
    <3> QED
      BY <2>3, <2>4, <3>1 DEF WholeSoFar
  <2>5. ASSUME outcome = "not found", NEW g \in Asked, Offered(g) PROVE name \notin stayed[g]
    <3>1. name # Every /\ name \in Name /\ found[g] = {}
      BY <2>1, <2>2, <2>5 DEF ReturnedInv, CallType
    <3>2. CASE g \in unavailable
      <4>1. g = "machines" /\ Gone(g)
        BY <2>1, <2>5, <3>2 DEF A404HasACause
      <4>2. name \in deleted[g]
        BY <3>1, <4>1 DEF Gone
      <4> QED
        BY <2>1, <2>2, <4>2 DEF PastInv
    <3>3. CASE g \notin unavailable
      <4>1. WholeSoFar(g, name)
        BY <2>1, <2>2, <2>3, <2>5, <3>1, <3>3 DEF WholeInv
      <4> QED
        BY <3>1, <4>1 DEF WholeSoFar
    <3> QED
      BY <3>2, <3>3
  <2> QED
    BY <2>4, <2>5 DEF DescribeIsWhole
<1> QED
  BY <1>1, DescribeInvariant, PTL
-----------------------------------------------------------------------------
(***************************************************************************)
(* Calendar.                                                               *)
(***************************************************************************)

(***************************************************************************)
(* Filled, unfolded: step by step, the members that are no empty strings.  *)
(***************************************************************************)
IsFilling(f, list, n) ==
    f = [i \in 0..n |-> IF i = 0 THEN <<>>
                        ELSE IF list[i] = Empty THEN f[i - 1] ELSE Append(f[i - 1], list[i])]

LEMMA FillingExists ==
    ASSUME NEW list, NEW m \in Nat
    PROVE  \E f : IsFilling(f, list, m)
<1> DEFINE S == {n \in Nat : \E f : IsFilling(f, list, n)}
<1>1. 0 \in S
  <2> DEFINE f == [i \in 0..0 |-> <<>>]
  <2>1. IsFilling(f, list, 0)
    BY DEF IsFilling
  <2> QED
    BY <2>1
<1>2. ASSUME NEW n \in Nat, n \in S PROVE n + 1 \in S
  <2>1. PICK f : IsFilling(f, list, n)
    BY <1>2
  <2> DEFINE Longer(g, i) == IF i = 0 THEN <<>>
                           ELSE IF list[i] = Empty THEN g[i - 1] ELSE Append(g[i - 1], list[i])
             g == [i \in 0..(n + 1) |-> IF i = n + 1 THEN Longer(f, n + 1) ELSE f[i]]
  <2>2. \A i \in 0..n : f[i] = Longer(f, i)
    BY <2>1 DEF IsFilling
  <2>3. \A i \in 0..n : i \in 0..(n + 1) /\ i # n + 1
    OBVIOUS
  <2>4. \A i \in 0..n : g[i] = f[i]
    BY <2>3
  <2>5. ASSUME NEW i \in 0..(n + 1) PROVE g[i] = Longer(g, i)
    <3>1. i = 0 \/ i - 1 \in 0..n
      OBVIOUS
    <3>2. Longer(g, i) = Longer(f, i)
      BY <2>4, <3>1
    <3>3. i = n + 1 \/ i \in 0..n
      OBVIOUS
    <3> QED
      BY <2>2, <2>4, <3>2, <3>3
  <2>6. IsFilling(g, list, n + 1)
    <3>1. g = [i \in 0..(n + 1) |-> g[i]]
      OBVIOUS
    <3> HIDE DEF g
    <3> QED
      BY <2>5, <3>1 DEF IsFilling
  <2> HIDE DEF g
  <2> QED
    BY <2>6
<1> HIDE DEF S
<1>3. m \in S
  BY <1>1, <1>2, SetInduction
<1> QED
  BY <1>3 DEF S

LEMMA FilledType ==
    ASSUME NEW m \in Nat, NEW list \in [1..m -> Cal \cup {Empty}]
    PROVE  Filled(list) \in Seq(Cal) /\ Len(Filled(list)) <= m
<1> DEFINE f == CHOOSE f : IsFilling(f, list, m)
<1>1. IsFilling(f, list, m)
  BY FillingExists
<1>2. Len(list) = m
  OBVIOUS
<1>3. Filled(list) = f[m]
  BY <1>2 DEF Filled, IsFilling
<1> HIDE DEF f
<1>4. /\ f[0] = <<>>
      /\ \A n \in 0..(m - 1) :
            f[n + 1] = IF list[n + 1] = Empty THEN f[n] ELSE Append(f[n], list[n + 1])
  <2>1. 0 \in 0..m /\ \A n \in 0..(m - 1) : n + 1 \in 0..m /\ n + 1 # 0 /\ (n + 1) - 1 = n
    OBVIOUS
  <2> QED
    BY <1>1, <2>1 DEF IsFilling
<1> DEFINE S == {n \in Nat : f[n] \in Seq(Cal) /\ Len(f[n]) <= n}
<1>5. 0 \in S
  <2>1. f[0] \in Seq(Cal) /\ Len(f[0]) = 0
    BY <1>4
  <2> QED
    BY <2>1
<1>6. ASSUME NEW n \in 0..(m - 1), n \in S PROVE n + 1 \in S
  <2>1. n \in Nat /\ n + 1 \in 1..m /\ list[n + 1] \in Cal \cup {Empty}
    OBVIOUS
  <2>2. f[n] \in Seq(Cal) /\ Len(f[n]) <= n
    BY <1>6
  <2>3. f[n + 1] = IF list[n + 1] = Empty THEN f[n] ELSE Append(f[n], list[n + 1])
    BY <1>4
  <2>4. f[n + 1] \in Seq(Cal) /\ (Len(f[n + 1]) = Len(f[n]) \/ Len(f[n + 1]) = Len(f[n]) + 1)
    BY <2>1, <2>2, <2>3
  <2>5. Len(f[n]) \in Nat /\ Len(f[n + 1]) \in Nat
    BY <2>2, <2>4
  <2>6. Len(f[n + 1]) <= n + 1
    BY <2>1, <2>2, <2>4, <2>5
  <2> QED
    BY <2>1, <2>4, <2>6
<1>7. m \in S
  <2> HIDE DEF S
  <2>1. \A n \in 0..m : n \in S
    BY <1>5, <1>6, BoundedInduction
  <2> QED
    BY <2>1
<1> QED
  BY <1>3, <1>7
-----------------------------------------------------------------------------

\* A call in hand names calendars, a proposal one of them, and a confirmation the
\* one it was given where it was given one.
ProperCall(c) ==
    /\ c \in Calls /\ Len(c.answers) <= Len(c.cals) /\ Len(c.cals) <= MaxNamed
    /\ c.kind \in {"check", "openings", "propose"} => c.cals \in Seq(Cal)
    /\ c.kind \in {"openings", "propose", "confirm"} => Len(c.cals) = 1
    /\ c.kind = "propose" => c.id \in Ids
    /\ c.kind = "confirm" /\ c.given \in Cal => c.cals[1] = c.given

\* What a check has collected was so during the check.
CheckInv ==
    op.kind = "check" =>
        /\ busy \subseteq wasBusy /\ Cal \ busy \subseteq wasFree
        /\ \A i \in 1..Len(op.answers) : op.cals[i] \in (IF op.answers[i] THEN wasFree ELSE wasBusy)

\* The agent is told of bookings only, and what is booked is accounted for; only
\* the proposal in hand may be under way without being so.
BookingInv ==
    /\ told \subseteq bookings
    /\ \A b \in bookings : b.id \in OwnIds \/ b \in told \cup lost
    /\ \A b \in onWay : b.id \in OwnIds \/ b \in told \cup lost \/ (op.kind = "propose" /\ b = Named)

CalendarInv ==
    /\ CalendarTypeOK /\ ProperCall(op)
    /\ CheckInv /\ BookingInv
    /\ CheckIsTrueOfEach /\ ConfirmFindsTheProposal

LEMMA Tags ==
    /\ Empty \notin Cal /\ Absent \notin Cal /\ Null \notin Cal /\ NilText \notin Cal
    /\ MaxNamed \in Nat /\ 1 <= MaxNamed /\ MaxCalls \in Nat /\ MaxMoves \in Nat
BY CalendarAssumption

LEMMA IdleIsProper ==
    ProperCall(Idle) /\ Idle.kind = "none"
BY Tags DEF ProperCall, Idle, Calls

LEMMA ReplyTypes ==
    ASSUME NEW code \in {"none", "ok", "CONTRACT_VIOLATION", "NOT_FOUND", "refused", "failed"}
    PROVE  Reply(code) \in Replies /\ Reply(code).code = code /\ Reply(code).cals = <<>>
BY DEF Reply, Replies

(***************************************************************************)
(* The calendars that the arguments of a call name.                        *)
(***************************************************************************)
LEMMA NamedCalendars ==
    ASSUME NEW arg \in Naming
    PROVE  /\ CalendarsArg(arg) \in Seq(Cal) /\ Len(CalendarsArg(arg)) <= MaxNamed
           /\ arg.calendar_id \in Cal \cup {Absent, Null}
           /\ ConfirmCalendars(arg) \in Seq(Cal \cup {NilText})
           /\ Len(ConfirmCalendars(arg)) <= MaxNamed
           /\ arg.calendar_id \in Cal => ConfirmCalendars(arg)[1] = arg.calendar_id
<1>1. PICK m \in 0..MaxNamed : arg.calendars \in [1..m -> Cal \cup {Empty}]
  <2>1. CASE arg.calendars = <<>>
    <3>1. <<>> \in [1..0 -> Cal \cup {Empty}] /\ 0 \in 0..MaxNamed
      BY Tags
    <3> QED
      BY <2>1, <3>1
  <2>2. CASE arg.calendars # <<>>
    <3>1. arg.calendars \in UNION {[1..n -> Cal \cup {Empty}] : n \in 0..MaxNamed}
      BY <2>2 DEF Naming
    <3> QED
      BY <3>1
  <2> QED
    BY <2>1, <2>2
<1>2. Filled(arg.calendars) \in Seq(Cal) /\ Len(Filled(arg.calendars)) <= MaxNamed
  <2>1. Filled(arg.calendars) \in Seq(Cal) /\ Len(Filled(arg.calendars)) <= m
    BY <1>1, FilledType
  <2>2. Len(Filled(arg.calendars)) \in Nat /\ m <= MaxNamed /\ m \in Nat
    BY <2>1, Tags
  <2> QED
    BY <2>1, <2>2, Tags
<1>3. arg.calendar_id \in Cal \cup {Absent, Null}
  BY DEF Naming
<1>4. \A c \in Cal : <<c>> \in Seq(Cal) /\ Len(<<c>>) = 1 /\ <<c>>[1] = c
  OBVIOUS
<1>5. CalendarsArg(arg) \in Seq(Cal) /\ Len(CalendarsArg(arg)) <= MaxNamed
  <2>1. <<>> \in Seq(Cal) /\ Len(<<>>) = 0
    OBVIOUS
  <2> QED
    BY <1>2, <1>4, <2>1, Tags DEF CalendarsArg
<1>6. CalendarsArg(arg) \in Seq(Cal \cup {NilText})
  BY <1>5
<1>7. <<NilText>> \in Seq(Cal \cup {NilText}) /\ Len(<<NilText>>) = 1
  OBVIOUS
<1>8. CASE arg.calendar_id \in Cal
  <2>1. ConfirmCalendars(arg) = <<arg.calendar_id>>
    BY <1>8, Tags DEF ConfirmCalendars
  <2> QED
    BY <1>3, <1>4, <1>5, <1>8, <2>1, Tags
<1>9. CASE arg.calendar_id \notin Cal
  <2>1. ConfirmCalendars(arg) \in {<<NilText>>, CalendarsArg(arg)}
    BY <1>9 DEF ConfirmCalendars
  <2> QED
    BY <1>3, <1>5, <1>6, <1>7, <1>9, <2>1, Tags
<1> QED
  BY <1>8, <1>9

LEMMA BookingIdType ==
    ASSUME CalendarTypeOK, calls < MaxCalls, NEW asked \in OwnIds \cup {Absent, Empty, Null}
    PROVE  BookingId(asked) \in Ids
<1>1. calls + 1 \in 1..MaxCalls
  BY Tags DEF CalendarTypeOK
<1>2. Drawn(calls + 1) \in Ids
  BY <1>1 DEF Ids
<1> QED
  BY <1>2 DEF BookingId, Ids
-----------------------------------------------------------------------------

\* The types, in parts that the actions change together.
XoluType == busy \subseteq Cal /\ bookings \cup onWay \cup told \cup lost \subseteq [cal : Cal, id : Ids]

WasType == wasFree \subseteq Cal /\ wasBusy \subseteq Cal

CountType == calls \in 0..MaxCalls /\ moves \in 0..MaxMoves

LEMMA Parts ==
    CalendarInv <=> /\ XoluType /\ WasType /\ CountType /\ ProperCall(op) /\ reply \in Replies
                    /\ CheckInv /\ BookingInv /\ CheckIsTrueOfEach /\ ConfirmFindsTheProposal
BY DEF CalendarInv, CalendarTypeOK, XoluType, WasType, CountType, ProperCall

(***************************************************************************)
(* A call that begins: it is refused, or it is proper and put in hand.     *)
(***************************************************************************)
LEMMA BeginInv ==
    ASSUME CalendarInv, NEW acceptable, NEW next,
           acceptable => ProperCall(next) /\ next.answers = <<>> /\ next.kind # "none",
           Begin(acceptable, next), UNCHANGED busy
    PROVE  /\ WasType' /\ ProperCall(op)' /\ (reply \in Replies)'
           /\ calls' \in 0..MaxCalls
           /\ CheckInv' /\ CheckIsTrueOfEach' /\ ConfirmFindsTheProposal'
           /\ op = Idle /\ calls < MaxCalls
           /\ op' = (IF acceptable THEN next ELSE op) /\ (acceptable => op' # op)
<1>1. /\ op = Idle /\ calls < MaxCalls /\ calls' = calls + 1
      /\ op' = (IF acceptable THEN next ELSE op)
      /\ \/ reply' = Reply("none")
         \/ reply' = Reply("CONTRACT_VIOLATION")
      /\ wasFree' = Cal \ busy /\ wasBusy' = busy
  BY DEF Begin
<1>2. /\ (reply \in Replies)' /\ CheckIsTrueOfEach' /\ ConfirmFindsTheProposal'
  BY <1>1, ReplyTypes DEF CheckIsTrueOfEach, ConfirmFindsTheProposal
<1>3. WasType' /\ calls' \in 0..MaxCalls
  BY <1>1, Parts, Tags DEF WasType, XoluType, CountType
<1>4. ProperCall(op')
  BY <1>1, IdleIsProper
<1>5. CheckInv'
  <2>1. op'.answers = <<>> \/ op'.kind = "none"
    BY <1>1, IdleIsProper
  <2> QED
    BY <1>1, <2>1 DEF CheckInv
<1>6. acceptable => op' # op
  BY <1>1, IdleIsProper
<1> QED
  BY <1>1, <1>2, <1>3, <1>4, <1>5, <1>6

(***************************************************************************)
(* A call that ends, with a reply that is true.                            *)
(***************************************************************************)
LEMMA EndInv ==
    ASSUME CalendarInv, NEW r \in Replies, End(r), UNCHANGED <<wasFree, wasBusy>>,
           r.code # "NOT_FOUND" \/ [cal |-> r.given, id |-> r.id] \notin told',
           r.code = "ok" /\ r.cals # <<>> =>
              /\ r.blocking \subseteq wasBusy
              /\ {r.cals[i] : i \in DOMAIN r.cals} \ r.blocking \subseteq wasFree
    PROVE  /\ WasType' /\ ProperCall(op)' /\ (reply \in Replies)'
           /\ CheckInv' /\ CheckIsTrueOfEach' /\ ConfirmFindsTheProposal'
           /\ op' = Idle
<1>1. op' = Idle /\ reply' = r
  BY DEF End
<1>2. WasType' /\ ProperCall(op') /\ CheckInv'
  BY <1>1, IdleIsProper, Parts DEF WasType, CheckInv
<1>3. CheckIsTrueOfEach' /\ ConfirmFindsTheProposal'
  BY <1>1 DEF CheckIsTrueOfEach, ConfirmFindsTheProposal
<1> QED
  BY <1>1, <1>2, <1>3

\* Without a proposal in hand all that is under way is accounted for.
LEMMA NothingProposed ==
    ASSUME CalendarInv, op.kind # "propose", UNCHANGED <<bookings, onWay, told, lost>>
    PROVE  BookingInv'
<1>1. \A b \in onWay : b.id \in OwnIds \/ b \in told \cup lost
  BY Parts DEF BookingInv
<1> QED
  BY <1>1, Parts DEF BookingInv

-----------------------------------------------------------------------------

NewCall(kind, cals, id, given) ==
    [kind |-> kind, cals |-> cals, answers |-> <<>>, id |-> id, given |-> given]

LEMMA NewCallIsProper ==
    ASSUME NEW kind, NEW cals, NEW id, NEW given, NEW c, c = NewCall(kind, cals, id, given),
           kind \in {"check", "openings", "propose", "confirm"},
           cals \in Seq(Cal \cup {NilText}), Len(cals) <= MaxNamed,
           id \in Ids \cup {Absent}, given \in Cal \cup {Absent, Null},
           kind # "confirm" => cals \in Seq(Cal),
           kind # "check" => Len(cals) = 1,
           kind = "propose" => id \in Ids,
           kind = "confirm" /\ given \in Cal => cals[1] = given
    PROVE  ProperCall(c) /\ c.kind = kind /\ c.answers = <<>> /\ c.cals = cals /\ c.id = id
<1>1. /\ c.kind = kind /\ c.cals = cals /\ c.answers = <<>> /\ c.id = id /\ c.given = given
      /\ c = [kind |-> kind, cals |-> cals, answers |-> <<>>, id |-> id, given |-> given]
  BY DEF NewCall
<1>2. c \in Calls
  <2>1. <<>> \in Seq(BOOLEAN)
    OBVIOUS
  <2> QED
    BY <1>1, <2>1 DEF Calls
<1>3. Len(c.answers) = 0 /\ Len(cals) \in Nat /\ 0 <= Len(cals)
  BY <1>1
<1>4. Len(c.answers) <= Len(c.cals) /\ Len(c.cals) <= MaxNamed
  BY <1>1, <1>3
<1> QED
  BY <1>1, <1>2, <1>4 DEF ProperCall

\* The calls as the actions put them in hand, one field after another.
LEMMA InHand ==
    ASSUME NEW kind, NEW cals, NEW id
    PROVE  /\ [Idle EXCEPT !.kind = kind, !.cals = cals] = NewCall(kind, cals, Absent, Absent)
           /\ [Idle EXCEPT !.kind = kind, !.cals = cals, !.id = id] = NewCall(kind, cals, id, Absent)
<1>1. Idle = NewCall("none", <<>>, Absent, Absent)
  BY DEF Idle, NewCall
<1>2. [Idle EXCEPT !.kind = kind] = NewCall(kind, <<>>, Absent, Absent)
  BY <1>1 DEF NewCall
<1>3. [Idle EXCEPT !.kind = kind, !.cals = cals] = NewCall(kind, cals, Absent, Absent)
  <2>1. [Idle EXCEPT !.kind = kind, !.cals = cals] = [[Idle EXCEPT !.kind = kind] EXCEPT !.cals = cals]
    OBVIOUS
  <2>2. [NewCall(kind, <<>>, Absent, Absent) EXCEPT !.cals = cals] = NewCall(kind, cals, Absent, Absent)
    BY DEF NewCall
  <2> QED
    BY <1>2, <2>1, <2>2
<1>4. [Idle EXCEPT !.kind = kind, !.cals = cals, !.id = id] = NewCall(kind, cals, id, Absent)
  <2>1. [Idle EXCEPT !.kind = kind, !.cals = cals, !.id = id] = [[Idle EXCEPT !.kind = kind, !.cals = cals] EXCEPT !.id = id]
    OBVIOUS
  <2>2. [NewCall(kind, cals, Absent, Absent) EXCEPT !.id = id] = NewCall(kind, cals, id, Absent)
    BY DEF NewCall
  <2> QED
    BY <1>3, <2>1, <2>2
<1> QED
  BY <1>3, <1>4

LEMMA CheckActionInv == ASSUME CalendarInv, NEW arg \in Naming, Check(arg) PROVE CalendarInv'
<1> DEFINE cals == CalendarsArg(arg)
<1>1. PICK next : next = NewCall("check", cals, Absent, Absent)
  OBVIOUS
<1>2. /\ Begin(cals # <<>> /\ arg.complete, next)
      /\ UNCHANGED <<busy, bookings, onWay, moves, told, lost>>
  <2>1. [Idle EXCEPT !.kind = "check", !.cals = cals] = next
    BY <1>1, InHand
  <2> QED
    BY <2>1 DEF Check, xoluCalendar
<1>3. ProperCall(next) /\ next.answers = <<>> /\ next.kind = "check"
  <2>1. cals \in Seq(Cal) /\ cals \in Seq(Cal \cup {NilText}) /\ Len(cals) <= MaxNamed
    BY NamedCalendars
  <2> HIDE DEF cals
  <2> QED
    BY <1>1, <2>1, NewCallIsProper
<1>4. /\ WasType' /\ ProperCall(op)' /\ (reply \in Replies)' /\ calls' \in 0..MaxCalls
      /\ CheckInv' /\ CheckIsTrueOfEach' /\ ConfirmFindsTheProposal' /\ op = Idle
  <2> HIDE DEF cals
  <2> QED
    BY <1>2, <1>3, BeginInv
<1>5. BookingInv'
  BY <1>2, <1>4, NothingProposed, IdleIsProper
<1>6. XoluType' /\ CountType'
  BY <1>2, <1>4, Parts DEF XoluType, CountType
<1> QED
  BY <1>4, <1>5, <1>6 DEF CalendarInv, CalendarTypeOK, XoluType, WasType, CountType, ProperCall

LEMMA OpeningsInv == ASSUME CalendarInv, NEW arg \in Naming, Openings(arg) PROVE CalendarInv'
<1> DEFINE cals == CalendarsArg(arg)
<1>1. PICK next : next = NewCall("openings", cals, Absent, Absent)
  OBVIOUS
<1>2. /\ Begin(OneCalendar(arg) /\ arg.complete, next)
      /\ UNCHANGED <<busy, bookings, onWay, moves, told, lost>>
  <2>1. [Idle EXCEPT !.kind = "openings", !.cals = cals] = next
    BY <1>1, InHand
  <2> QED
    BY <2>1 DEF Openings, xoluCalendar
<1>3. OneCalendar(arg) => ProperCall(next) /\ next.answers = <<>> /\ next.kind = "openings"
  <2>1. cals \in Seq(Cal) /\ cals \in Seq(Cal \cup {NilText}) /\ Len(cals) <= MaxNamed
    BY NamedCalendars
  <2>2. OneCalendar(arg) => Len(cals) = 1
    BY DEF OneCalendar
  <2> HIDE DEF cals
  <2> QED
    BY <1>1, <2>1, <2>2, NewCallIsProper
<1>4. /\ WasType' /\ ProperCall(op)' /\ (reply \in Replies)' /\ calls' \in 0..MaxCalls
      /\ CheckInv' /\ CheckIsTrueOfEach' /\ ConfirmFindsTheProposal' /\ op = Idle
  <2> HIDE DEF cals
  <2> QED
    BY <1>2, <1>3, BeginInv
<1>5. BookingInv'
  BY <1>2, <1>4, NothingProposed, IdleIsProper
<1>6. XoluType' /\ CountType'
  BY <1>2, <1>4, Parts DEF XoluType, CountType
<1> QED
  BY <1>4, <1>5, <1>6 DEF CalendarInv, CalendarTypeOK, XoluType, WasType, CountType, ProperCall

LEMMA ConfirmInHand ==
    ASSUME NEW cals, NEW id, NEW given
    PROVE  [Idle EXCEPT !.kind = "confirm", !.cals = cals, !.id = id, !.given = given]
               = NewCall("confirm", cals, id, given)
<1>1. [Idle EXCEPT !.kind = "confirm", !.cals = cals, !.id = id] = NewCall("confirm", cals, id, Absent)
  BY InHand
<1>2. [Idle EXCEPT !.kind = "confirm", !.cals = cals, !.id = id, !.given = given]
          = [[Idle EXCEPT !.kind = "confirm", !.cals = cals, !.id = id] EXCEPT !.given = given]
  OBVIOUS
<1>3. [NewCall("confirm", cals, id, Absent) EXCEPT !.given = given] = NewCall("confirm", cals, id, given)
  BY DEF NewCall
<1> QED
  BY <1>1, <1>2, <1>3

LEMMA ConfirmIsProper ==
    ASSUME NEW cals \in Seq(Cal \cup {NilText}), Len(cals) = 1, Len(cals) <= MaxNamed,
           NEW id \in Ids \cup {Absent}, NEW given \in Cal \cup {Absent, Null},
           given \in Cal => cals[1] = given,
           NEW c, c = NewCall("confirm", cals, id, given)
    PROVE  ProperCall(c) /\ c.answers = <<>> /\ c.kind = "confirm"
<1>1. /\ c.kind = "confirm" /\ c.cals = cals /\ c.answers = <<>> /\ c.id = id /\ c.given = given
      /\ c = [kind |-> "confirm", cals |-> cals, answers |-> <<>>, id |-> id, given |-> given]
  BY DEF NewCall
<1>2. <<>> \in Seq(BOOLEAN) /\ Len(c.answers) = 0 /\ Len(c.cals) = 1
  BY <1>1
<1>3. c \in Calls
  BY <1>1, <1>2 DEF Calls
<1>4. Len(c.answers) <= Len(c.cals) /\ Len(c.cals) <= MaxNamed
  <2>1. 0 <= 1 /\ 1 <= MaxNamed
    BY Tags
  <2> QED
    BY ONLY <1>2, <2>1
<1>5. c.given \in Cal => c.cals[1] = c.given
  BY <1>1
<1>6. c.kind \notin {"check", "openings", "propose"} /\ c.kind # "propose"
  BY <1>1
<1>7. ProperCall(c)
  BY <1>2, <1>3, <1>4, <1>5, <1>6 DEF ProperCall
<1> QED
  BY <1>1, <1>7

LEMMA ConfirmInv ==
    ASSUME CalendarInv, NEW arg \in Naming, NEW id \in {b.id : b \in told} \cup OwnIds \cup {Absent},
           Confirm(arg, id)
    PROVE  CalendarInv'
<1>1. PICK cals, given, who : cals = ConfirmCalendars(arg) /\ given = arg.calendar_id /\ who = id
  OBVIOUS
<1>2. PICK next : next = NewCall("confirm", cals, who, given)
  OBVIOUS
<1>3. /\ Begin(Len(cals) = 1 /\ who # Absent, next)
      /\ UNCHANGED <<busy, bookings, onWay, moves, told, lost>>
  <2>1. [Idle EXCEPT !.kind = "confirm", !.cals = cals, !.id = who, !.given = given] = next
    BY <1>2, ConfirmInHand
  <2> QED
    BY <1>1, <2>1 DEF Confirm, xoluCalendar
<1>4. Len(cals) = 1 => ProperCall(next) /\ next.answers = <<>> /\ next.kind = "confirm"
  <2>1. /\ cals \in Seq(Cal \cup {NilText}) /\ Len(cals) <= MaxNamed
        /\ given \in Cal \cup {Absent, Null} /\ (given \in Cal => cals[1] = given)
    BY <1>1, NamedCalendars
  <2>2. who \in Ids \cup {Absent}
    <3>1. \A b \in told : b.id \in Ids
      BY Parts DEF XoluType
    <3> QED
      BY <1>1, <3>1 DEF Ids
  <2> QED
    BY ONLY <1>2, <2>1, <2>2, ConfirmIsProper
<1>5. /\ WasType' /\ ProperCall(op)' /\ (reply \in Replies)' /\ calls' \in 0..MaxCalls
      /\ CheckInv' /\ CheckIsTrueOfEach' /\ ConfirmFindsTheProposal' /\ op = Idle
  BY <1>3, <1>4, BeginInv
<1>6. BookingInv'
  BY <1>3, <1>5, NothingProposed, IdleIsProper
<1>7. XoluType' /\ CountType'
  BY <1>3, <1>5, Parts DEF XoluType, CountType
<1> QED
  BY <1>5, <1>6, <1>7 DEF CalendarInv, CalendarTypeOK, XoluType, WasType, CountType, ProperCall

LEMMA ProposeInv ==
    ASSUME CalendarInv, NEW arg \in Naming, NEW asked \in OwnIds \cup {Absent, Empty, Null},
           Propose(arg, asked)
    PROVE  CalendarInv'
<1> DEFINE cals == CalendarsArg(arg)
           good == OneCalendar(arg) /\ arg.complete
<1>1. PICK next : next = NewCall("propose", cals, BookingId(asked), Absent)
  OBVIOUS
<1>2. /\ Begin(good, next)
      /\ onWay' = IF op' = op THEN onWay ELSE onWay \cup {[cal |-> op'.cals[1], id |-> op'.id]}
      /\ UNCHANGED <<busy, bookings, moves, told, lost>>
  <2>1. [Idle EXCEPT !.kind = "propose", !.cals = cals, !.id = BookingId(asked)] = next
    BY <1>1, InHand
  <2> QED
    BY <2>1 DEF Propose
<1>3. OneCalendar(arg) => /\ ProperCall(next) /\ next.answers = <<>> /\ next.kind = "propose"
                           /\ next.cals[1] \in Cal /\ next.id \in Ids
  <2>1. cals \in Seq(Cal) /\ cals \in Seq(Cal \cup {NilText}) /\ Len(cals) <= MaxNamed
    BY NamedCalendars
  <2>2. OneCalendar(arg) => Len(cals) = 1
    BY DEF OneCalendar
  <2>3. BookingId(asked) \in Ids
    <3>1. calls < MaxCalls
      BY <1>2 DEF Begin
    <3>2. CalendarTypeOK
      BY DEF CalendarInv
    <3> QED
      BY <3>1, <3>2, BookingIdType
  <2> HIDE DEF cals
  <2>4. OneCalendar(arg) => cals[1] \in Cal
    BY <2>1, <2>2
  <2> QED
    BY <1>1, <2>1, <2>2, <2>3, <2>4, NewCallIsProper
<1>4. /\ WasType' /\ ProperCall(op)' /\ (reply \in Replies)' /\ calls' \in 0..MaxCalls
      /\ CheckInv' /\ CheckIsTrueOfEach' /\ ConfirmFindsTheProposal' /\ op = Idle
      /\ op' = (IF good THEN next ELSE op) /\ (good => op' # op)
  <2>1. good => ProperCall(next) /\ next.answers = <<>> /\ next.kind # "none"
    BY <1>3
  <2> HIDE DEF cals, good
  <2> QED
    BY <1>2, <2>1, BeginInv
<1>5. CASE ~good
  <2>1. UNCHANGED <<bookings, onWay, told, lost, busy, moves>>
    BY <1>2, <1>4, <1>5
  <2>2. BookingInv'
    BY <2>1, <1>4, NothingProposed, IdleIsProper
  <2>3. XoluType' /\ CountType'
    BY <2>1, <1>4, Parts DEF XoluType, CountType
  <2> QED
    BY <1>4, <2>2, <2>3 DEF CalendarInv, CalendarTypeOK, XoluType, WasType, CountType, ProperCall
<1>6. CASE good
  <2>1. PICK b : b = [cal |-> next.cals[1], id |-> next.id]
    OBVIOUS
  <2>2. op' = next /\ onWay' = onWay \cup {b}
    BY <1>2, <1>4, <1>6, <2>1
  <2>3. Named' = b /\ op'.kind = "propose"
    BY <1>3, <1>6, <2>1, <2>2 DEF Named
  <2>4. b \in [cal : Cal, id : Ids]
    BY <1>3, <1>6, <2>1
  <2>5. \A x \in onWay : x.id \in OwnIds \/ x \in told \cup lost
    BY <1>4, Parts, IdleIsProper DEF BookingInv
  <2>6. BookingInv'
    BY <1>2, <2>2, <2>3, <2>5, Parts DEF BookingInv
  <2>7. XoluType' /\ CountType'
    BY <1>2, <1>4, <2>2, <2>4, Parts DEF XoluType, CountType
  <2> QED
    BY <1>4, <2>6, <2>7 DEF CalendarInv, CalendarTypeOK, XoluType, WasType, CountType, ProperCall
<1> QED
  BY <1>5, <1>6
-----------------------------------------------------------------------------

(***************************************************************************)
(* One more calendar is asked.  Its answer is about this instant, and the  *)
(* histories of the call contain it.                                       *)
(***************************************************************************)
LEMMA CheckNextInv == ASSUME CalendarInv, CheckNext PROVE CalendarInv'
<1> DEFINE i == Len(op.answers) + 1
           free == op.cals[i] \notin busy
<1>1. /\ op.kind = "check" /\ Len(op.answers) < Len(op.cals)
      /\ op' = [op EXCEPT !.answers = Append(@, op.cals[Len(@) + 1] \notin busy)]
      /\ UNCHANGED <<busy, bookings, onWay, moves, reply, calls, wasFree, wasBusy, told, lost>>
  BY DEF CheckNext, xoluCalendar, history
<1>2. PICK kind, cals, answers, id, given :
        /\ op = [kind |-> kind, cals |-> cals, answers |-> answers, id |-> id, given |-> given]
        /\ kind \in {"none", "check", "openings", "propose", "confirm"}
        /\ cals \in Seq(Cal \cup {NilText}) /\ answers \in Seq(BOOLEAN)
        /\ id \in Ids \cup {Absent} /\ given \in Cal \cup {Absent, Null}
  BY DEF CalendarInv, ProperCall, Calls
<1>3. PICK more : more = Append(answers, cals[Len(answers) + 1] \notin busy)
  OBVIOUS
<1>4. op' = [kind |-> kind, cals |-> cals, answers |-> more, id |-> id, given |-> given]
  <2>1. op.answers = answers /\ op.cals = cals
    BY <1>2
  <2> QED
    BY <1>1, <1>2, <1>3, <2>1
<1>5. /\ kind = "check" /\ Len(answers) < Len(cals) /\ Len(cals) <= MaxNamed /\ cals \in Seq(Cal)
      /\ busy \subseteq wasBusy /\ Cal \ busy \subseteq wasFree
      /\ \A j \in 1..Len(answers) : cals[j] \in (IF answers[j] THEN wasFree ELSE wasBusy)
  BY <1>1, <1>2, Parts DEF ProperCall, CheckInv
<1>6. /\ more \in Seq(BOOLEAN) /\ Len(more) = Len(answers) + 1 /\ Len(answers) \in Nat /\ Len(cals) \in Nat
      /\ \A j \in 1..Len(answers) : more[j] = answers[j]
      /\ more[Len(answers) + 1] = (cals[Len(answers) + 1] \notin busy)
  <2>1. (cals[Len(answers) + 1] \notin busy) \in BOOLEAN
    OBVIOUS
  <2> QED
    BY <1>2, <1>3, <2>1
<1>7. cals[Len(answers) + 1] \in Cal
  BY <1>5, <1>6
<1>8. \A j \in 1..Len(more) : cals[j] \in (IF more[j] THEN wasFree ELSE wasBusy)
  <2>1. ASSUME NEW j \in 1..Len(more) PROVE cals[j] \in (IF more[j] THEN wasFree ELSE wasBusy)
    <3>1. j \in 1..Len(answers) \/ j = Len(answers) + 1
      BY <1>6
    <3> QED
      BY <1>5, <1>6, <1>7, <3>1
  <2> QED
    BY <2>1
<1>9. ProperCall(op')
  <2>1. op' \in Calls
    BY <1>2, <1>4, <1>6 DEF Calls
  <2>2. Len(more) <= Len(cals) /\ Len(cals) <= MaxNamed
    BY <1>5, <1>6
  <2> QED
    BY <1>4, <1>5, <2>1, <2>2 DEF ProperCall
<1>10. CheckInv' /\ CheckIsTrueOfEach' /\ ConfirmFindsTheProposal'
  BY <1>1, <1>4, <1>5, <1>8, Parts DEF CheckInv, CheckIsTrueOfEach, ConfirmFindsTheProposal
<1>11. BookingInv'
  BY <1>1, NothingProposed
<1>12. XoluType' /\ WasType' /\ CountType' /\ (reply \in Replies)'
  BY <1>1, Parts DEF XoluType, WasType, CountType
<1> QED
  BY <1>9, <1>10, <1>11, <1>12 DEF CalendarInv, CalendarTypeOK, XoluType, WasType, CountType, ProperCall

(***************************************************************************)
(* The answers are all there: what blocks was taken, the others were free. *)
(***************************************************************************)
LEMMA CheckDoneInv == ASSUME CalendarInv, CheckDone PROVE CalendarInv'
<1> DEFINE B == {op.cals[i] : i \in {j \in DOMAIN op.answers : ~op.answers[j]}}
<1>1. PICK blocking : blocking = B
  OBVIOUS
<1>2. PICK r : r = [Reply("ok") EXCEPT !.cals = op.cals, !.blocking = blocking]
  OBVIOUS
<1>3. /\ op.kind = "check" /\ Len(op.answers) = Len(op.cals) /\ End(r)
      /\ UNCHANGED <<busy, bookings, onWay, moves, calls, wasFree, wasBusy, told, lost>>
  BY <1>1, <1>2 DEF CheckDone, xoluCalendar, history
<1>4. /\ op.cals \in Seq(Cal) /\ op.answers \in Seq(BOOLEAN)
      /\ \A i \in 1..Len(op.answers) : op.cals[i] \in (IF op.answers[i] THEN wasFree ELSE wasBusy)
  BY <1>3, Parts DEF ProperCall, CheckInv, Calls
<1>5. DOMAIN op.answers = 1..Len(op.answers) /\ DOMAIN op.cals = 1..Len(op.answers)
  BY <1>3, <1>4
<1>6. blocking \subseteq wasBusy
  BY <1>1, <1>4, <1>5
<1>7. {op.cals[i] : i \in DOMAIN op.cals} \ blocking \subseteq wasFree
  BY <1>1, <1>4, <1>5
<1>8. r = [code |-> "ok", cals |-> op.cals, blocking |-> blocking, id |-> Absent, given |-> Absent]
  BY <1>2 DEF Reply
<1>9. r \in Replies
  <2>1. blocking \in SUBSET Cal
    BY <1>6, Parts DEF WasType
  <2> QED
    BY <1>4, <1>8, <2>1 DEF Replies
<1>10. r.code = "ok" /\ r.cals = op.cals /\ r.blocking = blocking
  BY <1>8
<1>11. /\ WasType' /\ ProperCall(op)' /\ (reply \in Replies)'
       /\ CheckInv' /\ CheckIsTrueOfEach' /\ ConfirmFindsTheProposal'
  BY <1>3, <1>6, <1>7, <1>9, <1>10, EndInv
<1>12. BookingInv'
  BY <1>3, NothingProposed
<1>13. XoluType' /\ CountType'
  BY <1>3, Parts DEF XoluType, CountType
<1> QED
  BY <1>11, <1>12, <1>13 DEF CalendarInv, CalendarTypeOK, XoluType, WasType, CountType, ProperCall

LEMMA OpeningsDoneInv == ASSUME CalendarInv, OpeningsDone PROVE CalendarInv'
<1>1. /\ op.kind = "openings" /\ End(Reply("ok"))
      /\ UNCHANGED <<busy, bookings, onWay, moves, calls, wasFree, wasBusy, told, lost>>
  BY DEF OpeningsDone, xoluCalendar, history
<1>2. /\ WasType' /\ ProperCall(op)' /\ (reply \in Replies)'
      /\ CheckInv' /\ CheckIsTrueOfEach' /\ ConfirmFindsTheProposal'
  BY <1>1, ReplyTypes, EndInv
<1>3. BookingInv'
  BY <1>1, NothingProposed
<1>4. XoluType' /\ CountType'
  BY <1>1, Parts DEF XoluType, CountType
<1> QED
  BY <1>2, <1>3, <1>4 DEF CalendarInv, CalendarTypeOK, XoluType, WasType, CountType, ProperCall

(***************************************************************************)
(* A confirmation is not found only if xolu has no such booking, and with  *)
(* calendar_id given that is the pair as it was given.                     *)
(***************************************************************************)
LEMMA ConfirmDoneInv == ASSUME CalendarInv, ConfirmDone PROVE CalendarInv'
<1>1. PICK code : code = IF Named \in bookings THEN "ok" ELSE "NOT_FOUND"
  OBVIOUS
<1>2. PICK r : r = [Reply(code) EXCEPT !.id = op.id, !.given = op.given]
  OBVIOUS
<1>3. /\ op.kind = "confirm" /\ End(r)
      /\ UNCHANGED <<busy, bookings, onWay, moves, calls, wasFree, wasBusy, told, lost>>
  BY <1>1, <1>2 DEF ConfirmDone, xoluCalendar, history
<1>4. code \in {"ok", "NOT_FOUND"} /\ (code = "NOT_FOUND" => Named \notin bookings)
  BY <1>1
<1>5. r = [code |-> code, cals |-> <<>>, blocking |-> {}, id |-> op.id, given |-> op.given]
  <2>1. PICK id, given : id = op.id /\ given = op.given
    OBVIOUS
  <2>2. r = [[Reply(code) EXCEPT !.id = id] EXCEPT !.given = given]
    BY <1>2, <2>1
  <2>3. [Reply(code) EXCEPT !.id = id]
            = [code |-> code, cals |-> <<>>, blocking |-> {}, id |-> id, given |-> Absent]
    <3>1. PICK none, nobody, absent : none = <<>> /\ nobody = {} /\ absent = Absent
      OBVIOUS
    <3>2. [[code |-> code, cals |-> none, blocking |-> nobody, id |-> absent, given |-> absent]
              EXCEPT !.id = id]
              = [code |-> code, cals |-> none, blocking |-> nobody, id |-> id, given |-> absent]
      OBVIOUS
    <3> QED
      BY <3>1, <3>2 DEF Reply
  <2> QED
    BY <2>1, <2>2, <2>3
<1>6. op.id \in Ids \cup {Absent} /\ op.given \in Cal \cup {Absent, Null}
      /\ (op.given \in Cal => op.cals[1] = op.given)
  BY <1>3, Parts DEF ProperCall, Calls
<1>7. /\ r.code = code /\ r.cals = <<>> /\ r.id = op.id /\ r.given = op.given
  BY <1>5
<1>8. r \in Replies
  <2>1. <<>> \in Seq(Cal) /\ {} \in SUBSET Cal
    OBVIOUS
  <2> QED
    BY <1>4, <1>5, <1>6, <2>1 DEF Replies
<1>9. ASSUME code = "NOT_FOUND" PROVE [cal |-> op.given, id |-> op.id] \notin told
  <2>1. CASE op.given \in Cal
    BY <1>4, <1>6, <1>9, <2>1, Parts DEF Named, BookingInv
  <2>2. CASE op.given \notin Cal
    <3>1. \A b \in told : b.cal \in Cal
      BY Parts DEF XoluType
    <3> QED
      BY <2>2, <3>1
  <2> QED
    BY <2>1, <2>2
<1>10. /\ WasType' /\ ProperCall(op)' /\ (reply \in Replies)'
       /\ CheckInv' /\ CheckIsTrueOfEach' /\ ConfirmFindsTheProposal'
  BY <1>3, <1>7, <1>8, <1>9, EndInv
<1>11. BookingInv'
  BY <1>3, NothingProposed
<1>12. XoluType' /\ CountType'
  BY <1>3, Parts DEF XoluType, CountType
<1> QED
  BY <1>10, <1>11, <1>12 DEF CalendarInv, CalendarTypeOK, XoluType, WasType, CountType, ProperCall

(***************************************************************************)
(* The answer to a proposal: the agent is told of what was booked.         *)
(***************************************************************************)
LEMMA ProposeDoneInv == ASSUME CalendarInv, ProposeDone PROVE CalendarInv'
<1>1. PICK b, code :
        /\ b = Named /\ b \in onWay /\ op.kind = "propose"
        /\ code \in {"ok", "refused"} /\ End(Reply(code)) /\ onWay' = onWay \ {b}
        /\ \/ bookings' = bookings \cup {b} /\ told' = told \cup {b}
           \/ UNCHANGED <<bookings, told>>
        /\ UNCHANGED <<busy, moves, calls, wasFree, wasBusy, lost>>
  BY DEF ProposeDone
<1>2. /\ WasType' /\ ProperCall(op)' /\ (reply \in Replies)'
      /\ CheckInv' /\ CheckIsTrueOfEach' /\ ConfirmFindsTheProposal'
  BY <1>1, ReplyTypes, EndInv
<1>3. BookingInv'
  <2>1. \A x \in onWay' : x.id \in OwnIds \/ x \in told \cup lost
    BY <1>1, Parts DEF BookingInv
  <2>2. told' \subseteq bookings' /\ \A x \in bookings' : x.id \in OwnIds \/ x \in told' \cup lost'
    BY <1>1, Parts DEF BookingInv
  <2>3. told \subseteq told' /\ lost' = lost
    BY <1>1
  <2> QED
    BY <2>1, <2>2, <2>3 DEF BookingInv
<1>4. XoluType' /\ CountType'
  <2>1. b \in [cal : Cal, id : Ids]
    BY <1>1, Parts DEF XoluType
  <2> QED
    BY <1>1, <2>1, Parts DEF XoluType, CountType
<1> QED
  BY <1>2, <1>3, <1>4 DEF CalendarInv, CalendarTypeOK, XoluType, WasType, CountType, ProperCall

(***************************************************************************)
(* A request that fails: a proposal in hand becomes one whose answer is    *)
(* lost.                                                                   *)
(***************************************************************************)
LEMMA RequestFailsInv == ASSUME CalendarInv, RequestFails PROVE CalendarInv'
<1>1. /\ End(Reply("failed")) /\ lost' = (IF op.kind = "propose" THEN lost \cup {Named} ELSE lost)
      /\ UNCHANGED <<busy, bookings, onWay, moves, calls, wasFree, wasBusy, told>>
  BY DEF RequestFails, xoluCalendar
<1>2. /\ WasType' /\ ProperCall(op)' /\ (reply \in Replies)'
      /\ CheckInv' /\ CheckIsTrueOfEach' /\ ConfirmFindsTheProposal'
  BY <1>1, ReplyTypes, EndInv
<1>3. BookingInv'
  <2>1. \A x \in onWay : x.id \in OwnIds \/ x \in told \cup lost'
    BY <1>1, Parts DEF BookingInv
  <2> QED
    BY <1>1, <2>1, Parts DEF BookingInv
<1>4. XoluType' /\ CountType'
  <2>1. op.kind = "propose" => Named \in [cal : Cal, id : Ids]
    <3>1. op.kind = "propose" => op.cals \in Seq(Cal) /\ Len(op.cals) = 1 /\ op.id \in Ids
      BY Parts DEF ProperCall
    <3>2. op.kind = "propose" => op.cals[1] \in Cal
      BY <3>1
    <3> QED
      BY <3>1, <3>2 DEF Named
  <2> QED
    BY <1>1, <2>1, Parts DEF XoluType, CountType
<1> QED
  BY <1>2, <1>3, <1>4 DEF CalendarInv, CalendarTypeOK, XoluType, WasType, CountType, ProperCall

(***************************************************************************)
(* xolu gets to a proposal late: nobody waits for it, so it is accounted   *)
(* for already.                                                            *)
(***************************************************************************)
LEMMA LateProposalInv == ASSUME CalendarInv, LateProposal PROVE CalendarInv'
<1>1. PICK b \in onWay :
        /\ op.kind = "propose" => b # Named
        /\ onWay' = onWay \ {b}
        /\ bookings' = bookings \/ bookings' = bookings \cup {b}
        /\ UNCHANGED <<busy, moves, op, reply, calls, wasFree, wasBusy, told, lost>>
  BY DEF LateProposal, history
<1>2. b.id \in OwnIds \/ b \in told \cup lost
  BY <1>1, Parts DEF BookingInv
<1>3. BookingInv'
  <2>1. Named' = Named
    BY <1>1 DEF Named
  <2>2. \A x \in onWay' : x.id \in OwnIds \/ x \in told \cup lost \/ (op.kind = "propose" /\ x = Named)
    BY <1>1, Parts DEF BookingInv
  <2>3. told \subseteq bookings' /\ \A x \in bookings' : x.id \in OwnIds \/ x \in told \cup lost
    BY <1>1, <1>2, Parts DEF BookingInv
  <2> QED
    BY <1>1, <2>1, <2>2, <2>3 DEF BookingInv
<1>4. XoluType' /\ WasType' /\ CountType' /\ ProperCall(op)' /\ (reply \in Replies)'
  BY <1>1, Parts DEF XoluType, WasType, CountType
<1>5. CheckInv' /\ CheckIsTrueOfEach' /\ ConfirmFindsTheProposal'
  BY <1>1, Parts DEF CheckInv, CheckIsTrueOfEach, ConfirmFindsTheProposal
<1> QED
  BY <1>3, <1>4, <1>5 DEF CalendarInv, CalendarTypeOK, XoluType, WasType, CountType, ProperCall

(***************************************************************************)
(* Others move, and the histories of the call in hand grow.                *)
(***************************************************************************)
LEMMA MoveInv == ASSUME CalendarInv, Move PROVE CalendarInv'
<1>1. /\ op.kind = "check" /\ moves < MaxMoves /\ moves' = moves + 1
      /\ wasFree' = wasFree \cup (Cal \ busy') /\ wasBusy' = wasBusy \cup busy'
      /\ UNCHANGED <<bookings, onWay, op, reply, calls, told, lost>>
  BY DEF Move
<1>2. busy' \subseteq Cal
  BY Parts DEF Move, XoluType
<1>3. XoluType' /\ WasType' /\ ProperCall(op)' /\ (reply \in Replies)'
  BY <1>1, <1>2, Parts DEF XoluType, WasType
<1>4. CountType'
  BY <1>1, Parts, Tags DEF CountType
<1>5. CheckInv'
  BY <1>1, <1>2, Parts DEF CheckInv
<1>6. CheckIsTrueOfEach' /\ ConfirmFindsTheProposal'
  BY <1>1, Parts DEF CheckIsTrueOfEach, ConfirmFindsTheProposal
<1>7. BookingInv'
  BY <1>1, NothingProposed
<1> QED
  BY <1>3, <1>4, <1>5, <1>6, <1>7 DEF CalendarInv, CalendarTypeOK, XoluType, WasType, CountType, ProperCall
-----------------------------------------------------------------------------

LEMMA CalendarInitInv == CalendarInit => CalendarInv
<1> SUFFICES ASSUME CalendarInit PROVE CalendarInv
  OBVIOUS
<1>1. /\ busy \subseteq Cal /\ bookings = {} /\ onWay = {} /\ told = {} /\ lost = {}
      /\ op = Idle /\ reply = Reply("none") /\ calls = 0 /\ moves = 0 /\ wasFree = {} /\ wasBusy = {}
  BY DEF CalendarInit
<1>2. XoluType /\ WasType /\ BookingInv
  BY <1>1 DEF XoluType, WasType, BookingInv
<1>3. CountType
  BY <1>1, Tags DEF CountType
<1>4. ProperCall(op) /\ CheckInv
  BY <1>1, IdleIsProper DEF CheckInv
<1>5. reply \in Replies /\ CheckIsTrueOfEach /\ ConfirmFindsTheProposal
  BY <1>1, ReplyTypes DEF CheckIsTrueOfEach, ConfirmFindsTheProposal
<1> QED
  BY <1>2, <1>3, <1>4, <1>5, Parts

LEMMA CalendarNextInv == CalendarInv /\ [CalendarNext]_calendarVars => CalendarInv'
<1> SUFFICES ASSUME CalendarInv, [CalendarNext]_calendarVars PROVE CalendarInv'
  OBVIOUS
<1>1. CASE CalendarCall
  BY <1>1, CheckActionInv, OpeningsInv, ProposeInv, ConfirmInv DEF CalendarCall
<1>2. CASE Step
  BY <1>2, CheckNextInv, CheckDoneInv, OpeningsDoneInv, ConfirmDoneInv, ProposeDoneInv, RequestFailsInv
     DEF Step
<1>3. CASE LateProposal
  BY <1>3, LateProposalInv
<1>4. CASE Move
  BY <1>4, MoveInv
<1>5. CASE UNCHANGED calendarVars
  <2>1. UNCHANGED <<busy, bookings, onWay, moves, op, reply, calls, wasFree, wasBusy, told, lost>>
    BY <1>5 DEF calendarVars, xoluCalendar, history
  <2>2. XoluType' /\ WasType' /\ CountType' /\ ProperCall(op)' /\ (reply \in Replies)'
    BY <2>1, Parts DEF XoluType, WasType, CountType
  <2>3. CheckInv' /\ CheckIsTrueOfEach' /\ ConfirmFindsTheProposal'
    BY <2>1, Parts DEF CheckInv, CheckIsTrueOfEach, ConfirmFindsTheProposal
  <2>4. BookingInv'
    BY <2>1, Parts DEF BookingInv, Named
  <2> QED
    BY <2>2, <2>3, <2>4 DEF CalendarInv, CalendarTypeOK, XoluType, WasType, CountType, ProperCall
<1> QED
  BY <1>1, <1>2, <1>3, <1>4, <1>5 DEF CalendarNext

(***************************************************************************)
(* The invariant of the calendar operations holds for every sequence of    *)
(* the agent's calls, failures and changes of others.                      *)
(***************************************************************************)
THEOREM CalendarInvariant == CalendarSpec => []CalendarInv
BY CalendarInitInv, CalendarNextInv, PTL DEF CalendarSpec

(***************************************************************************)
(* The calls, the replies and what xolu holds keep their types.            *)
(***************************************************************************)
THEOREM CalendarTypes == CalendarSpec => []CalendarTypeOK
<1>1. CalendarInv => CalendarTypeOK
  BY DEF CalendarInv
<1> QED
  BY <1>1, CalendarInvariant, PTL

(***************************************************************************)
(* calCheck's combined answer is true of each calendar at some instant of  *)
(* the call, for lists of any length and any calendars.                    *)
(***************************************************************************)
THEOREM ChecksAreTrue == CalendarSpec => []CheckIsTrueOfEach
<1>1. CalendarInv => CheckIsTrueOfEach
  BY DEF CalendarInv
<1> QED
  BY <1>1, CalendarInvariant, PTL

(***************************************************************************)
(* No booking of calPropose, made or still to be made, is beyond the       *)
(* agent's reach to name.                                                  *)
(***************************************************************************)
THEOREM BookingsAreNameable == CalendarSpec => []BookingsAreAccountedFor
<1>1. CalendarInv => BookingsAreAccountedFor
  BY DEF CalendarInv, BookingInv, BookingsAreAccountedFor
<1> QED
  BY <1>1, CalendarInvariant, PTL

(***************************************************************************)
(* calConfirm finds the booking that calPropose told of, when calendar_id  *)
(* and booking_id repeat it.                                               *)
(***************************************************************************)
THEOREM ConfirmsAreFound == CalendarSpec => []ConfirmFindsTheProposal
<1>1. CalendarInv => ConfirmFindsTheProposal
  BY DEF CalendarInv
<1> QED
  BY <1>1, CalendarInvariant, PTL
=============================================================================
