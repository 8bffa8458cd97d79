------------------------- MODULE DataGrabberProofs -------------------------
(***************************************************************************)
(* Proofs about DataGrabber, for any data types, dates and numbers of      *)
(* downloads and restarts.                                                 *)
(*                                                                         *)
(* The table only grows by Request; every other step, the restart          *)
(* included, leaves a part of it with the same types and intervals.  So    *)
(* Consecutive is preserved, which makes the file of a row its own.        *)
(***************************************************************************)
EXTENDS DataGrabber, FiniteSetTheorems, SequenceTheorems, WellFoundedInduction, TLAPS

\* r is a part of s from its first row on: rows may have changed, but for what
\* they are of.
Part(r, s) ==
  /\ Len(r) <= Len(s)
  /\ \A i \in 1 .. Len(r) : r[i].type = s[i].type /\ r[i].n = s[i].n

\* The rows of a type before row i, and those that wait for their file.
Before(s, t, i) == {j \in 1 .. Len(s) : j < i /\ s[j].type = t}
Waiting(s, t) == {i \in 1 .. Len(s) : s[i].type = t /\ s[i].path = "-"}
-----------------------------------------------------------------------------
(* Tables *)

LEMMA Numbers ==
  /\ IsFiniteSet(Types) /\ Cardinality(Types) \in Nat
  /\ Last \in Nat /\ MaxOngoing \in Nat /\ MaxOngoing > 0 /\ MaxStarts \in Nat
  /\ MaxRows \in Nat
<1>1. IsFiniteSet(Types) /\ Last \in Nat
  BY GrabberAssumption
<1>2. Cardinality(Types) \in Nat
  BY <1>1, FS_CardinalityType
<1>3. MaxRows \in Nat
  BY <1>1, <1>2 DEF MaxRows
<1>4. QED BY <1>1, <1>2, <1>3, GrabberAssumption

LEMMA Table ==
  ASSUME NEW s \in Seq(Rows)
  PROVE  /\ Len(s) \in Nat /\ DOMAIN s = 1 .. Len(s)
         /\ \A i \in 1 .. Len(s) : s[i] \in Rows /\ s[i].type \in Types /\ s[i].n \in Intervals
<1>1. Len(s) \in Nat /\ DOMAIN s = 1 .. Len(s) /\ s \in [1 .. Len(s) -> Rows]
  BY LenProperties
<1>2. \A i \in 1 .. Len(s) : s[i] \in Rows
  BY <1>1
<1>3. QED BY <1>1, <1>2 DEF Rows

LEMMA FiniteRows ==
  ASSUME NEW s \in Seq(Rows), NEW t, NEW i \in Int
  PROVE  /\ IsFiniteSet(Before(s, t, i)) /\ Cardinality(Before(s, t, i)) \in Nat
         /\ IsFiniteSet(Waiting(s, t)) /\ Cardinality(Waiting(s, t)) \in Nat
<1>1. Len(s) \in Int /\ 1 \in Int
  BY Table
<1>2. IsFiniteSet(1 .. Len(s))
  BY <1>1, FS_Interval
<1>3. Before(s, t, i) \in SUBSET (1 .. Len(s)) /\ Waiting(s, t) \in SUBSET (1 .. Len(s))
  BY DEF Before, Waiting
<1>4. IsFiniteSet(Before(s, t, i)) /\ IsFiniteSet(Waiting(s, t))
  BY <1>2, <1>3, FS_Subset
<1>5. QED BY <1>4, FS_CardinalityType

LEMMA ConsecutiveIs ==
  ASSUME NEW s \in Seq(Rows)
  PROVE  Consecutive(s) <=>
           \A i \in 1 .. Len(s) : s[i].n = 1 + Cardinality(Before(s, s[i].type, i))
BY Table DEF Consecutive, Before

\* A part of a table without a hole has none.
LEMMA PartHasNoHole ==
  ASSUME NEW r \in Seq(Rows), NEW s \in Seq(Rows), Part(r, s), Consecutive(s)
  PROVE  Consecutive(r)
<1> SUFFICES ASSUME NEW i \in 1 .. Len(r)
             PROVE  r[i].n = 1 + Cardinality(Before(r, r[i].type, i))
  BY ConsecutiveIs
<1>1. Len(r) \in Nat /\ Len(s) \in Nat /\ Len(r) <= Len(s)
  BY Table DEF Part
<1>2. Before(r, r[i].type, i) = Before(s, s[i].type, i)
  BY <1>1 DEF Before, Part
<1>3. i \in 1 .. Len(s)
  BY <1>1
<1>4. QED BY <1>2, <1>3, ConsecutiveIs DEF Part

\* Two rows of such a table are not of the same interval of a type.
LEMMA RowsDiffer ==
  ASSUME NEW s \in Seq(Rows), Consecutive(s),
         NEW i \in 1 .. Len(s), NEW j \in 1 .. Len(s),
         s[i].type = s[j].type, s[i].n = s[j].n
  PROVE  i = j
<1>1. ASSUME NEW k \in 1 .. Len(s), NEW l \in 1 .. Len(s), k < l, s[k].type = s[l].type
      PROVE  s[k].n # s[l].n
  <2> DEFINE A == Before(s, s[k].type, k)
             B == Before(s, s[l].type, l)
  <2>1. Len(s) \in Nat /\ k \in Int /\ l \in Int
    BY Table
  <2>2. IsFiniteSet(A) /\ IsFiniteSet(B) /\ Cardinality(A) \in Nat /\ Cardinality(B) \in Nat
    BY <2>1, FiniteRows
  <2>3. A \cup {k} \in SUBSET B /\ k \notin A
    BY <1>1, <2>1 DEF Before
  <2>4. s[k].n = 1 + Cardinality(A) /\ s[l].n = 1 + Cardinality(B)
    BY ConsecutiveIs
  <2> HIDE DEF A, B
  <2>5. Cardinality(A \cup {k}) = Cardinality(A) + 1
    BY <2>2, <2>3, FS_AddElement
  <2>6. Cardinality(A \cup {k}) <= Cardinality(B)
    BY <2>2, <2>3, FS_Subset
  <2>7. QED BY <2>2, <2>4, <2>5, <2>6
<1>2. Len(s) \in Nat
  BY Table
<1>3. QED BY <1>1, <1>2

\* So it has no more rows than there are intervals.
LEMMA TableIsShort ==
  ASSUME NEW s \in Seq(Rows), Consecutive(s)
  PROVE  Len(s) <= MaxRows
<1> DEFINE f == [i \in 1 .. Len(s) |-> <<s[i].type, s[i].n>>]
<1>1. f \in [1 .. Len(s) -> Types \X Intervals]
  BY Table
<1>2. \A i, j \in 1 .. Len(s) : f[i] = f[j] => i = j
  BY RowsDiffer
<1>3. f \in Injection(1 .. Len(s), Types \X Intervals)
  BY <1>1, <1>2 DEF Injection, IsInjective
<1>4. IsFiniteSet(Intervals) /\ Cardinality(Intervals) = Last
  <2>1. 1 \in Int /\ Last \in Int
    BY Numbers
  <2>2. IsFiniteSet(1 .. Last) /\ Cardinality(1 .. Last) = IF 1 > Last THEN 0 ELSE Last - 1 + 1
    BY <2>1, FS_Interval
  <2>3. QED BY <2>2, Numbers DEF Intervals
<1>5. IsFiniteSet(Types \X Intervals) /\ Cardinality(Types \X Intervals) = Cardinality(Types) * Last
  BY <1>4, Numbers, FS_Product
<1>6. Cardinality(1 .. Len(s)) <= Cardinality(Types \X Intervals)
  BY <1>3, <1>5, FS_Injection
<1>7. Cardinality(1 .. Len(s)) = Len(s)
  <2>1. Len(s) \in Nat /\ Len(s) \in Int /\ 1 \in Int
    BY Table
  <2>2. Cardinality(1 .. Len(s)) = IF 1 > Len(s) THEN 0 ELSE Len(s) - 1 + 1
    BY <2>1, FS_Interval
  <2>3. QED BY <2>1, <2>2
<1>8. Last * Cardinality(Types) = Cardinality(Types) * Last
  BY Numbers
<1>9. QED BY <1>5, <1>6, <1>7, <1>8 DEF MaxRows
-----------------------------------------------------------------------------
(* The next interval *)

LEMMA MaxExists ==
  ASSUME NEW n \in Nat, NEW S \in SUBSET (1 .. n), S # {}
  PROVE  Max(S) \in S /\ \A x \in S : Max(S) >= x
<1> DEFINE Above == {k \in Nat : \A x \in S : k >= x}
<1>1. n \in Above
  OBVIOUS
<1>2. PICK k \in Above : \A m \in Above : ~(<<m, k>> \in OpToRel(<, Nat))
  BY <1>1, NatLessThanWellFounded, WFMin
<1>3. k \in Nat /\ \A x \in S : k >= x
  OBVIOUS
<1>4. k \in S
  <2>1. SUFFICES ASSUME k \notin S PROVE FALSE
    OBVIOUS
  <2>2. \A x \in S : x \in Int /\ x >= 1 /\ k > x
    BY <1>3, <2>1
  <2>3. k - 1 \in Nat /\ \A x \in S : k - 1 >= x
    <3>1. PICK x \in S : x \in Int /\ x >= 1 /\ k > x
      BY <2>2
    <3>2. k - 1 \in Nat
      BY <1>3, <3>1
    <3>3. QED BY <1>3, <2>2, <3>2
  <2>4. k - 1 \in Above
    BY <2>3
  <2>5. <<k - 1, k>> \in OpToRel(<, Nat)
    BY <1>3, <2>3 DEF OpToRel
  <2>6. QED BY <1>2, <2>4, <2>5
<1>5. QED BY <1>3, <1>4 DEF Max

\* It is one more than the rows the type has.
LEMMA NextIsNew ==
  ASSUME df \in Seq(Rows), Consecutive(df), NEW t \in Types
  PROVE  NextInterval(t) = 1 + Cardinality(Before(df, t, Len(df) + 1))
<1> DEFINE own == {i \in DOMAIN df : df[i].type = t}
           all == Before(df, t, Len(df) + 1)
<1>1. Len(df) \in Nat /\ DOMAIN df = 1 .. Len(df)
  BY Table
<1>2. own = all
  BY <1>1 DEF Before
<1>3. CASE own = {}
  <2>1. Cardinality(all) = 0
    BY <1>2, <1>3, FS_EmptySet
  <2>2. QED BY <1>3, <2>1 DEF NextInterval
<1>4. CASE own # {}
  <2> DEFINE m == Max(own)
  <2>1. own \in SUBSET (1 .. Len(df))
    BY <1>1
  <2>2. m \in own /\ \A x \in own : m >= x
    BY <1>1, <1>4, <2>1, MaxExists
  <2> HIDE DEF m
  <2>3. m \in 1 .. Len(df) /\ df[m].type = t /\ m \in Int
    BY <1>1, <2>2
  <2>4. all = Before(df, t, m) \cup {m} /\ m \notin Before(df, t, m)
    BY <1>1, <1>2, <2>2, <2>3 DEF Before
  <2>5. IsFiniteSet(Before(df, t, m)) /\ Cardinality(Before(df, t, m)) \in Nat
    BY <2>3, FiniteRows
  <2>6. Cardinality(all) = Cardinality(Before(df, t, m)) + 1
    BY <2>4, <2>5, FS_AddElement
  <2>7. df[m].n = 1 + Cardinality(Before(df, t, m))
    BY <2>3, ConsecutiveIs
  <2>8. NextInterval(t) = df[m].n + 1
    BY <1>4 DEF NextInterval, m
  <2>9. QED BY <2>5, <2>6, <2>7, <2>8
<1>5. QED BY <1>3, <1>4

LEMMA AppendHasNoHole ==
  ASSUME NEW s \in Seq(Rows), Consecutive(s), NEW row \in Rows,
         row.n = 1 + Cardinality(Before(s, row.type, Len(s) + 1))
  PROVE  Append(s, row) \in Seq(Rows) /\ Consecutive(Append(s, row))
<1> DEFINE r == Append(s, row)
<1>1. Len(s) \in Nat
  BY Table
<1>2. /\ r \in Seq(Rows) /\ Len(r) = Len(s) + 1
      /\ r[Len(s) + 1] = row /\ \A i \in 1 .. Len(s) : r[i] = s[i]
  BY AppendProperties
<1> HIDE DEF r
<1>3. ASSUME NEW i \in 1 .. Len(r)
      PROVE  r[i].n = 1 + Cardinality(Before(r, r[i].type, i))
  <2>1. Before(r, r[i].type, i) = Before(s, r[i].type, i)
    BY <1>1, <1>2 DEF Before
  <2>2. CASE i \in 1 .. Len(s)
    BY <1>2, <2>1, <2>2, ConsecutiveIs
  <2>3. CASE i = Len(s) + 1
    BY <1>2, <2>1, <2>3
  <2>4. QED BY <1>1, <1>2, <2>2, <2>3
<1>4. QED BY <1>2, <1>3, ConsecutiveIs DEF r
-----------------------------------------------------------------------------
(* A row that changes, and a table that is cut *)

LEMMA RowSet ==
  ASSUME df \in Seq(Rows), NEW i \in 1 .. Len(df), NEW r \in Rows,
         r.type = df[i].type, r.n = df[i].n, df' = [df EXCEPT ![i] = r]
  PROVE  /\ df' \in Seq(Rows) /\ Len(df') = Len(df) /\ Part(df', df) /\ Part(df, df')
         /\ df'[i] = r /\ \A j \in 1 .. Len(df) : j # i => df'[j] = df[j]
<1>1. Len(df) \in Nat
  BY Table
<1>2. /\ df' \in Seq(Rows) /\ Len(df') = Len(df)
      /\ \A j \in 1 .. Len(df) : df'[j] = IF j = i THEN r ELSE df[j]
  BY ExceptSeq
<1>3. Part(df', df) /\ Part(df, df')
  BY <1>1, <1>2 DEF Part
<1>4. QED BY <1>2, <1>3

\* A torn file begins like the table: what it says of a path is true, or "torn".
LEMMA TornIsPart ==
  ASSUME df \in Seq(Rows), NEW s \in Torn
  PROVE  /\ s \in Seq(Rows) /\ Part(s, df)
         /\ \A i \in 1 .. Len(s) : s[i].path \in {df[i].path, "torn"}
<1> DEFINE cut(n) == SubSeq(df, 1, n)
<1>1. Len(df) \in Nat /\ DOMAIN df = 1 .. Len(df)
  BY Table
<1>2. ASSUME NEW n \in 0 .. Len(df)
      PROVE  /\ cut(n) \in Seq(Rows) /\ Len(cut(n)) = n
             /\ \A i \in 1 .. n : cut(n)[i] = df[i]
  <2>1. /\ \A i \in 1 .. n : i \in 1 .. Len(df)
        /\ 1 \in 1 .. Len(df) + 1 /\ n \in 1 - 1 .. Len(df) /\ n \in Int
    BY <1>1
  <2>2. cut(n) \in Seq(Rows) /\ Len(cut(n)) = n - 1 + 1
    BY <1>1, <2>1, SubSeqProperties
  <2>3. \A i \in 1 .. n - 1 + 1 : cut(n)[i] = df[1 + i - 1]
    BY <1>1, <2>1, SubSeqProperties
  <2> HIDE DEF cut
  <2>4. QED BY <2>1, <2>2, <2>3
<1>3. ASSUME NEW n \in 0 .. Len(df), s = cut(n)
      PROVE  /\ s \in Seq(Rows) /\ Part(s, df)
             /\ \A i \in 1 .. Len(s) : s[i].path \in {df[i].path, "torn"}
  <2> HIDE DEF cut
  <2>1. QED BY <1>1, <1>2, <1>3 DEF Part
<1>4. ASSUME NEW n \in 1 .. Len(df), s = Append(cut(n - 1), [df[n] EXCEPT !.path = "torn"])
      PROVE  /\ s \in Seq(Rows) /\ Part(s, df)
             /\ \A i \in 1 .. Len(s) : s[i].path \in {df[i].path, "torn"}
  <2> DEFINE c == cut(n - 1)
             r == [df[n] EXCEPT !.path = "torn"]
  <2>1. n \in Int /\ n - 1 \in 0 .. Len(df) /\ df[n] \in Rows
    BY <1>1, Table
  <2>2. r \in Rows /\ r.type = df[n].type /\ r.n = df[n].n /\ r.path = "torn"
    BY <2>1 DEF Rows
  <2>3. c \in Seq(Rows) /\ Len(c) = n - 1 /\ \A i \in 1 .. n - 1 : c[i] = df[i]
    BY <1>2, <2>1
  <2>4. s = Append(c, r)
    BY <1>4
  <2> HIDE DEF c, r
  <2>5. /\ s \in Seq(Rows) /\ Len(s) = n - 1 + 1 /\ s[n - 1 + 1] = r
        /\ \A i \in 1 .. n - 1 : s[i] = c[i]
    BY <2>2, <2>3, <2>4, AppendProperties
  <2>6. Len(s) = n /\ s[n] = r /\ \A i \in 1 .. n - 1 : s[i] = df[i]
    BY <2>1, <2>3, <2>5
  <2>7. \A i \in 1 .. n : i = n \/ i \in 1 .. n - 1
    BY <2>1
  <2>8. QED BY <1>1, <2>1, <2>2, <2>5, <2>6, <2>7 DEF Part
<1>5. \/ \E n \in 0 .. Len(df) : s = cut(n)
      \/ \E n \in 1 .. Len(df) : s = Append(cut(n - 1), [df[n] EXCEPT !.path = "torn"])
  BY DEF Torn
<1>6. QED BY <1>3, <1>4, <1>5, Zenon

LEMMA LoadedIs ==
  ASSUME NEW s \in Seq(Rows)
  PROVE  /\ Loaded(s) \in Seq(Rows) /\ Len(Loaded(s)) = Len(s)
         /\ Part(Loaded(s), s) /\ Part(s, Loaded(s))
         /\ \A i \in 1 .. Len(s) : Loaded(s)[i].path = s[i].path
<1> DEFINE r(i) == [s[i] EXCEPT !.ongoing = FALSE]
<1>1. Len(s) \in Nat /\ DOMAIN s = 1 .. Len(s) /\ \A i \in 1 .. Len(s) : s[i] \in Rows
  BY Table
<1>2. \A i \in 1 .. Len(s) : r(i) \in Rows /\ r(i).type = s[i].type /\ r(i).n = s[i].n
                             /\ r(i).path = s[i].path
  BY <1>1 DEF Rows
<1>3. Loaded(s) = [i \in 1 .. Len(s) |-> r(i)]
  BY <1>1 DEF Loaded
<1> HIDE DEF r
<1>4. Loaded(s) \in Seq(Rows) /\ Len(Loaded(s)) = Len(s)
  BY <1>1, <1>2, <1>3
<1>5. \A i \in 1 .. Len(s) : Loaded(s)[i] = r(i)
  BY <1>3
<1>6. QED BY <1>1, <1>2, <1>4, <1>5 DEF Part

LEMMA PartOfPart ==
  ASSUME NEW r \in Seq(Rows), NEW s \in Seq(Rows), NEW q \in Seq(Rows), Part(r, s), Part(s, q)
  PROVE  Part(r, q)
<1>1. Len(r) \in Nat /\ Len(s) \in Nat /\ Len(q) \in Nat
  BY Table
<1>2. QED BY <1>1 DEF Part

\* Rows that wait in one table and in another like it.
LEMMA FewerWait ==
  ASSUME NEW r \in Seq(Rows), NEW s \in Seq(Rows), Part(r, s),
         \A i \in 1 .. Len(r) : r[i].path = "-" => s[i].path = "-",
         NEW t
  PROVE  Cardinality(Waiting(r, t)) <= Cardinality(Waiting(s, t))
<1>1. Len(r) \in Nat /\ Len(s) \in Nat /\ Len(r) <= Len(s)
  BY Table DEF Part
<1>2. Waiting(r, t) \in SUBSET Waiting(s, t)
  BY <1>1 DEF Waiting, Part
<1>3. IsFiniteSet(Waiting(s, t))
  BY FiniteRows, 1 \in Int
<1>4. QED BY <1>2, <1>3, FS_Subset
-----------------------------------------------------------------------------
(* The inductive invariant *)

\* The progress file is a part of the table, and no file it names is awaited.
CsvInv ==
  /\ Part(csv, df)
  /\ \A i \in 1 .. Len(csv) : csv[i].path = "file" => df[i].path = "file"

TableInv == TypeOK /\ NoHole /\ CsvInv

\* A thread has a row of its own, which run does not take for one to start.
ThreadInv == \A i \in 1 .. MaxRows :
  /\ th[i] # "none" => i \in 1 .. Len(df) /\ (df[i].path = "-" => df[i].ongoing)
  /\ th[i] \in {"ask", "copy", "mark"} => df[i].path = "-"
  /\ th[i] = "release" => df[i].path = "file"
  /\ th[i] = "mark" => disk[File(i)] = "closed"

\* The lock has one holder.
LockInv ==
  /\ pc \in {"write", "last"} => lock
  /\ \A i \in 1 .. MaxRows : th[i] = "release" =>
       /\ lock /\ pc \notin {"write", "last"}
       /\ \A j \in 1 .. MaxRows : th[j] = "release" => j = i

\* What run may still ask for, and what it leaves.
FewInv ==
  /\ \A t \in Types : /\ Cardinality(Waiting(df, t)) <= MaxOngoing
                      /\ Cardinality(Waiting(csv, t)) <= MaxOngoing
  /\ pc = "request" => /\ todo # {}
                       /\ left <= MaxOngoing - Cardinality(Waiting(df, Current))

EndInv ==
  /\ pc \in {"last", "ended"} => NoneLeft /\ \A i \in 1 .. MaxRows : th[i] \in {"none", "gone"}
  /\ pc = "ended" => csv = df

IInv == TableInv /\ ThreadInv /\ LockInv /\ FewInv /\ RecordedIsThere /\ EndInv

LEMMA TypesAndRows ==
  ASSUME TypeOK
  PROVE  /\ df \in Seq(Rows) /\ csv \in Seq(Rows)
         /\ Len(df) \in Nat /\ Len(csv) \in Nat /\ Len(df) <= MaxRows
         /\ DOMAIN df = 1 .. Len(df) /\ DOMAIN csv = 1 .. Len(csv)
         /\ \A i \in 1 .. Len(df) : i \in 1 .. MaxRows /\ File(i) \in Types \X Intervals
         /\ todo # {} => Current \in todo /\ Current \in Types
<1>1. df \in Seq(Rows) /\ csv \in Seq(Rows) /\ Len(df) <= MaxRows /\ todo \in SUBSET Types
  BY DEF TypeOK
<1>2. /\ Len(df) \in Nat /\ Len(csv) \in Nat
      /\ DOMAIN df = 1 .. Len(df) /\ DOMAIN csv = 1 .. Len(csv)
  BY <1>1, Table
<1>3. \A i \in 1 .. Len(df) : i \in 1 .. MaxRows
  BY <1>1, <1>2, Numbers
<1>4. \A i \in 1 .. Len(df) : df[i].type \in Types /\ df[i].n \in Intervals
  BY <1>1, Table
<1>5. todo # {} => Current \in todo
  BY DEF Current
<1>6. QED BY <1>1, <1>2, <1>3, <1>4, <1>5 DEF File

\* The row a request appends is the next one of its type.
LEMMA RequestStep ==
  ASSUME TypeOK, Consecutive(df), todo # {}, Request
  PROVE  \E row \in Rows :
           /\ row.type = Current /\ row.path \in {"-", "msg"}
           /\ df' = Append(df, row) /\ df' \in Seq(Rows) /\ Consecutive(df')
           /\ Len(df') = Len(df) + 1 /\ Len(df') <= MaxRows
           /\ df'[Len(df) + 1] = row /\ \A i \in 1 .. Len(df) : df'[i] = df[i]
<1>1. df \in Seq(Rows) /\ Len(df) \in Nat /\ Current \in Types
  BY TypesAndRows
<1>2. PICK path \in {"-", "msg"} :
        df' = Append(df, [type |-> Current, n |-> NextInterval(Current),
                          path |-> path, ongoing |-> FALSE])
  BY DEF Request
<1> DEFINE row == [type |-> Current, n |-> NextInterval(Current), path |-> path, ongoing |-> FALSE]
<1>3. /\ NextInterval(Current) = 1 + Cardinality(Before(df, Current, Len(df) + 1))
      /\ Cardinality(Before(df, Current, Len(df) + 1)) \in Nat
  BY <1>1, NextIsNew, FiniteRows
<1>4. NextInterval(Current) \in Intervals
  BY <1>3, Numbers DEF Request, WithinDates, Intervals
<1>5. row \in Rows
  BY <1>1, <1>4 DEF Rows
<1>6. /\ row.type = Current /\ row.path = path
      /\ row.n = 1 + Cardinality(Before(df, row.type, Len(df) + 1))
  BY <1>3
<1>7. df' = Append(df, row)
  BY <1>2
<1> HIDE DEF row
<1>8. df' \in Seq(Rows) /\ Consecutive(df')
  BY <1>1, <1>5, <1>6, <1>7, AppendHasNoHole
<1>9. Len(df') <= MaxRows
  BY <1>8, TableIsShort
<1>10. /\ Len(df') = Len(df) + 1 /\ df'[Len(df) + 1] = row
       /\ \A i \in 1 .. Len(df) : df'[i] = df[i]
  BY <1>1, <1>5, <1>7, AppendProperties
<1>11. QED BY <1>2, <1>5, <1>6, <1>7, <1>8, <1>9, <1>10

\* What a restart reads.
LEMMA RestartStep ==
  ASSUME TableInv, Restart
  PROVE  /\ csv' \in Seq(Rows) /\ df' = Loaded(csv') /\ Part(csv', df)
         /\ \/ csv' = csv
            \/ \A i \in 1 .. Len(csv') : csv'[i].path \in {df[i].path, "torn"}
<1>1. PICK s \in IF pc \in {"write", "last"} THEN Torn ELSE {csv} : csv' = s /\ df' = Loaded(s)
  BY DEF Restart
<1>2. df \in Seq(Rows) /\ csv \in Seq(Rows) /\ Part(csv, df)
  BY TypesAndRows DEF TableInv, CsvInv
<1>3. CASE s \in Torn
  BY <1>1, <1>2, <1>3, TornIsPart
<1>4. CASE s = csv
  BY <1>1, <1>2, <1>4
<1>5. QED BY <1>1, <1>3, <1>4
-----------------------------------------------------------------------------
(* Every step keeps it *)

\* What the steps that set a field of a row do to the table.
LEMMA RowSteps ==
  ASSUME TypeOK, ThreadInv, NEW i \in 1 .. MaxRows
  PROVE  /\ StartThread(i) \/ Release(i) \/ Mark(i) =>
              /\ i \in 1 .. Len(df)
              /\ df' \in Seq(Rows) /\ Len(df') = Len(df) /\ Part(df', df) /\ Part(df, df')
              /\ \A j \in 1 .. Len(df) : df'[j].path \in {df[j].path, "file"}
              /\ \A j \in 1 .. Len(df) :
                   j # i => df'[j].path = df[j].path /\ df'[j].ongoing = df[j].ongoing
         /\ StartThread(i) => /\ df[i].path = "-" /\ df'[i].path = "-" /\ df'[i].ongoing
                              /\ th[i] = "none"
         /\ Release(i) => df[i].path = "file" /\ df'[i].path = "file"
         /\ Mark(i) => /\ df[i].path = "-" /\ df'[i].path = "file"
                       /\ disk[File(i)] = "closed"
<1>1. df \in Seq(Rows) /\ DOMAIN df = 1 .. Len(df)
  BY TypesAndRows
<1>2. ASSUME StartThread(i)
      PROVE  /\ i \in 1 .. Len(df) /\ df[i].path = "-" /\ ~df[i].ongoing
             /\ df' = [df EXCEPT ![i].ongoing = TRUE]
  BY <1>1, <1>2 DEF StartThread, ToStart
<1>3. ASSUME StartThread(i) PROVE th[i] = "none"
  BY <1>2, <1>3 DEF ThreadInv
<1>4. ASSUME Release(i)
      PROVE  /\ i \in 1 .. Len(df) /\ df[i].path = "file"
             /\ df' = [df EXCEPT ![i].ongoing = FALSE]
  BY <1>4 DEF Release, ThreadInv
<1>5. ASSUME Mark(i)
      PROVE  /\ i \in 1 .. Len(df) /\ df[i].path = "-" /\ disk[File(i)] = "closed"
             /\ df' = [df EXCEPT ![i].path = "file"]
  BY <1>5 DEF Mark, ThreadInv
<1>6. ASSUME StartThread(i)
      PROVE  /\ df' \in Seq(Rows) /\ Len(df') = Len(df) /\ Part(df', df) /\ Part(df, df')
             /\ df'[i].ongoing = TRUE
             /\ df'[i].path = df[i].path
             /\ \A j \in 1 .. Len(df) : j # i => df'[j] = df[j]
  <2> DEFINE r == [df[i] EXCEPT !.ongoing = TRUE]
  <2>1. i \in 1 .. Len(df) /\ df[i] \in Rows /\ df' = [df EXCEPT ![i] = r]
    BY <1>1, <1>2, <1>6, Table
  <2>2. r \in Rows /\ r.type = df[i].type /\ r.n = df[i].n /\ r.path = df[i].path
    BY <2>1 DEF Rows
  <2>3. r.ongoing = TRUE
    BY <2>1, Zenon DEF Rows
  <2> HIDE DEF r
  <2>4. /\ df' \in Seq(Rows) /\ Len(df') = Len(df) /\ Part(df', df) /\ Part(df, df')
        /\ df'[i] = r /\ \A j \in 1 .. Len(df) : j # i => df'[j] = df[j]
    BY <1>1, <2>1, <2>2, RowSet
  <2>5. QED BY <2>2, <2>3, <2>4, Zenon
<1>7. ASSUME Release(i)
      PROVE  /\ df' \in Seq(Rows) /\ Len(df') = Len(df) /\ Part(df', df) /\ Part(df, df')
             /\ df'[i].ongoing = FALSE
             /\ df'[i].path = df[i].path
             /\ \A j \in 1 .. Len(df) : j # i => df'[j] = df[j]
  <2> DEFINE r == [df[i] EXCEPT !.ongoing = FALSE]
  <2>1. i \in 1 .. Len(df) /\ df[i] \in Rows /\ df' = [df EXCEPT ![i] = r]
    BY <1>1, <1>4, <1>7, Table
  <2>2. r \in Rows /\ r.type = df[i].type /\ r.n = df[i].n /\ r.path = df[i].path
    BY <2>1 DEF Rows
  <2>3. r.ongoing = FALSE
    BY <2>1, Zenon DEF Rows
  <2> HIDE DEF r
  <2>4. /\ df' \in Seq(Rows) /\ Len(df') = Len(df) /\ Part(df', df) /\ Part(df, df')
        /\ df'[i] = r /\ \A j \in 1 .. Len(df) : j # i => df'[j] = df[j]
    BY <1>1, <2>1, <2>2, RowSet
  <2>5. QED BY <2>2, <2>3, <2>4, Zenon
<1>8. ASSUME Mark(i)
      PROVE  /\ df' \in Seq(Rows) /\ Len(df') = Len(df) /\ Part(df', df) /\ Part(df, df')
             /\ df'[i].path = "file"
             /\ \A j \in 1 .. Len(df) : j # i => df'[j] = df[j]
  <2> DEFINE r == [df[i] EXCEPT !.path = "file"]
  <2>1. i \in 1 .. Len(df) /\ df[i] \in Rows /\ df' = [df EXCEPT ![i] = r]
    BY <1>1, <1>5, <1>8, Table
  <2>2. r \in Rows /\ r.type = df[i].type /\ r.n = df[i].n /\ r.path = "file"
    BY <2>1 DEF Rows
  <2>3. r.path = "file"
    BY <2>1, Zenon DEF Rows
  <2> HIDE DEF r
  <2>4. /\ df' \in Seq(Rows) /\ Len(df') = Len(df) /\ Part(df', df) /\ Part(df, df')
        /\ df'[i] = r /\ \A j \in 1 .. Len(df) : j # i => df'[j] = df[j]
    BY <1>1, <2>1, <2>2, RowSet
  <2>5. QED BY <2>2, <2>3, <2>4, Zenon
<1>9. ASSUME StartThread(i) \/ Release(i) \/ Mark(i)
      PROVE  \A j \in 1 .. Len(df) :
               /\ df'[j].path \in {df[j].path, "file"}
               /\ j # i => df'[j].path = df[j].path /\ df'[j].ongoing = df[j].ongoing
  <2>1. \A j \in 1 .. Len(df) : j # i => df'[j] = df[j]
    BY <1>6, <1>7, <1>8, <1>9
  <2>2. df'[i].path \in {df[i].path, "file"}
    BY <1>6, <1>7, <1>8, <1>9
  <2>3. \A j \in 1 .. Len(df) : j # i => df'[j].path = df[j].path /\ df'[j].ongoing = df[j].ongoing
    BY <2>1, Zenon
  <2>4. \A j \in 1 .. Len(df) : df'[j].path \in {df[j].path, "file"}
    BY <2>2, <2>1
  <2>5. QED BY <2>3, <2>4, Zenon
<1>10. QED BY <1>2, <1>3, <1>4, <1>5, <1>6, <1>7, <1>8, <1>9, Zenon

\* The table stays a table when its rows only change in their marks.
LEMMA TableSteps ==
  ASSUME TableInv, csv' = csv, df' \in Seq(Rows), Len(df') = Len(df), Part(df', df), Part(df, df'),
         \A j \in 1 .. Len(df) : df'[j].path \in {df[j].path, "file"}
  PROVE  NoHole' /\ CsvInv' /\ Len(df') <= MaxRows
<1>1. df \in Seq(Rows) /\ csv \in Seq(Rows) /\ Len(df) \in Nat /\ Len(csv) \in Nat /\ Len(df) <= MaxRows
  BY TypesAndRows DEF TableInv
<1>2. Consecutive(df') /\ Consecutive(csv)
  BY <1>1, PartHasNoHole DEF TableInv, NoHole
<1>3. NoHole'
  BY <1>2 DEF NoHole, Consecutive
<1>4. Part(csv, df')
  BY <1>1, PartOfPart DEF TableInv, CsvInv
<1>5. \A i \in 1 .. Len(csv) : i \in 1 .. Len(df)
  BY <1>1 DEF TableInv, CsvInv, Part
<1>6. \A i \in 1 .. Len(csv) : csv[i].path = "file" => df'[i].path = "file"
  BY <1>5 DEF TableInv, CsvInv
<1>7. CsvInv'
  BY <1>4, <1>6 DEF CsvInv, Part
<1>8. QED BY <1>1, <1>3, <1>7

LEMMA TableIsKept ==
  ASSUME IInv, [Next]_vars
  PROVE  TableInv'
<1> USE DEF IInv
<1>1. /\ TableInv /\ TypeOK /\ NoHole /\ CsvInv /\ ThreadInv /\ FewInv
      /\ df \in Seq(Rows) /\ csv \in Seq(Rows) /\ Len(df) \in Nat /\ Len(csv) \in Nat
      /\ Len(df) <= MaxRows
  BY TypesAndRows DEF TableInv
<1>2. ASSUME UNCHANGED <<df, csv>> PROVE NoHole' /\ CsvInv'
  BY <1>1, <1>2 DEF NoHole, Consecutive, CsvInv, Part
<1>3. CASE NextType
  <2>1. Cardinality(Ongoing(Current)) \in Int
    <3>1. Ongoing(Current) = Waiting(df, Current)
      BY <1>1, TypesAndRows DEF Ongoing, Waiting
    <3>2. QED BY <1>1, <3>1, FiniteRows, 1 \in Int
  <2>2. TypeOK'
    BY <1>1, <1>3, <2>1, Numbers DEF NextType, TypeOK
  <2>3. QED BY <1>2, <1>3, <2>2 DEF NextType, TableInv
<1>4. CASE Request
  <2>1. todo # {}
    BY <1>4 DEF FewInv, Request
  <2>2. PICK row \in Rows :
          /\ df' \in Seq(Rows) /\ Consecutive(df')
          /\ Len(df') = Len(df) + 1 /\ Len(df') <= MaxRows
          /\ \A i \in 1 .. Len(df) : df'[i] = df[i]
    BY <1>1, <1>4, <2>1, RequestStep DEF NoHole
  <2>3. TypeOK'
    BY <1>1, <1>4, <2>2 DEF Request, TypeOK
  <2>4. NoHole'
    BY <1>1, <1>4, <2>2 DEF Request, NoHole, Consecutive
  <2>5. CsvInv'
    BY <1>1, <1>4, <2>2 DEF Request, CsvInv, Part
  <2>6. QED BY <2>3, <2>4, <2>5 DEF TableInv
<1>5. CASE TypeDone \/ Check \/ WriteBegin \/ RequestRaises
  <2>1. UNCHANGED <<df, csv>>
    BY <1>5 DEF TypeDone, Check, WriteBegin, RequestRaises
  <2>2. TypeOK'
    BY <1>1, <1>5, <2>1 DEF TypeDone, Check, WriteBegin, RequestRaises, TypeOK
  <2>3. QED BY <1>2, <2>1, <2>2 DEF TableInv
<1>6. CASE WriteEnd
  <2>1. df' = df /\ csv' = df
    BY <1>6 DEF WriteEnd
  <2>2. TypeOK'
    BY <1>1, <1>6, <2>1 DEF WriteEnd, TypeOK
  <2>3. NoHole'
    BY <1>1, <2>1 DEF NoHole, Consecutive
  <2>4. CsvInv'
    BY <1>1, <2>1 DEF CsvInv, Part
  <2>5. QED BY <2>2, <2>3, <2>4 DEF TableInv
<1>7. ASSUME NEW i \in 1 .. MaxRows, StartThread(i) \/ Mark(i) \/ Release(i)
      PROVE  TableInv'
  <2>1. /\ df' \in Seq(Rows) /\ Len(df') = Len(df) /\ Part(df', df) /\ Part(df, df')
        /\ \A j \in 1 .. Len(df) : df'[j].path \in {df[j].path, "file"}
    BY <1>1, <1>7, RowSteps
  <2>2. csv' = csv
    BY <1>7 DEF StartThread, Mark, Release
  <2>3. NoHole' /\ CsvInv' /\ Len(df') <= MaxRows
    BY <1>1, <2>1, <2>2, TableSteps
  <2>4. TypeOK'
    BY <1>1, <1>7, <2>1, <2>2, <2>3 DEF StartThread, Mark, Release, main, TypeOK
  <2>5. QED BY <2>3, <2>4 DEF TableInv
<1>8. ASSUME NEW i \in 1 .. MaxRows, LinkReady(i) \/ Copied(i) \/ ThreadEnds(i)
      PROVE  TableInv'
  <2>1. UNCHANGED <<df, csv, pc, todo, left, lock, starts>>
    BY <1>8 DEF LinkReady, Copied, ThreadEnds, main
  <2>2. th' \in [1 .. MaxRows -> {"none", "ask", "copy", "mark", "release", "gone"}]
    BY <1>1, <1>8 DEF LinkReady, Copied, ThreadEnds, TypeOK
  <2>3. disk' \in [Types \X Intervals -> {"none", "part", "closed"}]
    BY <1>1, <1>8 DEF LinkReady, Copied, ThreadEnds, TypeOK
  <2>4. TypeOK'
    BY <1>1, <2>1, <2>2, <2>3 DEF TypeOK
  <2>5. QED BY <1>2, <2>1, <2>4 DEF TableInv
<1>9. CASE Restart
  <2>1. csv' \in Seq(Rows) /\ df' = Loaded(csv') /\ Part(csv', df)
    BY <1>1, <1>9, RestartStep
  <2>2. /\ df' \in Seq(Rows) /\ Len(df') = Len(csv') /\ Part(df', csv') /\ Part(csv', df')
        /\ \A i \in 1 .. Len(csv') : df'[i].path = csv'[i].path
    BY <2>1, LoadedIs
  <2>3. Consecutive(csv') /\ Consecutive(df')
    BY <1>1, <2>1, <2>2, PartHasNoHole DEF NoHole
  <2>4. Len(csv') <= MaxRows /\ Len(df') <= MaxRows
    BY <2>1, <2>2, <2>3, TableIsShort
  <2>5. starts' \in 0 .. MaxStarts
    BY <1>1, <1>9, Numbers DEF Restart, TypeOK
  <2>6. TypeOK'
    <3>1. pc' = "type" /\ todo' \in SUBSET Types /\ left' \in Int /\ lock' = FALSE /\ disk' = disk
      BY <1>9 DEF Restart
    <3>2. th' \in [1 .. MaxRows -> {"none", "ask", "copy", "mark", "release", "gone"}]
      BY <1>9 DEF Restart
    <3>3. QED BY <1>1, <2>1, <2>2, <2>4, <2>5, <3>1, <3>2 DEF TypeOK
  <2>7. NoHole'
    BY <2>3 DEF NoHole, Consecutive
  <2>8. CsvInv'
    BY <2>2 DEF CsvInv, Part
  <2>9. QED BY <2>6, <2>7, <2>8 DEF TableInv
<1>10. CASE UNCHANGED vars
  <2>1. TypeOK'
    BY <1>1, <1>10 DEF vars, main, TypeOK
  <2>2. QED BY <1>2, <1>10, <2>1 DEF vars, TableInv
<1>11. DOMAIN df \in SUBSET (1 .. MaxRows)
  BY <1>1, TypesAndRows
<1>12. QED
  BY <1>3, <1>4, <1>5, <1>6, <1>7, <1>8, <1>9, <1>10, <1>11 DEF Next, Run, Thread
\* The files of two rows differ.
LEMMA OwnFile ==
  ASSUME TableInv, NEW i \in 1 .. Len(df), NEW j \in 1 .. Len(df), i # j
  PROVE  File(i) # File(j)
<1>1. df \in Seq(Rows) /\ Consecutive(df)
  BY TypesAndRows DEF TableInv, NoHole
<1>2. ~(df[i].type = df[j].type /\ df[i].n = df[j].n)
  BY <1>1, RowsDiffer
<1>3. QED BY <1>2 DEF File

LEMMA ThreadsAreKept ==
  ASSUME IInv, [Next]_vars
  PROVE  ThreadInv'
<1>1. /\ TableInv /\ TypeOK /\ ThreadInv /\ FewInv /\ Consecutive(df)
      /\ th \in [1 .. MaxRows -> {"none", "ask", "copy", "mark", "release", "gone"}]
      /\ disk \in [Types \X Intervals -> {"none", "part", "closed"}]
      /\ Len(df) \in Nat
      /\ \A i \in 1 .. Len(df) : File(i) \in Types \X Intervals
  BY TypesAndRows DEF IInv, TableInv, NoHole, TypeOK
<1>2. CASE UNCHANGED <<df, th, disk>>
  BY <1>1, <1>2 DEF ThreadInv, File
<1>3. CASE Request
  <2>1. /\ Len(df') = Len(df) + 1 /\ \A i \in 1 .. Len(df) : df'[i] = df[i]
        /\ UNCHANGED <<th, disk>>
    BY <1>1, <1>3, RequestStep DEF FewInv, Request
  <2>2. \A i \in 1 .. Len(df) : i \in 1 .. Len(df')
    BY <1>1, <2>1
  <2>3. QED BY <1>1, <2>1, <2>2 DEF ThreadInv, File
<1>4. ASSUME NEW k \in 1 .. MaxRows, StartThread(k) \/ Mark(k) \/ Release(k)
      PROVE  ThreadInv'
  <2>1. /\ k \in 1 .. Len(df) /\ Len(df') = Len(df) /\ Part(df', df)
        /\ \A j \in 1 .. Len(df) :
             j # k => df'[j].path = df[j].path /\ df'[j].ongoing = df[j].ongoing
    BY <1>1, <1>4, RowSteps
  <2>2. disk' = disk /\ \A j \in 1 .. MaxRows : j # k => th'[j] = th[j]
    BY <1>1, <1>4 DEF StartThread, Mark, Release
  <2>3. \A j \in 1 .. Len(df) : File(j)' = File(j)
    BY <2>1 DEF File, Part
  <2>4. \/ th'[k] = "ask" /\ df'[k].path = "-" /\ df'[k].ongoing
        \/ th'[k] = "release" /\ df'[k].path = "file"
        \/ th'[k] = "gone" /\ df'[k].path = "file"
    <3>1. CASE StartThread(k)
      <4>1. th'[k] = "ask"
        BY <1>1, <3>1 DEF StartThread
      <4>2. QED BY <1>1, <3>1, <4>1, RowSteps
    <3>2. CASE Mark(k)
      <4>1. th'[k] = "release"
        BY <1>1, <3>2 DEF Mark
      <4>2. QED BY <1>1, <3>2, <4>1, RowSteps
    <3>3. CASE Release(k)
      <4>1. th'[k] = "gone"
        BY <1>1, <3>3 DEF Release
      <4>2. QED BY <1>1, <3>3, <4>1, RowSteps
    <3>4. QED BY <1>4, <3>1, <3>2, <3>3
  <2>5. ASSUME NEW j \in 1 .. MaxRows
        PROVE  /\ th'[j] # "none" => j \in 1 .. Len(df') /\ (df'[j].path = "-" => df'[j].ongoing)
               /\ th'[j] \in {"ask", "copy", "mark"} => df'[j].path = "-"
               /\ th'[j] = "release" => df'[j].path = "file"
               /\ th'[j] = "mark" => disk'[File(j)'] = "closed"
    <3>1. CASE j = k
      BY <2>1, <2>4, <3>1
    <3>2. CASE j # k
      <4>1. th'[j] = th[j]
        BY <2>2, <3>2
      <4>2. th[j] # "none" => j \in 1 .. Len(df) /\ (df[j].path = "-" => df[j].ongoing)
        BY <1>1 DEF ThreadInv
      <4>3. ASSUME th[j] # "none"
            PROVE  j \in 1 .. Len(df') /\ (df'[j].path = "-" => df'[j].ongoing)
        BY <2>1, <3>2, <4>2, <4>3, Zenon
      <4>4. ASSUME th[j] # "none"
            PROVE  df'[j].path = df[j].path /\ File(j)' = File(j)
        BY <2>1, <2>3, <3>2, <4>2, <4>4
      <4>5. /\ th[j] \in {"ask", "copy", "mark"} => df[j].path = "-"
            /\ th[j] = "release" => df[j].path = "file"
            /\ th[j] = "mark" => disk[File(j)] = "closed"
        BY <1>1 DEF ThreadInv
      <4>6. QED BY <2>2, <4>1, <4>3, <4>4, <4>5
    <3>3. QED BY <3>1, <3>2
  <2>6. QED BY <2>5 DEF ThreadInv
<1>5. ASSUME NEW k \in 1 .. MaxRows, LinkReady(k) \/ Copied(k) \/ ThreadEnds(k)
      PROVE  ThreadInv'
  <2>1. /\ df' = df /\ \A j \in 1 .. MaxRows : j # k => th'[j] = th[j]
        /\ th[k] \in {"ask", "copy"}
        /\ th'[k] \in {"copy", "gone"} \/ (th'[k] = "mark" /\ disk' = [disk EXCEPT ![File(k)] = "closed"])
        /\ disk' = disk \/ \E x : disk' = [disk EXCEPT ![File(k)] = x]
    BY <1>1, <1>5 DEF LinkReady, Copied, ThreadEnds
  <2>2. k \in 1 .. Len(df) /\ df[k].path = "-" /\ df[k].ongoing
    BY <1>1, <2>1 DEF ThreadInv
  <2>3. \A j \in 1 .. Len(df) : j # k => disk'[File(j)] = disk[File(j)]
    BY <1>1, <2>1, <2>2, OwnFile
  <2>4. th'[k] = "mark" => disk'[File(k)] = "closed"
    BY <1>1, <2>1, <2>2
  <2>5. QED BY <1>1, <2>1, <2>2, <2>3, <2>4 DEF ThreadInv, File
<1>6. CASE Restart
  BY <1>6 DEF Restart, ThreadInv
<1>7. DOMAIN df \in SUBSET (1 .. MaxRows)
  BY <1>1, TypesAndRows
<1>8. CASE NextType \/ TypeDone \/ Check \/ WriteBegin \/ WriteEnd \/ RequestRaises \/ UNCHANGED vars
  BY <1>2, <1>8 DEF NextType, TypeDone, Check, WriteBegin, WriteEnd, RequestRaises, vars
<1>9. QED
  BY <1>3, <1>4, <1>5, <1>6, <1>7, <1>8 DEF Next, Run, Thread

LEMMA LockIsKept ==
  ASSUME IInv, [Next]_vars
  PROVE  LockInv'
<1>1. /\ LockInv /\ ThreadInv /\ DOMAIN df \in SUBSET (1 .. MaxRows)
      /\ th \in [1 .. MaxRows -> {"none", "ask", "copy", "mark", "release", "gone"}]
  BY TypesAndRows DEF IInv, TableInv, TypeOK
<1>2. CASE NextType \/ TypeDone \/ RequestRaises \/ Request \/ UNCHANGED vars
  BY <1>1, <1>2 DEF NextType, TypeDone, RequestRaises, Request, vars, main, LockInv
<1>3. CASE Check \/ WriteBegin
  BY <1>1, <1>3 DEF Check, WriteBegin, LockInv
<1>4. CASE WriteEnd
  BY <1>1, <1>4 DEF WriteEnd, LockInv
<1>5. ASSUME NEW k \in 1 .. MaxRows, StartThread(k) \/ LinkReady(k) \/ Copied(k) \/ ThreadEnds(k)
      PROVE  LockInv'
  <2>1. /\ UNCHANGED <<pc, lock>> /\ th'[k] # "release"
        /\ \A j \in 1 .. MaxRows : j # k => th'[j] = th[j]
    BY <1>1, <1>5 DEF StartThread, LinkReady, Copied, ThreadEnds, main
  <2>2. QED BY <1>1, <2>1 DEF LockInv
<1>6. ASSUME NEW k \in 1 .. MaxRows, Mark(k)
      PROVE  LockInv'
  <2>1. /\ pc' = pc /\ lock' /\ ~lock /\ \A j \in 1 .. MaxRows : j # k => th'[j] = th[j]
    BY <1>1, <1>6 DEF Mark, main
  <2>2. QED BY <1>1, <2>1 DEF LockInv
<1>7. ASSUME NEW k \in 1 .. MaxRows, Release(k)
      PROVE  LockInv'
  <2>1. /\ pc' = pc /\ th[k] = "release" /\ th'[k] = "gone"
        /\ \A j \in 1 .. MaxRows : j # k => th'[j] = th[j]
    BY <1>1, <1>7 DEF Release, main
  <2>2. QED BY <1>1, <2>1 DEF LockInv
<1>8. CASE Restart
  BY <1>8 DEF Restart, LockInv
<1>9. QED
  BY <1>1, <1>2, <1>3, <1>4, <1>5, <1>6, <1>7, <1>8 DEF Next, Run, Thread

\* No step but a request lets more rows of a type wait.
LEMMA FewIsKept ==
  ASSUME IInv, [Next]_vars
  PROVE  FewInv'
<1>1. /\ TableInv /\ TypeOK /\ CsvInv /\ ThreadInv /\ FewInv /\ Consecutive(df)
      /\ df \in Seq(Rows) /\ csv \in Seq(Rows) /\ Len(df) \in Nat /\ left \in Int
      /\ DOMAIN df = 1 .. Len(df)
  BY TypesAndRows DEF IInv, TableInv, NoHole, TypeOK
<1>2. \A t : Cardinality(Waiting(df, t)) \in Nat /\ Cardinality(Waiting(csv, t)) \in Nat
  BY <1>1, FiniteRows, 1 \in Int
<1>3. ASSUME csv' = csv, pc' = "request" => pc = "request", UNCHANGED <<todo, left>>,
             df' \in Seq(Rows), \A t : Cardinality(Waiting(df', t)) <= Cardinality(Waiting(df, t))
      PROVE  FewInv'
  <2>1. \A t : Cardinality(Waiting(df', t)) \in Nat
    BY <1>3, FiniteRows, 1 \in Int
  <2>2. \A t \in Types : /\ Cardinality(Waiting(df', t)) <= MaxOngoing
                         /\ Cardinality(Waiting(csv', t)) <= MaxOngoing
    BY <1>1, <1>2, <1>3, <2>1, Numbers DEF FewInv
  <2>3. ASSUME pc' = "request"
        PROVE  todo' # {} /\ left' <= MaxOngoing - Cardinality(Waiting(df', Current'))
    <3>1. Current' = Current
      BY <1>3 DEF Current
    <3>2. todo # {} /\ left <= MaxOngoing - Cardinality(Waiting(df, Current))
      BY <1>1, <1>3, <2>3 DEF FewInv
    <3>3. QED BY <1>1, <1>2, <1>3, <2>1, <3>1, <3>2, Numbers
  <2>4. QED BY <2>2, <2>3 DEF FewInv, Waiting
<1>4. CASE NextType
  <2>1. Ongoing(Current) = Waiting(df, Current)
    BY <1>1 DEF Ongoing, Waiting
  <2>2. /\ df' = df /\ csv' = csv /\ todo' = todo
        /\ pc' = "request" => /\ todo # {}
                              /\ left' = MaxOngoing - Cardinality(Waiting(df, Current))
    BY <1>4, <2>1 DEF NextType
  <2>3. Current' = Current
    BY <2>2 DEF Current
  <2>4. left' = MaxOngoing - Cardinality(Waiting(df, Current)) =>
          left' <= MaxOngoing - Cardinality(Waiting(df, Current))
    BY <1>2, Numbers
  <2>5. QED BY <1>1, <2>2, <2>3, <2>4 DEF FewInv, Waiting
<1>5. CASE Request
  <2>1. /\ todo # {} /\ left > 0 /\ left' = left - 1
        /\ left <= MaxOngoing - Cardinality(Waiting(df, Current))
        /\ csv' = csv /\ todo' = todo
    BY <1>1, <1>5 DEF Request, FewInv
  <2>2. PICK row \in Rows :
          /\ row.type = Current
          /\ df' \in Seq(Rows) /\ Len(df') = Len(df) + 1
          /\ df'[Len(df) + 1] = row /\ \A i \in 1 .. Len(df) : df'[i] = df[i]
    BY <1>1, <1>5, <2>1, RequestStep
  <2>3. \A t : t # Current => Waiting(df', t) = Waiting(df, t)
    BY <1>1, <2>2 DEF Waiting
  <2>4. Waiting(df', Current) \in SUBSET (Waiting(df, Current) \cup {Len(df) + 1})
    BY <1>1, <2>2 DEF Waiting
  <2>5. /\ Cardinality(Waiting(df', Current)) <= Cardinality(Waiting(df, Current)) + 1
        /\ Cardinality(Waiting(df', Current)) \in Nat
    <3> DEFINE W == Waiting(df, Current)
    <3>1. IsFiniteSet(W) /\ Cardinality(W) \in Nat
      BY <1>1, FiniteRows, 1 \in Int
    <3>2. Len(df) + 1 \notin W
      BY <1>1 DEF Waiting
    <3>3. Cardinality(W \cup {Len(df) + 1}) = Cardinality(W) + 1 /\ IsFiniteSet(W \cup {Len(df) + 1})
      BY <3>1, <3>2, FS_AddElement
    <3>4. Cardinality(Waiting(df', Current)) \in Nat
      BY <2>2, FiniteRows, 1 \in Int
    <3>5. Cardinality(Waiting(df', Current)) <= Cardinality(W \cup {Len(df) + 1})
      BY <2>4, <3>3, FS_Subset
    <3>6. QED BY <3>3, <3>4, <3>5
  <2>6. Current' = Current
    BY <2>1 DEF Current
  <2>7. \A t \in Types : Cardinality(Waiting(df', t)) <= MaxOngoing
    <3>1. Cardinality(Waiting(df', Current)) <= MaxOngoing
      BY <1>1, <1>2, <2>1, <2>5, Numbers
    <3>2. QED BY <1>1, <2>3, <3>1 DEF FewInv
  <2>8. left' <= MaxOngoing - Cardinality(Waiting(df', Current))
    BY <1>1, <1>2, <2>1, <2>5, Numbers
  <2>9. QED BY <1>1, <2>1, <2>6, <2>7, <2>8 DEF FewInv, Waiting
<1>6. CASE WriteEnd
  BY <1>1, <1>6 DEF WriteEnd, FewInv, Waiting
<1>7. CASE TypeDone \/ Check \/ WriteBegin \/ RequestRaises
  BY <1>1, <1>7 DEF TypeDone, Check, WriteBegin, RequestRaises, FewInv, Waiting
<1>8. ASSUME NEW k \in 1 .. MaxRows, StartThread(k) \/ Mark(k) \/ Release(k)
      PROVE  FewInv'
  <2>1. /\ df' \in Seq(Rows) /\ Len(df') = Len(df) /\ Part(df', df)
        /\ \A j \in 1 .. Len(df) : df'[j].path \in {df[j].path, "file"}
    BY <1>1, <1>8, RowSteps
  <2>2. \A t : Cardinality(Waiting(df', t)) <= Cardinality(Waiting(df, t))
    BY <1>1, <2>1, FewerWait
  <2>3. csv' = csv /\ pc' = pc /\ UNCHANGED <<todo, left>>
    BY <1>8 DEF StartThread, Mark, Release, main
  <2>4. QED BY <1>3, <2>1, <2>2, <2>3
<1>9. CASE UNCHANGED <<pc, todo, left, df, csv>>
  BY <1>1, <1>9 DEF FewInv, Waiting, Current
<1>10. ASSUME NEW k \in 1 .. MaxRows, LinkReady(k) \/ Copied(k) \/ ThreadEnds(k)
       PROVE  FewInv'
  BY <1>9, <1>10 DEF LinkReady, Copied, ThreadEnds, main
<1>11. CASE Restart
  <2>1. /\ csv' \in Seq(Rows) /\ df' = Loaded(csv') /\ Part(csv', df)
        /\ \/ csv' = csv
           \/ \A i \in 1 .. Len(csv') : csv'[i].path \in {df[i].path, "torn"}
    BY <1>1, <1>11, RestartStep
  <2>2. /\ df' \in Seq(Rows) /\ Len(df') = Len(csv') /\ Part(df', csv')
        /\ \A i \in 1 .. Len(csv') : df'[i].path = csv'[i].path
    BY <2>1, LoadedIs
  <2>3. \A t : /\ Cardinality(Waiting(csv', t)) \in Nat
               /\ Cardinality(Waiting(df', t)) \in Nat
               /\ Cardinality(Waiting(df', t)) <= Cardinality(Waiting(csv', t))
    BY <2>1, <2>2, FewerWait, FiniteRows, 1 \in Int
  <2>4. \A t \in Types : Cardinality(Waiting(csv', t)) <= MaxOngoing
    <3>1. CASE csv' = csv
      BY <1>1, <3>1 DEF FewInv
    <3>2. CASE \A i \in 1 .. Len(csv') : csv'[i].path \in {df[i].path, "torn"}
      <4>1. \A t : Cardinality(Waiting(csv', t)) <= Cardinality(Waiting(df, t))
        BY <1>1, <2>1, <3>2, FewerWait
      <4>2. QED BY <1>1, <1>2, <2>3, <4>1, Numbers DEF FewInv
    <3>3. QED BY <2>1, <3>1, <3>2
  <2>5. \A t \in Types : Cardinality(Waiting(df', t)) <= MaxOngoing
    BY <2>3, <2>4, Numbers
  <2>6. pc' = "type"
    BY <1>11 DEF Restart
  <2>7. QED BY <2>4, <2>5, <2>6 DEF FewInv, Waiting
<1>12. DOMAIN df \in SUBSET (1 .. MaxRows)
  BY <1>1, TypesAndRows
<1>13. QED
  BY <1>4, <1>5, <1>6, <1>7, <1>8, <1>9, <1>10, <1>11, <1>12 DEF Next, Run, Thread, vars, main

\* A thread that opens a file opens that of its own row, which neither table
\* names yet.
LEMMA RecordIsKept ==
  ASSUME IInv, [Next]_vars
  PROVE  RecordedIsThere'
<1>1. /\ TableInv /\ TypeOK /\ CsvInv /\ ThreadInv /\ FewInv
      /\ df \in Seq(Rows) /\ csv \in Seq(Rows) /\ Len(df) \in Nat /\ Len(csv) \in Nat
      /\ DOMAIN df = 1 .. Len(df) /\ DOMAIN csv = 1 .. Len(csv) /\ Len(csv) <= Len(df)
      /\ disk \in [Types \X Intervals -> {"none", "part", "closed"}]
      /\ \A i \in 1 .. Len(df) : File(i) \in Types \X Intervals
  BY TypesAndRows DEF IInv, TableInv, CsvInv, Part, TypeOK
<1>2. \A i \in 1 .. Len(df) : df[i].path = "file" => disk[File(i)] = "closed"
  BY <1>1 DEF IInv, RecordedIsThere, File
<1>3. \A i \in 1 .. Len(csv) : /\ i \in 1 .. Len(df) /\ File(i) = <<csv[i].type, csv[i].n>>
                               /\ csv[i].path = "file" => df[i].path = "file"
  BY <1>1 DEF CsvInv, Part, File
<1>4. ASSUME csv' \in Seq(Rows), df' \in Seq(Rows),
             \A i \in 1 .. Len(df') :
               df'[i].path = "file" => disk'[<<df'[i].type, df'[i].n>>] = "closed",
             \A i \in 1 .. Len(csv') :
               csv'[i].path = "file" => disk'[<<csv'[i].type, csv'[i].n>>] = "closed"
      PROVE  RecordedIsThere'
  <2>1. DOMAIN csv' = 1 .. Len(csv') /\ DOMAIN df' = 1 .. Len(df')
    BY <1>4, Table
  <2>2. QED BY <1>4, <2>1 DEF RecordedIsThere
<1>5. CASE UNCHANGED <<df, csv, disk>>
  BY <1>1, <1>2, <1>3, <1>4, <1>5 DEF File
<1>6. CASE Request
  <2>1. PICK row \in Rows :
          /\ row.path \in {"-", "msg"}
          /\ df' \in Seq(Rows) /\ Len(df') = Len(df) + 1
          /\ df'[Len(df) + 1] = row /\ \A i \in 1 .. Len(df) : df'[i] = df[i]
    BY <1>1, <1>6, RequestStep DEF TableInv, NoHole, FewInv, Request
  <2>2. csv' = csv /\ disk' = disk
    BY <1>6 DEF Request
  <2>3. \A i \in 1 .. Len(df') : i \in 1 .. Len(df) \/ i = Len(df) + 1
    BY <1>1, <2>1
  <2>4. QED BY <1>1, <1>2, <1>3, <1>4, <2>1, <2>2, <2>3 DEF File
<1>7. CASE WriteEnd
  BY <1>1, <1>2, <1>4, <1>7 DEF WriteEnd, File
<1>8. ASSUME NEW k \in 1 .. MaxRows, StartThread(k) \/ Mark(k) \/ Release(k)
      PROVE  RecordedIsThere'
  <2>1. /\ k \in 1 .. Len(df) /\ df' \in Seq(Rows) /\ Len(df') = Len(df) /\ Part(df', df)
        /\ \A j \in 1 .. Len(df) : j # k => df'[j].path = df[j].path
    BY <1>1, <1>8, RowSteps
  <2>2. df'[k].path = "file" => disk[File(k)] = "closed"
    BY <1>1, <1>2, <1>8, RowSteps
  <2>3. csv' = csv /\ disk' = disk
    BY <1>8 DEF StartThread, Mark, Release
  <2>4. \A j \in 1 .. Len(df) : <<df'[j].type, df'[j].n>> = File(j)
    BY <2>1 DEF File, Part
  <2>5. \A i \in 1 .. Len(df') :
          df'[i].path = "file" => disk'[<<df'[i].type, df'[i].n>>] = "closed"
    BY <1>2, <2>1, <2>2, <2>3, <2>4
  <2>6. \A i \in 1 .. Len(csv') :
          csv'[i].path = "file" => disk'[<<csv'[i].type, csv'[i].n>>] = "closed"
    BY <1>2, <1>3, <2>3
  <2>7. QED BY <1>1, <1>4, <2>1, <2>3, <2>5, <2>6
<1>9. ASSUME NEW k \in 1 .. MaxRows, LinkReady(k) \/ Copied(k)
      PROVE  RecordedIsThere'
  <2>1. /\ df' = df /\ csv' = csv /\ th[k] \in {"ask", "copy"}
        /\ \E x : disk' = [disk EXCEPT ![File(k)] = x]
    BY <1>9 DEF LinkReady, Copied
  <2>2. k \in 1 .. Len(df) /\ df[k].path = "-"
    BY <1>1, <2>1 DEF ThreadInv
  <2>3. \A j \in 1 .. Len(df) : df[j].path = "file" => disk'[File(j)] = disk[File(j)]
    BY <1>1, <2>1, <2>2, OwnFile
  <2>4. \A j \in 1 .. Len(df) :
          df[j].path = "file" => disk'[<<df[j].type, df[j].n>>] = "closed"
    BY <1>2, <2>3 DEF File
  <2>5. \A j \in 1 .. Len(csv) :
          csv[j].path = "file" => disk'[<<csv[j].type, csv[j].n>>] = "closed"
    BY <1>3, <2>4 DEF File
  <2>6. QED BY <1>1, <1>4, <2>1, <2>4, <2>5
<1>10. CASE Restart
  <2>1. /\ csv' \in Seq(Rows) /\ df' = Loaded(csv') /\ Part(csv', df)
        /\ \/ csv' = csv
           \/ \A i \in 1 .. Len(csv') : csv'[i].path \in {df[i].path, "torn"}
    BY <1>1, <1>10, RestartStep
  <2>2. /\ df' \in Seq(Rows) /\ Len(df') = Len(csv') /\ Part(df', csv')
        /\ \A i \in 1 .. Len(csv') : df'[i].path = csv'[i].path
    BY <2>1, LoadedIs
  <2>3. \A i \in 1 .. Len(csv') : /\ i \in 1 .. Len(df)
                                  /\ <<csv'[i].type, csv'[i].n>> = File(i)
                                  /\ csv'[i].path = "file" => df[i].path = "file"
    <3>1. Len(csv') \in Nat
      BY <2>1, Table
    <3>2. \A i \in 1 .. Len(csv') : i \in 1 .. Len(df) /\ <<csv'[i].type, csv'[i].n>> = File(i)
      BY <1>1, <2>1, <3>1 DEF Part, File
    <3>3. \A i \in 1 .. Len(csv') : csv'[i].path = "file" => df[i].path = "file"
      BY <1>3, <2>1
    <3>4. QED BY <3>2, <3>3
  <2>4. disk' = disk
    BY <1>10 DEF Restart
  <2>5. \A i \in 1 .. Len(df') : <<df'[i].type, df'[i].n>> = <<csv'[i].type, csv'[i].n>>
    BY <2>2 DEF Part
  <2>6. \A i \in 1 .. Len(csv') :
          csv'[i].path = "file" => disk'[<<csv'[i].type, csv'[i].n>>] = "closed"
    BY <1>2, <2>3, <2>4
  <2>7. \A i \in 1 .. Len(df') :
          df'[i].path = "file" => disk'[<<df'[i].type, df'[i].n>>] = "closed"
    BY <2>2, <2>5, <2>6
  <2>8. QED BY <1>4, <2>1, <2>2, <2>6, <2>7
<1>11. CASE \/ NextType \/ TypeDone \/ Check \/ WriteBegin \/ RequestRaises \/ UNCHANGED vars
            \/ \E k \in 1 .. MaxRows : ThreadEnds(k)
  BY <1>5, <1>11 DEF NextType, TypeDone, Check, WriteBegin, RequestRaises, ThreadEnds, vars
<1>12. DOMAIN df \in SUBSET (1 .. MaxRows)
  BY <1>1, TypesAndRows
<1>13. QED
  BY <1>6, <1>7, <1>8, <1>9, <1>10, <1>11, <1>12 DEF Next, Run, Thread

\* Once no row waits and the lock is free no thread is left, and nothing starts one.
LEMMA EndIsKept ==
  ASSUME IInv, [Next]_vars
  PROVE  EndInv'
<1>1. /\ EndInv /\ LockInv /\ ThreadInv
      /\ DOMAIN df = 1 .. Len(df)
      /\ th \in [1 .. MaxRows -> {"none", "ask", "copy", "mark", "release", "gone"}]
  BY TypesAndRows DEF IInv, TableInv, TypeOK
<1>2. CASE NextType \/ Request \/ TypeDone \/ WriteBegin \/ RequestRaises \/ Restart
  BY <1>2 DEF NextType, Request, TypeDone, WriteBegin, RequestRaises, Restart, EndInv
<1>3. CASE Check
  <2>1. df' = df /\ th' = th /\ pc' # "ended" /\ (pc' = "last" => NoneLeft /\ ~lock)
    BY <1>3 DEF Check
  <2>2. ASSUME NoneLeft, ~lock, NEW i \in 1 .. MaxRows
        PROVE  th[i] \in {"none", "gone"}
    <3>1. th[i] # "release"
      BY <1>1, <2>2 DEF LockInv
    <3>2. th[i] \notin {"ask", "copy", "mark"}
      BY <1>1, <2>2 DEF ThreadInv, NoneLeft
    <3>3. QED BY <1>1, <3>1, <3>2
  <2>3. QED BY <2>1, <2>2 DEF EndInv, NoneLeft
<1>4. CASE WriteEnd
  BY <1>1, <1>4 DEF WriteEnd, EndInv, NoneLeft
<1>5. ASSUME NEW k \in DOMAIN df, StartThread(k)
      PROVE  EndInv'
  BY <1>5 DEF StartThread, main, EndInv
<1>6. ASSUME NEW k \in 1 .. MaxRows, Thread(k)
      PROVE  EndInv'
  <2>1. pc' = pc /\ th[k] \notin {"none", "gone"}
    BY <1>6 DEF Thread, LinkReady, Copied, ThreadEnds, Mark, Release, main
  <2>2. pc \notin {"last", "ended"}
    BY <1>1, <2>1 DEF EndInv
  <2>3. QED BY <2>1, <2>2 DEF EndInv
<1>7. CASE UNCHANGED vars
  BY <1>1, <1>7 DEF vars, main, EndInv, NoneLeft
<1>8. QED
  BY <1>2, <1>3, <1>4, <1>5, <1>6, <1>7 DEF Next, Run
-----------------------------------------------------------------------------
(* The theorems *)

LEMMA Invariant == Spec => []IInv
<1>1. Init => IInv
  <2> SUFFICES ASSUME Init PROVE IInv
    OBVIOUS
  <2> USE DEF Init
  <2>1. /\ df \in Seq(Rows) /\ csv \in Seq(Rows) /\ Len(df) = 0 /\ Len(csv) = 0
        /\ DOMAIN df = {} /\ DOMAIN csv = {}
    OBVIOUS
  <2>2. TypeOK
    <3>1. th \in [1 .. MaxRows -> {"none", "ask", "copy", "mark", "release", "gone"}]
      OBVIOUS
    <3>2. disk \in [Types \X Intervals -> {"none", "part", "closed"}]
      OBVIOUS
    <3>3. starts \in 0 .. MaxStarts
      BY Numbers
    <3>4. pc = "type" /\ todo \in SUBSET Types /\ left \in Int
      OBVIOUS
    <3>5. lock \in BOOLEAN
      BY Zenon
    <3>6. QED BY <2>1, <3>1, <3>2, <3>3, <3>4, <3>5, Numbers DEF TypeOK
  <2>3. NoHole /\ CsvInv /\ RecordedIsThere
    BY <2>1 DEF NoHole, Consecutive, CsvInv, Part, RecordedIsThere
  <2>4. ThreadInv /\ LockInv /\ EndInv
    BY DEF ThreadInv, LockInv, EndInv
  <2>5. FewInv
    <3>1. \A t : Waiting(df, t) = {} /\ Waiting(csv, t) = {}
      BY <2>1 DEF Waiting
    <3>2. Cardinality({}) = 0
      BY FS_EmptySet
    <3>3. \A t : Cardinality(Waiting(df, t)) = 0 /\ Cardinality(Waiting(csv, t)) = 0
      BY <3>1, <3>2
    <3>4. QED BY <3>3, Numbers DEF FewInv
  <2>6. QED BY <2>2, <2>3, <2>4, <2>5 DEF IInv, TableInv
<1>2. IInv /\ [Next]_vars => IInv'
  <2> SUFFICES ASSUME IInv, [Next]_vars PROVE IInv'
    OBVIOUS
  <2>1. TableInv' /\ ThreadInv' /\ LockInv' /\ FewInv' /\ RecordedIsThere' /\ EndInv'
    BY TableIsKept, ThreadsAreKept, LockIsKept, FewIsKept, RecordIsKept, EndIsKept
  <2>2. QED BY <2>1 DEF IInv
<1>3. QED BY <1>1, <1>2, PTL DEF Spec

\* Every variable keeps its type.
THEOREM TypeCorrect == Spec => []TypeOK
<1>1. IInv => TypeOK
  BY DEF IInv, TableInv
<1>2. QED BY <1>1, Invariant, PTL

\* The rows of a type are its intervals in order, none left out and none
\* twice, whatever was refused and however often the program was killed.
THEOREM NoIntervalMissed == Spec => []NoHole
<1>1. IInv => NoHole
  BY DEF IInv, TableInv
<1>2. QED BY <1>1, Invariant, PTL

\* new_request never has more than MaxOngoing rows of a type wait.
THEOREM FewUnderWay == Spec => []FewOngoing
<1>1. IInv => FewOngoing
  <2> SUFFICES ASSUME IInv PROVE FewOngoing
    OBVIOUS
  <2>1. DOMAIN df = 1 .. Len(df)
    BY TypesAndRows DEF IInv, TableInv
  <2>2. \A t : Ongoing(t) = Waiting(df, t)
    BY <2>1 DEF Ongoing, Waiting
  <2>3. QED BY <2>2 DEF IInv, FewInv, FewOngoing
<1>2. QED BY <1>1, Invariant, PTL

\* No row has two threads, although run picks the rows without the lock.
THEOREM OneThreadPerRow == Spec => []OneThread
<1>1. IInv => OneThread
  <2> SUFFICES ASSUME IInv PROVE OneThread
    OBVIOUS
  <2>1. DOMAIN df \in SUBSET (1 .. MaxRows)
    BY TypesAndRows DEF IInv, TableInv
  <2>2. QED BY <2>1 DEF IInv, ThreadInv, OneThread, ToStart
<1>2. QED BY <1>1, Invariant, PTL

\* A file that the table or the progress file names is closed on disk.
THEOREM RecordedOnDisk == Spec => []RecordedIsThere
<1>1. IInv => RecordedIsThere
  BY DEF IInv
<1>2. QED BY <1>1, Invariant, PTL

\* When run returns, the progress file is the table and nothing is under way.
THEOREM EndRecorded == Spec => []EndIsRecorded
<1>1. IInv => EndIsRecorded
  BY DEF IInv, EndInv, EndIsRecorded, NoneLeft, Ongoing
<1>2. QED BY <1>1, Invariant, PTL
=============================================================================
