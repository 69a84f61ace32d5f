-------------------------- MODULE Fastslim_proofs --------------------------
(***************************************************************************)
(* Proofs about the trace reduction.                                       *)
(***************************************************************************)
EXTENDS Fastslim, FiniteSetTheorems, SequenceTheorems, TLAPS

(* The sort changes nothing in a list that is in order. *)
LEMMA AlreadyInOrder ==
  ASSUME NEW S, NEW s \in Seq(S), \A i \in 1 .. Len(s) : s[i].tstamp \in Nat,
         \A i, j \in 1 .. Len(s) : i < j => s[i].tstamp < s[j].tstamp
  PROVE  InOrder(s) = s
<1> DEFINE n == Len(s)
           B(i) == {j \in 1 .. n : \/ s[j].tstamp < s[i].tstamp
                                   \/ s[j].tstamp = s[i].tstamp /\ j < i}
           At(k) == CHOOSE i \in 1 .. n : Cardinality(B(i)) = k - 1
<1>1. n \in Nat
  OBVIOUS
<1> HIDE DEF n
<1>2. ASSUME NEW i \in 1 .. n PROVE Cardinality(B(i)) = i - 1
  <2>1. B(i) = 1 .. i - 1
    <3>1. \A j \in 1 .. n : j < i => s[j].tstamp < s[i].tstamp
      BY DEF n
    <3>2. \A j \in 1 .. n : i < j => s[i].tstamp < s[j].tstamp
      BY DEF n
    <3>3. \A j \in 1 .. n : s[j].tstamp \in Nat
      BY DEF n
    <3>4. \A j \in 1 .. n : j \in B(i) <=> j < i
      BY <1>1, <3>1, <3>2, <3>3
    <3> QED BY <1>1, <3>4
  <2>2. i - 1 \in Nat
    BY <1>1
  <2>3. Cardinality(1 .. i - 1) = i - 1
    BY <2>2, FS_Interval
  <2> QED BY <2>1, <2>3
<1>3. ASSUME NEW k \in 1 .. n PROVE At(k) = k
  <2>1. Cardinality(B(k)) = k - 1
    BY <1>2
  <2> HIDE DEF B
  <2>2. At(k) \in 1 .. n /\ Cardinality(B(At(k))) = k - 1
    BY <2>1
  <2> HIDE DEF At
  <2>3. At(k) - 1 = k - 1
    BY <1>2, <2>2
  <2> QED BY <1>1, <2>2, <2>3
<1>4. InOrder(s) = [k \in 1 .. n |-> s[At(k)]]
  BY DEF InOrder, n
<1> HIDE DEF At
<1>5. InOrder(s) = [k \in 1 .. n |-> s[k]]
  BY <1>3, <1>4
<1> QED BY <1>5 DEF n

(* No entry of the window is ever marked. *)
LEMMA NoneToAdd == SetToSeq({}) = <<>>
BY FS_EmptySet DEF SetToSeq, IsInjective

------------------------------------------------------------------------------
Items == [pg : Pages, tstamp : Nat, marked : {FALSE}]

(* The window: one unmarked entry for each page in it, in the order of the *)
(* first lines of the pages; the buffer and the list to print hold the     *)
(* same entries.                                                           *)
Window ==
  /\ input \in Seq(Pages) /\ printed \in Seq(Items) /\ toprint \in Seq(Items)
  /\ tracebuffer = {toprint[k] : k \in 1 .. Len(toprint)}
  /\ Len(toprint) <= buffersize
  /\ toprint = <<>> => input = <<>> /\ printed = <<>>
  /\ \A j, k \in 1 .. Len(toprint) : j < k =>
       toprint[j].tstamp < toprint[k].tstamp /\ toprint[j].pg # toprint[k].pg
  /\ \A k \in 1 .. Len(toprint) : toprint[k].tstamp < Len(input)

(* An item in the window has a page and a time. *)
LEMMA Stamps ==
  ASSUME Window, NEW k \in 1 .. Len(toprint)
  PROVE  toprint[k] \in Items /\ toprint[k].tstamp \in Nat /\ toprint[k].pg \in Pages
<1>1. toprint[k] \in Items
  BY ElementOfSeq DEF Window
<1> QED BY <1>1 DEF Items

(* The buffer is as large as the list is long. *)
LEMMA WindowSize ==
  ASSUME Window
  PROVE  /\ IsFiniteSet(tracebuffer) /\ Cardinality(tracebuffer) = Len(toprint)
         /\ Emission = toprint
<1> DEFINE n == Len(toprint)
<1>1. /\ n \in Nat /\ toprint \in [1 .. n -> Items]
      /\ tracebuffer = {toprint[k] : k \in 1 .. n}
      /\ \A j, k \in 1 .. n : j < k =>
           toprint[j].tstamp < toprint[k].tstamp /\ toprint[j].pg # toprint[k].pg
  BY DEF Window
<1> HIDE DEF n
<1>2. toprint \in Bijection(1 .. n, tracebuffer)
  <2>1. toprint \in [1 .. n -> tracebuffer]
    BY <1>1
  <2>2. \A j, k \in 1 .. n : toprint[j] = toprint[k] => j = k
    BY <1>1
  <2> QED BY <1>1, <2>1, <2>2 DEF Bijection, Injection, Surjection, IsInjective
<1>3. IsFiniteSet(tracebuffer) /\ Cardinality(tracebuffer) = n
  <2>1. ExistsBijection(1 .. n, tracebuffer)
    BY <1>2 DEF ExistsBijection
  <2>2. IsFiniteSet(1 .. n) /\ Cardinality(1 .. n) = n
    BY <1>1, FS_Interval
  <2> QED BY <2>1, <2>2, FS_Bijection
<1>4. {ti \in tracebuffer : ti.marked} = {}
  BY <1>1 DEF Items
<1>5. toprint \o SetToSeq({ti \in tracebuffer : ti.marked}) = toprint
  <2>1. toprint \in Seq(Items) /\ toprint \o <<>> = toprint
    BY ConcatEmptySeq DEF Window
  <2> QED BY <1>4, <2>1, NoneToAdd
<1>6. InOrder(toprint) = toprint
  BY <1>1, AlreadyInOrder DEF Window, n, Items
<1> QED BY <1>3, <1>5, <1>6 DEF Emission, n

(* A line whose page is not in the window: its entry comes after all that  *)
(* has been written or waits, whether or not a window is emitted first.    *)
Entry(pg) == [pg |-> pg, tstamp |-> Len(input), marked |-> FALSE]

Emits(pg) ==
  /\ Len(toprint) = buffersize
  /\ printed' = printed \o toprint /\ toprint' = <<Entry(pg)>>

Waits(pg) ==
  /\ Len(toprint) < buffersize
  /\ printed' = printed /\ toprint' = Append(toprint, Entry(pg))

(* A line with a page that is not in the window: printed windows, then its entry. *)
LEMMA NewPage ==
  ASSUME Window, NEW pg \in Pages, Line(pg), ~Seen(pg)
  PROVE  /\ Entry(pg) \in Items /\ \A k \in 1 .. Len(toprint) : toprint[k].pg # pg
         /\ Emits(pg) \/ Waits(pg)
         /\ Window'
<1> DEFINE n == Len(toprint)
           ti == Entry(pg)
<1>1. /\ n \in Nat /\ n <= buffersize /\ buffersize \in Nat \ {0} /\ Len(input) \in Nat
      /\ toprint \in Seq(Items) /\ printed \in Seq(Items) /\ input \in Seq(Pages)
  BY FastslimAssumption DEF Window
<1>2. ti \in Items /\ ti.tstamp = Len(input) /\ ti.pg = pg
  BY <1>1 DEF Items, Entry
<1>3. ASSUME NEW k \in 1 .. n PROVE toprint[k].pg # pg
  BY DEF Seen, Window
<1>4. input' = Append(input, pg) /\ input' \in Seq(Pages) /\ Len(input') = Len(input) + 1
  BY <1>1 DEF Line
<1>5. CASE n = buffersize
  <2>1. printed' = printed \o toprint /\ toprint' = <<ti>> /\ tracebuffer' = {ti}
    BY <1>5, WindowSize DEF Line, Entry
  <2>2. /\ Len(toprint') = 1 /\ toprint'[1] = ti /\ toprint' \in Seq(Items) /\ toprint' # <<>>
    BY <1>2, <2>1
  <2>3. printed' \in Seq(Items)
    BY <1>1, <2>1, ConcatProperties
  <2>4. tracebuffer' = {toprint'[k] : k \in 1 .. Len(toprint')}
    BY <2>1, <2>2
  <2>5. Window'
    BY <1>1, <1>2, <1>4, <2>2, <2>3, <2>4 DEF Window
  <2> QED BY <1>2, <1>3, <1>5, <2>1, <2>5 DEF Emits
<1>6. CASE n # buffersize
  <2>1. /\ printed' = printed /\ toprint' = Append(toprint, ti)
        /\ tracebuffer' = tracebuffer \cup {ti}
    BY <1>6, WindowSize DEF Line, Entry
  <2>2. /\ Len(toprint') = n + 1 /\ toprint' \in Seq(Items)
        /\ \A k \in 1 .. n : toprint'[k] = toprint[k]
        /\ toprint'[n + 1] = ti
    BY <1>1, <1>2, <2>1, AppendProperties
  <2>3. toprint' # <<>>
    BY <1>1, <2>2
  <2>4. tracebuffer' = {toprint'[k] : k \in 1 .. n + 1}
    <3>1. tracebuffer = {toprint[k] : k \in 1 .. n}
      BY DEF Window
    <3>2. \A k \in 1 .. n + 1 : k \in 1 .. n \/ k = n + 1
      BY <1>1
    <3>3. \A k \in 1 .. n : k \in 1 .. n + 1
      BY <1>1
    <3>4. n + 1 \in 1 .. n + 1
      BY <1>1
    <3> HIDE DEF n, ti
    <3> QED BY <2>1, <2>2, <3>1, <3>2, <3>3, <3>4
  <2>5. ASSUME NEW j \in 1 .. n + 1, NEW k \in 1 .. n + 1, j < k
        PROVE  toprint'[j].tstamp < toprint'[k].tstamp /\ toprint'[j].pg # toprint'[k].pg
    <3>1. j \in 1 .. n /\ (k \in 1 .. n \/ k = n + 1)
      BY <1>1, <2>5
    <3>2. toprint'[j] = toprint[j] /\ toprint[j].tstamp < Len(input)
      BY <2>2, <3>1 DEF Window
    <3>3. CASE k = n + 1
      BY <1>2, <1>3, <2>2, <3>1, <3>2, <3>3
    <3>4. CASE k \in 1 .. n
      BY <2>2, <2>5, <3>1, <3>2, <3>4 DEF Window
    <3> QED BY <3>1, <3>3, <3>4
  <2>6. ASSUME NEW k \in 1 .. n + 1 PROVE toprint'[k].tstamp < Len(input')
    <3>1. CASE k = n + 1
      BY <1>1, <1>2, <1>4, <2>2, <3>1
    <3>2. CASE k \in 1 .. n
      <4>1. toprint'[k].tstamp = toprint[k].tstamp /\ toprint[k].tstamp < Len(input)
            /\ toprint[k] \in Items
        BY <2>2, <3>2 DEF Window
      <4>2. toprint[k].tstamp \in Nat
        BY <4>1 DEF Items
      <4> HIDE DEF n
      <4> QED BY <1>1, <1>4, <4>1, <4>2
    <3> QED BY <1>1, <3>1, <3>2
  <2>7. Len(toprint') <= buffersize /\ n < buffersize
    BY <1>1, <1>6, <2>2
  <2>8. Window'
    BY <1>1, <1>4, <2>1, <2>2, <2>3, <2>4, <2>5, <2>6, <2>7 DEF Window
  <2> QED BY <1>2, <1>3, <2>1, <2>7, <2>8 DEF Waits
<1> QED BY <1>5, <1>6

(* Such a line adds its page at the end of what is printed or waits. *)
LEMMA OutputGrows ==
  ASSUME Window, NEW pg \in Pages, Line(pg), ~Seen(pg)
  PROVE  /\ Output \in Seq(Items) /\ Output' \in Seq(Items)
         /\ Len(Output') = Len(Output) + 1
         /\ \A i \in 1 .. Len(Output) : Output'[i] = Output[i]
         /\ Output'[Len(Output) + 1].pg = pg
         /\ Len(Output) # 0 => Output[Len(Output)].pg # pg
<1> DEFINE ti == Entry(pg)
           o == Output
<1>1. /\ toprint \in Seq(Items) /\ printed \in Seq(Items) /\ ti \in Items /\ ti.pg = pg
      /\ Emits(pg) \/ Waits(pg)
      /\ \A k \in 1 .. Len(toprint) : toprint[k].pg # pg
  BY NewPage DEF Window, Entry
<1>2. /\ o \in Seq(Items) /\ Len(o) = Len(printed) + Len(toprint)
      /\ \A i \in 1 .. Len(printed) + Len(toprint) :
           o[i] = IF i <= Len(printed) THEN printed[i] ELSE toprint[i - Len(printed)]
  BY <1>1, ConcatProperties DEF Output
<1>3. Output' = Append(o, ti)
  <2>1. CASE Emits(pg)
    BY <1>1, <1>2, <2>1, AppendIsConcat DEF Emits, Output
  <2>2. CASE Waits(pg)
    <3>1. Append(toprint, ti) = toprint \o <<ti>> /\ Append(o, ti) = o \o <<ti>>
      BY <1>1, <1>2, AppendIsConcat
    <3>2. <<ti>> \in Seq(Items)
      BY <1>1
    <3>3. (printed \o toprint) \o <<ti>> = printed \o (toprint \o <<ti>>)
      BY <1>1, <3>2, ConcatAssociative
    <3> QED BY <2>2, <3>1, <3>3 DEF Waits, Output
  <2> QED BY <1>1, <2>1, <2>2
<1> HIDE DEF o, ti
<1>4. /\ Append(o, ti) \in Seq(Items) /\ Len(Append(o, ti)) = Len(o) + 1
      /\ \A i \in 1 .. Len(o) : Append(o, ti)[i] = o[i]
      /\ Append(o, ti)[Len(o) + 1] = ti
  BY <1>1, <1>2, AppendProperties
<1>5. ASSUME Len(o) # 0 PROVE o[Len(o)].pg # pg
  <2>1. toprint # <<>>
    BY <1>2, <1>5 DEF Window
  <2>2. Len(toprint) \in Nat \ {0} /\ Len(printed) \in Nat
    BY <1>1, <2>1, EmptySeq
  <2>3. Len(o) \in 1 .. Len(printed) + Len(toprint) /\ ~(Len(o) <= Len(printed))
        /\ Len(o) - Len(printed) = Len(toprint) /\ Len(toprint) \in 1 .. Len(toprint)
    BY <1>2, <2>2
  <2> QED BY <1>1, <1>2, <2>3
<1> QED BY <1>1, <1>2, <1>3, <1>4, <1>5 DEF o

(* The other steps write nothing. *)
LEMMA NothingNew ==
  ASSUME Window, UNCHANGED slimVars \/ End \/ \E pg \in Pages : Line(pg) /\ Seen(pg)
  PROVE  /\ Window' /\ UNCHANGED <<tracebuffer, toprint, printed>>
         /\ input' = input \/ \E pg \in Pages : input' = Append(input, pg) /\ Seen(pg)
<1>1. /\ UNCHANGED <<tracebuffer, toprint, printed>>
      /\ input' = input \/ \E pg \in Pages : input' = Append(input, pg) /\ Seen(pg)
  BY DEF slimVars, End, Line
<1>2. CASE input' = input
  BY <1>1, <1>2 DEF Window
<1>3. ASSUME NEW pg \in Pages, input' = Append(input, pg), Seen(pg) PROVE Window'
  <2>1. input' \in Seq(Pages) /\ Len(input') = Len(input) + 1 /\ Len(input) \in Nat
    BY <1>3 DEF Window
  <2>2. toprint # <<>>
    BY <1>3 DEF Window, Seen
  <2>3. \A k \in 1 .. Len(toprint) : toprint[k].tstamp \in Nat
    BY Stamps
  <2>4. \A k \in 1 .. Len(toprint) : toprint[k].tstamp < Len(input')
    BY <2>1, <2>3 DEF Window
  <2> QED BY <1>1, <2>1, <2>2, <2>4 DEF Window
<1> QED BY <1>1, <1>2, <1>3

SlimNext == (\E pg \in Pages : Line(pg)) \/ End

(* The window starts empty. *)
LEMMA WindowStart == SlimInit => Window /\ NoRepeatInRow
<1> SUFFICES ASSUME SlimInit PROVE Window /\ NoRepeatInRow
  OBVIOUS
<1>1. input = <<>> /\ printed = <<>> /\ toprint = <<>> /\ tracebuffer = {}
  BY DEF SlimInit
<1>2. Window
  BY <1>1, FastslimAssumption DEF Window
<1>3. Output = <<>>
  BY <1>1, <1>2, ConcatEmptySeq DEF Output, Window
<1>4. Len(Output) = 0
  BY <1>3
<1> QED BY <1>2, <1>4 DEF NoRepeatInRow

(* Every line, with a new page or one that is seen, keeps the window right. *)
LEMMA WindowStep == Window /\ [SlimNext]_slimVars => Window'
BY NewPage, NothingNew DEF SlimNext

(* The window is what the script means it to be. *)
THEOREM WindowCorrect == SlimSpec => []Window
BY WindowStart, WindowStep, PTL DEF SlimSpec, SlimNext

(* The reduced trace never names a page twice in a row, whatever the input *)
(* and the buffer size: within a window each page has one entry, and the   *)
(* page that closes a window is not in it (fastslim.py:80).                *)
THEOREM ReducedTraceAlternates == SlimSpec => []NoRepeatInRow
<1>1. Window /\ NoRepeatInRow /\ [SlimNext]_slimVars => NoRepeatInRow'
  <2> SUFFICES ASSUME Window, NoRepeatInRow, [SlimNext]_slimVars PROVE NoRepeatInRow'
    OBVIOUS
  <2>1. ASSUME NEW pg \in Pages, Line(pg), ~Seen(pg) PROVE NoRepeatInRow'
    <3> DEFINE o == Output
               n == Len(Output)
    <3>1. /\ o \in Seq(Items) /\ Len(o') = n + 1 /\ n \in Nat
          /\ \A i \in 1 .. n : o'[i] = o[i]
          /\ o'[n + 1].pg = pg /\ (n # 0 => o[n].pg # pg)
          /\ \A i \in 1 .. n - 1 : o[i].pg # o[i + 1].pg
      BY <2>1, OutputGrows DEF NoRepeatInRow
    <3> HIDE DEF n, o
    <3>2. ASSUME NEW i \in 1 .. n PROVE o'[i].pg # o'[i + 1].pg
      <4>1. CASE i = n
        BY <3>1, <4>1
      <4>2. CASE i # n
        <5>1. i \in 1 .. n - 1 /\ i + 1 \in 1 .. n
          BY <3>1, <4>2
        <5> QED BY <3>1, <5>1
      <4> QED BY <4>1, <4>2
    <3>3. Len(o') - 1 = n
      BY <3>1
    <3> QED BY <3>2, <3>3 DEF NoRepeatInRow, o
  <2>2. CASE UNCHANGED slimVars \/ End \/ \E pg \in Pages : Line(pg) /\ Seen(pg)
    BY <2>2, NothingNew DEF NoRepeatInRow, Output
  <2> QED BY <2>1, <2>2 DEF SlimNext
<1> QED BY <1>1, WindowStart, WindowCorrect, PTL DEF SlimSpec, SlimNext

------------------------------------------------------------------------------
(* The pages of lines a + 1 .. i; a line covered by an entry of a set. *)
Between(s, a, i) == {s[j] : j \in a + 1 .. i}

CoveredBy(s, i, S) ==
  \E e \in S : /\ e.pg = s[i] /\ e.tstamp \in Nat /\ e.tstamp < i
               /\ Cardinality(Between(s, e.tstamp, i)) <= buffersize

Written == {printed[k] : k \in 1 .. Len(printed)}

(* The lines before the window are covered by what was written, those of   *)
(* the window have their pages in it, from an earlier line or their own.   *)
LinesCovered ==
  \A i \in 1 .. Len(input) :
    IF i <= toprint[1].tstamp
    THEN CoveredBy(input, i, Written)
    ELSE \E k \in 1 .. Len(toprint) : toprint[k].pg = input[i] /\ toprint[k].tstamp < i

(* The lines of the window are covered by its entries: between the entry   *)
(* and the line there are only pages of the window.                        *)
LEMMA WindowCovers ==
  ASSUME Window, LinesCovered, NEW i \in 1 .. Len(input), ~(i <= toprint[1].tstamp)
  PROVE  CoveredBy(input, i, tracebuffer)
<1> DEFINE n == Len(toprint)
           W == {toprint[k].pg : k \in 1 .. n}
<1>1. PICK k \in 1 .. n : toprint[k].pg = input[i] /\ toprint[k].tstamp < i
  BY DEF LinesCovered
<1>2. n \in Nat /\ n <= buffersize /\ buffersize \in Nat /\ Len(input) \in Nat
  BY FastslimAssumption DEF Window
<1>3. IsFiniteSet(W) /\ Cardinality(W) <= n /\ Cardinality(W) \in Nat
  <2> DEFINE g == [k2 \in 1 .. n |-> toprint[k2].pg]
  <2>1. g \in Surjection(1 .. n, W)
    BY DEF Surjection
  <2> HIDE DEF n
  <2>2. IsFiniteSet(1 .. n) /\ Cardinality(1 .. n) = n
    <3>1. n \in Nat
      BY <1>2
    <3> QED BY ONLY <3>1, FS_Interval
  <2> HIDE DEF g, W
  <2>3. IsFiniteSet(W) /\ Cardinality(W) <= n
    BY <2>1, <2>2, FS_Surjection
  <2> QED BY <2>3, FS_CardinalityType
<1>4. toprint[k].tstamp \in Nat /\ toprint[1].tstamp \in Nat /\ toprint[1].tstamp <= toprint[k].tstamp
  <2>1. 1 \in 1 .. n /\ (k = 1 \/ 1 < k)
    BY <1>2
  <2>2. toprint[k].tstamp \in Nat /\ toprint[1].tstamp \in Nat
    BY <2>1, Stamps
  <2>3. 1 < k => toprint[1].tstamp < toprint[k].tstamp
    BY <2>1 DEF Window
  <2> QED BY <2>1, <2>2, <2>3
<1>5. Between(input, toprint[k].tstamp, i) \subseteq W
  <2> SUFFICES ASSUME NEW j \in toprint[k].tstamp + 1 .. i PROVE input[j] \in W
    BY DEF Between
  <2>1. j \in 1 .. Len(input) /\ ~(j <= toprint[1].tstamp)
    BY <1>2, <1>4
  <2>2. PICK k2 \in 1 .. n : toprint[k2].pg = input[j]
    BY <2>1 DEF LinesCovered
  <2> QED BY <2>2
<1>6. Cardinality(Between(input, toprint[k].tstamp, i)) <= buffersize
  <2> DEFINE B == Between(input, toprint[k].tstamp, i)
  <2> HIDE DEF W, B
  <2>1. IsFiniteSet(B) /\ Cardinality(B) <= Cardinality(W)
    BY <1>3, <1>5, FS_Subset DEF B
  <2>2. Cardinality(B) \in Nat
    BY <2>1, FS_CardinalityType
  <2> QED BY <1>2, <1>3, <2>1, <2>2 DEF B
<1>7. toprint[k] \in tracebuffer
  BY DEF Window
<1> QED BY <1>1, <1>4, <1>6, <1>7 DEF CoveredBy

(* Lines that follow change nothing of this. *)
LEMMA StaysCovered ==
  ASSUME NEW s, NEW u, NEW i \in Nat, \A j \in 1 .. i : u[j] = s[j], 1 <= i,
         NEW S, CoveredBy(s, i, S), NEW T, S \subseteq T
  PROVE  CoveredBy(u, i, T)
<1>1. PICK e \in S : /\ e.pg = s[i] /\ e.tstamp \in Nat /\ e.tstamp < i
                     /\ Cardinality(Between(s, e.tstamp, i)) <= buffersize
  BY DEF CoveredBy
<1>2. Between(u, e.tstamp, i) = Between(s, e.tstamp, i)
  <2>1. \A j \in e.tstamp + 1 .. i : j \in 1 .. i
    BY <1>1
  <2> QED BY <2>1 DEF Between
<1>3. u[i] = s[i]
  OBVIOUS
<1> QED BY <1>1, <1>2, <1>3 DEF CoveredBy

(* A line whose page is in the window. *)
LEMMA SeenCovered ==
  ASSUME Window, LinesCovered, NEW pg \in Pages, Seen(pg), input' = Append(input, pg),
         UNCHANGED <<toprint, printed>>
  PROVE  LinesCovered'
<1> DEFINE m == Len(input)
<1>1. /\ m \in Nat /\ Len(input') = m + 1 /\ input'[m + 1] = pg
      /\ \A j \in 1 .. m : input'[j] = input[j]
  BY AppendProperties DEF Window
<1>2. PICK k \in 1 .. Len(toprint) : toprint[k].pg = pg
  BY DEF Seen, Window
<1>3. /\ toprint[k].tstamp < m /\ toprint[1].tstamp < m
      /\ toprint[k].tstamp \in Nat /\ toprint[1].tstamp \in Nat
  <2>1. 1 \in 1 .. Len(toprint)
    BY <1>2 DEF Window
  <2> QED BY <2>1, Stamps DEF Window
<1> HIDE DEF m
<1>4. ASSUME NEW i \in 1 .. m + 1
      PROVE  IF i <= toprint[1].tstamp
             THEN CoveredBy(input', i, Written)
             ELSE \E k2 \in 1 .. Len(toprint) :
                    toprint[k2].pg = input'[i] /\ toprint[k2].tstamp < i
  <2>1. CASE i = m + 1
    <3>1. ~(i <= toprint[1].tstamp) /\ toprint[k].tstamp < i
      BY <1>1, <1>3, <2>1
    <3> QED BY <1>1, <1>2, <2>1, <3>1
  <2>2. CASE i # m + 1
    <3>1. i \in 1 .. m /\ i \in Nat /\ 1 <= i
      BY <1>1, <2>2
    <3>2. \A j \in 1 .. i : input'[j] = input[j]
      BY <1>1, <3>1
    <3>3. CASE i <= toprint[1].tstamp
      <4>1. CoveredBy(input, i, Written)
        BY <3>1, <3>3 DEF LinesCovered, m
      <4>2. CoveredBy(input', i, Written)
        BY <3>1, <3>2, <4>1, StaysCovered
      <4> QED BY <3>3, <4>2
    <3>4. CASE ~(i <= toprint[1].tstamp)
      BY <1>1, <3>1, <3>4 DEF LinesCovered, m
    <3> QED BY <3>3, <3>4
  <2> QED BY <2>1, <2>2
<1> QED BY <1>1, <1>4 DEF LinesCovered, Written

(* A line whose page is not: it covers itself, and if it closes the window *)
(* the lines before it are covered by what is emitted.                     *)
LEMMA NewCovered ==
  ASSUME Window, LinesCovered, NEW pg \in Pages, Line(pg), ~Seen(pg)
  PROVE  LinesCovered'
<1> DEFINE m == Len(input)
           n == Len(toprint)
           ti == Entry(pg)
<1>0. /\ toprint \in Seq(Items) /\ printed \in Seq(Items) /\ ti \in Items
      /\ Emits(pg) \/ Waits(pg)
  BY NewPage DEF Window
<1>1. /\ m \in Nat /\ Len(input') = m + 1 /\ input'[m + 1] = pg
      /\ \A j \in 1 .. m : input'[j] = input[j]
  BY AppendProperties DEF Window, Line
<1>2. ti.tstamp = m /\ ti.pg = pg /\ n \in Nat
  BY <1>0 DEF Entry
<1>3. CASE Emits(pg)
  <2>1. toprint'[1] = ti /\ Len(toprint') = 1
    BY <1>3 DEF Emits
  <2>2. Written' = Written \cup tracebuffer
    <3> DEFINE q == printed \o toprint
    <3>1. /\ q \in Seq(Items) /\ Len(q) = Len(printed) + n
          /\ \A i \in 1 .. Len(printed) + n :
               q[i] = IF i <= Len(printed) THEN printed[i] ELSE toprint[i - Len(printed)]
          /\ Len(printed) \in Nat
      BY <1>0, ConcatProperties
    <3> HIDE DEF q, n
    <3>2. \A i \in 1 .. Len(q) : q[i] \in Written \cup tracebuffer
      <4> TAKE i \in 1 .. Len(q)
      <4>1. i <= Len(printed) => i \in 1 .. Len(printed)
        BY <3>1
      <4>2. ~(i <= Len(printed)) => i - Len(printed) \in 1 .. n
        BY <1>2, <3>1
      <4> QED BY <1>2, <3>1, <4>1, <4>2 DEF Written, Window, n
    <3>3. \A x \in Written \cup tracebuffer : \E i \in 1 .. Len(q) : x = q[i]
      <4>1. ASSUME NEW k \in 1 .. Len(printed)
            PROVE  k \in 1 .. Len(q) /\ q[k] = printed[k]
        BY <1>2, <3>1
      <4>2. ASSUME NEW k \in 1 .. n
            PROVE  Len(printed) + k \in 1 .. Len(q) /\ q[Len(printed) + k] = toprint[k]
        <5>1. /\ Len(printed) + k \in 1 .. Len(printed) + n
              /\ ~(Len(printed) + k <= Len(printed)) /\ Len(printed) + k - Len(printed) = k
          BY <1>2, <3>1
        <5> QED BY <3>1, <5>1
      <4>3. tracebuffer = {toprint[k] : k \in 1 .. n}
        BY DEF Window, n
      <4> QED BY <4>1, <4>2, <4>3 DEF Written
    <3>4. {q[i] : i \in 1 .. Len(q)} = Written \cup tracebuffer
      BY <3>2, <3>3
    <3> QED BY <1>3, <3>4 DEF Emits, Written, q
  <2> HIDE DEF m, n, ti
  <2>3. ASSUME NEW i \in 1 .. m PROVE CoveredBy(input', i, Written')
    <3>1. CoveredBy(input, i, Written) \/ CoveredBy(input, i, tracebuffer)
      BY WindowCovers DEF LinesCovered, m
    <3>2. i \in Nat /\ 1 <= i /\ \A j \in 1 .. i : input'[j] = input[j]
      BY <1>1
    <3> QED BY <2>2, <3>1, <3>2, StaysCovered
  <2>4. ASSUME NEW i \in 1 .. m + 1
        PROVE  IF i <= toprint'[1].tstamp
               THEN CoveredBy(input', i, Written')
               ELSE \E k \in 1 .. Len(toprint') :
                      toprint'[k].pg = input'[i] /\ toprint'[k].tstamp < i
    <3>1. CASE i \in 1 .. m
      <4>1. i <= toprint'[1].tstamp
        BY <1>1, <1>2, <2>1, <3>1
      <4> QED BY <2>3, <3>1, <4>1
    <3>2. CASE i = m + 1
      <4>1. ~(i <= toprint'[1].tstamp) /\ toprint'[1].tstamp < i /\ 1 \in 1 .. Len(toprint')
        BY <1>1, <1>2, <2>1, <3>2
      <4> QED BY <1>1, <1>2, <2>1, <3>2, <4>1
    <3> QED BY <1>1, <3>1, <3>2
  <2> QED BY <1>1, <2>4 DEF LinesCovered
<1>4. CASE Waits(pg)
  <2>1. /\ Written' = Written /\ Len(toprint') = n + 1 /\ toprint'[n + 1] = ti
        /\ \A k \in 1 .. n : toprint'[k] = toprint[k]
    BY <1>0, <1>4, AppendProperties DEF Waits, Written
  <2> HIDE DEF m, n, ti
  <2>2. toprint'[1].tstamp <= m /\ toprint'[1].tstamp \in Nat
        /\ (m # 0 => toprint'[1] = toprint[1])
    <3>1. CASE n = 0
      <4>1. toprint = <<>>
        BY <1>0, <3>1, EmptySeq DEF n
      <4>2. m = 0
        BY <4>1 DEF Window, m
      <4> QED BY <1>1, <1>2, <2>1, <3>1, <4>2
    <3>2. CASE n # 0
      <4>1. 1 \in 1 .. n
        BY <1>2, <3>2
      <4>2. toprint[1].tstamp \in Nat /\ toprint[1].tstamp < m
        BY <4>1, Stamps DEF Window, n, m
      <4> QED BY <1>1, <2>1, <4>1, <4>2
    <3> QED BY <3>1, <3>2
  <2>3. ASSUME NEW i \in 1 .. m + 1
        PROVE  IF i <= toprint'[1].tstamp
               THEN CoveredBy(input', i, Written')
               ELSE \E k \in 1 .. Len(toprint') :
                      toprint'[k].pg = input'[i] /\ toprint'[k].tstamp < i
    <3>1. CASE i = m + 1
      <4>1. ~(i <= toprint'[1].tstamp) /\ ti.tstamp < i /\ n + 1 \in 1 .. n + 1
        BY <1>1, <1>2, <2>2, <3>1
      <4> QED BY <1>1, <1>2, <2>1, <3>1, <4>1
    <3>2. CASE i # m + 1
      <4>1. i \in 1 .. m /\ i \in Nat /\ 1 <= i /\ m # 0
        BY <1>1, <3>2
      <4>2. toprint'[1] = toprint[1] /\ input'[i] = input[i]
            /\ \A j \in 1 .. i : input'[j] = input[j]
        BY <1>1, <2>2, <4>1
      <4>3. CASE i <= toprint[1].tstamp
        <5>1. CoveredBy(input, i, Written)
          BY <4>1, <4>3 DEF LinesCovered, m
        <5>2. CoveredBy(input', i, Written')
          BY <2>1, <4>1, <4>2, <5>1, StaysCovered
        <5> QED BY <4>2, <4>3, <5>2
      <4>4. CASE ~(i <= toprint[1].tstamp)
        <5>1. PICK k \in 1 .. n : toprint[k].pg = input[i] /\ toprint[k].tstamp < i
          BY <4>1, <4>4 DEF LinesCovered, m, n
        <5>2. k \in 1 .. n + 1
          BY <1>2
        <5> QED BY <2>1, <4>2, <4>4, <5>1, <5>2
      <4> QED BY <4>3, <4>4
    <3> QED BY <3>1, <3>2
  <2> QED BY <1>1, <2>3 DEF LinesCovered
<1> QED BY <1>0, <1>3, <1>4

(* What the run checks follows. *)
LEMMA CoverSuffices == Window /\ LinesCovered => EveryLineCovered
<1> SUFFICES ASSUME Window, LinesCovered, NEW i \in 1 .. Len(input)
             PROVE  \E e \in ToSet(IF toprint # <<>> /\ i <= toprint[1].tstamp
                                   THEN printed ELSE Output) :
                      /\ e.pg = input[i] /\ e.tstamp < i
                      /\ Cardinality(ToSet(SubSeq(input, e.tstamp + 1, i))) <= buffersize
  BY DEF EveryLineCovered
<1>1. /\ printed \in Seq(Items) /\ toprint \in Seq(Items) /\ input \in Seq(Pages)
      /\ Len(input) \in Nat /\ toprint # <<>>
  BY DEF Window
<1>2. ToSet(printed) = Written
  BY <1>1 DEF ToSet, Written
<1>3. tracebuffer \subseteq ToSet(Output)
  <2>1. /\ Output \in Seq(Items) /\ Len(Output) = Len(printed) + Len(toprint)
        /\ \A j \in 1 .. Len(printed) + Len(toprint) :
             Output[j] = IF j <= Len(printed) THEN printed[j] ELSE toprint[j - Len(printed)]
        /\ Len(printed) \in Nat /\ Len(toprint) \in Nat
    BY <1>1, ConcatProperties DEF Output
  <2>2. DOMAIN Output = 1 .. Len(Output)
    BY <2>1
  <2>3. ASSUME NEW k \in 1 .. Len(toprint) PROVE toprint[k] \in ToSet(Output)
    <3> DEFINE j == Len(printed) + k
    <3>1. /\ j \in 1 .. Len(printed) + Len(toprint)
          /\ ~(j <= Len(printed)) /\ j - Len(printed) = k
      BY <2>1
    <3>2. Output[j] = toprint[k] /\ j \in DOMAIN Output
      BY <2>1, <2>2, <3>1
    <3> QED BY <3>2 DEF ToSet
  <2> QED BY <2>3 DEF Window
<1>4. ASSUME NEW a \in Nat, a < i
      PROVE  ToSet(SubSeq(input, a + 1, i)) = Between(input, a, i)
  <2> DEFINE q == SubSeq(input, a + 1, i)
  <2>1. \A j \in a + 1 .. i : input[j] \in Pages
    BY <1>1, <1>4
  <2>2. /\ q \in Seq(Pages) /\ Len(q) = i - a
        /\ \A j \in 1 .. i - a : q[j] = input[a + j]
    <3>1. /\ q \in Seq(Pages) /\ Len(q) = IF a + 1 <= i THEN i - (a + 1) + 1 ELSE 0
          /\ \A j \in 1 .. i - (a + 1) + 1 : q[j] = input[a + 1 + j - 1]
      <4>1. a + 1 \in Int /\ i \in Int
        BY <1>1
      <4> QED BY <2>1, <4>1, SubSeqProperties
    <3> HIDE DEF q
    <3> QED BY <1>1, <1>4, <3>1
  <2> HIDE DEF q
  <2>3. ToSet(q) = {q[j] : j \in 1 .. i - a}
    <3>1. DOMAIN q = 1 .. Len(q)
      BY <2>2, LenProperties
    <3> QED BY <2>2, <3>1 DEF ToSet
  <2>4. \A j \in a + 1 .. i : j - a \in 1 .. i - a /\ a + (j - a) = j
    BY <1>1
  <2>5. \A j \in 1 .. i - a : a + j \in a + 1 .. i
    BY <1>1
  <2>6. {q[j] : j \in 1 .. i - a} = Between(input, a, i)
    <3>1. \A x \in {q[j] : j \in 1 .. i - a} : x \in Between(input, a, i)
      BY <2>2, <2>5 DEF Between
    <3>2. \A j \in a + 1 .. i : input[j] = q[j - a]
      BY <2>2, <2>4
    <3>3. \A x \in Between(input, a, i) : x \in {q[j] : j \in 1 .. i - a}
      BY <2>4, <3>2 DEF Between
    <3> QED BY <3>1, <3>3
  <2> QED BY <2>3, <2>6 DEF q
<1>5. CASE i <= toprint[1].tstamp
  BY <1>1, <1>2, <1>4, <1>5 DEF LinesCovered, CoveredBy
<1>6. CASE ~(i <= toprint[1].tstamp)
  <2>1. CoveredBy(input, i, tracebuffer)
    BY <1>6, WindowCovers
  <2> QED BY <1>3, <1>4, <1>6, <2>1 DEF CoveredBy
<1> QED BY <1>5, <1>6

(* Nothing is lost but repetitions, whatever the input and the buffer      *)
(* size: each line is covered by an entry for its page less than           *)
(* buffersize distinct pages away, and by one that has been printed if the *)
(* line comes before the open window.                                      *)
THEOREM NothingLost == SlimSpec => []EveryLineCovered
<1>1. SlimInit => LinesCovered
  BY DEF SlimInit, LinesCovered
<1>2. Window /\ LinesCovered /\ [SlimNext]_slimVars => LinesCovered'
  <2> SUFFICES ASSUME Window, LinesCovered, [SlimNext]_slimVars PROVE LinesCovered'
    OBVIOUS
  <2>1. ASSUME NEW pg \in Pages, Line(pg), ~Seen(pg) PROVE LinesCovered'
    BY <2>1, NewCovered
  <2>2. CASE UNCHANGED slimVars \/ End \/ \E pg \in Pages : Line(pg) /\ Seen(pg)
    <3>1. CASE input' = input
      BY <2>2, <3>1, NothingNew DEF LinesCovered, Written
    <3>2. ASSUME NEW pg \in Pages, input' = Append(input, pg), Seen(pg)
          PROVE  LinesCovered'
      BY <2>2, <3>2, NothingNew, SeenCovered
    <3> QED BY <2>2, <3>1, <3>2, NothingNew
  <2> QED BY <2>1, <2>2 DEF SlimNext
<1> QED BY <1>1, <1>2, CoverSuffices, WindowCorrect, PTL DEF SlimSpec, SlimNext
=============================================================================
