------------------------- MODULE SwapBitmap_proofs -------------------------
(***************************************************************************)
(* Proof that the words of the swap bitmap implement a pool of slots, for  *)
(* every word size and every number of slots.                              *)
(***************************************************************************)
EXTENDS SwapBitmap, WellFoundedInduction, TLAPS

(* Division by the word size and its remainder. *)
LEMMA Division ==
  ASSUME NEW b \in Nat \ {0}, NEW a \in Nat
  PROVE  /\ a \div b \in Nat /\ a % b \in 0 .. b - 1
         /\ a = (a \div b) * b + (a % b)
OBVIOUS

(* Quotient and remainder by a word's width are the ones it was made of. *)
LEMMA DivisionUnique ==
  ASSUME NEW b \in Nat \ {0}, NEW x \in Nat, NEW o \in 0 .. b - 1
  PROVE  (x * b + o) \div b = x /\ (x * b + o) % b = o
OBVIOUS

(* A word with index below DIVROUNDUP starts before the last slot, and the *)
(* word of a slot is below DIVROUNDUP.                                     *)
LEMMA WordsCover ==
  ASSUME NEW b \in Nat \ {0}, NEW n \in Nat, NEW x \in Nat
  PROVE  x < (n + b - 1) \div b <=> x * b < n
<1> DEFINE m == n + b - 1
           d == m \div b
<1>1. m \in Nat
  OBVIOUS
<1>2. d \in Nat /\ m % b \in 0 .. b - 1 /\ m = d * b + (m % b)
  BY <1>1, Division
<1> HIDE DEF d
<1>3. CASE x < d
  <2>1. x + 1 <= d
    BY <1>2, <1>3
  <2>2. (x + 1) * b <= d * b
    BY <1>2, <2>1
  <2> QED BY <1>2, <1>3, <2>2 DEF d
<1>4. CASE ~(x < d)
  <2>1. d * b <= x * b
    BY <1>2, <1>4
  <2> QED BY <1>2, <1>4, <2>1 DEF d
<1> QED BY <1>3, <1>4

(* The first bit that is 0 is found whenever there is one. *)
LEMMA MinIn ==
  ASSUME NEW S \in SUBSET Nat, S # {}
  PROVE  Min(S) \in S
<1> DEFINE R == {ss \in Nat \X Nat : ss[1] < ss[2]}
<1>1. IsWellFoundedOn(R, Nat)
  BY NatLessThanWellFounded DEF OpToRel
<1>2. PICK x \in S : \A y \in S : ~(<<y, x>> \in R)
  <2> HIDE DEF R
  <2> QED BY <1>1, WFMin
<1>3. ASSUME NEW y \in S PROVE x <= y
  <2>1. x \in Nat /\ y \in Nat /\ <<y, x>> \in Nat \X Nat
    OBVIOUS
  <2>2. <<y, x>>[1] = y /\ <<y, x>>[2] = x
    OBVIOUS
  <2>3. ~(y < x)
    BY <1>2, <2>1, <2>2
  <2> QED BY <2>1, <2>3
<1>4. \E i \in S : \A j \in S : i <= j
  BY <1>3
<1> HIDE DEF R
<1> QED BY <1>4 DEF Min

------------------------------------------------------------------------------
(* Every bit that stands for no slot is 1, so bitmap_alloc cannot find it. *)
SpareBitsSet ==
  \A ix \in WordIndices(nbits) : \A o \in Offsets :
    ix * BITS_PER_WORD + o >= nbits => o \in v[ix]

BitmapInv ==
  /\ nbits \in Nat
  /\ v \in [WordIndices(nbits) -> SUBSET Offsets]
  /\ SpareBitsSet

Taken == {i \in 0 .. nbits - 1 : bitmap_isset(i)}

(* Slots and bits correspond. *)
LEMMA BitOfSlot ==
  ASSUME NEW n \in Nat, NEW i \in 0 .. n - 1
  PROVE  /\ Word(i) \in WordIndices(n) /\ Bit(i) \in Offsets
         /\ i = Word(i) * BITS_PER_WORD + Bit(i)
<1> DEFINE b == BITS_PER_WORD
           x == Word(i)
<1>1. b \in Nat \ {0} /\ i \in Nat
  BY SwapBitmapAssumption
<1>2. x \in Nat /\ Bit(i) \in 0 .. b - 1 /\ i = x * b + Bit(i)
  BY <1>1, Division DEF Word, Bit
<1> HIDE DEF x
<1>3. x * b < n
  <2>1. x * b \in Nat
    BY <1>1, <1>2
  <2> QED BY <1>1, <1>2, <2>1
<1>4. x < DIVROUNDUP(n, b) /\ DIVROUNDUP(n, b) \in Nat
  <2>1. n + b - 1 \in Nat
    BY <1>1
  <2> QED BY <1>1, <1>2, <1>3, <2>1, WordsCover, Division DEF DIVROUNDUP
<1> QED BY <1>2, <1>4 DEF WordIndices, Offsets, x

(* A word and a bit of it make a slot whose word and bit they are. *)
LEMMA SlotOfBit ==
  ASSUME NEW n \in Nat, NEW ix \in WordIndices(n), NEW o \in Offsets
  PROVE  LET s == ix * BITS_PER_WORD + o
         IN  s \in Nat /\ Word(s) = ix /\ Bit(s) = o
<1> DEFINE b == BITS_PER_WORD
<1>1. b \in Nat \ {0} /\ ix \in Nat /\ o \in 0 .. b - 1
  BY SwapBitmapAssumption DEF WordIndices, Offsets
<1>2. ix * b \in Nat
  BY <1>1
<1>3. (ix * b + o) \div b = ix /\ (ix * b + o) % b = o
  BY <1>1, DivisionUnique
<1> QED BY <1>1, <1>2, <1>3 DEF Word, Bit

(* Setting and clearing the bit of a slot. *)
LEMMA SetBit ==
  ASSUME BitmapInv, nbits' = nbits, NEW s \in 0 .. nbits - 1,
         v' = [v EXCEPT ![Word(s)] = @ \cup {Bit(s)}]
  PROVE  BitmapInv' /\ Taken' = Taken \cup {s}
<1>1. /\ Word(s) \in WordIndices(nbits) /\ Bit(s) \in Offsets
      /\ s = Word(s) * BITS_PER_WORD + Bit(s)
  BY BitOfSlot DEF BitmapInv
<1>2. ASSUME NEW i \in 0 .. nbits - 1
      PROVE  bitmap_isset(i)' <=> bitmap_isset(i) \/ i = s
  <2>1. /\ Word(i) \in WordIndices(nbits)
        /\ i = Word(i) * BITS_PER_WORD + Bit(i)
    BY BitOfSlot DEF BitmapInv
  <2> QED BY <1>1, <2>1 DEF bitmap_isset, BitmapInv
<1>3. BitmapInv'
  BY <1>1 DEF BitmapInv, SpareBitsSet
<1> QED BY <1>2, <1>3 DEF Taken

(* Clearing the bit of a slot frees that slot only. *)
LEMMA ClearBit ==
  ASSUME BitmapInv, nbits' = nbits, NEW s \in 0 .. nbits - 1,
         v' = [v EXCEPT ![Word(s)] = @ \ {Bit(s)}]
  PROVE  BitmapInv' /\ Taken' = Taken \ {s}
<1>1. /\ Word(s) \in WordIndices(nbits) /\ Bit(s) \in Offsets
      /\ s = Word(s) * BITS_PER_WORD + Bit(s)
  BY BitOfSlot DEF BitmapInv
<1>2. ASSUME NEW i \in 0 .. nbits - 1
      PROVE  bitmap_isset(i)' <=> bitmap_isset(i) /\ i # s
  <2>1. /\ Word(i) \in WordIndices(nbits)
        /\ i = Word(i) * BITS_PER_WORD + Bit(i)
    BY BitOfSlot DEF BitmapInv
  <2> QED BY <1>1, <2>1 DEF bitmap_isset, BitmapInv
<1>3. /\ nbits' \in Nat /\ v' \in [WordIndices(nbits') -> SUBSET Offsets]
  BY <1>1 DEF BitmapInv
<1>4. SpareBitsSet'
  <2> SUFFICES ASSUME NEW ix \in WordIndices(nbits), NEW o \in Offsets,
                      ix * BITS_PER_WORD + o >= nbits
               PROVE  o \in v'[ix]
    BY DEF SpareBitsSet
  <2>1. o \in v[ix]
    BY DEF BitmapInv, SpareBitsSet
  <2>2. ~(ix = Word(s) /\ o = Bit(s))
    BY <1>1 DEF BitmapInv
  <2> QED BY <1>1, <2>1, <2>2 DEF BitmapInv
<1> QED BY <1>2, <1>3, <1>4 DEF Taken, BitmapInv

(* What bitmap_alloc answers. *)
LEMMA AllocIsPoolStep ==
  ASSUME BitmapInv, bitmap_alloc
  PROVE  /\ BitmapInv'
         /\ \/ /\ Taken = 0 .. nbits - 1 /\ index' = Refused /\ Taken' = Taken
            \/ \E s \in (0 .. nbits - 1) \ Taken : Taken' = Taken \cup {s} /\ index' = s
<1> DEFINE b == BITS_PER_WORD
<1>1. /\ nbits' = nbits /\ nbits \in Nat /\ DOMAIN v = WordIndices(nbits)
      /\ b \in Nat \ {0}
  BY SwapBitmapAssumption DEF bitmap_alloc, BitmapInv
<1>2. CASE NotFull = {}
  <2>1. index' = Refused /\ v' = v
    BY <1>2 DEF bitmap_alloc
  <2>2. Taken' = Taken /\ BitmapInv'
    BY <1>1, <2>1 DEF Taken, bitmap_isset, BitmapInv, SpareBitsSet
  <2>3. ASSUME NEW i \in 0 .. nbits - 1 PROVE bitmap_isset(i)
    BY <1>1, <1>2, BitOfSlot DEF NotFull, bitmap_isset
  <2> QED BY <2>1, <2>2, <2>3 DEF Taken
<1>3. CASE NotFull # {}
  <2> DEFINE ix == Min(NotFull)
             o == Min(Offsets \ v[ix])
             s == ix * b + o
  <2>1. NotFull \in SUBSET Nat /\ NotFull \subseteq WordIndices(nbits)
    BY <1>1 DEF NotFull, WordIndices
  <2>2. ix \in NotFull /\ ix \in WordIndices(nbits) /\ v[ix] # Offsets /\ v[ix] \subseteq Offsets
    BY <1>3, <2>1, MinIn DEF NotFull, BitmapInv
  <2>3. Offsets \ v[ix] \in SUBSET Nat /\ Offsets \ v[ix] # {}
    <3>1. Offsets \subseteq Nat
      BY <1>1 DEF Offsets
    <3> QED BY <2>2, <3>1
  <2>4. o \in Offsets \ v[ix]
    BY <2>3, MinIn
  <2>5. v' = [v EXCEPT ![ix] = @ \cup {o}] /\ index' = s
    BY <1>3 DEF bitmap_alloc
  <2> HIDE DEF ix, o
  <2>6. s \in Nat /\ Word(s) = ix /\ Bit(s) = o
    BY <1>1, <2>2, <2>4, SlotOfBit
  <2>7. s \in 0 .. nbits - 1
    <3>1. ~(s >= nbits)
      BY <2>2, <2>4 DEF BitmapInv, SpareBitsSet
    <3> QED BY <1>1, <2>6, <3>1
  <2> HIDE DEF s
  <2>8. BitmapInv' /\ Taken' = Taken \cup {s}
    BY <1>1, <2>5, <2>6, <2>7, SetBit
  <2>9. s \notin Taken
    BY <2>4, <2>6 DEF Taken, bitmap_isset
  <2> QED BY <2>5, <2>7, <2>8, <2>9
<1> QED BY <1>2, <1>3

PoolStep == UNCHANGED nbits /\ (Slots!Take \/ Slots!Refuse \/ Slots!Claim \/ Slots!Return)

(* Every call on the bitmap is a step of the pool, and keeps the spare bits. *)
LEMMA BitmapStep ==
  ASSUME BitmapInv, [BitmapNext]_bitmapVars
  PROVE  BitmapInv' /\ [PoolStep]_(<<nbits, Taken, index>>)
<1>1. CASE UNCHANGED bitmapVars
  BY <1>1 DEF bitmapVars, BitmapInv, SpareBitsSet, Taken, bitmap_isset
<1>2. CASE bitmap_alloc
  <2>1. BitmapInv' /\ nbits' = nbits
    BY <1>2, AllocIsPoolStep DEF bitmap_alloc
  <2>2. Slots!Take \/ Slots!Refuse
    BY <1>2, AllocIsPoolStep DEF Slots!Take, Slots!Refuse, Slots!Pool, Taken
  <2> QED BY <2>1, <2>2 DEF PoolStep
<1>3. ASSUME NEW i \in 0 .. nbits - 1, bitmap_mark(i) PROVE BitmapInv' /\ PoolStep
  <2>1. /\ nbits' = nbits /\ index' = index /\ ~bitmap_isset(i)
        /\ BitmapInv' /\ Taken' = Taken \cup {i}
    BY <1>3, SetBit DEF bitmap_mark
  <2>2. Slots!Claim
    BY <2>1 DEF Slots!Claim, Slots!Pool, Taken
  <2> QED BY <2>1, <2>2 DEF PoolStep
<1>4. ASSUME NEW i \in 0 .. nbits - 1, bitmap_unmark(i) PROVE BitmapInv' /\ PoolStep
  <2>1. /\ nbits' = nbits /\ index' = index /\ bitmap_isset(i)
        /\ BitmapInv' /\ Taken' = Taken \ {i}
    BY <1>4, ClearBit DEF bitmap_unmark
  <2>2. Slots!Return
    BY <2>1 DEF Slots!Return, Taken
  <2> QED BY <2>1, <2>2 DEF PoolStep
<1> QED BY <1>1, <1>2, <1>3, <1>4 DEF BitmapNext

(* bitmap_init marks the spare bits and no others. *)
LEMMA BitmapStart == BitmapInit => BitmapInv /\ Slots!PoolInit
<1> SUFFICES ASSUME BitmapInit PROVE BitmapInv /\ Slots!PoolInit
  OBVIOUS
<1>1. nbits \in Nat /\ v = bitmap_create(nbits) /\ index = Refused
  BY SwapBitmapAssumption DEF BitmapInit
<1>2. BitmapInv
  BY <1>1 DEF BitmapInv, SpareBitsSet, bitmap_create
<1>3. ASSUME NEW i \in 0 .. nbits - 1 PROVE ~bitmap_isset(i)
  <2>1. /\ Word(i) \in WordIndices(nbits) /\ Bit(i) \in Offsets
        /\ i = Word(i) * BITS_PER_WORD + Bit(i)
    BY <1>1, BitOfSlot
  <2> QED BY <1>1, <2>1 DEF bitmap_isset, bitmap_create
<1> QED BY <1>1, <1>2, <1>3 DEF Slots!PoolInit

(* The spare bits of the last word stay 1 in every run of the bitmap. *)
THEOREM SpareBitsStaySet == BitmapSpec => []BitmapInv
<1>1. BitmapInv /\ [BitmapNext]_bitmapVars => BitmapInv'
  BY BitmapStep
<1> QED BY <1>1, BitmapStart, PTL DEF BitmapSpec

(* bitmap_alloc, bitmap_mark and bitmap_unmark implement the pool for      *)
(* every word size and every number of slots: no slot is given twice, none *)
(* is withheld, and none past the end of the swap file is handed out.      *)
THEOREM BitmapImplementsPool == BitmapSpec => ImplementsPool
<1>1. BitmapInv /\ [BitmapNext]_bitmapVars => [PoolStep]_(<<nbits, Taken, index>>)
  BY BitmapStep
<1> QED BY <1>1, BitmapStart, SpareBitsStaySet, PTL
        DEF BitmapSpec, ImplementsPool, Slots!PoolSpec, Slots!slotVars, PoolStep, Taken
=============================================================================
