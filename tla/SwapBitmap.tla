----------------------------- MODULE SwapBitmap -----------------------------
(***************************************************************************)
(* The bitmap of swap slots (swap.c): an array of words, of which the last *)
(* may have more bits than there are slots.  A word is the set of its bits *)
(* that are 1.                                                             *)
(***************************************************************************)
EXTENDS Integers, FiniteSetsExt

CONSTANTS BITS_PER_WORD,
          MaxBits,      \* bound: bitmaps of 0 .. MaxBits bits
          Refused       \* bitmap_alloc returned 1

ASSUME SwapBitmapAssumption ==
  /\ BITS_PER_WORD \in Nat \ {0}
  /\ MaxBits \in Nat
  /\ Refused \notin Nat

VARIABLES nbits,    \* the argument of bitmap_create
          v,        \* the words
          index     \* what bitmap_alloc returned last

bitmapVars == <<nbits, v, index>>

DIVROUNDUP(a, b) == (a + b - 1) \div b

Offsets == 0 .. BITS_PER_WORD - 1
WordIndices(n) == 0 .. DIVROUNDUP(n, BITS_PER_WORD) - 1

(* Mutated form: the bits that stand for no slot are left 0. *)
AllClear(n) == [ix \in WordIndices(n) |-> {}]

(* bitmap_create: the bits past nbits are marked in use. *)
bitmap_create(n) ==
  [ix \in WordIndices(n) |-> {o \in Offsets : ix * BITS_PER_WORD + o >= n}]

BitmapInit ==
  /\ nbits \in 0 .. MaxBits
  /\ v = bitmap_create(nbits)
  /\ index = Refused

(* The words that are not WORD_ALLBITS. *)
NotFull == {ix \in DOMAIN v : v[ix] # Offsets}

(* bitmap_alloc: the first 0 bit of the first word that has one. *)
bitmap_alloc ==
  /\ IF NotFull = {}
     THEN index' = Refused /\ UNCHANGED v
     ELSE LET ix == Min(NotFull)
              offset == Min(Offsets \ v[ix])
          IN  /\ v' = [v EXCEPT ![ix] = @ \cup {offset}]
              /\ index' = ix * BITS_PER_WORD + offset
  /\ UNCHANGED nbits

(* bitmap_translate, bitmap_isset. *)
Word(i) == i \div BITS_PER_WORD
Bit(i)  == i % BITS_PER_WORD
bitmap_isset(i) == Bit(i) \in v[Word(i)]

(* bitmap_mark and bitmap_unmark, called as their assertions demand. *)
bitmap_mark(i) ==
  /\ ~bitmap_isset(i)
  /\ v' = [v EXCEPT ![Word(i)] = @ \cup {Bit(i)}]
  /\ UNCHANGED <<nbits, index>>

bitmap_unmark(i) ==
  /\ bitmap_isset(i)
  /\ v' = [v EXCEPT ![Word(i)] = @ \ {Bit(i)}]
  /\ UNCHANGED <<nbits, index>>

BitmapNext ==
  \/ bitmap_alloc
  \/ \E i \in 0 .. nbits - 1 : bitmap_mark(i) \/ bitmap_unmark(i)

BitmapSpec == BitmapInit /\ [][BitmapNext]_bitmapVars

------------------------------------------------------------------------------
Slots == INSTANCE SlotPool WITH size <- nbits, answer <- index,
           taken <- {i \in 0 .. nbits - 1 : bitmap_isset(i)}

(* No slot is given twice, none is withheld and none past the end of the   *)
(* swap file is handed out, as bitmap_alloc asserts (swap.c:79): the words *)
(* implement the pool at every size, multiples of the word or not.         *)
ImplementsPool == Slots!PoolSpec
==============================================================================
