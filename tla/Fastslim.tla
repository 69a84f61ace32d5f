------------------------------ MODULE Fastslim ------------------------------
(***************************************************************************)
(* The trace reduction of Assignment2/traceprogs/fastslim.py, which writes *)
(* the traces the simulator replays.  An input line is its page; lines the *)
(* script skips are not in the input.                                      *)
(***************************************************************************)
EXTENDS Integers, Sequences, SequencesExt, FiniteSets

CONSTANTS Pages,
          buffersize,   \* -b: number of entries of the trace buffer
          InputLen      \* bound: number of lines of the input

ASSUME FastslimAssumption ==
  buffersize \in Nat \ {0} /\ InputLen \in Nat

VARIABLES
  input,        \* the pages read so far; a timestamp is a place in it
  tracebuffer,  \* the entries of the window, one per page
  toprint,      \* the entries waiting to be printed
  printed,      \* the output
  ended         \* the input is over

slimVars == <<input, tracebuffer, toprint, printed, ended>>

SlimInit ==
  /\ input = <<>> /\ tracebuffer = {} /\ toprint = <<>> /\ printed = <<>>
  /\ ended = FALSE

(* Mutated form: the entries are compared, not their pages. *)
SameEntry(pg) == \E ti \in tracebuffer : ti.pg = pg /\ ti.tstamp = Len(input)

(* TraceItem.__eq__ compares the pages. *)
Seen(pg) == \E ti \in tracebuffer : ti.pg = pg

(* Mutated form: what is printed is one entry short. *)
AllButLast == Front(toprint)

(* toprint.sort by timestamp, which is stable. *)
InOrder(s) ==
  LET Before(i) == {j \in 1 .. Len(s) :
                      \/ s[j].tstamp < s[i].tstamp
                      \/ s[j].tstamp = s[i].tstamp /\ j < i}
  IN  [k \in 1 .. Len(s) |->
         s[CHOOSE i \in 1 .. Len(s) : Cardinality(Before(i)) = k - 1]]

(* emit_marked_in_ts_order: the list that is printed. *)
Emission ==
  InOrder(toprint \o SetToSeq({ti \in tracebuffer : ti.marked}))

(* One line.  When its page is in the window, the entry that is marked and *)
(* stamped is the new one, which is in no list.                            *)
Line(pg) ==
  LET ti == [pg |-> pg, tstamp |-> Len(input), marked |-> FALSE]
  IN  /\ ~ended /\ Len(input) < InputLen
      /\ input' = Append(input, pg)
      /\ IF Seen(pg)
         THEN UNCHANGED <<tracebuffer, toprint, printed>>
         ELSE IF Cardinality(tracebuffer) = buffersize
         THEN /\ printed' = printed \o Emission
              /\ tracebuffer' = {ti}
              /\ toprint' = <<ti>>
         ELSE /\ tracebuffer' = tracebuffer \cup {ti}
              /\ toprint' = Append(toprint, ti)
              /\ UNCHANGED printed
      /\ UNCHANGED ended

(* After the last line the script is over. *)
End ==
  /\ ~ended
  /\ ended' = TRUE
  /\ UNCHANGED <<input, tracebuffer, toprint, printed>>

SlimSpec == SlimInit /\ [][(\E pg \in Pages : Line(pg)) \/ End]_slimVars

------------------------------------------------------------------------------
Output == printed \o toprint

(* The reduced trace never names a page twice in a row, not even across    *)
(* two windows: lru_ref of the simulator relies on it (lru.c:51).          *)
NoRepeatInRow ==
  \A i \in 1 .. Len(Output) - 1 : Output[i].pg # Output[i + 1].pg

(* Nothing is lost but repetitions: every line's page is written, or waits *)
(* to be, with the timestamp of that line or of one before it that is less *)
(* than buffersize distinct pages away.  The lines before the open window  *)
(* are covered by what was written: if the input ends (fastslim.py:84),    *)
(* the last window is all that is lost.                                    *)
EveryLineCovered ==
  \A i \in 1 .. Len(input) :
    \E e \in ToSet(IF toprint # <<>> /\ i <= toprint[1].tstamp THEN printed ELSE Output) :
      /\ e.pg = input[i] /\ e.tstamp < i
      /\ Cardinality(ToSet(SubSeq(input, e.tstamp + 1, i))) <= buffersize

(* `There may be marked items in the trace buffer' (fastslim.py:39): an    *)
(* entry whose page was referenced again is marked.                        *)
RepeatsAreMarked ==
  \A ti \in tracebuffer :
    (\E i \in ti.tstamp + 2 .. Len(input) : input[i] = ti.pg) => ti.marked

(* `The list is then sorted by timestamp and printed' (fastslim.py:43).    *)
AllPrinted == ended => toprint = <<>>
==============================================================================
