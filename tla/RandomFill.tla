------------------------------ MODULE RandomFill ------------------------------
(***************************************************************************)
(* gen_rand_no_entropy_util: the function that every seed, every master    *)
(* key and every proof of work draws its random bytes from.                *)
(*                                                                         *)
(*    while ((rnd_sz+=fread(output+rnd_sz, 1, left, f))<output_len)        *)
(*       left-=rnd_sz;                                                     *)
(*                                                                         *)
(* fread may deliver less than it was asked for (an interrupted or failed  *)
(* read); the loop is there for that case.  It subtracts the TOTAL from    *)
(* left at every turn, not what the last fread delivered.                  *)
(***************************************************************************)
EXTENDS Integers

CONSTANTS
    MaxLen,     \* bound: the largest output_len asked for
    SizeMod,    \* one more than the largest size_t
    MaxShort    \* bound: the short reads during one call

ASSUME FillAssumption ==
    /\ MaxLen \in Nat
    /\ SizeMod \in Nat
    /\ MaxLen < SizeMod
    /\ MaxShort \in Nat

VARIABLES
    pc,         \* idle | open | reading | returned
    opened,     \* /dev/urandom could be opened
    output_len,
    rnd_sz,
    left,
    top,        \* bytes of memory written from output on
    short       \* short reads of this call

vars == <<pc, opened, output_len, rnd_sz, left, top, short>>

Init ==
    /\ pc = "idle"
    /\ opened = FALSE
    /\ output_len = 0 /\ rnd_sz = 0 /\ left = 0 /\ top = 0 /\ short = 0

\* (mutant) left starts one too low, with no room for that in the type.
Ask_one_less ==
    /\ pc \in {"idle", "returned"}
    /\ pc' = "open"
    /\ opened' = FALSE
    /\ output_len' \in 0..MaxLen
    /\ rnd_sz' = 0
    /\ left' = output_len' - 1
    /\ top' = 0
    /\ short' = 0

\* The crypto library asks for n random bytes.
Ask ==
    /\ pc \in {"idle", "returned"}
    /\ pc' = "open"
    /\ opened' = FALSE
    /\ output_len' \in 0..MaxLen
    /\ rnd_sz' = 0
    /\ left' = output_len'
    /\ top' = 0
    /\ short' = 0

CannotOpen ==
    /\ pc = "open"
    /\ pc' = "returned"
    /\ UNCHANGED <<opened, output_len, rnd_sz, left, top, short>>

Open ==
    /\ pc = "open"
    /\ pc' = "reading"
    /\ opened' = TRUE
    /\ UNCHANGED <<output_len, rnd_sz, left, top, short>>

\* (mutants) left is not reduced; the loop is an if; rnd_sz is assigned.
Deliver_asks_again(n) ==
    LET total == (rnd_sz + n) % SizeMod
    IN  /\ rnd_sz' = total
        /\ top' = rnd_sz + n
        /\ pc' = IF total < output_len THEN pc ELSE "returned"
        /\ UNCHANGED left

Deliver_once(n) ==
    /\ rnd_sz' = rnd_sz + n
    /\ top' = rnd_sz + n
    /\ pc' = "returned"
    /\ UNCHANGED left

Deliver_assigns(n) ==
    /\ rnd_sz' = n
    /\ top' = rnd_sz + n
    /\ IF n < output_len
         THEN left' = (left - n) % SizeMod /\ UNCHANGED pc
         ELSE pc' = "returned" /\ UNCHANGED left

\* The body of the loop, for an fread that delivers n bytes.
Deliver(n) ==
    LET total == (rnd_sz + n) % SizeMod
    IN  /\ rnd_sz' = total
        /\ top' = rnd_sz + n
        /\ IF total < output_len
             THEN left' = (left - total) % SizeMod /\ UNCHANGED pc
             ELSE pc' = "returned" /\ UNCHANGED left

\* A write past the end of output ends what can be said of the program.
Reading == pc = "reading" /\ top <= output_len

Read ==
    /\ Reading
    /\ Deliver(left)
    /\ UNCHANGED <<opened, output_len, short>>

ReadShort ==
    /\ Reading
    /\ short < MaxShort
    /\ left > 0
    /\ \E n \in 0..left - 1 : Deliver(n)
    /\ short' = short + 1
    /\ UNCHANGED <<opened, output_len>>

Next == Ask \/ CannotOpen \/ Open \/ Read \/ ReadShort

\* The function runs until it returns; nobody has to call it.
Fairness == WF_vars(CannotOpen \/ Open \/ Read \/ ReadShort)

Spec == Init /\ [][Next]_vars /\ Fairness

----------------------------------------------------------------------------
(* Properties.                                                             *)

\* The counters of the loop stay what a size_t can hold, and a call has at most
\* MaxShort short reads.
TypeOK ==
    /\ pc \in {"idle", "open", "reading", "returned"}
    /\ opened \in BOOLEAN
    /\ output_len \in 0..MaxLen
    /\ rnd_sz \in 0..SizeMod - 1
    /\ left \in 0..SizeMod - 1
    /\ top \in Nat
    /\ short \in 0..MaxShort

\* The loop of gen_rand_no_entropy_util asks fread for no more than is left: no
\* byte outside the caller's buffer is written.
StaysInside == top <= output_len

\* A call of gen_rand_no_entropy_util that could open the device
\* returns with the whole buffer filled.
FilledIfOpened == pc = "returned" /\ opened => top = output_len

\* What f_util.h promises of f_random: random_sz is the `Size of random data
\* to be filled', and f_random returns nothing a caller could look at.
FilledAsAsked == pc = "returned" => top = output_len

\* Every call of gen_rand_no_entropy_util returns: the loop ends.
FillReturns == pc = "open" ~> pc = "returned"

==============================================================================
