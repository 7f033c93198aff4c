--------------------------- MODULE RandomFillProofs ---------------------------
(***************************************************************************)
(* How far gen_rand_no_entropy_util can be trusted: a call to its first    *)
(* short read, whatever happened in other calls, and no further            *)
(* (fill_twice_short); what upsets its accounts, and what ends its loop.   *)
(***************************************************************************)
EXTENDS RandomFill, TLAPS

----------------------------------------------------------------------------
(* Arithmetic of a size_t.                                                 *)

\* A number below the modulus is its own remainder.
LEMMA SmallMod ==
    ASSUME NEW x \in Nat, NEW m \in Nat, x < m
    PROVE  x % m = x
OBVIOUS

\* A remainder is a number below the modulus.
LEMMA Remainder ==
    ASSUME NEW x \in Int
    PROVE  x % SizeMod \in 0..SizeMod - 1
  BY FillAssumption

----------------------------------------------------------------------------
(* Types, for any number of short reads.                                   *)

LEMMA TypeInit ==
    Init => TypeOK
<1>1. 0 \in 0..SizeMod - 1 /\ 0 \in 0..MaxLen /\ 0 \in 0..MaxShort
  BY FillAssumption
<1> SUFFICES ASSUME Init PROVE TypeOK
  OBVIOUS
<1> QED
  BY <1>1 DEF Init, TypeOK

\* The body of the loop keeps the types, whatever fread delivers.
LEMMA DeliverType ==
    ASSUME TypeOK, pc = "reading", NEW n \in Nat, Deliver(n)
    PROVE  /\ pc' \in {"reading", "returned"}
           /\ rnd_sz' \in 0..SizeMod - 1
           /\ left' \in 0..SizeMod - 1
           /\ top' \in Nat
<1> DEFINE total == (rnd_sz + n) % SizeMod
<1>1. rnd_sz \in Nat /\ left \in Nat
  BY FillAssumption DEF TypeOK
<1>2. rnd_sz + n \in Nat /\ rnd_sz + n \in Int
  BY <1>1
<1>3. total \in 0..SizeMod - 1 /\ total \in Int
  BY <1>2, Remainder
<1>4. left - total \in Int
  BY <1>1, <1>3
<1>5. (left - total) % SizeMod \in 0..SizeMod - 1
  BY <1>4, Remainder
<1> QED
  BY <1>2, <1>3, <1>5 DEF Deliver, TypeOK

LEMMA TypeStep ==
    ASSUME TypeOK, [Next]_vars
    PROVE  TypeOK'
<1> USE FillAssumption
<1>1. ASSUME Ask PROVE TypeOK'
  <2>1. /\ pc' = "open" /\ opened' = FALSE
        /\ output_len' \in 0..MaxLen
        /\ rnd_sz' = 0 /\ left' = output_len' /\ top' = 0 /\ short' = 0
    BY <1>1 DEF Ask
  <2>2. left' \in 0..SizeMod - 1 /\ 0 \in 0..SizeMod - 1 /\ 0 \in 0..MaxShort
    BY <2>1
  <2> QED
    BY <2>1, <2>2 DEF TypeOK
<1>2. ASSUME CannotOpen PROVE TypeOK'
  BY <1>2 DEF CannotOpen, TypeOK
<1>3. ASSUME Open PROVE TypeOK'
  BY <1>3 DEF Open, TypeOK
<1>4. ASSUME Read PROVE TypeOK'
  <2>1. left \in Nat /\ pc = "reading" /\ Deliver(left)
    BY <1>4 DEF Read, Reading, TypeOK
  <2> QED
    BY <1>4, <2>1, DeliverType DEF Read, TypeOK
<1>5. ASSUME ReadShort PROVE TypeOK'
  <2>1. PICK n \in 0..left - 1 : Deliver(n)
    BY <1>5 DEF ReadShort
  <2>2. n \in Nat /\ pc = "reading"
    BY <1>5, <2>1 DEF ReadShort, Reading
  <2>3. short' \in 0..MaxShort
    BY <1>5 DEF ReadShort, TypeOK
  <2> QED
    BY <1>5, <2>1, <2>2, <2>3, DeliverType DEF ReadShort, TypeOK
<1>6. ASSUME UNCHANGED vars PROVE TypeOK'
  BY <1>6 DEF vars, TypeOK
<1> QED
  BY <1>1, <1>2, <1>3, <1>4, <1>5, <1>6 DEF Next

\* The counters stay what a size_t holds, for any number of short reads.
THEOREM FillTypeCorrect ==
    Spec => []TypeOK
  BY TypeInit, TypeStep, PTL DEF Spec

----------------------------------------------------------------------------
(* A call with at most one short read.                                     *)

\* While the loop reads, what it read and what it still asks for make up the
\* whole buffer.  It is a second short read that breaks this.
Accounted ==
    /\ pc = "open" => top = 0 /\ rnd_sz = 0 /\ left = output_len /\ ~opened
    /\ pc = "reading" => top = rnd_sz /\ rnd_sz + left = output_len
    /\ pc = "reading" /\ short = 0 => rnd_sz = 0
    /\ top <= output_len
    /\ pc = "returned" /\ opened => top = output_len

\* Earlier calls do not count: each starts with an account of its own.
OnceShort ==
    /\ pc \in {"open", "idle"} => short = 0
    /\ short <= 1 => Accounted

LEMMA OnceShortInit ==
    Init => OnceShort
  BY DEF Init, OnceShort, Accounted

LEMMA OnceShortStep ==
    ASSUME TypeOK, OnceShort, [Next]_vars
    PROVE  OnceShort'
<1> USE FillAssumption
<1>1. ASSUME Ask PROVE OnceShort'
  <2>1. /\ pc' = "open" /\ opened' = FALSE
        /\ output_len' \in 0..MaxLen
        /\ rnd_sz' = 0 /\ left' = output_len' /\ top' = 0 /\ short' = 0
    BY <1>1 DEF Ask
  <2> QED
    BY <2>1 DEF OnceShort, Accounted
<1>2. ASSUME CannotOpen PROVE OnceShort'
  BY <1>2 DEF CannotOpen, TypeOK, OnceShort, Accounted
<1>3. ASSUME Open PROVE OnceShort'
  BY <1>3 DEF Open, TypeOK, OnceShort, Accounted
<1>4. ASSUME Read PROVE OnceShort'
  <2>1. /\ short' = short /\ output_len' = output_len /\ pc = "reading"
        /\ pc' \in {"reading", "returned"} /\ Deliver(left)
    BY <1>4 DEF Read, Reading, Deliver
  <2>2. ASSUME short <= 1 PROVE Accounted'
    <3>1. rnd_sz + left = output_len /\ output_len \in Nat /\ output_len < SizeMod
      BY <2>1, <2>2 DEF TypeOK, OnceShort, Accounted
    <3>2. (rnd_sz + left) % SizeMod = output_len
      BY <3>1, SmallMod
    <3> QED
      BY <1>4, <2>1, <3>1, <3>2 DEF Read, Deliver, TypeOK, Accounted
  <2> QED
    BY <2>1, <2>2 DEF OnceShort
<1>5. ASSUME ReadShort PROVE OnceShort'
  <2>1. PICK n \in 0..left - 1 : Deliver(n)
    BY <1>5 DEF ReadShort
  <2>2. /\ short' = short + 1 /\ pc = "reading"
        /\ output_len' = output_len /\ opened' = opened
        /\ pc' \in {"reading", "returned"}
    BY <1>5, <2>1 DEF ReadShort, Reading, Deliver
  <2>3. ASSUME short' <= 1 PROVE Accounted'
    <3>1. /\ short = 0 /\ rnd_sz = 0 /\ left = output_len /\ top = 0
          /\ output_len \in Nat /\ output_len < SizeMod
      BY <2>2, <2>3 DEF TypeOK, OnceShort, Accounted
    <3>2. /\ n \in Nat
          /\ n < output_len
          /\ n < SizeMod
          /\ output_len - n \in Nat
          /\ output_len - n < SizeMod
      BY <2>1, <3>1
    <3>3. (rnd_sz + n) % SizeMod = n
      BY <3>1, <3>2, SmallMod
    <3>4. (left - n) % SizeMod = output_len - n
      BY <3>1, <3>2, SmallMod
    <3>5. rnd_sz' = n /\ top' = n /\ left' = output_len - n /\ pc' = "reading"
      BY <2>1, <2>2, <3>1, <3>2, <3>3, <3>4 DEF Deliver
    <3> QED
      BY <2>2, <3>1, <3>2, <3>5 DEF Accounted
  <2> QED
    BY <2>2, <2>3 DEF OnceShort
<1>6. ASSUME UNCHANGED vars PROVE OnceShort'
  BY <1>6 DEF vars, OnceShort, Accounted
<1> QED
  BY <1>1, <1>2, <1>3, <1>4, <1>5, <1>6 DEF Next

LEMMA OnceShortAlways ==
    Spec => [](TypeOK /\ OnceShort)
<1>1. Init => TypeOK /\ OnceShort
  BY TypeInit, OnceShortInit
<1>2. TypeOK /\ OnceShort /\ [Next]_vars => (TypeOK /\ OnceShort)'
  BY TypeStep, OnceShortStep
<1> QED
  BY <1>1, <1>2, PTL DEF Spec

\* A call of gen_rand_no_entropy_util that has had at most one short read has
\* written no byte outside its buffer, and has filled it when it returns, for
\* every length and whatever happened in the calls before it.
THEOREM OneShortReadIsHarmless ==
    Spec => [](short <= 1 => StaysInside /\ FilledIfOpened)
<1>1. OnceShort => (short <= 1 => StaysInside /\ FilledIfOpened)
  BY DEF OnceShort, Accounted, StaysInside, FilledIfOpened
<1> QED
  BY OnceShortAlways, <1>1, PTL

\* The loop writes no byte outside the buffer it was given, whatever its
\* length, as long as no call has more than one short read.
THEOREM FillStaysInside ==
    ASSUME MaxShort <= 1
    PROVE  Spec => []StaysInside
<1>1. TypeOK => short <= 1
  BY FillAssumption DEF TypeOK
<1> QED
  BY <1>1, FillTypeCorrect, OneShortReadIsHarmless, PTL

\* Under the same condition a call that could open the device returns with
\* every byte of the buffer read from it.
THEOREM FillIsComplete ==
    ASSUME MaxShort <= 1
    PROVE  Spec => []FilledIfOpened
<1>1. TypeOK => short <= 1
  BY FillAssumption DEF TypeOK
<1> QED
  BY <1>1, FillTypeCorrect, OneShortReadIsHarmless, PTL

----------------------------------------------------------------------------
(* What upsets the accounts, and what prolongs the loop, however many short *)
(* reads there are.                                                         *)

\* The loop knows how much it has read and how much there is still to read.
Agrees == pc = "reading" => top = rnd_sz /\ rnd_sz + left = output_len

\* One turn of the loop that starts with its accounts right.
LEMMA AgreedTurn ==
    ASSUME TypeOK, Agrees, pc = "reading", NEW n \in 0..left, Deliver(n),
           output_len' = output_len
    PROVE  /\ StaysInside' /\ FilledIfOpened'
           /\ n = left => pc' = "returned"
           /\ n < left => pc' = "reading"
           /\ pc' = "reading" => (Agrees' <=> rnd_sz = 0)
<1>1. /\ rnd_sz \in Nat /\ left \in Nat /\ output_len \in Nat /\ output_len < SizeMod
      /\ top = rnd_sz /\ rnd_sz + left = output_len /\ n \in Nat /\ n <= left
      /\ SizeMod \in Nat
  BY FillAssumption DEF TypeOK, Agrees
<1>2. (rnd_sz + n) % SizeMod = rnd_sz + n
  BY <1>1, SmallMod
<1>3. top' = rnd_sz + n /\ rnd_sz' = rnd_sz + n
  BY <1>2 DEF Deliver
<1>4. StaysInside'
  BY <1>1, <1>3 DEF StaysInside
<1>5. pc' = "returned" => n = left
  BY <1>1, <1>2 DEF Deliver
<1>6. FilledIfOpened'
  BY <1>1, <1>3, <1>5 DEF FilledIfOpened
<1>7. n = left => pc' = "returned"
  BY <1>1, <1>2 DEF Deliver
<1>8. n < left => pc' = "reading"
  BY <1>1, <1>2 DEF Deliver
<1>9. ASSUME pc' = "reading" PROVE Agrees' <=> rnd_sz = 0
  <2>1. left' = (left - (rnd_sz + n)) % SizeMod
    BY <1>2, <1>5, <1>7, <1>9 DEF Deliver
  <2>2. CASE rnd_sz = 0
    <3>1. left - (rnd_sz + n) \in Nat /\ left - (rnd_sz + n) < SizeMod
      BY <1>1, <2>2
    <3>2. left' = left - (rnd_sz + n)
      BY <1>1, <2>1, <3>1, SmallMod
    <3> QED
      BY <1>1, <1>3, <2>2, <3>2 DEF Agrees
  <2>3. CASE rnd_sz # 0 /\ left >= rnd_sz + n
    <3>1. left - (rnd_sz + n) \in Nat /\ left - (rnd_sz + n) < SizeMod
      BY <1>1, <2>3
    <3>2. left' = left - (rnd_sz + n)
      BY <1>1, <2>1, <3>1, SmallMod
    <3>3. rnd_sz' + left' # output_len'
      BY <1>1, <1>3, <2>3, <3>2
    <3> QED
      BY <1>9, <2>3, <3>3 DEF Agrees
  <2>4. CASE rnd_sz # 0 /\ left < rnd_sz + n
    <3> DEFINE less == left - (rnd_sz + n) + SizeMod
    <3>1. less \in Nat /\ less < SizeMod
      BY <1>1, <2>4
    <3>2. (left - (rnd_sz + n)) % SizeMod = less
      BY <1>1, <3>1
    <3>3. rnd_sz' + left' # output_len'
      BY <1>1, <1>3, <2>1, <2>4, <3>2
    <3> QED
      BY <1>9, <2>4, <3>3 DEF Agrees
  <2> QED
    BY <1>1, <2>2, <2>3, <2>4
<1> QED
  BY <1>4, <1>6, <1>7, <1>8, <1>9

\* A turn of the loop is an fread that delivers some number of bytes.
LEMMA Turn ==
    ASSUME TypeOK, pc = "reading", Next
    PROVE  /\ output_len' = output_len
           /\ \/ Deliver(left) /\ short' = short
              \/ short' = short + 1 /\ \E n \in 0..left - 1 : Deliver(n)
<1>1. Read \/ ReadShort
  BY DEF Next, Ask, CannotOpen, Open
<1> QED
  BY <1>1 DEF Read, ReadShort

\* While its accounts are right the loop writes nothing outside the buffer and
\* returns with all of it filled.  What upsets them is a short read that comes
\* when bytes have been read before, and every such read upsets them: left is
\* reduced by the total once more.
THEOREM LaterPieceUpsets ==
    Spec => [][Agrees /\ pc = "reading" =>
                 /\ StaysInside' /\ FilledIfOpened'
                 /\ pc' = "reading" => (Agrees' <=> rnd_sz = 0)]_vars
<1> DEFINE Kept == Agrees /\ pc = "reading" =>
                     /\ StaysInside' /\ FilledIfOpened'
                     /\ pc' = "reading" => (Agrees' <=> rnd_sz = 0)
<1>1. TypeOK /\ Next => Kept
  <2> SUFFICES ASSUME TypeOK, Next, Agrees, pc = "reading"
               PROVE  /\ StaysInside' /\ FilledIfOpened'
                      /\ pc' = "reading" => (Agrees' <=> rnd_sz = 0)
    OBVIOUS
  <2>1. output_len' = output_len /\ \E n \in 0..left : Deliver(n)
    <3>1. left \in 0..left /\ \A n \in 0..left - 1 : n \in 0..left
      BY FillAssumption DEF TypeOK
    <3> QED
      BY <3>1, Turn
  <2>2. PICK n \in 0..left : Deliver(n)
    BY <2>1
  <2> QED
    BY <2>1, <2>2, AgreedTurn
<1>2. TypeOK /\ [Next]_vars => [Kept]_vars
  BY <1>1
<1> QED
  BY FillTypeCorrect, <1>2, PTL DEF Spec

\* While its accounts are right only short reads prolong the loop: the first
\* fread that delivers what it was asked for is the last.
THEOREM FullReadEnds ==
    Spec => [][Agrees /\ pc = "reading" =>
                 pc' = "returned" \/ short' = short + 1]_vars
<1> DEFINE Ends == Agrees /\ pc = "reading" => pc' = "returned" \/ short' = short + 1
<1>1. TypeOK /\ Next => Ends
  <2> SUFFICES ASSUME TypeOK, Next, Agrees, pc = "reading", short' # short + 1
               PROVE  pc' = "returned"
    OBVIOUS
  <2>1. output_len' = output_len /\ Deliver(left)
    BY Turn
  <2>2. left \in 0..left
    BY FillAssumption DEF TypeOK
  <2> QED
    BY <2>1, <2>2, AgreedTurn
<1>2. TypeOK /\ [Next]_vars => [Ends]_vars
  BY <1>1
<1> QED
  BY FillTypeCorrect, <1>2, PTL DEF Spec

----------------------------------------------------------------------------
(* Why such a call returns.                                                *)

\* The statements a call with at most one short read has still to execute.
Ahead ==
    CASE pc = "open"    -> 3
      [] pc = "reading" -> 2 - short
      [] OTHER          -> 0

\* Each step of a call with at most one short read brings it nearer to its
\* return, and it always has one: with the fairness of Spec this is why
\* gen_rand_no_entropy_util returns, whatever its length.
THEOREM FillComesNearer ==
    Spec => /\ [](short <= 1 => Ahead \in 0..3
                              /\ (Ahead = 0 <=> pc \in {"idle", "returned"})
                              /\ (pc = "reading" => Reading))
            /\ [][short' <= 1 /\ pc \in {"open", "reading"} => (Ahead' < Ahead)]_vars
<1> DEFINE Bound == short <= 1 => /\ Ahead \in 0..3
                                  /\ (Ahead = 0 <=> pc \in {"idle", "returned"})
                                  /\ (pc = "reading" => Reading)
           Nearer == short' <= 1 /\ pc \in {"open", "reading"} => (Ahead' < Ahead)
<1>1. TypeOK /\ OnceShort => Bound
  <2> SUFFICES ASSUME TypeOK, OnceShort, short <= 1
               PROVE  /\ Ahead \in 0..3
                      /\ (Ahead = 0 <=> pc \in {"idle", "returned"})
                      /\ (pc = "reading" => Reading)
    OBVIOUS
  <2>1. short \in {0, 1} /\ top <= output_len
    BY FillAssumption DEF TypeOK, OnceShort, Accounted
  <2> QED
    BY <2>1 DEF TypeOK, Ahead, Reading
<1>2. TypeOK /\ OnceShort /\ Next => Nearer
  <2> SUFFICES ASSUME TypeOK, OnceShort, Next, short' <= 1, pc \in {"open", "reading"}
               PROVE  Ahead' < Ahead
    OBVIOUS
  <2>1. CASE pc = "open"
    <3>1. short = 0 /\ (CannotOpen \/ Open)
      BY <2>1 DEF Next, Ask, Read, ReadShort, Reading, OnceShort
    <3> QED
      BY <2>1, <3>1 DEF CannotOpen, Open, Ahead
  <2>2. CASE pc = "reading"
    <3>1. short \in Nat /\ left \in Nat
      BY FillAssumption DEF TypeOK
    <3>2. output_len' = output_len
      BY <2>2, Turn
    <3>3. short <= 1 => Agrees
      BY <2>2 DEF OnceShort, Accounted, Agrees
    <3>4. CASE Deliver(left) /\ short' = short
      <4>1. pc' = "returned"
        BY <2>2, <3>1, <3>2, <3>3, <3>4, AgreedTurn
      <4> QED
        BY <2>2, <3>1, <3>4, <4>1 DEF Ahead
    <3>5. CASE short' = short + 1 /\ \E n \in 0..left - 1 : Deliver(n)
      <4>1. short = 0 /\ short' = 1
        BY <3>1, <3>5
      <4>2. pc' \in {"reading", "returned"}
        BY <2>2, <3>5 DEF Deliver
      <4> QED
        BY <2>2, <4>1, <4>2 DEF Ahead
    <3> QED
      BY <2>2, <3>4, <3>5, Turn
  <2> QED
    BY <2>1, <2>2
<1>3. TypeOK /\ OnceShort /\ [Next]_vars => [Nearer]_vars
  BY <1>2
<1> QED
  BY OnceShortAlways, <1>1, <1>3, PTL DEF Spec

==============================================================================
