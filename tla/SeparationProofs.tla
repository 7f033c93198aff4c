--------------------------- MODULE SeparationProofs ---------------------------
(***************************************************************************)
(* What the natives lack a lock for.  Two properties do not survive a race *)
(* for what threads share, the random function and a scratch buffer.  They *)
(* hold for any number of threads as long as at most one of them calls     *)
(* natives that use the random function (RandomServed), or natives of one  *)
(* translation unit (ReadsIntact).                                         *)
(*                                                                         *)
(* Then what the cells of msg leave out: nothing, they are exact to the    *)
(* byte.  And last, what all the theorems about natives come to for the    *)
(* natives of the library.                                                 *)
(***************************************************************************)
EXTENDS ContractProofs, MCDiscipline

----------------------------------------------------------------------------
(* The random function.                                                    *)

\* A function attached for sure after step k was attached by step k, or before
\* and not detached by it.
LEMMA MustServeStep ==
    ASSUME NEW n \in Native, NEW k \in Nat \ {0}, MustServe(n, k + 1)
    PROVE  \/ Steps(n)[k].hook = "attach"
           \/ MustServe(n, k) /\ Steps(n)[k].hook # "detach"
<1>1. PICK i \in 1..k + 1 - 1 :
        /\ Steps(n)[i].hook = "attach"
        /\ ~Skippable(n, i)
        /\ \A j \in i + 1..k + 1 - 1 : Steps(n)[j].hook # "detach"
  BY DEF MustServe
<1>2. CASE i = k
  BY <1>1, <1>2
<1>3. CASE i # k
  <2>1. i \in 1..k - 1 /\ k \in i + 1..k + 1 - 1
    BY <1>3
  <2>2. \A j \in i + 1..k - 1 : Steps(n)[j].hook # "detach"
    BY <1>1
  <2> QED
    BY <1>1, <2>1, <2>2 DEF MustServe
<1> QED
  BY <1>2, <1>3

\* Where an argument makes n skip to, nothing is attached for sure but what was.
LEMMA MustServeSkip ==
    ASSUME NEW n \in Native, NEW k \in Nat \ {0}, NEW l \in Nat,
           Steps(n)[k].skips \in Nat \ {0}, k <= l, l <= k + Steps(n)[k].skips,
           MustServe(n, l)
    PROVE  MustServe(n, k)
<1>1. PICK i \in 1..l - 1 :
        /\ Steps(n)[i].hook = "attach"
        /\ ~Skippable(n, i)
        /\ \A j \in i + 1..l - 1 : Steps(n)[j].hook # "detach"
  BY DEF MustServe
<1>2. i \in 1..k - 1
  <2> SUFFICES ASSUME i \notin 1..k - 1 PROVE FALSE
    OBVIOUS
  <2>1. k \in 1..i /\ k + Steps(n)[k].skips > i
    OBVIOUS
  <2> QED
    BY <1>1, <2>1 DEF Skippable
<1>3. \A j \in i + 1..k - 1 : Steps(n)[j].hook # "detach"
  BY <1>1
<1> QED
  BY <1>1, <1>2, <1>3 DEF MustServe

\* t is in a native and counts on the random function.
Counts(t) ==
    Active(t) /\ call[t].rung = 0 /\ MustServe(call[t].native, call[t].pc)

\* Nobody counts on the random function but a thread that may use it.
LEMMA OthersDoNotCount ==
    ASSUME TypeOK, ServesInTime, OneServed,
           NEW t \in Thread, Active(t), UsesRandom(call[t].native),
           NEW s \in Thread \ {t}
    PROVE  ~Counts(s)
<1> SUFFICES ASSUME Counts(s) PROVE FALSE
  OBVIOUS
<1> DEFINE n == call[s].native
           k == call[s].pc
<1>1. /\ Active(s) /\ call[s].rung = 0
      /\ MustServe(n, k)
      /\ n \in Calls[s]
  BY DEF Counts, ServesInTime
<1>2. k \in 1..Len(Steps(n)) /\ k \in Nat \ {0} /\ Len(Steps(n)) \in Nat
  BY <1>1, SteppingTyped DEF Stepping
<1>3. PICK i \in 1..k - 1 : Steps(n)[i].hook = "attach"
  BY <1>1 DEF MustServe
<1>4. i \in 1..Len(Steps(n)) /\ Steps(n)[i].hook # ""
  BY <1>2, <1>3
<1>5. UsesRandom(n)
  BY <1>4 DEF UsesRandom
<1>6. call[t].native \in Calls[t]
  BY DEF ServesInTime
<1> QED
  BY <1>1, <1>5, <1>6 DEF OneServed

\* A step of one thread t, which ends up at c.
LEMMA ServesUpdated ==
    ASSUME TypeOK, ServesInTime, NEW t \in Thread, NEW c,
           call' = [call EXCEPT ![t] = c],
           \/ c = Idle
           \/ /\ c.native \in Calls[t]
              /\ c.rung = 0 /\ MustServe(c.native, c.pc) => hook',
           hook' = hook \/ \A s \in Thread \ {t} : ~Counts(s)
    PROVE  ServesInTime'
<1> SUFFICES ASSUME NEW s \in Thread, call'[s] # Idle
             PROVE  /\ call'[s].native \in Calls[s]
                    /\ call'[s].rung = 0 /\ MustServe(call'[s].native, call'[s].pc)
                         => hook'
  BY DEF ServesInTime, Active, MustServe, Steps, Skippable
<1>1. CASE s = t
  BY <1>1 DEF TypeOK
<1>2. CASE s # t
  <2>1. call'[s] = call[s] /\ Active(s)
    BY <1>2 DEF TypeOK, Active
  <2>2. call[s].native \in Calls[s] /\ (Counts(s) => hook)
    BY <2>1 DEF ServesInTime, Counts
  <2>3. hook' = hook \/ ~Counts(s)
    BY <1>2
  <2> QED
    BY <2>1, <2>2, <2>3 DEF Counts
<1> QED
  BY <1>1, <1>2

\* A thread that advances.
LEMMA CountsAdvance ==
    ASSUME TypeOK, ServesInTime, NEW t \in Thread, Stepping(t), NEW k \in Nat \ {0},
           Advance(t, k),
           MustServe(call[t].native, call[t].pc + k) => hook',
           hook' = hook \/ \A s \in Thread \ {t} : ~Counts(s)
    PROVE  ServesInTime'
<1>1. PICK c \in CallType :
         /\ call' = [call EXCEPT ![t] = c]
         /\ c.native = call[t].native
         /\ \/ c.rung = 0 /\ c.pc = call[t].pc + k
            \/ c.rung = 1
  BY AdvancePlaced
<1>2. c.native \in Calls[t]
  BY <1>1 DEF Stepping, ServesInTime
<1>3. c.rung = 0 /\ MustServe(c.native, c.pc) => hook'
  BY <1>1
<1> QED
  BY <1>1, <1>2, <1>3, ServesUpdated

\* The rungs; only a native that uses the random function detaches it.
LEMMA ServesUnwinds ==
    ASSUME TypeOK, ServesInTime, NEW t \in Thread,
           Unwinding(t), call' = [call EXCEPT ![t].rung = @ + 1],
           hook' = hook \/ \A s \in Thread \ {t} : ~Counts(s)
    PROVE  ServesInTime'
<1>1. PICK c \in CallType :
         /\ call' = [call EXCEPT ![t] = c]
         /\ c.native = call[t].native
         /\ c.rung # 0
  BY RungPlaced, Zenon
<1>2. c.native \in Calls[t]
  BY <1>1, UnwindingTyped DEF ServesInTime
<1> QED
  BY <1>1, <1>2, ServesUpdated

LEMMA OffUses ==
    ASSUME TypeOK, NEW t \in Thread, Unwinding(t), CurrentRung(t).op = "off"
    PROVE  UsesRandom(call[t].native)
<1> DEFINE n == call[t].native
           k == call[t].pc
<1>1. /\ Active(t) /\ n \in Native
      /\ call[t].rung \in Nat \ {0} /\ call[t].rung <= Len(Path(t))
      /\ Path(t) \in Seq(RungType)
  BY UnwindingTyped
<1>2. Placed(call[t]) /\ call[t] \in CallType
  BY <1>1, ActivePlaced
<1>3. call[t].rung \in 1..Len(Path(t))
  BY <1>1, LenProperties
<1>4. OpFrom(Path(t), 1, "off")
  BY <1>3 DEF OpFrom, CurrentRung
<1>5. CASE call[t].exit = 0
  BY <1>4, <1>5 DEF UsesRandom, Path, PathOf
<1>6. CASE call[t].exit # 0
  <2>1. k \in 1..Len(Steps(n)) /\ StepOf(call[t]) = Steps(n)[k]
    BY <1>2 DEF Placed, Steps, StepOf
  <2>2. Len(StepOf(call[t]).fail) \in Nat
    <3>1. StepOf(call[t]).fail \in Seq(Seq(RungType))
      BY <1>2, PlacedTyped
    <3> QED
      BY <3>1, LenProperties
  <2>3. call[t].exit \in 1..Len(Steps(n)[k].fail)
    <3>1. call[t].exit \in 0..Len(StepOf(call[t]).fail)
      BY <1>2 DEF Placed
    <3> QED
      BY <1>6, <2>1, <2>2, <3>1
  <2>4. Path(t) = Steps(n)[k].fail[call[t].exit]
    BY <1>6, <2>1 DEF Path, PathOf
  <2> QED
    BY <1>4, <2>1, <2>3, <2>4 DEF UsesRandom
<1> QED
  BY <1>5, <1>6

\* Every step leaves the function attached for whoever counts on it.
LEMMA ServesStep ==
    ASSUME OneServed, TypeOK, ServesInTime, [Next]_vars
    PROVE  ServesInTime'
<1>1. ASSUME NEW t \in Thread, NEW n \in Calls[t], Begin(t, n)
      PROVE  ServesInTime'
  <2> DEFINE c == [native |-> n, pc |-> 1, exit |-> 0, rung |-> 0]
  <2>1. c.native = n /\ c.pc = 1
    OBVIOUS
  <2>2. call' = [call EXCEPT ![t] = c] /\ hook' = hook
    BY <1>1 DEF Begin
  <2>3. ~MustServe(n, 1)
    BY DEF MustServe
  <2> HIDE DEF c
  <2> QED
    BY <2>1, <2>2, <2>3, ServesUpdated
<1>2. ASSUME NEW t \in Thread, Proceed(t)
      PROVE  ServesInTime'
  <2> DEFINE n == call[t].native
             k == call[t].pc
  <2>1. /\ n \in Native /\ k \in Nat \ {0} /\ k \in 1..Len(Steps(n))
        /\ Current(t) = Steps(n)[k] /\ Stepping(t) /\ Advance(t, 1) /\ Active(t)
    BY <1>2, SteppingTyped DEF Proceed, Stepping
  <2>2. hook' = (Steps(n)[k].hook = "attach" \/ (hook /\ Steps(n)[k].hook # "detach"))
    BY <1>2, <2>1 DEF Proceed
  <2>3. MustServe(n, k + 1) => hook'
    <3>1. MustServe(n, k) => hook
      BY <2>1 DEF ServesInTime, Stepping
    <3> QED
      BY <2>1, <2>2, <3>1, MustServeStep
  <2>4. hook' = hook \/ \A s \in Thread \ {t} : ~Counts(s)
    <3>1. CASE Steps(n)[k].hook \in {"attach", "detach"}
      <4>1. UsesRandom(n)
        BY <2>1, <3>1 DEF UsesRandom
      <4> QED
        BY <2>1, <4>1, OthersDoNotCount
    <3>2. CASE Steps(n)[k].hook \notin {"attach", "detach"}
      BY <2>2, <3>2 DEF TypeOK
    <3> QED
      BY <3>1, <3>2
  <2> QED
    BY <2>1, <2>3, <2>4, CountsAdvance
<1>3. ASSUME NEW t \in Thread, Skip(t)
      PROVE  ServesInTime'
  <2> DEFINE n == call[t].native
             k == call[t].pc
             j == Current(t).skips
  <2>1. /\ n \in Native /\ k \in Nat \ {0} /\ j \in Nat \ {0}
        /\ Current(t) = Steps(n)[k] /\ Stepping(t) /\ Advance(t, j)
    BY <1>3, SteppingTyped DEF Skip
  <2>2. hook' = hook
    BY <1>3 DEF Skip
  <2>3. MustServe(n, k + j) => hook'
    <3>1. MustServe(n, k) => hook
      BY <2>1 DEF ServesInTime, Stepping
    <3>2. k + j \in Nat /\ k <= k + j /\ k + j <= k + Steps(n)[k].skips
      BY <2>1
    <3> QED
      BY <2>1, <2>2, <3>1, <3>2, MustServeSkip
  <2> HIDE DEF j
  <2> QED
    BY <2>1, <2>2, <2>3, CountsAdvance
<1>4. ASSUME NEW t \in Thread, Fail(t)
      PROVE  ServesInTime'
  <2>1. Stepping(t) /\ Active(t) /\ hook' = hook
    BY <1>4 DEF Fail, Stepping
  <2>2. PICK e \in 1..Len(Current(t).fail) :
            call' = [call EXCEPT ![t].exit = e, ![t].rung = 1]
    BY <1>4 DEF Fail
  <2>3. PICK c \in CallType :
            /\ Placed(c)
            /\ call' = [call EXCEPT ![t] = c]
            /\ c.native = call[t].native
            /\ c.pc = call[t].pc
            /\ c.exit = e
            /\ c.rung = 1
            /\ PathOf(c) = Current(t).fail[e]
    BY <2>1, <2>2, FailPlaced, Zenon
  <2>4. c.native \in Calls[t] /\ c.rung # 0
    BY <2>1, <2>3 DEF ServesInTime
  <2> QED
    BY <2>1, <2>3, <2>4, ServesUpdated
<1>5. ASSUME NEW t \in Thread, DetachRandom(t)
      PROVE  ServesInTime'
  <2>1. /\ Unwinding(t) /\ call' = [call EXCEPT ![t].rung = @ + 1]
        /\ CurrentRung(t).op = "off"
    BY <1>5 DEF DetachRandom, AtRung
  <2>2. UsesRandom(call[t].native) /\ Active(t)
    BY <2>1, OffUses, UnwindingTyped
  <2>3. \A s \in Thread \ {t} : ~Counts(s)
    BY <2>2, OthersDoNotCount
  <2> QED
    BY <2>1, <2>3, ServesUnwinds
<1>6. ASSUME NEW t \in Thread,
             \/ ReleaseResource(t) \/ WipeScratch(t) \/ DropResult(t)
             \/ LeaveUnset(t) \/ FormatError(t) \/ ThrowException(t)
      PROVE  ServesInTime'
  <2>1. /\ Unwinding(t) /\ call' = [call EXCEPT ![t].rung = @ + 1]
        /\ hook' = hook
    BY <1>6 DEF ReleaseResource, WipeScratch, DropResult, LeaveUnset, FormatError,
                ThrowException, AtRung
  <2> QED
    BY <2>1, ServesUnwinds
<1>7. ASSUME NEW t \in Thread, Return(t)
      PROVE  ServesInTime'
  BY <1>7, ServesUpdated DEF Return
<1>8. CASE UNCHANGED vars
  <2> SUFFICES ASSUME NEW s \in Thread, call'[s] # Idle
               PROVE  /\ call'[s].native \in Calls[s]
                      /\ call'[s].rung = 0 /\ MustServe(call'[s].native, call'[s].pc)
                           => hook'
    BY DEF ServesInTime, Active, MustServe, Steps, Skippable
  <2> QED
    BY <1>8 DEF vars, ServesInTime, Active
<1> QED
  BY <1>1, <1>2, <1>3, <1>4, <1>5, <1>6, <1>7, <1>8 DEF Next, Run

\* Whenever the library draws random bytes a random function is attached, for any
\* number of threads of which only one calls natives that use it: every such
\* native attaches it first and no other one touches it.
THEOREM RandomServedApart ==
    ASSUME OneServed, \A n \in Native : Served(n)
    PROVE  Spec => []RandomServed
<1>1. Init => ServesInTime
  BY DEF Init, ServesInTime, Active
<1>2. TypeOK /\ ServesInTime /\ [Next]_vars => ServesInTime'
  BY ServesStep
<1>3. TypeOK /\ ServesInTime => RandomServed
  <2> SUFFICES ASSUME TypeOK, ServesInTime,
                      NEW t \in Thread, Stepping(t), Current(t).hook = "draw"
               PROVE  hook
    BY DEF RandomServed
  <2>1. MustServe(call[t].native, call[t].pc)
    BY SteppingTyped DEF Served
  <2> QED
    BY <2>1 DEF ServesInTime, Stepping
<1> QED
  BY <1>1, <1>2, <1>3, TypeCorrect, PTL DEF Spec

----------------------------------------------------------------------------
(* The scratch buffers.                                                    *)

\* What t has put into msg and still counts on.
Stays(t) == IF call[t].rung = 0 THEN LoadedStays(t) ELSE TextsStay(t)

\* Two threads in natives are in natives of different units.
LEMMA UnitsApart ==
    ASSUME StaysIntact, OneEachUnit,
           NEW t \in Thread, Active(t), NEW s \in Thread \ {t}, Active(s)
    PROVE  Body(s).unit # Body(t).unit
<1>1. call[s].native \in Calls[s] /\ call[t].native \in Calls[t]
  BY DEF StaysIntact
<1> QED
  BY <1>1 DEF OneEachUnit, Body

\* A thread that does not move and whose buffer nobody writes.
LEMMA StaysAlone ==
    ASSUME StaysIntact, NEW s \in Thread,
           call'[s] = call[s], loaded'[s] = loaded[s],
           Active(s) => msg'[Body(s).unit] = msg[Body(s).unit]
    PROVE  IF Active(s)' THEN call'[s].native \in Calls[s] /\ Stays(s)'
                         ELSE loaded'[s] = {}
<1>1. Active(s)' <=> Active(s)
  BY DEF Active
<1>2. CASE ~Active(s)
  BY <1>1, <1>2 DEF StaysIntact
<1>3. CASE Active(s)
  <2>1. call[s].native \in Calls[s] /\ Stays(s)
    BY <1>3 DEF StaysIntact, Stays
  <2>2. /\ msg'[Body(s).unit] = msg[Body(s).unit]
        /\ Body(s)' = Body(s) /\ Path(s)' = Path(s)
    BY <1>3 DEF Body, Path, PathOf, StepOf
  <2>3. \A d : Intact(s, d)' <=> Intact(s, d)
    BY <2>2 DEF Intact, Mark
  <2>4. CASE call[s].rung = 0
    <3>1. LoadedStays(s)
      BY <2>1, <2>4 DEF Stays
    <3>2. LoadedStays(s)'
      BY <2>2, <2>3, <3>1 DEF LoadedStays, Kept, Clobbers, Skippable, Steps
    <3> QED
      BY <1>1, <1>3, <2>1, <2>4, <3>2 DEF Stays
  <2>5. CASE call[s].rung # 0
    <3>1. TextsStay(s)
      BY <2>1, <2>5 DEF Stays
    <3>2. TextsStay(s)'
      BY <2>2, <2>3, <3>1 DEF TextsStay, SaidFor, Shows, Scribbles, Text
    <3> QED
      BY <1>1, <1>3, <2>1, <2>5, <3>2 DEF Stays
  <2> QED
    BY <2>4, <2>5
<1> QED
  BY <1>2, <1>3

\* A step of one thread t, which ends up at c, leaves the buffers of the other
\* threads alone.
LEMMA StaysUpdated ==
    ASSUME TypeOK, StaysIntact, NEW t \in Thread, NEW c,
           call' = [call EXCEPT ![t] = c],
           \/ c = Idle /\ loaded'[t] = {}
           \/ c # Idle /\ c.native \in Calls[t] /\ Stays(t)',
           \A s \in Thread \ {t} : loaded'[s] = loaded[s],
           \A s \in Thread \ {t} : Active(s) => msg'[Body(s).unit] = msg[Body(s).unit]
    PROVE  StaysIntact'
<1> SUFFICES ASSUME NEW s \in Thread
             PROVE  IF Active(s)' THEN call'[s].native \in Calls[s] /\ Stays(s)'
                                  ELSE loaded'[s] = {}
  BY DEF StaysIntact, Stays
<1>1. CASE s = t
  BY <1>1 DEF TypeOK, Active
<1>2. CASE s # t
  <2>1. call'[s] = call[s]
    BY <1>2 DEF TypeOK
  <2> QED
    BY <1>2, <2>1, StaysAlone
<1> QED
  BY <1>1, <1>2

\* What t writes stays within the buffer of its unit.
LEMMA WritesApart ==
    ASSUME TypeOK, StaysIntact, OneEachUnit, NEW t \in Thread, Active(t),
           \E b : msg' = [msg EXCEPT ![Body(t).unit] = b],
           NEW s \in Thread \ {t}, Active(s)
    PROVE  msg'[Body(s).unit] = msg[Body(s).unit]
<1>1. Body(s).unit # Body(t).unit
  BY UnitsApart
<1>2. Body(s).unit \in Unit
  BY ActivePlaced, ScriptTyped DEF Body
<1> QED
  BY <1>1, <1>2 DEF TypeOK

\* What a step has just written is there, and what it leaves alone is as it was.
LEMMA CellWritten ==
    ASSUME TypeOK, NEW t \in Thread, Active(t), NEW data, NEW x \in CellStart
    PROVE  \/ Written(t, data)[Body(t).unit][x] = msg[Body(t).unit][x]
              /\ ~\E d \in data : x \in d.cells
           \/ \E d \in data : /\ x \in d.cells
                              /\ Written(t, data)[Body(t).unit][x] = Mark(t, d.is)
<1>1. Body(t).unit \in Unit
  BY ActivePlaced, ScriptTyped DEF Body
<1>2. Written(t, data)[Body(t).unit][x] =
        IF \E d \in data : x \in d.cells
          THEN Mark(t, (CHOOSE d \in data : x \in d.cells).is)
          ELSE msg[Body(t).unit][x]
  BY <1>1 DEF Written, TypeOK
<1>3. CASE \E d \in data : x \in d.cells
  <2> DEFINE d == CHOOSE e \in data : x \in e.cells
  <2>1. d \in data /\ x \in d.cells
    BY <1>3
  <2>2. Written(t, data)[Body(t).unit][x] = Mark(t, d.is)
    BY <1>2, <1>3
  <2> QED
    BY <2>1, <2>2
<1>4. CASE ~\E d \in data : x \in d.cells
  BY <1>2, <1>4
<1> QED
  BY <1>3, <1>4

\* What n has loaded since and kept up to step k + 1 was written by step k, or it
\* was kept up to step k, which leaves it alone.
LEMMA KeptStep ==
    ASSUME NEW n \in Native, NEW k \in Nat \ {0}, NEW d, Kept(n, k + 1, d),
           d \notin Steps(n)[k].writes, \E i \in 1..k - 1 : d \in Steps(n)[i].writes
    PROVE  ~Clobbers(n, k, d) /\ Kept(n, k, d)
<1>1. ~Clobbers(n, k, d)
  <2> SUFFICES ASSUME Clobbers(n, k, d) PROVE FALSE
    OBVIOUS
  <2>1. k \in 1..k + 1 - 1
    OBVIOUS
  <2>2. \/ \A i \in 1..k : d \notin Steps(n)[i].writes
        \/ \E i \in k + 1..k + 1 - 1 : d \in Steps(n)[i].writes /\ ~Skippable(n, i)
    BY <2>1 DEF Kept
  <2> QED
    BY <2>2
<1>2. ASSUME NEW j \in 1..k - 1, Clobbers(n, j, d),
             ~\A i \in 1..j : d \notin Steps(n)[i].writes
      PROVE  \E i \in j + 1..k - 1 : d \in Steps(n)[i].writes /\ ~Skippable(n, i)
  <2>1. j \in 1..k + 1 - 1
    OBVIOUS
  <2>2. PICK i \in j + 1..k + 1 - 1 : d \in Steps(n)[i].writes /\ ~Skippable(n, i)
    BY <1>2, <2>1 DEF Kept
  <2>3. i # k
    BY <2>2
  <2>4. i \in j + 1..k - 1
    BY <2>3
  <2> QED
    BY <2>2, <2>4
<1> QED
  BY <1>1, <1>2 DEF Kept

\* What is kept where an argument makes n skip to was kept already.
LEMMA KeptSkip ==
    ASSUME NEW n \in Native, NEW k \in Nat \ {0}, NEW l \in Nat, NEW d,
           Steps(n)[k].skips \in Nat \ {0}, k <= l, l <= k + Steps(n)[k].skips,
           Kept(n, l, d)
    PROVE  Kept(n, k, d)
<1> SUFFICES ASSUME NEW j \in 1..k - 1, Clobbers(n, j, d),
                    ~\A i \in 1..j : d \notin Steps(n)[i].writes
             PROVE  \E i \in j + 1..k - 1 : d \in Steps(n)[i].writes /\ ~Skippable(n, i)
  BY DEF Kept
<1>1. j \in 1..l - 1
  OBVIOUS
<1>2. PICK i \in j + 1..l - 1 : d \in Steps(n)[i].writes /\ ~Skippable(n, i)
  BY <1>1 DEF Kept
<1>3. i \in j + 1..k - 1
  <2> SUFFICES ASSUME i \notin j + 1..k - 1 PROVE FALSE
    OBVIOUS
  <2>1. k \in 1..i /\ k + Steps(n)[k].skips > i
    OBVIOUS
  <2> QED
    BY <1>2, <2>1 DEF Skippable
<1> QED
  BY <1>2, <1>3

\* A step that succeeds leaves in msg what was loaded and is kept.
LEMMA LoadedProceeds ==
    ASSUME TypeOK, NEW t \in Thread, Proceed(t), LoadedStays(t),
           Readable(call[t].native), NEW d \in loaded'[t]
    PROVE  /\ \E i \in 1..call[t].pc + 1 - 1 : d \in Steps(call[t].native)[i].writes
           /\ Kept(call[t].native, call[t].pc + 1, d) =>
                \A x \in d.cells : msg'[Body(t).unit][x] = Mark(t, d.is)
<1> DEFINE n == call[t].native
           k == call[t].pc
           data == Current(t).writes
<1>1. /\ n \in Native /\ k \in Nat \ {0} /\ k \in 1..Len(Steps(n))
      /\ Len(Steps(n)) \in Nat
      /\ data = Steps(n)[k].writes /\ Active(t)
  BY SteppingTyped DEF Proceed, Stepping
<1>2. loaded'[t] = loaded[t] \union data /\ msg' = Written(t, data)
  BY DEF Proceed, TypeOK
<1>3. data \subseteq DataType /\ loaded[t] \subseteq DataType
  <2>1. Current(t) \in StepType
    BY <1>1, ActivePlaced, PlacedTyped DEF Current
  <2> QED
    BY <2>1 DEF StepType, TypeOK
<1>4. d \in DataType /\ d.cells \subseteq CellStart
  <2>1. d \in DataType
    BY <1>2, <1>3
  <2> QED
    BY <2>1 DEF DataType
<1>5. ASSUME d \notin data
      PROVE  \E i \in 1..k - 1 : d \in Steps(n)[i].writes
  BY <1>2, <1>5 DEF LoadedStays
<1>6. \E i \in 1..k + 1 - 1 : d \in Steps(n)[i].writes
  <2>1. CASE d \in data
    <3>1. k \in 1..k + 1 - 1
      BY <1>1
    <3> QED
      BY <1>1, <2>1, <3>1
  <2>2. CASE d \notin data
    <3>1. \A i \in 1..k - 1 : i \in 1..k + 1 - 1
      BY <1>1
    <3> QED
      BY <1>5, <2>2, <3>1
  <2> QED
    BY <2>1, <2>2
<1> HIDE DEF data
<1>7. ASSUME Kept(n, k + 1, d), NEW x \in d.cells
      PROVE  msg'[Body(t).unit][x] = Mark(t, d.is)
  <2>1. ~Clobbers(n, k, d) /\ (d \in data \/ Kept(n, k, d))
    <3>1. CASE d \in data
      BY <1>1, <3>1 DEF Readable
    <3>2. CASE d \notin data
      BY <1>1, <1>5, <1>7, <3>2, KeptStep
    <3> QED
      BY <3>1, <3>2
  <2>2. CASE /\ msg'[Body(t).unit][x] = msg[Body(t).unit][x]
             /\ ~\E e \in data : x \in e.cells
    <3>1. d \in loaded[t] /\ Kept(n, k, d)
      BY <1>2, <1>7, <2>1, <2>2
    <3> QED
      BY <1>7, <2>2, <3>1 DEF LoadedStays, Intact
  <2>3. CASE \E e \in data : x \in e.cells /\ msg'[Body(t).unit][x] = Mark(t, e.is)
    <3>1. PICK e \in data : x \in e.cells /\ msg'[Body(t).unit][x] = Mark(t, e.is)
      BY <2>3
    <3>2. x \in e.cells \intersect d.cells
      BY <1>7, <3>1
    <3>3. e.is = d.is
      BY <1>1, <2>1, <3>1, <3>2 DEF Clobbers
    <3> QED
      BY <3>1, <3>3
  <2>4. x \in CellStart
    BY <1>4, <1>7
  <2>5. \/ Written(t, data)[Body(t).unit][x] = msg[Body(t).unit][x]
           /\ ~\E e \in data : x \in e.cells
        \/ \E e \in data : /\ x \in e.cells
                           /\ Written(t, data)[Body(t).unit][x] = Mark(t, e.is)
    BY <1>1, <2>4, CellWritten
  <2> QED
    BY <1>2, <2>2, <2>3, <2>5
<1> QED
  BY <1>6, <1>7

\* The first rung of a path that formats what it throws.
LEMMA TextsBegin ==
    ASSUME TypeOK, NEW t \in Thread, NEW c, call' = [call EXCEPT ![t] = c],
           c.rung = 1, Legible(PathOf(c))
    PROVE  Stays(t)'
<1>1. call'[t] = c
  BY DEF TypeOK
<1>2. Path(t)' = PathOf(c)
  <2>1. PathOf(call'[t]) = PathOf(c)
    BY <1>1
  <2> QED
    BY <2>1 DEF Path, PathOf, StepOf
<1>3. TextsStay(t)'
  BY <1>1, <1>2 DEF TextsStay, Legible, SaidFor, Shows, Scribbles
<1> QED
  BY <1>1, <1>3 DEF Stays

\* One rung on, a text that is to be thrown is still to be formatted, or it is
\* there, put there by this rung or left alone by it.
LEMMA TextsNext ==
    ASSUME NEW path \in Seq(RungType), NEW k \in Nat \ {0}, k <= Len(path),
           NEW i \in k + 1..Len(path),
           NEW before \in BOOLEAN, NEW after \in BOOLEAN,
           \/ \E m \in k..i - 1 : SaidFor(path, m, i)
           \/ before /\ \A l \in k..i - 1 : ~Scribbles(path[l]),
           path[k].op = "say" /\ path[k].cells = path[i].cells => after,
           before /\ ~Scribbles(path[k]) => after
    PROVE  \/ \E m \in k + 1..i - 1 : SaidFor(path, m, i)
           \/ after /\ \A l \in k + 1..i - 1 : ~Scribbles(path[l])
<1>1. i \in Nat /\ k + 1 <= i /\ k \in k..i - 1
  BY LenProperties
<1>2. ASSUME NEW m \in k..i - 1, SaidFor(path, m, i), m # k
      PROVE  m \in k + 1..i - 1
  BY <1>1, <1>2
<1>3. CASE SaidFor(path, k, i)
  BY <1>3 DEF SaidFor
<1>4. CASE before /\ \A l \in k..i - 1 : ~Scribbles(path[l])
  <2>1. after
    BY <1>1, <1>4
  <2>2. \A l \in k + 1..i - 1 : l \in k..i - 1
    BY <1>1
  <2> QED
    BY <1>4, <2>1, <2>2
<1> QED
  BY <1>2, <1>3, <1>4

LEMMA PlacedNotIdle ==
    ASSUME NEW c, Placed(c)
    PROVE  c # Idle
<1>1. Idle.native = "" /\ c.native # ""
  BY CodeAssumption DEF Idle, Placed
<1> QED
  BY <1>1

LEMMA TextsUnwind ==
    ASSUME TypeOK, StaysIntact, OneEachUnit, NEW t \in Thread,
           Unwinding(t), call' = [call EXCEPT ![t].rung = @ + 1],
           loaded' = loaded,
           msg' = msg \/ (/\ Scribbles(CurrentRung(t))
                          /\ \E b : msg' = [msg EXCEPT ![Body(t).unit] = b]),
           CurrentRung(t).op = "say" => msg' = Written(t, {Text(CurrentRung(t))})
    PROVE  StaysIntact'
<1> DEFINE path == Path(t)
           k == call[t].rung
<1>1. /\ Active(t) /\ k \in Nat \ {0} /\ k <= Len(path)
      /\ path \in Seq(RungType) /\ CurrentRung(t) = path[k]
  BY UnwindingTyped DEF CurrentRung
<1>2. PICK c \in CallType :
        /\ Placed(c)
        /\ call' = [call EXCEPT ![t] = c]
        /\ c.native = call[t].native
        /\ c.pc = call[t].pc
        /\ c.exit = call[t].exit
        /\ c.rung = k + 1
        /\ c.rung # 0
        /\ PathOf(c) = path
  BY RungPlaced, Zenon
<1>3. call'[t] = c
  BY <1>2 DEF TypeOK
<1>4. Path(t)' = path
  <2>1. PathOf(call'[t]) = path
    BY <1>2, <1>3
  <2> QED
    BY <2>1 DEF Path, PathOf, StepOf
<1>5. Body(t)' = Body(t)
  BY <1>2, <1>3 DEF Body
<1>6. c.native \in Calls[t] /\ TextsStay(t)
  BY <1>1, <1>2 DEF StaysIntact
<1>7. ASSUME NEW i \in k + 1..Len(path), Shows(path[i])
      PROVE  \/ \E m \in k + 1..i - 1 : SaidFor(path, m, i)
             \/ /\ \A x \in path[i].cells : msg'[Body(t).unit][x] = Mark(t, "text")
                /\ \A l \in k + 1..i - 1 : ~Scribbles(path[l])
  <2> DEFINE before == Intact(t, Text(path[i]))
             after == \A x \in path[i].cells : msg'[Body(t).unit][x] = Mark(t, "text")
  <2>1. i \in k..Len(path) /\ i \in 1..Len(path)
    BY <1>1, <1>7, LenProperties
  <2>2. \/ \E m \in k..i - 1 : SaidFor(path, m, i)
        \/ before /\ \A l \in k..i - 1 : ~Scribbles(path[l])
    BY <1>6, <1>7, <2>1 DEF TextsStay
  <2>3. path[i].cells \subseteq CellStart
    <3>1. path[i] \in RungType
      BY <1>1, <2>1, ElementOfSeq
    <3> QED
      BY <3>1 DEF RungType
  <2>4. ASSUME path[k].op = "say", path[k].cells = path[i].cells
        PROVE  after
    <3> SUFFICES ASSUME NEW x \in path[i].cells
                 PROVE  msg'[Body(t).unit][x] = Mark(t, "text")
      OBVIOUS
    <3>1. x \in CellStart
      BY <2>3
    <3> DEFINE data == {Text(path[k])}
    <3>2. msg' = Written(t, data)
      BY <1>1, <2>4
    <3>3. \A d \in data : d.cells = path[i].cells /\ d.is = "text"
      BY <2>4 DEF Text
    <3>4. \E d \in data : x \in d.cells
      BY <3>3
    <3> HIDE DEF data
    <3>5. \/ Written(t, data)[Body(t).unit][x] = msg[Body(t).unit][x]
             /\ ~\E d \in data : x \in d.cells
          \/ \E d \in data : /\ x \in d.cells
                             /\ Written(t, data)[Body(t).unit][x] = Mark(t, d.is)
      BY <1>1, <3>1, CellWritten
    <3> QED
      BY <3>2, <3>3, <3>4, <3>5
  <2>5. ASSUME before, ~Scribbles(path[k])
        PROVE  after
    <3>1. msg' = msg
      BY <1>1, <2>5
    <3> QED
      BY <2>5, <3>1 DEF Intact, Text
  <2>6. before \in BOOLEAN /\ after \in BOOLEAN
    BY DEF Intact
  <2> HIDE DEF before, after, path, k
  <2>7. \/ \E m \in k + 1..i - 1 : SaidFor(path, m, i)
        \/ after /\ \A l \in k + 1..i - 1 : ~Scribbles(path[l])
    BY <1>1, <2>2, <2>4, <2>5, <2>6, TextsNext
  <2> QED
    BY <2>7 DEF after
<1>8. TextsStay(t)'
  <2>1. call'[t].rung = k + 1
    BY <1>2, <1>3
  <2>2. Mark(t, "text")' = Mark(t, "text")
    BY <1>2, <1>3 DEF Mark
  <2> SUFFICES ASSUME NEW i \in call'[t].rung..Len(Path(t)'), Shows(Path(t)'[i])
               PROVE  \/ \E m \in call'[t].rung..i - 1 : SaidFor(Path(t)', m, i)
                      \/ /\ Intact(t, Text(Path(t)[i]))'
                         /\ \A l \in call'[t].rung..i - 1 : ~Scribbles(Path(t)'[l])
    BY DEF TextsStay, SaidFor, Shows, Scribbles
  <2>3. Intact(t, Text(Path(t)[i]))' <=>
          \A x \in path[i].cells : msg'[Body(t).unit][x] = Mark(t, "text")
    BY <1>4, <1>5, <2>2 DEF Intact, Text
  <2> HIDE DEF path, k
  <2> QED
    BY <1>4, <1>7, <2>1, <2>3
<1>9. Stays(t)'
  BY <1>2, <1>3, <1>8 DEF Stays
<1>10. \A s \in Thread \ {t} : Active(s) => msg'[Body(s).unit] = msg[Body(s).unit]
  BY <1>1, WritesApart
<1>11. \A s \in Thread \ {t} : loaded'[s] = loaded[s]
  OBVIOUS
<1> HIDE DEF path, k
<1> QED
  BY <1>2, <1>6, <1>9, <1>10, <1>11, PlacedNotIdle, StaysUpdated

\* A thread that advances.
LEMMA StaysAdvance ==
    ASSUME TypeOK, StaysIntact, OneEachUnit, NEW t \in Thread, Stepping(t),
           NEW k \in Nat \ {0}, Advance(t, k), Readable(call[t].native),
           \A s \in Thread \ {t} : loaded'[s] = loaded[s],
           msg' = msg \/ \E b : msg' = [msg EXCEPT ![Body(t).unit] = b],
           /\ call'[t].native = call[t].native
           /\ call'[t].pc = call[t].pc + k
           => LoadedStays(t)'
    PROVE  StaysIntact'
<1>1. PICK c \in CallType :
        /\ Placed(c)
        /\ call' = [call EXCEPT ![t] = c]
        /\ c.native = call[t].native
        /\ c.exit = 0
        /\ \/ c.rung = 0 /\ c.pc = call[t].pc + k
           \/ c.rung = 1
  BY AdvancePlaced
<1>2. call'[t] = c /\ Active(t)
  BY <1>1 DEF TypeOK, Stepping
<1>3. c.native \in Calls[t]
  BY <1>1, <1>2 DEF StaysIntact
<1>4. Stays(t)'
  <2>1. CASE c.rung = 0
    BY <1>1, <1>2, <2>1 DEF Stays
  <2>2. CASE c.rung = 1
    <3>1. Legible(PathOf(c))
      BY <1>1 DEF PathOf, Readable
    <3> QED
      BY <1>1, <2>2, <3>1, TextsBegin
  <2> QED
    BY <1>1, <2>1, <2>2
<1>5. \A s \in Thread \ {t} : Active(s) => msg'[Body(s).unit] = msg[Body(s).unit]
  BY <1>2, WritesApart
<1> QED
  BY <1>1, <1>3, <1>4, <1>5, PlacedNotIdle, StaysUpdated

\* Every step leaves in msg what each thread counts on.
LEMMA StaysStep ==
    ASSUME OneEachUnit, \A n \in Native : Readable(n),
           TypeOK, StaysIntact, [Next]_vars
    PROVE  StaysIntact'
<1>1. ASSUME NEW t \in Thread, NEW n \in Calls[t], Begin(t, n)
      PROVE  StaysIntact'
  <2> DEFINE c == [native |-> n, pc |-> 1, exit |-> 0, rung |-> 0]
  <2>1. c.native = n /\ c.pc = 1 /\ c.rung = 0
    OBVIOUS
  <2>2. call' = [call EXCEPT ![t] = c] /\ loaded' = loaded /\ msg' = msg
    BY <1>1 DEF Begin
  <2> HIDE DEF c
  <2>3. call'[t] = c
    BY <2>2 DEF TypeOK
  <2>4. loaded[t] = {}
    BY <1>1 DEF Begin, StaysIntact
  <2>5. Stays(t)'
    <3>1. call'[t].rung = 0 /\ loaded'[t] = {}
      BY <2>1, <2>2, <2>3, <2>4
    <3>2. LoadedStays(t)'
      BY <3>1 DEF LoadedStays
    <3> QED
      BY <3>1, <3>2 DEF Stays
  <2>6. c # Idle
    <3>1. Idle.pc = 0
      BY DEF Idle
    <3> QED
      BY <2>1, <3>1
  <2> QED
    BY <2>1, <2>2, <2>5, <2>6, StaysUpdated
<1>2. ASSUME NEW t \in Thread, Proceed(t)
      PROVE  StaysIntact'
  <2>1. /\ call[t].native \in Native /\ Stepping(t) /\ Advance(t, 1) /\ Active(t)
        /\ call[t].rung = 0 /\ call[t].pc \in Nat
    BY <1>2, SteppingTyped DEF Proceed, Stepping
  <2>2. LoadedStays(t) /\ Readable(call[t].native)
    BY <2>1 DEF StaysIntact
  <2>3. \A s \in Thread \ {t} : loaded'[s] = loaded[s]
    BY <1>2 DEF Proceed, TypeOK
  <2>4. \E b : msg' = [msg EXCEPT ![Body(t).unit] = b]
    BY <1>2 DEF Proceed, Written
  <2>5. ASSUME call'[t].native = call[t].native, call'[t].pc = call[t].pc + 1
        PROVE  LoadedStays(t)'
    <3> SUFFICES ASSUME NEW d \in loaded'[t]
                 PROVE  /\ \E i \in 1..call'[t].pc - 1 :
                             d \in Steps(call'[t].native)[i].writes
                        /\ Kept(call'[t].native, call'[t].pc, d) => Intact(t, d)'
      BY DEF LoadedStays, Kept, Clobbers, Skippable, Steps
    <3>1. /\ \E i \in 1..call[t].pc + 1 - 1 : d \in Steps(call[t].native)[i].writes
          /\ Kept(call[t].native, call[t].pc + 1, d) =>
               \A x \in d.cells : msg'[Body(t).unit][x] = Mark(t, d.is)
      BY <1>2, <2>2, LoadedProceeds
    <3>2. Body(t)' = Body(t) /\ Mark(t, d.is)' = Mark(t, d.is)
      BY <2>5 DEF Body, Mark
    <3>3. Intact(t, d)' <=> \A x \in d.cells : msg'[Body(t).unit][x] = Mark(t, d.is)
      BY <3>2 DEF Intact
    <3>4. \E i \in 1..call'[t].pc - 1 : d \in Steps(call'[t].native)[i].writes
      <4>1. PICK i \in 1..call[t].pc + 1 - 1 : d \in Steps(call[t].native)[i].writes
        BY <3>1
      <4>2. i \in 1..call'[t].pc - 1
        BY <2>1, <2>5
      <4>3. d \in Steps(call'[t].native)[i].writes
        BY <2>5, <4>1 DEF Steps
      <4> QED
        BY <4>2, <4>3
    <3>5. Kept(call'[t].native, call'[t].pc, d) => Intact(t, d)'
      BY <2>5, <3>1, <3>3, Zenon
    <3> QED
      BY <3>4, <3>5
  <2>6. 1 \in Nat \ {0}
    OBVIOUS
  <2> QED
    BY <2>1, <2>2, <2>3, <2>4, <2>5, <2>6, StaysAdvance, ZenonT(30)
<1>3. ASSUME NEW t \in Thread, Skip(t)
      PROVE  StaysIntact'
  <2> DEFINE n == call[t].native
             k == call[t].pc
             j == Current(t).skips
  <2>1. /\ n \in Native /\ k \in Nat \ {0} /\ j \in Nat \ {0}
        /\ Current(t) = Steps(n)[k] /\ Stepping(t) /\ Advance(t, j) /\ Active(t)
        /\ call[t].rung = 0
    BY <1>3, SteppingTyped DEF Skip, Stepping
  <2>2. LoadedStays(t) /\ Readable(n)
    BY <2>1 DEF StaysIntact
  <2>3. loaded' = loaded /\ msg' = msg
    BY <1>3 DEF Skip
  <2>4. ASSUME call'[t].native = n, call'[t].pc = k + j
        PROVE  LoadedStays(t)'
    <3> SUFFICES ASSUME NEW d \in loaded'[t]
                 PROVE  /\ \E i \in 1..call'[t].pc - 1 :
                             d \in Steps(call'[t].native)[i].writes
                        /\ Kept(call'[t].native, call'[t].pc, d) => Intact(t, d)'
      BY DEF LoadedStays, Kept, Clobbers, Skippable, Steps
    <3>1. /\ \E i \in 1..k - 1 : d \in Steps(n)[i].writes
          /\ Kept(n, k, d) => Intact(t, d)
      BY <2>2, <2>3 DEF LoadedStays
    <3>2. \E i \in 1..k + j - 1 : d \in Steps(n)[i].writes
      <4>1. \A i \in 1..k - 1 : i \in 1..k + j - 1
        BY <2>1
      <4> QED
        BY <3>1, <4>1
    <3>3. Kept(n, k + j, d) => Kept(n, k, d)
      <4>1. k + j \in Nat /\ k <= k + j /\ k + j <= k + Steps(n)[k].skips
        BY <2>1
      <4> QED
        BY <2>1, <4>1, KeptSkip
    <3>4. Body(t)' = Body(t) /\ \A x : Mark(t, x)' = Mark(t, x)
      BY <2>4 DEF Body, Mark
    <3>5. Intact(t, d)' <=> Intact(t, d)
      BY <2>3, <3>4 DEF Intact
    <3>6. \E i \in 1..call'[t].pc - 1 : d \in Steps(call'[t].native)[i].writes
      <4>1. PICK i \in 1..k + j - 1 : d \in Steps(n)[i].writes
        BY <3>2
      <4>2. i \in 1..call'[t].pc - 1
        BY <2>1, <2>4
      <4>3. d \in Steps(call'[t].native)[i].writes
        BY <2>4, <4>1 DEF Steps
      <4> QED
        BY <4>2, <4>3
    <3>7. Kept(call'[t].native, call'[t].pc, d) => Intact(t, d)'
      BY <2>4, <3>1, <3>3, <3>5, Zenon
    <3> QED
      BY <3>6, <3>7
  <2> HIDE DEF j
  <2> QED
    BY <2>1, <2>2, <2>3, <2>4, StaysAdvance
<1>4. ASSUME NEW t \in Thread, Fail(t)
      PROVE  StaysIntact'
  <2>1. /\ Stepping(t) /\ Active(t) /\ loaded' = loaded
        /\ call[t].native \in Native
        /\ call[t].pc \in 1..Len(Steps(call[t].native))
        /\ Current(t) = Steps(call[t].native)[call[t].pc]
    BY <1>4, SteppingTyped DEF Fail, Stepping
  <2>2. PICK e \in 1..Len(Current(t).fail) :
            call' = [call EXCEPT ![t].exit = e, ![t].rung = 1]
    BY <1>4 DEF Fail
  <2>3. PICK c \in CallType :
            /\ Placed(c)
            /\ call' = [call EXCEPT ![t] = c]
            /\ c.native = call[t].native
            /\ c.pc = call[t].pc
            /\ c.exit = e
            /\ c.rung = 1
            /\ PathOf(c) = Current(t).fail[e]
    BY <2>1, <2>2, FailPlaced, Zenon
  <2>4. c.native \in Calls[t]
    BY <2>1, <2>3 DEF StaysIntact
  <2>5. Legible(PathOf(c))
    BY <2>1, <2>2, <2>3 DEF Readable
  <2>6. Stays(t)'
    BY <2>3, <2>5, TextsBegin
  <2>7. msg' = msg \/ \E b : msg' = [msg EXCEPT ![Body(t).unit] = b]
    BY <1>4 DEF Fail, Written
  <2>8. \A s \in Thread \ {t} : Active(s) => msg'[Body(s).unit] = msg[Body(s).unit]
    BY <2>1, <2>7, WritesApart
  <2> QED
    BY <2>1, <2>3, <2>4, <2>6, <2>8, PlacedNotIdle, StaysUpdated
<1>5. ASSUME NEW t \in Thread, WipeScratch(t)
      PROVE  StaysIntact'
  BY <1>5, TextsUnwind DEF WipeScratch, AtRung, Scribbles
<1>6. ASSUME NEW t \in Thread, FormatError(t)
      PROVE  StaysIntact'
  <2>1. \E b : msg' = [msg EXCEPT ![Body(t).unit] = b]
    BY <1>6 DEF FormatError, Written
  <2> QED
    BY <1>6, <2>1, TextsUnwind DEF FormatError, AtRung, Scribbles
<1>7. ASSUME NEW t \in Thread,
             \/ ReleaseResource(t) \/ DetachRandom(t) \/ DropResult(t)
             \/ LeaveUnset(t) \/ ThrowException(t)
      PROVE  StaysIntact'
  <2>1. /\ Unwinding(t) /\ call' = [call EXCEPT ![t].rung = @ + 1]
        /\ CurrentRung(t).op # "say"
        /\ loaded' = loaded /\ msg' = msg
    BY <1>7 DEF ReleaseResource, DetachRandom, DropResult, LeaveUnset,
                ThrowException, AtRung
  <2> QED
    BY <2>1, TextsUnwind
<1>8. ASSUME NEW t \in Thread, Return(t)
      PROVE  StaysIntact'
  <2>1. /\ call' = [call EXCEPT ![t] = Idle]
        /\ \A s \in Thread \ {t} : loaded'[s] = loaded[s]
        /\ loaded'[t] = {}
    BY <1>8 DEF Return, TypeOK
  <2>2. Active(t)
    <3>1. Idle.rung = 0
      BY DEF Idle
    <3> QED
      BY <1>8, <3>1 DEF Return, Returning, Active
  <2>3. \E b : msg' = [msg EXCEPT ![Body(t).unit] = b]
    BY <1>8 DEF Return, Left
  <2>4. \A s \in Thread \ {t} : Active(s) => msg'[Body(s).unit] = msg[Body(s).unit]
    BY <2>2, <2>3, WritesApart
  <2> QED
    BY <2>1, <2>4, StaysUpdated
<1>9. CASE UNCHANGED vars
  <2> SUFFICES ASSUME NEW s \in Thread
               PROVE  IF Active(s)' THEN call'[s].native \in Calls[s] /\ Stays(s)'
                                    ELSE loaded'[s] = {}
    BY DEF StaysIntact, Stays
  <2>1. call' = call /\ loaded' = loaded /\ msg' = msg
    BY <1>9 DEF vars
  <2> QED
    BY <2>1, StaysAlone
<1> QED
  BY <1>1, <1>2, <1>3, <1>4, <1>5, <1>6, <1>7, <1>8, <1>9 DEF Next, Run

\* What a call reads back from msg, and the text of the exception it throws, is
\* what it wrote there, for any number of threads as long as no two of them
\* call natives of one translation unit.
THEOREM ReadsIntactApart ==
    ASSUME OneEachUnit, \A n \in Native : Readable(n)
    PROVE  Spec => []ReadsIntact
<1>1. Init => StaysIntact
  BY DEF Init, StaysIntact, Active
<1>2. TypeOK /\ StaysIntact /\ [Next]_vars => StaysIntact'
  BY StaysStep
<1>3. TypeOK /\ StaysIntact => ReadsIntact
  <2> SUFFICES ASSUME TypeOK, StaysIntact, NEW t \in Thread
               PROVE  /\ Stepping(t) =>
                           \A d \in Current(t).reads \intersect loaded[t] : Intact(t, d)
                      /\ Unwinding(t) /\ CurrentRung(t).op = "throw" =>
                           Intact(t, Text(CurrentRung(t)))
    BY DEF ReadsIntact
  <2>1. ASSUME Stepping(t), NEW d \in Current(t).reads \intersect loaded[t]
        PROVE  Intact(t, d)
    <3>1. LoadedStays(t)
      BY <2>1 DEF StaysIntact, Stepping
    <3>2. Kept(call[t].native, call[t].pc, d)
      BY <2>1, SteppingTyped DEF Readable
    <3> QED
      BY <2>1, <3>1, <3>2 DEF LoadedStays
  <2>2. ASSUME Unwinding(t), CurrentRung(t).op = "throw"
        PROVE  Intact(t, Text(CurrentRung(t)))
    <3> DEFINE k == call[t].rung
    <3>1. /\ Active(t) /\ k \in Nat \ {0} /\ k <= Len(Path(t))
          /\ Path(t) \in Seq(RungType) /\ CurrentRung(t) = Path(t)[k]
      BY <2>2, UnwindingTyped DEF CurrentRung
    <3>2. CASE CurrentRung(t).cells = {}
      BY <3>2 DEF Intact, Text
    <3>3. CASE CurrentRung(t).cells # {}
      <4>1. k \in k..Len(Path(t)) /\ k..k - 1 = {}
        BY <3>1, LenProperties
      <4>2. TextsStay(t)
        BY <3>1 DEF StaysIntact
      <4>3. Shows(Path(t)[k])
        BY <2>2, <3>1, <3>3 DEF Shows
      <4> QED
        BY <3>1, <4>1, <4>2, <4>3 DEF TextsStay
    <3> QED
      BY <3>2, <3>3
  <2> QED
    BY <2>1, <2>2
<1> QED
  BY <1>1, <1>2, <1>3, TypeCorrect, PTL DEF Spec

----------------------------------------------------------------------------
(* Cells for bytes.  The scripts say which cells of msg an access touches; *)
(* these are what can be said of its bytes.                                *)

Bytes(c) == {b \in 0..MsgSize - 1 : c <= b /\ b < CellEnd(c)}

\* The end of a cell is the next cut.
LEMMA CellEndIs ==
    ASSUME NEW c \in CellStart
    PROVE  /\ CellEnd(c) \in CellStart \union {MsgSize}
           /\ CellEnd(c) > c
           /\ \A d \in CellStart : d > c => CellEnd(c) <= d
<1> DEFINE NextCut(e) == e > c /\ \A d \in CellStart : d > c => e <= d
<1>1. \E e \in CellStart \union {MsgSize} : NextCut(e)
  <2>1. CASE c = 0
    BY <2>1 DEF CellStart, MsgSize
  <2>2. CASE c = 16
    BY <2>2 DEF CellStart, MsgSize
  <2>3. CASE c = 32
    BY <2>3 DEF CellStart, MsgSize
  <2>4. CASE c = 64
    BY <2>4 DEF CellStart, MsgSize
  <2>5. CASE c = 82
    BY <2>5 DEF CellStart, MsgSize
  <2>6. CASE c = 128
    BY <2>6 DEF CellStart, MsgSize
  <2>7. CASE c = 256
    BY <2>7 DEF CellStart, MsgSize
  <2>8. CASE c = 384
    BY <2>8 DEF CellStart, MsgSize
  <2> QED
    BY <2>1, <2>2, <2>3, <2>4, <2>5, <2>6, <2>7, <2>8 DEF CellStart
<1>2. CellEnd(c) = CHOOSE e \in CellStart \union {MsgSize} : NextCut(e)
  BY DEF CellEnd
<1> HIDE DEF NextCut
<1>3. CellEnd(c) \in CellStart \union {MsgSize} /\ NextCut(CellEnd(c))
  BY <1>1, <1>2
<1> QED
  BY <1>3 DEF NextCut

LEMMA CellsTyped ==
    /\ MsgSize = 768
    /\ \A c \in CellStart : /\ c \in Nat /\ CellEnd(c) \in Nat
                            /\ c < CellEnd(c) /\ CellEnd(c) <= MsgSize
<1>1. MsgSize = 768
  BY DEF MsgSize
<1>2. \A c \in CellStart \union {MsgSize} : c \in Nat /\ c <= 768
  BY DEF CellStart, MsgSize
<1> QED
  BY <1>1, <1>2, CellEndIs

\* The cells cut msg into pieces: every byte is in one and no byte in two.
LEMMA EachByteInOneCell ==
    ASSUME NEW b \in 0..MsgSize - 1
    PROVE  \E c \in CellStart : b \in Bytes(c) /\ \A d \in CellStart : b \in Bytes(d) => d = c
<1>1. \E c \in CellStart : c <= b /\ b < CellEnd(c)
  <2>1. b \in 0..767 /\ {0, 16, 32, 64, 82, 128, 256, 384} = CellStart
    BY DEF MsgSize, CellStart
  <2>2. PICK c \in CellStart : c <= b /\ \A d \in CellStart : d > c => b < d
    <3>1. CASE b < 82
      BY <2>1, <3>1
    <3>2. CASE b >= 82
      BY <2>1, <3>2
    <3> QED
      BY <2>1, <3>1, <3>2
  <2>3. CASE CellEnd(c) = MsgSize
    BY <2>2, <2>3, CellsTyped
  <2>4. CASE CellEnd(c) \in CellStart
    BY <2>2, <2>4, CellEndIs
  <2> QED
    BY <2>2, <2>3, <2>4, CellEndIs
<1>2. PICK c \in CellStart : c <= b /\ b < CellEnd(c)
  BY <1>1
<1>3. ASSUME NEW d \in CellStart, d <= b, b < CellEnd(d)
      PROVE  d = c
  <2>1. c \in Nat /\ d \in Nat /\ CellEnd(c) \in Nat /\ CellEnd(d) \in Nat /\ b \in Nat
    BY CellsTyped
  <2>2. d > c => CellEnd(c) <= d
    BY CellEndIs
  <2>3. c > d => CellEnd(d) <= c
    BY CellEndIs
  <2> QED
    BY <1>2, <1>3, <2>1, <2>2, <2>3
<1> QED
  BY <1>2, <1>3 DEF Bytes

\* An access touches a cell if and only if it touches a byte of it.
THEOREM TouchedIsByteForByte ==
    ASSUME NEW from \in Nat, NEW n \in Nat \ {0}, from + n <= MsgSize
    PROVE  Touched(from, n) = {c \in CellStart : Bytes(c) \intersect from..from + n - 1 # {}}
<1> SUFFICES ASSUME NEW c \in CellStart
             PROVE  c < from + n /\ from < CellEnd(c) <=>
                      \E b \in Bytes(c) : b \in from..from + n - 1
  BY DEF Touched
<1>1. /\ MsgSize = 768 /\ c \in Nat /\ CellEnd(c) \in Nat /\ c < CellEnd(c)
      /\ CellEnd(c) <= MsgSize
  BY CellsTyped
<1>2. ASSUME c < from + n, from < CellEnd(c)
      PROVE  \E b \in Bytes(c) : b \in from..from + n - 1
  <2>1. CASE c <= from
    <3>1. from \in Bytes(c) /\ from \in from..from + n - 1
      BY <1>1, <1>2, <2>1 DEF Bytes
    <3> QED
      BY <3>1
  <2>2. CASE c > from
    <3>1. c \in Bytes(c) /\ c \in from..from + n - 1
      BY <1>1, <1>2, <2>2 DEF Bytes
    <3> QED
      BY <3>1
  <2> QED
    BY <1>1, <2>1, <2>2
<1>3. ASSUME NEW b \in Bytes(c), b \in from..from + n - 1
      PROVE  c < from + n /\ from < CellEnd(c)
  BY <1>1, <1>3 DEF Bytes
<1> QED
  BY <1>2, <1>3

\* Two accesses that touch no cell in common have no byte in common: what Clobbers
\* does not see is not there.
THEOREM ApartInCellsApartInBytes ==
    ASSUME NEW from \in Nat, NEW n \in Nat \ {0}, from + n <= MsgSize,
           NEW other \in Nat, NEW m \in Nat \ {0}, other + m <= MsgSize,
           Touched(from, n) \intersect Touched(other, m) = {}
    PROVE  from..from + n - 1 \intersect other..other + m - 1 = {}
<1> SUFFICES ASSUME NEW b \in from..from + n - 1, b \in other..other + m - 1
             PROVE  FALSE
  OBVIOUS
<1>1. b \in 0..MsgSize - 1
  BY CellsTyped
<1>2. PICK c \in CellStart : b \in Bytes(c)
  BY <1>1, EachByteInOneCell
<1>3. c \in Touched(from, n) /\ c \in Touched(other, m)
  BY <1>2, TouchedIsByteForByte
<1> QED
  BY <1>3

\* An error text of n bytes overwrites a cell if and only if it overwrites all bytes
\* of it.
THEOREM OverwrittenIsByteForByte ==
    ASSUME NEW n \in Nat, n <= MsgSize
    PROVE  Overwritten(n) = {c \in CellStart : Bytes(c) \subseteq 0..n - 1}
<1> SUFFICES ASSUME NEW c \in CellStart
             PROVE  CellEnd(c) <= n <=> Bytes(c) \subseteq 0..n - 1
  BY DEF Overwritten
<1>1. /\ MsgSize = 768 /\ c \in Nat /\ CellEnd(c) \in Nat /\ c < CellEnd(c)
      /\ CellEnd(c) <= MsgSize
  BY CellsTyped
<1>2. ASSUME CellEnd(c) <= n PROVE Bytes(c) \subseteq 0..n - 1
  BY <1>1, <1>2 DEF Bytes
<1>3. ASSUME Bytes(c) \subseteq 0..n - 1 PROVE CellEnd(c) <= n
  <2>1. CellEnd(c) - 1 \in Bytes(c)
    BY <1>1 DEF Bytes
  <2>2. CellEnd(c) - 1 \in 0..n - 1
    BY <1>3, <2>1
  <2> QED
    BY <1>1, <2>2
<1> QED
  BY <1>2, <1>3

\* On whichever path a native that wipes ends, each byte of each secret that a
\* statement before it put into msg is zeroed or written over by an error text.
THEOREM SecretBytesErased ==
    ASSUME NEW n \in Native, n \notin Unwiped, Wipes(n),
           NEW j \in 1..Len(Steps(n)), NEW d \in Steps(n)[j].writes, d.is \in SecretKind,
           NEW from \in Nat, NEW k \in Nat \ {0}, from + k <= MsgSize,
           d = Data(from, k, d.is), NEW b \in from..from + k - 1,
           NEW path,
           \/ path = Code[n].done
           \/ \E i \in j..Len(Steps(n)) : \E e \in 1..Len(Steps(n)[i].fail) :
                path = Steps(n)[i].fail[e]
    PROVE  \E r \in 1..Len(path) :
             \/ path[r].op = "zero"
             \/ /\ path[r].op = "say"
                /\ \A m \in Nat : m <= MsgSize /\ path[r].cells = Overwritten(m) => b < m
<1>1. b \in 0..MsgSize - 1
  BY CellsTyped
<1>2. PICK c \in CellStart : b \in Bytes(c)
  BY <1>1, EachByteInOneCell
<1>3. c \in d.cells
  <2>1. c \in Touched(from, k)
    BY <1>2, TouchedIsByteForByte
  <2> QED
    BY <2>1 DEF Data
<1>4. Len(Steps(n)) \in Nat
  BY ScriptTyped DEF Steps
<1>5. c \in ErasedFrom(path, 1)
  <2>1. CASE path = Code[n].done
    <3>1. j \in 1..Len(Steps(n)) + 1 - 1
      BY <1>4
    <3>2. c \in MayStain(n, Len(Steps(n)) + 1)
      BY <1>3, <3>1 DEF MayStain
    <3> QED
      BY <2>1, <3>2 DEF Wipes
  <2>2. ASSUME NEW i \in j..Len(Steps(n)), NEW e \in 1..Len(Steps(n)[i].fail),
               path = Steps(n)[i].fail[e]
        PROVE  c \in ErasedFrom(path, 1)
    <3>1. i \in 1..Len(Steps(n)) /\ j \in 1..i + 1 - 1
      BY <1>4
    <3>2. c \in MayStain(n, i + 1)
      BY <1>3, <3>1 DEF MayStain
    <3> QED
      BY <2>2, <3>1, <3>2 DEF Wipes
  <2> QED
    BY <2>1, <2>2
<1>6. PICK r \in 1..Len(path) : c \in Erases(path, r)
  BY <1>5 DEF ErasedFrom
<1>7. path[r].op = "zero" \/ (path[r].op = "say" /\ c \in path[r].cells)
  BY <1>6 DEF Erases
<1>8. ASSUME NEW m \in Nat, m <= MsgSize, c \in Overwritten(m)
      PROVE  b < m
  <2>1. Bytes(c) \subseteq 0..m - 1
    BY <1>8, OverwrittenIsByteForByte
  <2> QED
    BY <1>1, <1>2, <1>8, <2>1, CellsTyped
<1> QED
  BY <1>7, <1>8

----------------------------------------------------------------------------
(* The library.  MCDiscipline has TLC evaluate CodeIsDisciplined with the   *)
(* scripts of all natives for Code: what follows is what it comes to.       *)

\* The natives of mynanojava.c and bitcoin_util.c, on whatever path and however
\* many threads are in them, leak nothing, release only what they hold, leave no
\* random function attached and no secret in msg, only clean up while an exception
\* is pending, be it the JVM's or their own, and return either a result or an
\* exception; the known exceptions are the ones named in Leaky, Odd and Unwiped.
THEOREM LibraryIsSafe ==
    Spec => /\ [](TypeOK /\ NoLeak /\ ReleasesHeld /\ HookAtRest /\ SecretsDieWithCall
                    /\ OneOutcome)
            /\ KeepsContract
            /\ [][\A t \in Thread : thrown[t] \/ refused[t] => CleansUp(t)]_vars
<1>1. /\ \A n \in Native : Balanced(n)
      /\ \A n \in Native : Backed(n)
      /\ \A n \in Native : Bracketed(n)
      /\ \A n \in Native : Wipes(n)
      /\ \A n \in Native : Decided(n)
      /\ \A n \in Native : Decided(n) /\ ThrowsOnce(n)
      /\ \A n \in Native : Balanced(n) /\ Decided(n) /\ Orderly(n)
  BY CodeIsDisciplined
<1>2. Spec => []NoLeak
  BY <1>1, NothingLeaks
<1>3. Spec => []ReleasesHeld
  BY <1>1, OnlyHeldIsReleased
<1>4. Spec => []HookAtRest
  BY <1>1, HookLeftAtRest
<1>5. Spec => []SecretsDieWithCall
  BY <1>1, SecretsErased
<1>6. Spec => []OneOutcome
  BY <1>1, OneOutcomeAlways
<1>7. Spec => KeepsContract
  BY <1>1, NativesKeepContract
<1>8. Spec => [][\A t \in Thread : thrown[t] \/ refused[t] => CleansUp(t)]_vars
  BY <1>1, PendingOnlyCleansUp
<1> QED
  BY <1>2, <1>3, <1>4, <1>5, <1>6, <1>7, <1>8, TypeCorrect, PTL

\* Two threads of which one stays in mynanojava.c and the other in bitcoin_util.c find
\* in msg what they put there; two of which one never calls a native that uses the
\* random function draw from one that is attached.  There is no third condition:
\* every native is Readable and Served.
THEOREM LibraryApart ==
    /\ OneEachUnit => (Spec => []ReadsIntact)
    /\ OneServed => (Spec => []RandomServed)
<1>1. ASSUME OneEachUnit PROVE Spec => []ReadsIntact
  <2>1. \A n \in Native : Readable(n)
    BY CodeIsDisciplined
  <2> QED
    BY <1>1, <2>1, ReadsIntactApart
<1>2. ASSUME OneServed PROVE Spec => []RandomServed
  <2>1. \A n \in Native : Served(n)
    BY CodeIsDisciplined
  <2> QED
    BY <1>2, <2>1, RandomServedApart
<1> QED
  BY <1>1, <1>2

\* A thread inside a native has at most so many statements ahead as the longest
\* script of the library and its longest exit path come to, and each brings it
\* nearer to the return.
THEOREM LibraryCallsEnd ==
    Spec => [][\A t \in Thread : Run(t) =>
                 /\ Ahead(call[t], MaxRungs) \in Nat
                 /\ Ahead(call'[t], MaxRungs) \in Nat
                 /\ Ahead(call'[t], MaxRungs) < Ahead(call[t], MaxRungs)
                 /\ \A u \in Thread \ {t} : call'[u] = call[u]]_vars
<1>1. MaxRungs \in Nat /\ \A n \in Native : EndsWithin(n, MaxRungs)
  BY CodeIsDisciplined DEF MaxRungs
<1>2. TypeOK /\ [Next]_vars =>
        [\A t \in Thread : Run(t) =>
           /\ Ahead(call[t], MaxRungs) \in Nat
           /\ Ahead(call'[t], MaxRungs) \in Nat
           /\ Ahead(call'[t], MaxRungs) < Ahead(call[t], MaxRungs)
           /\ \A u \in Thread \ {t} : call'[u] = call[u]]_vars
  BY <1>1, RunNearer
<1> QED
  BY <1>2, TypeCorrect, PTL DEF Spec

=============================================================================
