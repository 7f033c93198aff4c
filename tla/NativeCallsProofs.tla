--------------------------- MODULE NativeCallsProofs ---------------------------
(***************************************************************************)
(* What the natives keep, for any set of threads and any scripts.          *)
(***************************************************************************)
EXTENDS CallDiscipline, SequenceTheorems, TLAPS

MarkType == {Blank, Stale} \union [by : Thread, in : Native, is : DataKind]

----------------------------------------------------------------------------
(* Type correctness.                                                       *)

\* The script of a native is typed, and has a first step.
LEMMA ScriptTyped ==
    ASSUME NEW n \in Native
    PROVE  /\ n # ""
           /\ Code[n].unit \in Unit
           /\ Code[n].steps \in Seq(StepType)
           /\ Len(Code[n].steps) \in Nat \ {0}
           /\ Code[n].done \in Seq(RungType)
<1>1. Code[n] \in ScriptType /\ Code[n].steps # <<>> /\ n # ""
  BY CodeAssumption
<1>2. Code[n].steps \in Seq(StepType) /\ Code[n].done \in Seq(RungType)
  BY <1>1 DEF ScriptType
<1>3. Len(Code[n].steps) \in Nat \ {0}
  BY <1>1, <1>2, EmptySeq, LenProperties
<1> QED
  BY <1>1, <1>2, <1>3 DEF Unit

\* What a call that is placed in its script is about to execute is typed.
LEMMA PlacedTyped ==
    ASSUME NEW c \in CallType, Placed(c)
    PROVE  /\ StepOf(c) \in StepType
           /\ StepOf(c).fail \in Seq(Seq(RungType))
           /\ PathOf(c) \in Seq(RungType)
<1>1. /\ Code[c.native].steps \in Seq(StepType)
      /\ Code[c.native].done \in Seq(RungType)
  BY ScriptTyped DEF Placed
<1>2. StepOf(c) \in StepType
  BY <1>1, ElementOfSeq DEF Placed, StepOf
<1>3. StepOf(c).fail \in Seq(Seq(RungType))
  BY <1>2 DEF StepType
<1>4. ASSUME c.exit # 0
      PROVE  StepOf(c).fail[c.exit] \in Seq(RungType)
  <2>1. c.exit \in 1..Len(StepOf(c).fail)
    BY <1>3, <1>4, LenProperties DEF Placed
  <2> QED
    BY <2>1, <1>3, ElementOfSeq
<1> QED
  BY <1>1, <1>2, <1>3, <1>4 DEF PathOf

\* A thread that is not idle is placed in the script of its native.
LEMMA ActivePlaced ==
    ASSUME TypeOK, NEW t \in Thread, Active(t)
    PROVE  call[t] \in CallType /\ Placed(call[t]) /\ call[t].native \in Native
BY DEF TypeOK, Active, Placed

\* A thread at a rung is active, and its rung is typed.
LEMMA RungTyped ==
    ASSUME TypeOK, NEW t \in Thread, Unwinding(t)
    PROVE  Active(t) /\ CurrentRung(t) \in RungType
<1>1. Active(t)
  <2>1. Idle.rung = 0
    BY DEF Idle
  <2> QED
    BY <2>1 DEF Unwinding, Active
<1>2. Path(t) \in Seq(RungType) /\ Placed(call[t])
  BY <1>1, ActivePlaced, PlacedTyped DEF Path
<1>3. call[t].rung \in 1..Len(Path(t))
  BY <1>2, LenProperties DEF Unwinding, Placed, Path
<1> QED
  BY <1>1, <1>2, <1>3, ElementOfSeq DEF CurrentRung

\* Writing typed data leaves the scratch buffers typed.
LEMMA WrittenTyped ==
    ASSUME TypeOK, NEW t \in Thread, Active(t), NEW data \in SUBSET DataType
    PROVE  Written(t, data) \in [Unit -> [CellStart -> MarkType]]
<1>1. ASSUME NEW c \in CellStart, \E d \in data : c \in d.cells
      PROVE  Mark(t, (CHOOSE d \in data : c \in d.cells).is) \in MarkType
  <2>1. (CHOOSE d \in data : c \in d.cells) \in data
    BY <1>1
  <2> QED
    BY <2>1, ActivePlaced DEF Mark, MarkType, DataType
<1>2. msg \in [Unit -> [CellStart -> MarkType]]
  BY DEF TypeOK, MarkType
<1>3. Body(t).unit \in Unit
  BY ActivePlaced, ScriptTyped DEF Body
<1> QED
  BY <1>1, <1>2, <1>3 DEF Written

\* A step that moves one thread to a place of its script, or out of it, keeps
\* every thread placed.
LEMMA CallUpdated ==
    ASSUME TypeOK, NEW t \in Thread, NEW c \in CallType, c = Idle \/ Placed(c),
           call' = [call EXCEPT ![t] = c]
    PROVE  /\ call' \in [Thread -> CallType]
           /\ \A s \in Thread : call'[s] = Idle \/ Placed(call'[s])
BY DEF TypeOK

\* Where Advance goes: to a later step, or to the first rung of the path that
\* a call which failed nowhere takes.
LEMMA AdvancePlaced ==
    ASSUME TypeOK, NEW t \in Thread, Stepping(t), NEW k \in Nat \ {0},
           Advance(t, k)
    PROVE  \E c \in CallType :
              /\ Placed(c)
              /\ call' = [call EXCEPT ![t] = c]
              /\ c.native = call[t].native
              /\ c.exit = 0
              /\ \/ /\ c.rung = 0
                    /\ c.pc = call[t].pc + k
                 \/ /\ c.rung = 1
                    /\ c.pc = call[t].pc
                    /\ call[t].pc + k > Len(Steps(c.native))
<1>1. Active(t) /\ call[t].rung = 0 /\ call[t].exit = 0
  BY ActivePlaced DEF Stepping, Placed
<1>2. /\ call[t] \in CallType
      /\ Placed(call[t])
      /\ call[t].native \in Native
      /\ call \in [Thread -> CallType]
  BY <1>1, ActivePlaced DEF TypeOK
<1>3. /\ Code[call[t].native].done \in Seq(RungType)
      /\ Len(Code[call[t].native].done) \in Nat
  BY <1>2, ScriptTyped, LenProperties
<1>4. CASE call[t].pc + k > Len(Body(t).steps)
  <2> DEFINE c == [call[t] EXCEPT !.rung = 1]
  <2>1. c \in CallType /\ c.native = call[t].native /\ c.exit = 0 /\ c.rung = 1 /\ c.pc = call[t].pc
    BY <1>1, <1>2 DEF CallType
  <2>2. StepOf(c) = StepOf(call[t]) /\ PathOf(c) = Code[call[t].native].done
    BY <2>1 DEF StepOf, PathOf
  <2>3. Placed(c)
    BY <1>1, <1>2, <1>3, <2>1, <2>2 DEF Placed
  <2>4. call' = [call EXCEPT ![t] = c]
    BY <1>4 DEF Advance
  <2> QED
    BY <2>1, <2>3, <2>4, <1>4 DEF Body, Steps
<1>5. CASE ~(call[t].pc + k > Len(Body(t).steps))
  <2> DEFINE c == [call[t] EXCEPT !.pc = @ + k]
  <2>0. /\ call[t].pc \in Nat \ {0}
        /\ call[t].pc + k \in Nat \ {0}
        /\ Len(Code[call[t].native].steps) \in Nat
    <3>1. call[t].pc \in 1..Len(Code[call[t].native].steps)
      BY <1>2 DEF Placed
    <3>2. Len(Code[call[t].native].steps) \in Nat
      BY <1>2, ScriptTyped
    <3> QED
      BY <3>1, <3>2
  <2>1. c \in CallType /\ c.native = call[t].native /\ c.exit = 0 /\ c.rung = 0 /\ c.pc = call[t].pc + k
    BY <1>1, <1>2, <2>0 DEF CallType
  <2>2. c.pc \in 1..Len(Code[c.native].steps)
    <3>1. call[t].pc + k \in 1..Len(Code[call[t].native].steps)
      BY <1>5, <2>0 DEF Body
    <3> QED
      BY <2>1, <3>1
  <2>3. Len(StepOf(c).fail) \in Nat
    <3>1. StepOf(c) \in StepType
      BY <1>2, <2>1, <2>2, ScriptTyped, ElementOfSeq DEF StepOf
    <3> QED
      BY <3>1, LenProperties DEF StepType
  <2>4. Placed(c)
    BY <1>2, <1>3, <2>1, <2>2, <2>3 DEF Placed, PathOf
  <2>5. call' = [call EXCEPT ![t] = c]
    BY <1>5 DEF Advance
  <2> QED
    BY <2>1, <2>4, <2>5
<1> QED
  BY <1>4, <1>5

\* Where a failing step goes: to the first rung of the exit path it takes.
LEMMA FailPlaced ==
    ASSUME TypeOK, NEW t \in Thread, Stepping(t),
           NEW e \in 1..Len(Current(t).fail),
           call' = [call EXCEPT ![t].exit = e, ![t].rung = 1]
    PROVE  \E c \in CallType :
              /\ Placed(c)
              /\ call' = [call EXCEPT ![t] = c]
              /\ c.native = call[t].native
              /\ c.pc = call[t].pc
              /\ c.exit = e
              /\ c.rung = 1
              /\ PathOf(c) = Current(t).fail[e]
<1> DEFINE c == [call[t] EXCEPT !.exit = e, !.rung = 1]
<1>1. Active(t) /\ call[t] \in CallType /\ Placed(call[t])
  BY ActivePlaced DEF Stepping
<1>2. /\ Len(Current(t).fail) \in Nat
      /\ Current(t).fail[e] \in Seq(RungType)
      /\ Len(Current(t).fail[e]) \in Nat
  BY <1>1, PlacedTyped, LenProperties, ElementOfSeq DEF Current
<1>3. e \in Nat /\ e # 0
  BY <1>2
<1>4. /\ c \in CallType
      /\ c.native = call[t].native
      /\ c.pc = call[t].pc
      /\ c.exit = e
      /\ c.rung = 1
  BY <1>1, <1>3 DEF CallType
<1>5. StepOf(c) = Current(t) /\ PathOf(c) = Current(t).fail[e]
  BY <1>3, <1>4 DEF StepOf, PathOf, Current
<1>6. Placed(c)
  BY <1>1, <1>2, <1>4, <1>5 DEF Placed
<1>7. call' = [call EXCEPT ![t] = c]
  BY <1>1 DEF TypeOK
<1> QED
  BY <1>4, <1>5, <1>6, <1>7

\* The next rung of the same path, or its end.
LEMMA RungPlaced ==
    ASSUME TypeOK, NEW t \in Thread, Unwinding(t),
           call' = [call EXCEPT ![t].rung = @ + 1]
    PROVE  \E c \in CallType :
              /\ Placed(c)
              /\ call' = [call EXCEPT ![t] = c]
              /\ c.native = call[t].native
              /\ c.pc = call[t].pc
              /\ c.exit = call[t].exit
              /\ c.rung = call[t].rung + 1
              /\ c.rung # 0
              /\ PathOf(c) = Path(t)
<1> DEFINE c == [call[t] EXCEPT !.rung = @ + 1]
<1>1. Active(t) /\ call[t] \in CallType /\ Placed(call[t])
  BY RungTyped, ActivePlaced
<1>2. Path(t) \in Seq(RungType) /\ Len(Path(t)) \in Nat
  BY <1>1, PlacedTyped, LenProperties DEF Path
<1>3. call[t].rung \in Nat /\ call[t].rung + 1 \in Nat
  <2>1. call[t].rung \in Nat
    BY <1>1 DEF CallType
  <2> QED
    BY <2>1
<1>4. /\ c \in CallType
      /\ c.native = call[t].native
      /\ c.pc = call[t].pc
      /\ c.exit = call[t].exit
      /\ c.rung = call[t].rung + 1
  BY <1>1, <1>3 DEF CallType
<1>5. StepOf(c) = Current(t) /\ PathOf(c) = Path(t)
  BY <1>4 DEF StepOf, PathOf, Current, Path
<1>6. call[t].rung + 1 \in 0..Len(Path(t)) + 1 /\ call[t].rung + 1 # 0
  BY <1>2, <1>3 DEF Unwinding
<1>7. Placed(c)
  BY <1>1, <1>4, <1>5, <1>6 DEF Placed, Current, Path
<1>8. call' = [call EXCEPT ![t] = c]
  BY <1>1 DEF TypeOK
<1> QED
  BY <1>4, <1>5, <1>6, <1>7, <1>8

\* The first step of a native.
LEMMA BeginPlaced ==
    ASSUME NEW n \in Native
    PROVE  LET c == [native |-> n, pc |-> 1, exit |-> 0, rung |-> 0]
           IN  c \in CallType /\ Placed(c) /\ c # Idle
<1> DEFINE c == [native |-> n, pc |-> 1, exit |-> 0, rung |-> 0]
<1>1. n # "" /\ Len(Code[n].steps) \in Nat \ {0} /\ Code[n].done \in Seq(RungType)
  BY ScriptTyped
<1>2. c \in CallType /\ c.native = n /\ c.pc = 1 /\ c.exit = 0 /\ c.rung = 0
  BY DEF CallType
<1>3. c.pc \in 1..Len(Code[c.native].steps)
  <2>1. \A l \in Nat \ {0} : 1 \in 1..l
    OBVIOUS
  <2> QED
    BY <1>1, <1>2, <2>1
<1>4. StepOf(c) \in StepType
  BY <1>2, <1>3, ScriptTyped, ElementOfSeq DEF StepOf
<1>5. Len(StepOf(c).fail) \in Nat /\ Len(PathOf(c)) \in Nat
  BY <1>1, <1>2, <1>4, LenProperties DEF StepType, PathOf
<1>6. Placed(c)
  BY <1>2, <1>3, <1>5 DEF Placed
<1>7. c # Idle
  BY <1>1, <1>2 DEF Idle
<1> QED
  BY <1>2, <1>6, <1>7

\* Every step of a call keeps a well-typed state well typed.
LEMMA TypeStep ==
    TypeOK /\ [Next]_vars => TypeOK'
<1> SUFFICES ASSUME TypeOK, [Next]_vars PROVE TypeOK'
  OBVIOUS
<1> DEFINE Rest ==
      /\ held' \in [Thread -> SUBSET STRING]
      /\ loaded' \in [Thread -> SUBSET DataType]
      /\ value' \in [Thread -> BOOLEAN]
      /\ refused' \in [Thread -> BOOLEAN]
      /\ thrown' \in [Thread -> BOOLEAN]
      /\ msg' \in [Unit -> [CellStart -> MarkType]]
      /\ hook' \in BOOLEAN
<1>1. ASSUME NEW t \in Thread, NEW c \in CallType, c = Idle \/ Placed(c),
             call' = [call EXCEPT ![t] = c], Rest
      PROVE  TypeOK'
  BY <1>1, CallUpdated DEF TypeOK, MarkType
<1>2. msg \in [Unit -> [CellStart -> MarkType]]
  BY DEF TypeOK, MarkType
<1>3. ASSUME NEW t \in Thread, NEW n \in Calls[t], Begin(t, n)
      PROVE  TypeOK'
  <2>1. n \in Native
    BY CodeAssumption
  <2>2. Rest
    BY <1>2, <1>3 DEF Begin, TypeOK
  <2> QED
    BY <1>1, <1>3, <2>1, <2>2, BeginPlaced DEF Begin
<1>4. ASSUME NEW t \in Thread, Proceed(t)
      PROVE  TypeOK'
  <2>1. /\ Active(t)
        /\ Current(t).gets \in SUBSET STRING
        /\ Current(t).writes \in SUBSET DataType
        /\ Current(t).makes \in BOOLEAN
    BY <1>4, ActivePlaced, PlacedTyped DEF Proceed, Stepping, Current, StepType
  <2>2. Rest
    BY <1>4, <2>1, WrittenTyped DEF Proceed, TypeOK
  <2> QED
    BY <1>1, <1>4, <2>2, AdvancePlaced DEF Proceed
<1>5. ASSUME NEW t \in Thread, Skip(t)
      PROVE  TypeOK'
  <2>1. Current(t).skips \in Nat \ {0}
    BY <1>5, ActivePlaced, PlacedTyped DEF Skip, Stepping, Current, StepType
  <2>2. Rest
    BY <1>2, <1>5 DEF Skip, TypeOK
  <2> QED
    BY <1>1, <1>5, <2>1, <2>2, AdvancePlaced DEF Skip
<1>6. ASSUME NEW t \in Thread, Fail(t)
      PROVE  TypeOK'
  <2>1. /\ Active(t)
        /\ Current(t).writes \in SUBSET DataType
    BY <1>6, ActivePlaced, PlacedTyped DEF Fail, Stepping, Current, StepType
  <2>2. Rest
    BY <1>2, <1>6, <2>1, WrittenTyped DEF Fail, TypeOK
  <2>3. Stepping(t)
    BY <1>6 DEF Fail
  <2>4. PICK e \in 1..Len(Current(t).fail) :
            call' = [call EXCEPT ![t].exit = e, ![t].rung = 1]
    BY <1>6 DEF Fail
  <2>5. PICK c \in CallType : Placed(c) /\ call' = [call EXCEPT ![t] = c]
    BY <2>3, <2>4, FailPlaced
  <2> QED
    BY <1>1, <2>2, <2>5
<1>7. ASSUME NEW t \in Thread,
             \/ ReleaseResource(t) \/ WipeScratch(t) \/ DetachRandom(t)
             \/ DropResult(t) \/ LeaveUnset(t) \/ FormatError(t)
             \/ ThrowException(t)
      PROVE  TypeOK'
  <2>1. Unwinding(t) /\ call' = [call EXCEPT ![t].rung = @ + 1]
    BY <1>7 DEF ReleaseResource, WipeScratch, DetachRandom, DropResult,
                LeaveUnset, FormatError, ThrowException, AtRung
  <2>2. Active(t) /\ CurrentRung(t) \in RungType
    BY <2>1, RungTyped
  <2>3. CASE FormatError(t)
    <3>1. {Text(CurrentRung(t))} \in SUBSET DataType
      <4>1. CurrentRung(t).cells \in SUBSET CellStart
        BY <2>2 DEF RungType
      <4>2. "text" \in DataKind
        BY DEF DataKind, PublicKind
      <4>3. Text(CurrentRung(t)) \in DataType
        BY <4>1, <4>2 DEF Text, DataType
      <4> QED
        BY <4>3
    <3>2. Rest
      BY <2>2, <2>3, <3>1, WrittenTyped DEF FormatError, TypeOK
    <3> QED
      BY <1>1, <2>1, <3>2, RungPlaced
  <2>4. CASE WipeScratch(t)
    <3>1. [c \in CellStart |-> Blank] \in [CellStart -> MarkType]
      BY DEF MarkType
    <3>2. Rest
      BY <1>2, <2>4, <3>1 DEF WipeScratch, TypeOK
    <3> QED
      BY <1>1, <2>1, <3>2, RungPlaced
  <2>5. CASE ReleaseResource(t) \/ DetachRandom(t) \/ DropResult(t)
             \/ LeaveUnset(t) \/ ThrowException(t)
    <3>1. Rest
      BY <1>2, <2>5 DEF ReleaseResource, DetachRandom, DropResult, LeaveUnset,
                        ThrowException, TypeOK
    <3> QED
      BY <1>1, <2>1, <3>1, RungPlaced
  <2> QED
    BY <1>7, <2>3, <2>4, <2>5
<1>8. ASSUME NEW t \in Thread, Return(t)
      PROVE  TypeOK'
  <2>1. Idle \in CallType
    BY DEF Idle, CallType
  <2>2. Left(t) \in [Unit -> [CellStart -> MarkType]]
    BY <1>2 DEF Left, MarkType
  <2>3. Rest
    BY <1>8, <2>2 DEF Return, TypeOK
  <2> QED
    BY <1>1, <1>8, <2>1, <2>3 DEF Return
<1>9. CASE UNCHANGED vars
  BY <1>9 DEF vars, TypeOK, Placed
<1> QED
  BY <1>3, <1>4, <1>5, <1>6, <1>7, <1>8, <1>9 DEF Next, Run

\* Type correctness: every thread is in no native or at a place of the script
\* of the native it called, and what it holds and wrote is of the right kind.
THEOREM TypeCorrect == Spec => []TypeOK
<1>1. Init => TypeOK
  <2> SUFFICES ASSUME Init PROVE TypeOK
    OBVIOUS
  <2>1. Idle \in CallType
    BY DEF Idle, CallType
  <2>2. msg \in [Unit -> [CellStart -> MarkType]]
    BY DEF Init, MarkType
  <2> QED
    BY <2>1, <2>2 DEF Init, TypeOK, MarkType
<1> QED
  BY <1>1, TypeStep, PTL DEF Spec

----------------------------------------------------------------------------
(* Resources.                                                              *)

\* What n may hold at step k it may hold after k was executed, with what k
\* acquired and without what it released.
LEMMA MayHoldStep ==
    ASSUME NEW n \in Native, NEW k \in Nat \ {0}
    PROVE  (MayHold(n, k) \union Steps(n)[k].gets) \ Steps(n)[k].frees
             \subseteq MayHold(n, k + 1)
<1> SUFFICES ASSUME NEW r \in (MayHold(n, k) \union Steps(n)[k].gets) \ Steps(n)[k].frees
             PROVE  r \in MayHold(n, k + 1)
  OBVIOUS
<1>1. k \in 1..k + 1 - 1 /\ \A j \in k + 1..k + 1 - 1 : FALSE
  OBVIOUS
<1>2. CASE r \in Steps(n)[k].gets
  BY <1>1, <1>2 DEF MayHold
<1>3. CASE r \in MayHold(n, k)
  <2>1. PICK i \in 1..k - 1 :
              /\ r \in Steps(n)[i].gets \ Steps(n)[i].frees
              /\ \A j \in i + 1..k - 1 : r \in Steps(n)[j].frees => Skippable(n, j)
    BY <1>3 DEF MayHold
  <2>2. i \in 1..k + 1 - 1
    OBVIOUS
  <2>3. ASSUME NEW j \in i + 1..k + 1 - 1, r \in Steps(n)[j].frees
        PROVE  Skippable(n, j)
    <3>1. j = k \/ j \in i + 1..k - 1
      OBVIOUS
    <3> QED
      BY <2>1, <2>3, <3>1
  <2> QED
    BY <2>1, <2>2, <2>3 DEF MayHold
<1> QED
  BY <1>2, <1>3

\* What n may hold at step k it may hold wherever k may skip to.
LEMMA MayHoldSkip ==
    ASSUME NEW n \in Native, NEW k \in Nat \ {0}, NEW l \in Nat,
           Steps(n)[k].skips \in Nat \ {0}, k <= l, l <= k + Steps(n)[k].skips
    PROVE  MayHold(n, k) \subseteq MayHold(n, l)
<1> SUFFICES ASSUME NEW r \in MayHold(n, k) PROVE r \in MayHold(n, l)
  OBVIOUS
<1>1. PICK i \in 1..k - 1 :
            /\ r \in Steps(n)[i].gets \ Steps(n)[i].frees
            /\ \A j \in i + 1..k - 1 : r \in Steps(n)[j].frees => Skippable(n, j)
  BY DEF MayHold
<1>2. i \in 1..l - 1
  OBVIOUS
<1>3. ASSUME NEW j \in i + 1..l - 1, r \in Steps(n)[j].frees
      PROVE  Skippable(n, j)
  <2>1. CASE j \in i + 1..k - 1
    BY <1>1, <1>3, <2>1
  <2>2. CASE j \notin i + 1..k - 1
    <3>1. k \in 1..j /\ k + Steps(n)[k].skips > j
      BY <2>2
    <3> QED
      BY <3>1 DEF Skippable
  <2> QED
    BY <2>1, <2>2
<1> QED
  BY <1>1, <1>2, <1>3 DEF MayHold

\* One rung on, a path releases what it released, but for what this rung did.
LEMMA FreedNext ==
    ASSUME NEW path \in Seq(RungType), NEW k \in Nat \ {0}, k <= Len(path),
           NEW r \in FreedFrom(path, k)
    PROVE  r \in FreedFrom(path, k + 1) \/ (path[k].op = "free" /\ r = path[k].res)
<1>1. Len(path) \in Nat
  BY LenProperties
<1>2. PICK i \in k..Len(path) : path[i].op = "free" /\ r = path[i].res
  BY DEF FreedFrom
<1>3. i = k \/ i \in k + 1..Len(path)
  BY <1>1
<1> QED
  BY <1>2, <1>3 DEF FreedFrom

\* Past its last rung a path releases nothing.
LEMMA FreedPast ==
    ASSUME NEW path \in Seq(RungType), NEW k \in Nat, k > Len(path)
    PROVE  FreedFrom(path, k) = {}
<1>1. Len(path) \in Nat
  BY LenProperties
<1>2. k..Len(path) = {}
  BY <1>1
<1> QED
  BY <1>2 DEF FreedFrom

\* A step of one thread, which ends up at c holding h.
LEMMA OwesUpdated ==
    ASSUME TypeOK, HeldIsOwed, NEW t \in Thread, NEW c, NEW h,
           call' = [call EXCEPT ![t] = c], held' = [held EXCEPT ![t] = h],
           IF c = Idle THEN h = {} ELSE Owes(c, h)
    PROVE  HeldIsOwed'
<1> SUFFICES ASSUME NEW s \in Thread
             PROVE  IF call'[s] # Idle THEN Owes(call'[s], held'[s]) ELSE held'[s] = {}
  BY DEF HeldIsOwed, Active, Owes, MayHold, FreedFrom, Steps, Skippable, PathOf, StepOf
<1>1. CASE s = t
  BY <1>1 DEF TypeOK
<1>2. CASE s # t
  BY <1>2 DEF TypeOK, HeldIsOwed, Active
<1> QED
  BY <1>1, <1>2

\* What is known of a thread about to execute a step.
LEMMA SteppingTyped ==
    ASSUME TypeOK, NEW t \in Thread, Stepping(t)
    PROVE  /\ call[t].native \in Native
           /\ call[t].rung = 0
           /\ call[t].pc \in Nat \ {0}
           /\ call[t].pc \in 1..Len(Steps(call[t].native))
           /\ Len(Steps(call[t].native)) \in Nat
           /\ Current(t) = Steps(call[t].native)[call[t].pc]
           /\ Current(t).skips \in Nat
<1>1. Active(t) /\ call[t].rung = 0
  BY DEF Stepping
<1>2. call[t] \in CallType /\ Placed(call[t]) /\ call[t].native \in Native
  BY <1>1, ActivePlaced
<1>3. Current(t) \in StepType
  BY <1>2, PlacedTyped DEF Current
<1>4. Len(Steps(call[t].native)) \in Nat
  BY <1>2, ScriptTyped DEF Steps
<1>5. call[t].pc \in 1..Len(Steps(call[t].native))
  BY <1>2 DEF Placed, Steps
<1>6. call[t].pc \in Nat \ {0}
  BY <1>4, <1>5
<1>7. Current(t) = Steps(call[t].native)[call[t].pc] /\ Current(t).skips \in Nat
  BY <1>3 DEF Current, StepOf, Steps, StepType
<1> QED
  BY <1>1, <1>2, <1>4, <1>5, <1>6, <1>7

\* What is known of a thread about to execute a rung.
LEMMA UnwindingTyped ==
    ASSUME TypeOK, NEW t \in Thread, Unwinding(t)
    PROVE  /\ Active(t)
           /\ call[t].native \in Native
           /\ call[t].rung \in Nat \ {0}
           /\ call[t].rung <= Len(Path(t))
           /\ Path(t) \in Seq(RungType)
<1>1. Active(t)
  BY RungTyped
<1>2. call[t] \in CallType /\ Placed(call[t]) /\ call[t].native \in Native
  BY <1>1, ActivePlaced
<1>3. call[t].rung \in Nat
  BY <1>2 DEF CallType
<1>4. call[t].rung \in Nat \ {0} /\ call[t].rung <= Len(Path(t))
  BY <1>3 DEF Unwinding
<1> QED
  BY <1>1, <1>2, <1>4, PlacedTyped DEF Path

\* A thread that advances ends up where it may hold what it may hold there.
LEMMA OwesAdvance ==
    ASSUME TypeOK, NEW t \in Thread, Stepping(t), NEW k \in Nat \ {0}, NEW h,
           Balanced(call[t].native), Advance(t, k),
           \A l \in Nat : /\ call[t].pc < l
                          /\ l <= call[t].pc + k
                          /\ l <= Len(Steps(call[t].native)) + 1
                          => h \subseteq MayHold(call[t].native, l)
    PROVE  \E c \in CallType :
              call' = [call EXCEPT ![t] = c] /\ c # Idle /\ Owes(c, h)
<1> DEFINE n == call[t].native
           len == Len(Steps(n))
<1>1. PICK c \in CallType :
         /\ Placed(c)
         /\ call' = [call EXCEPT ![t] = c]
         /\ c.native = n
         /\ c.exit = 0
         /\ \/ c.rung = 0 /\ c.pc = call[t].pc + k
            \/ c.rung = 1 /\ c.pc = call[t].pc /\ call[t].pc + k > len
  BY AdvancePlaced
<1>2. call[t].pc \in Nat \ {0} /\ call[t].pc \in 1..len /\ len \in Nat
  BY SteppingTyped
<1>5. c # Idle
  <2>1. c.native # "" /\ Idle.native = ""
    BY <1>1, SteppingTyped, ScriptTyped DEF Idle
  <2> QED
    BY <2>1
<1>3. CASE c.rung = 0 /\ c.pc = call[t].pc + k
  <2>1. c.pc \in 1..len
    BY <1>1 DEF Placed, Steps
  <2>2. h \subseteq MayHold(n, c.pc)
    BY <1>2, <1>3, <2>1
  <2> QED
    BY <1>1, <1>3, <1>5, <2>2 DEF Owes
<1>4. CASE c.rung = 1 /\ call[t].pc + k > len
  <2>1. h \subseteq MayHold(n, len + 1)
    <3> len + 1 \in Nat /\ call[t].pc < len + 1 /\ len + 1 <= call[t].pc + k
      BY <1>2, <1>4
    <3> QED
      OBVIOUS
  <2>2. MayHold(n, len + 1) \subseteq FreedFrom(Code[n].done, 1)
    BY DEF Balanced
  <2>3. PathOf(c) = Code[n].done
    BY <1>1 DEF PathOf
  <2>4. c.rung # 0 /\ h \subseteq FreedFrom(PathOf(c), c.rung)
    BY <1>4, <2>1, <2>2, <2>3
  <2> QED
    BY <1>1, <1>5, <2>4 DEF Owes
<1> QED
  BY <1>1, <1>3, <1>4

\* In a state in which all that is held is owed, every step leaves it so, when
\* the natives are balanced.
LEMMA OwedStep ==
    ASSUME \A n \in Native : Balanced(n),
           TypeOK, HeldIsOwed, [Next]_vars
    PROVE  HeldIsOwed'
<1>1. ASSUME NEW t \in Thread, NEW n \in Calls[t], Begin(t, n)
      PROVE  HeldIsOwed'
  <2> DEFINE c == [native |-> n, pc |-> 1, exit |-> 0, rung |-> 0]
  <2>1. held[t] = {}
    BY <1>1 DEF Begin, HeldIsOwed
  <2>2. held' = [held EXCEPT ![t] = {}]
    BY <1>1, <2>1 DEF Begin, TypeOK
  <2>3. c # Idle /\ Owes(c, {})
    <3>1. n \in Native
      BY CodeAssumption
    <3>2. c.rung = 0
      OBVIOUS
    <3> QED
      BY <3>1, <3>2, BeginPlaced DEF Owes
  <2> QED
    BY <1>1, <2>2, <2>3, OwesUpdated DEF Begin
<1>2. ASSUME NEW t \in Thread, Stepping(t), Owes(call[t], held[t]), Proceed(t)
      PROVE  HeldIsOwed'
  <2> DEFINE h == (held[t] \union Current(t).gets) \ Current(t).frees
             n == call[t].native
             k == call[t].pc
  <2>1. n \in Native /\ k \in Nat \ {0} /\ Current(t) = Steps(n)[k]
    BY <1>2, SteppingTyped
  <2>2. held[t] \subseteq MayHold(n, k)
    BY <1>2, SteppingTyped DEF Owes
  <2>3. h \subseteq MayHold(n, k + 1)
    BY <2>1, <2>2, MayHoldStep
  <2>4. \A l \in Nat : k < l /\ l <= k + 1 => l = k + 1
    BY <2>1
  <2>5. \E c \in CallType : call' = [call EXCEPT ![t] = c] /\ c # Idle /\ Owes(c, h)
    <3>1. \A l \in Nat : k < l /\ l <= k + 1 /\ l <= Len(Steps(n)) + 1
                         => h \subseteq MayHold(n, l)
      BY <2>3, <2>4
    <3>2. Balanced(n) /\ Advance(t, 1)
      BY <1>2, <2>1 DEF Proceed
    <3> QED
      BY <1>2, <3>1, <3>2, OwesAdvance
  <2>6. held' = [held EXCEPT ![t] = h]
    BY <1>2 DEF Proceed, TypeOK
  <2> QED
    BY <2>5, <2>6, OwesUpdated
<1>3. ASSUME NEW t \in Thread, Stepping(t), Owes(call[t], held[t]), Skip(t)
      PROVE  HeldIsOwed'
  <2> DEFINE n == call[t].native
             k == call[t].pc
             j == Current(t).skips
  <2>1. /\ n \in Native
        /\ k \in Nat \ {0}
        /\ j \in Nat \ {0}
        /\ Current(t) = Steps(n)[k]
    BY <1>3, SteppingTyped DEF Skip
  <2>2. held[t] \subseteq MayHold(n, k)
    BY <1>3, SteppingTyped DEF Owes
  <2>3. \A l \in Nat : k < l /\ l <= k + j => held[t] \subseteq MayHold(n, l)
    BY <2>1, <2>2, MayHoldSkip
  <2>4. \E c \in CallType :
            call' = [call EXCEPT ![t] = c] /\ c # Idle /\ Owes(c, held[t])
    BY <1>3, <2>1, <2>3, OwesAdvance DEF Skip
  <2>5. held' = [held EXCEPT ![t] = held[t]]
    BY <1>3 DEF Skip, TypeOK
  <2> QED
    BY <2>4, <2>5, OwesUpdated
<1>4. ASSUME NEW t \in Thread, Stepping(t), Owes(call[t], held[t]), Fail(t)
      PROVE  HeldIsOwed'
  <2> DEFINE n == call[t].native
             k == call[t].pc
  <2>1. /\ n \in Native
        /\ k \in 1..Len(Steps(n))
        /\ Current(t) = Steps(n)[k]
        /\ held[t] \subseteq MayHold(n, k)
    BY <1>4, SteppingTyped DEF Owes
  <2>2. PICK e \in 1..Len(Current(t).fail) :
            call' = [call EXCEPT ![t].exit = e, ![t].rung = 1]
    BY <1>4 DEF Fail
  <2>3. PICK c \in CallType :
            /\ Placed(c)
            /\ call' = [call EXCEPT ![t] = c]
            /\ c.native = n
            /\ c.pc = k
            /\ c.exit = e
            /\ c.rung = 1
            /\ PathOf(c) = Current(t).fail[e]
    BY <1>4, <2>2, FailPlaced, Zenon
  <2>4. \/ MayHold(n, k) \subseteq FreedFrom(Current(t).fail[e], 1)
        \/ <<n, k>> \in Leaky
    BY <2>1, <2>2 DEF Balanced
  <2>5. c # Idle /\ c.rung # 0
    <3>1. Idle.rung = 0 /\ 1 # 0
      BY DEF Idle
    <3> QED
      BY <2>3, <3>1
  <2>7. Owes(c, held[t])
    BY <2>1, <2>3, <2>4, <2>5 DEF Owes
  <2>6. held' = [held EXCEPT ![t] = held[t]]
    BY <1>4 DEF Fail, TypeOK
  <2> QED
    BY <2>3, <2>5, <2>6, <2>7, OwesUpdated
<1>5. ASSUME NEW t \in Thread, Unwinding(t), Owes(call[t], held[t]),
             call' = [call EXCEPT ![t].rung = @ + 1],
             NEW h, held' = [held EXCEPT ![t] = h],
             \/ h = held[t] /\ CurrentRung(t).op # "free"
             \/ h = held[t] \ {CurrentRung(t).res}
      PROVE  HeldIsOwed'
  <2> DEFINE r == call[t].rung
  <2>1. r \in Nat \ {0} /\ r <= Len(Path(t)) /\ Path(t) \in Seq(RungType)
    BY <1>5, UnwindingTyped
  <2>2. PICK c \in CallType :
            /\ Placed(c)
            /\ call' = [call EXCEPT ![t] = c]
            /\ c.native = call[t].native
            /\ c.pc = call[t].pc
            /\ c.rung = call[t].rung + 1
            /\ c.rung # 0
            /\ PathOf(c) = Path(t)
    BY <1>5, RungPlaced, Zenon
  <2>3. held[t] \subseteq FreedFrom(Path(t), r) \/ LeftAt(t) \in Leaky
    BY <1>5, <2>1 DEF Owes, Path, LeftAt
  <2>4. h \subseteq FreedFrom(Path(t), r + 1) \/ LeftAt(t) \in Leaky
    BY <1>5, <2>1, <2>3, FreedNext DEF CurrentRung
  <2>5. Owes(c, h)
    BY <2>2, <2>4 DEF Owes, LeftAt
  <2>6. c # Idle
    <3>1. Idle.rung = 0
      BY DEF Idle
    <3> QED
      BY <2>2, <3>1
  <2> QED
    BY <1>5, <2>2, <2>5, <2>6, OwesUpdated
<1>6. ASSUME NEW t \in Thread, Owes(call[t], held[t]), ReleaseResource(t)
      PROVE  HeldIsOwed'
  <2>1. held' = [held EXCEPT ![t] = held[t] \ {CurrentRung(t).res}]
    BY <1>6 DEF ReleaseResource, TypeOK
  <2> QED
    BY <1>5, <1>6, <2>1 DEF ReleaseResource, AtRung
<1>7. ASSUME NEW t \in Thread, Owes(call[t], held[t]),
             \/ WipeScratch(t) \/ DetachRandom(t) \/ DropResult(t)
             \/ LeaveUnset(t) \/ FormatError(t) \/ ThrowException(t)
      PROVE  HeldIsOwed'
  <2>1. /\ held' = [held EXCEPT ![t] = held[t]]
        /\ CurrentRung(t).op # "free"
        /\ Unwinding(t)
        /\ call' = [call EXCEPT ![t].rung = @ + 1]
    BY <1>7 DEF WipeScratch, DetachRandom, DropResult, LeaveUnset, FormatError,
                ThrowException, AtRung, TypeOK
  <2> QED
    BY <1>5, <1>7, <2>1
<1>8. ASSUME NEW t \in Thread, Return(t)
      PROVE  HeldIsOwed'
  BY <1>8, OwesUpdated DEF Return
<1>9. CASE UNCHANGED vars
  <2> SUFFICES ASSUME NEW s \in Thread
               PROVE  IF call'[s] # Idle THEN Owes(call'[s], held'[s])
                                         ELSE held'[s] = {}
    BY DEF HeldIsOwed, Active, Owes, MayHold, FreedFrom, Steps, Skippable, PathOf, StepOf
  <2> QED
    BY <1>9 DEF vars, HeldIsOwed, Active
<1>10. ASSUME NEW t \in Thread, Active(t)
       PROVE  Owes(call[t], held[t])
  BY <1>10 DEF HeldIsOwed
<1>11. ASSUME NEW t \in Thread, Run(t)
       PROVE  HeldIsOwed'
  <2>1. Proceed(t) \/ Skip(t) \/ Fail(t) => Stepping(t) /\ Active(t)
    BY DEF Proceed, Skip, Fail, Stepping
  <2>2. \/ ReleaseResource(t) \/ WipeScratch(t) \/ DetachRandom(t) \/ DropResult(t)
        \/ LeaveUnset(t) \/ FormatError(t) \/ ThrowException(t)
        => Active(t)
    BY UnwindingTyped DEF ReleaseResource, WipeScratch, DetachRandom, DropResult,
                          LeaveUnset, FormatError, ThrowException, AtRung
  <2> QED
    BY <1>2, <1>3, <1>4, <1>6, <1>7, <1>8, <1>10, <1>11, <2>1, <2>2 DEF Run
<1> QED
  BY <1>1, <1>9, <1>11 DEF Next

\* Natives each of whose exits releases what the statements before it may have
\* acquired return to Java with nothing pinned and nothing allocated, from
\* every path but those named in Leaky, whatever the other threads do.
THEOREM NothingLeaks ==
    ASSUME \A n \in Native : Balanced(n)
    PROVE  Spec => []NoLeak
<1>1. Init => HeldIsOwed
  BY DEF Init, HeldIsOwed, Active
<1>2. TypeOK /\ HeldIsOwed /\ [Next]_vars => HeldIsOwed'
  BY OwedStep
<1>3. TypeOK /\ HeldIsOwed => NoLeak
  <2> SUFFICES ASSUME TypeOK, HeldIsOwed, NEW t \in Thread, Returning(t)
               PROVE  held[t] = {} \/ LeftAt(t) \in Leaky
    BY DEF NoLeak
  <2>1. CASE Active(t)
    <3>1. Path(t) \in Seq(RungType) /\ call[t] \in CallType
      BY <2>1, ActivePlaced, PlacedTyped DEF Path
    <3>0. call[t].rung \in Nat
      BY <3>1 DEF CallType
    <3>2. call[t].rung \in Nat /\ call[t].rung # 0 /\ call[t].rung > Len(Path(t))
      BY <3>0 DEF Returning
    <3>3. FreedFrom(Path(t), call[t].rung) = {}
      BY <3>1, <3>2, FreedPast
    <3>4. Owes(call[t], held[t])
      BY <2>1 DEF HeldIsOwed
    <3> QED
      BY <3>2, <3>3, <3>4 DEF Owes, Path, LeftAt
  <2>2. CASE ~Active(t)
    BY <2>2 DEF HeldIsOwed
  <2> QED
    BY <2>1, <2>2
<1> QED
  BY <1>1, <1>2, <1>3, TypeCorrect, PTL DEF Spec

\* Whatever a call holds is freed by a path it is still on, at every statement.
THEOREM HeldAlwaysOwed ==
    ASSUME \A n \in Native : Balanced(n)
    PROVE  Spec => []HeldIsOwed
<1>1. Init => HeldIsOwed
  BY DEF Init, HeldIsOwed, Active
<1>2. TypeOK /\ HeldIsOwed /\ [Next]_vars => HeldIsOwed'
  BY OwedStep
<1> QED
  BY <1>1, <1>2, TypeCorrect, PTL DEF Spec

----------------------------------------------------------------------------
(* The random function.                                                    *)

\* A thread that has attached the random function still has to detach it one
\* step on, unless the step detached it.
LEMMA MayServeStep ==
    ASSUME NEW n \in Native, NEW k \in Nat \ {0},
           \/ Steps(n)[k].hook = "attach"
           \/ MayServe(n, k) /\ Steps(n)[k].hook # "detach"
    PROVE  MayServe(n, k + 1)
<1>1. k \in 1..k + 1 - 1 /\ \A j \in k + 1..k + 1 - 1 : FALSE
  OBVIOUS
<1>2. CASE Steps(n)[k].hook = "attach"
  BY <1>1, <1>2 DEF MayServe
<1>3. CASE MayServe(n, k) /\ Steps(n)[k].hook # "detach"
  <2>1. PICK i \in 1..k - 1 :
              /\ Steps(n)[i].hook = "attach"
              /\ \A j \in i + 1..k - 1 : Steps(n)[j].hook = "detach" => Skippable(n, j)
    BY <1>3 DEF MayServe
  <2>2. i \in 1..k + 1 - 1
    OBVIOUS
  <2>3. ASSUME NEW j \in i + 1..k + 1 - 1, Steps(n)[j].hook = "detach"
        PROVE  Skippable(n, j)
    <3>1. j = k \/ j \in i + 1..k - 1
      OBVIOUS
    <3> QED
      BY <1>3, <2>1, <2>3, <3>1
  <2> QED
    BY <2>1, <2>2, <2>3 DEF MayServe
<1> QED
  BY <1>2, <1>3

\* Nor does it matter to have skipped steps.
LEMMA MayServeSkip ==
    ASSUME NEW n \in Native, NEW k \in Nat \ {0}, NEW l \in Nat,
           Steps(n)[k].skips \in Nat \ {0}, k <= l, l <= k + Steps(n)[k].skips,
           MayServe(n, k)
    PROVE  MayServe(n, l)
<1>1. PICK i \in 1..k - 1 :
            /\ Steps(n)[i].hook = "attach"
            /\ \A j \in i + 1..k - 1 : Steps(n)[j].hook = "detach" => Skippable(n, j)
  BY DEF MayServe
<1>2. i \in 1..l - 1
  OBVIOUS
<1>3. ASSUME NEW j \in i + 1..l - 1, Steps(n)[j].hook = "detach"
      PROVE  Skippable(n, j)
  <2>1. CASE j \in i + 1..k - 1
    BY <1>1, <1>3, <2>1
  <2>2. CASE j \notin i + 1..k - 1
    <3>1. k \in 1..j /\ k + Steps(n)[k].skips > j
      BY <2>2
    <3> QED
      BY <3>1 DEF Skippable
  <2> QED
    BY <2>1, <2>2
<1> QED
  BY <1>1, <1>2, <1>3 DEF MayServe

\* A rung that is not the detaching one leaves the detaching to the next.
LEMMA OffNext ==
    ASSUME NEW path \in Seq(RungType), NEW k \in Nat \ {0}, k <= Len(path),
           OffFrom(path, k), path[k].op # "off"
    PROVE  OffFrom(path, k + 1)
<1>1. Len(path) \in Nat
  BY LenProperties
<1>2. PICK i \in k..Len(path) : path[i].op = "off"
  BY DEF OffFrom
<1>3. i \in k + 1..Len(path)
  BY <1>1, <1>2
<1> QED
  BY <1>2, <1>3 DEF OffFrom

\* A step of one thread t, which ends up at c: a witness for the attached
\* random function other than t stays one, and t is one if c is.
LEMMA HookUpdated ==
    ASSUME TypeOK, NEW t \in Thread, NEW c,
           call' = [call EXCEPT ![t] = c],
           \/ c # Idle /\ Serves(c)
           \/ \E s \in Thread \ {t} : Active(s) /\ Serves(call[s])
    PROVE  HookIsOwed'
<1> SUFFICES ASSUME hook' PROVE \E s \in Thread : call'[s] # Idle /\ Serves(call'[s])
  BY DEF HookIsOwed, Active, Serves, MayServe, OffFrom, Steps, Skippable, PathOf, StepOf
<1>1. CASE c # Idle /\ Serves(c)
  BY <1>1 DEF TypeOK
<1>2. CASE \E s \in Thread \ {t} : Active(s) /\ Serves(call[s])
  BY <1>2 DEF TypeOK, Active
<1> QED
  BY <1>1, <1>2

\* A thread that advances past where it may serve still serves.
LEMMA ServesAdvance ==
    ASSUME TypeOK, NEW t \in Thread, Stepping(t), NEW k \in Nat \ {0},
           Bracketed(call[t].native), Advance(t, k),
           \A l \in Nat : /\ call[t].pc < l
                          /\ l <= call[t].pc + k
                          /\ l <= Len(Steps(call[t].native)) + 1
                          => MayServe(call[t].native, l)
    PROVE  \E c \in CallType : call' = [call EXCEPT ![t] = c] /\ c # Idle /\ Serves(c)
<1> DEFINE n == call[t].native
           len == Len(Steps(n))
<1>1. PICK c \in CallType :
         /\ Placed(c)
         /\ call' = [call EXCEPT ![t] = c]
         /\ c.native = n
         /\ c.exit = 0
         /\ \/ c.rung = 0 /\ c.pc = call[t].pc + k
            \/ c.rung = 1 /\ c.pc = call[t].pc /\ call[t].pc + k > len
  BY AdvancePlaced
<1>2. call[t].pc \in Nat \ {0} /\ call[t].pc \in 1..len /\ len \in Nat
  BY SteppingTyped
<1>3. c # Idle
  <2>1. c.native # "" /\ Idle.native = ""
    BY <1>1, SteppingTyped, ScriptTyped DEF Idle
  <2> QED
    BY <2>1
<1>4. CASE c.rung = 0 /\ c.pc = call[t].pc + k
  <2>1. c.pc \in 1..len
    BY <1>1 DEF Placed, Steps
  <2>2. MayServe(n, c.pc)
    BY <1>2, <1>4, <2>1
  <2> QED
    BY <1>1, <1>3, <1>4, <2>2 DEF Serves
<1>5. CASE c.rung = 1 /\ call[t].pc + k > len
  <2>1. MayServe(n, len + 1)
    <3> len + 1 \in Nat /\ call[t].pc < len + 1 /\ len + 1 <= call[t].pc + k
      BY <1>2, <1>5
    <3> QED
      OBVIOUS
  <2>2. OffFrom(Code[n].done, 1)
    BY <2>1 DEF Bracketed
  <2>3. PathOf(c) = Code[n].done
    BY <1>1 DEF PathOf
  <2>4. c.rung # 0 /\ OffFrom(PathOf(c), c.rung)
    BY <1>5, <2>2, <2>3
  <2> QED
    BY <1>1, <1>3, <2>4 DEF Serves
<1> QED
  BY <1>1, <1>4, <1>5

\* Whenever a random function is attached some thread still has to detach it,
\* when the natives detach on every exit between attaching and detaching.
LEMMA HookStep ==
    ASSUME \A n \in Native : Bracketed(n),
           TypeOK, HookIsOwed, [Next]_vars
    PROVE  HookIsOwed'
<1> DEFINE Other(t) == \E s \in Thread \ {t} : Active(s) /\ Serves(call[s])
<1>1. ASSUME NEW t \in Thread, hook
      PROVE  Other(t) \/ (Active(t) /\ Serves(call[t]))
  BY <1>1 DEF HookIsOwed
<1>2. CASE ~hook'
  BY <1>2 DEF HookIsOwed
<1>3. CASE hook' /\ UNCHANGED vars
  <2> SUFFICES \E s \in Thread : call'[s] # Idle /\ Serves(call'[s])
    BY DEF HookIsOwed, Active, Serves, MayServe, OffFrom, Steps, Skippable, PathOf, StepOf
  <2> QED
    BY <1>3 DEF HookIsOwed, vars, Active
<1>4. ASSUME hook', NEW t \in Thread, NEW n \in Calls[t], Begin(t, n)
      PROVE  HookIsOwed'
  <2>1. Other(t)
    BY <1>1, <1>4 DEF Begin
  <2> QED
    BY <1>4, <2>1, HookUpdated DEF Begin
<1>5. ASSUME hook', NEW t \in Thread, Proceed(t)
      PROVE  HookIsOwed'
  <2> DEFINE n == call[t].native
             k == call[t].pc
  <2>1. /\ n \in Native
        /\ k \in Nat \ {0}
        /\ Current(t) = Steps(n)[k]
        /\ call[t].rung = 0
        /\ Stepping(t)
        /\ Advance(t, 1)
    BY <1>5, SteppingTyped DEF Proceed
  <2>2. \/ Steps(n)[k].hook = "attach"
        \/ hook /\ Steps(n)[k].hook # "detach"
    BY <1>5, <2>1 DEF Proceed
  <2>3. CASE Other(t)
    <3>1. PICK c \in CallType : call' = [call EXCEPT ![t] = c]
      BY <2>1, AdvancePlaced
    <3> QED
      BY <2>3, <3>1, HookUpdated
  <2>4. CASE ~Other(t)
    <3>1. \/ Steps(n)[k].hook = "attach"
          \/ MayServe(n, k) /\ Steps(n)[k].hook # "detach"
      BY <1>1, <2>1, <2>2, <2>4 DEF Serves
    <3>2. MayServe(n, k + 1)
      BY <2>1, <3>1, MayServeStep
    <3>3. \A l \in Nat : k < l /\ l <= k + 1 => l = k + 1
      BY <2>1
    <3>4. \A l \in Nat : k < l /\ l <= k + 1 /\ l <= Len(Steps(n)) + 1
                         => MayServe(n, l)
      BY <3>2, <3>3
    <3>5. \E c \in CallType : call' = [call EXCEPT ![t] = c] /\ c # Idle /\ Serves(c)
      BY <2>1, <3>4, ServesAdvance
    <3> QED
      BY <3>5, HookUpdated
  <2> QED
    BY <2>3, <2>4
<1>6. ASSUME hook', NEW t \in Thread, Skip(t)
      PROVE  HookIsOwed'
  <2> DEFINE n == call[t].native
             k == call[t].pc
             j == Current(t).skips
  <2>1. /\ n \in Native
        /\ k \in Nat \ {0}
        /\ j \in Nat \ {0}
        /\ Current(t) = Steps(n)[k]
        /\ call[t].rung = 0
        /\ Stepping(t)
        /\ Advance(t, j)
        /\ hook
    BY <1>6, SteppingTyped DEF Skip
  <2>3. CASE Other(t)
    <3>1. PICK c \in CallType : call' = [call EXCEPT ![t] = c]
      BY <2>1, AdvancePlaced
    <3> QED
      BY <2>3, <3>1, HookUpdated
  <2>4. CASE ~Other(t)
    <3>1. MayServe(n, k)
      BY <1>1, <2>1, <2>4 DEF Serves
    <3>2. \A l \in Nat : k < l /\ l <= k + j => MayServe(n, l)
      BY <2>1, <3>1, MayServeSkip
    <3>3. \E c \in CallType : call' = [call EXCEPT ![t] = c] /\ c # Idle /\ Serves(c)
      BY <2>1, <3>2, ServesAdvance
    <3> QED
      BY <3>3, HookUpdated
  <2> QED
    BY <2>3, <2>4
<1>7. ASSUME hook', NEW t \in Thread, Fail(t)
      PROVE  HookIsOwed'
  <2> DEFINE n == call[t].native
             k == call[t].pc
  <2>1. /\ n \in Native
        /\ k \in 1..Len(Steps(n))
        /\ Current(t) = Steps(n)[k]
        /\ call[t].rung = 0
        /\ Stepping(t)
        /\ hook
    BY <1>7, SteppingTyped DEF Fail
  <2>2. PICK e \in 1..Len(Current(t).fail) :
            call' = [call EXCEPT ![t].exit = e, ![t].rung = 1]
    BY <1>7 DEF Fail
  <2>3. PICK c \in CallType :
            /\ Placed(c)
            /\ call' = [call EXCEPT ![t] = c]
            /\ c.native = n
            /\ c.pc = k
            /\ c.exit = e
            /\ c.rung = 1
            /\ PathOf(c) = Current(t).fail[e]
    BY <2>1, <2>2, FailPlaced, Zenon
  <2>4. MayServe(n, k) => OffFrom(Current(t).fail[e], 1)
    BY <2>1, <2>2 DEF Bracketed
  <2>5. c # Idle /\ c.rung # 0
    <3>1. Idle.rung = 0 /\ 1 # 0
      BY DEF Idle
    <3> QED
      BY <2>3, <3>1
  <2>6. Other(t) \/ Serves(c)
    BY <1>1, <2>1, <2>3, <2>4, <2>5 DEF Serves
  <2> QED
    BY <2>3, <2>5, <2>6, HookUpdated
<1>8. ASSUME hook', NEW t \in Thread,
             \/ ReleaseResource(t) \/ WipeScratch(t) \/ DropResult(t)
             \/ LeaveUnset(t) \/ FormatError(t) \/ ThrowException(t)
      PROVE  HookIsOwed'
  <2>1. /\ Unwinding(t)
        /\ call' = [call EXCEPT ![t].rung = @ + 1]
        /\ hook
        /\ CurrentRung(t).op # "off"
    BY <1>8 DEF ReleaseResource, WipeScratch, DropResult, LeaveUnset, FormatError,
                ThrowException, AtRung
  <2>2. PICK c \in CallType :
            /\ Placed(c)
            /\ call' = [call EXCEPT ![t] = c]
            /\ c.native = call[t].native
            /\ c.pc = call[t].pc
            /\ c.rung = call[t].rung + 1
            /\ c.rung # 0
            /\ PathOf(c) = Path(t)
    BY <2>1, RungPlaced, Zenon
  <2>3. /\ call[t].rung \in Nat \ {0}
        /\ call[t].rung <= Len(Path(t))
        /\ Path(t) \in Seq(RungType)
    BY <2>1, UnwindingTyped
  <2>4. Other(t) \/ OffFrom(Path(t), call[t].rung)
    BY <1>1, <2>1, <2>3 DEF Serves, Path
  <2>5. Other(t) \/ OffFrom(Path(t), call[t].rung + 1)
    BY <2>1, <2>3, <2>4, OffNext DEF CurrentRung
  <2>6. Other(t) \/ Serves(c)
    BY <2>2, <2>5 DEF Serves
  <2>7. c # Idle
    <3>1. Idle.rung = 0
      BY DEF Idle
    <3> QED
      BY <2>2, <3>1
  <2> QED
    BY <2>2, <2>6, <2>7, HookUpdated
<1>9. ASSUME NEW t \in Thread, DetachRandom(t)
      PROVE  HookIsOwed'
  BY <1>9 DEF DetachRandom, HookIsOwed
<1>10. ASSUME hook', NEW t \in Thread, Return(t)
       PROVE  HookIsOwed'
  <2>1. Other(t)
    <3>1. SUFFICES ASSUME Active(t), Serves(call[t]) PROVE FALSE
      BY <1>1, <1>10 DEF Return
    <3>2. Path(t) \in Seq(RungType) /\ call[t] \in CallType
      BY <3>1, ActivePlaced, PlacedTyped DEF Path
    <3>3. call[t].rung \in Nat /\ Len(Path(t)) \in Nat
      BY <3>2, LenProperties DEF CallType
    <3>4. call[t].rung # 0 /\ call[t].rung > Len(Path(t))
      BY <1>10, <3>3 DEF Return, Returning
    <3>5. OffFrom(Path(t), call[t].rung)
      BY <3>1, <3>4 DEF Serves, Path
    <3> QED
      BY <3>3, <3>4, <3>5 DEF OffFrom
  <2> QED
    BY <1>10, <2>1, HookUpdated DEF Return
<1> QED
  BY <1>2, <1>3, <1>4, <1>5, <1>6, <1>7, <1>8, <1>9, <1>10 DEF Next, Run

\* Natives that detach the random function on every exit between attaching and
\* detaching it never leave it attached when all have returned, however their
\* threads interleave.
THEOREM HookLeftAtRest ==
    ASSUME \A n \in Native : Bracketed(n)
    PROVE  Spec => []HookAtRest
<1>1. Init => HookIsOwed
  BY DEF Init, HookIsOwed
<1>2. TypeOK /\ HookIsOwed /\ [Next]_vars => HookIsOwed'
  BY HookStep
<1>3. HookIsOwed => HookAtRest
  BY DEF HookIsOwed, HookAtRest
<1> QED
  BY <1>1, <1>2, <1>3, TypeCorrect, PTL DEF Spec

\* The random function is attached only while a call that has yet to detach it is
\* on its way, on every path, for natives that bracket it.
THEOREM HookAlwaysOwed ==
    ASSUME \A n \in Native : Bracketed(n)
    PROVE  Spec => []HookIsOwed
<1>1. Init => HookIsOwed
  BY DEF Init, HookIsOwed
<1>2. TypeOK /\ HookIsOwed /\ [Next]_vars => HookIsOwed'
  BY HookStep
<1> QED
  BY <1>1, <1>2, TypeCorrect, PTL DEF Spec

----------------------------------------------------------------------------
(* Secrets in the scratch buffer.                                          *)

\* One rung on, a path erases what it erased, but for what this rung did.
LEMMA ErasedNext ==
    ASSUME NEW path \in Seq(RungType), NEW k \in Nat \ {0}, k <= Len(path),
           NEW x \in ErasedFrom(path, k)
    PROVE  x \in ErasedFrom(path, k + 1) \/ x \in Erases(path, k)
<1>1. Len(path) \in Nat
  BY LenProperties
<1>2. PICK i \in k..Len(path) : x \in Erases(path, i)
  BY DEF ErasedFrom
<1>3. i = k \/ i \in k + 1..Len(path)
  BY <1>1
<1> QED
  BY <1>2, <1>3 DEF ErasedFrom

\* What the steps before k may have stained, those before a later one may.
LEMMA MayStainGrows ==
    ASSUME NEW n \in Native, NEW k \in Nat, NEW l \in Nat, k <= l
    PROVE  MayStain(n, k) \subseteq MayStain(n, l)
<1>1. 1..k - 1 \subseteq 1..l - 1
  OBVIOUS
<1> QED
  BY <1>1 DEF MayStain

\* The cells a step writes a secret into are among those it may have stained.
LEMMA WriteStains ==
    ASSUME NEW n \in Native, NEW k \in Nat \ {0},
           NEW d \in Steps(n)[k].writes, d.is \in SecretKind, NEW x \in d.cells
    PROVE  x \in MayStain(n, k + 1)
<1>1. k \in 1..k + 1 - 1
  OBVIOUS
<1> QED
  BY <1>1 DEF MayStain

\* The content m of a cell is nothing the natives have to erase, or a live call
\* at c is on its way to erase it.
Guarded(m, c, u, x) ==
    Secret(m) /\ m.in \notin Unwiped => c.native = m.in /\ WillErase(c, u, x)

\* The content of a cell is marked with the thread and the native that wrote
\* it if it is secret.
LEMMA SecretMarked ==
    ASSUME TypeOK, NEW u \in Unit, NEW x \in CellStart, Secret(msg[u][x])
    PROVE  msg[u][x].by \in Thread /\ msg[u][x].in \in Native
<1>1. msg[u][x] \in {Blank, Stale} \union [by : Thread, in : Native, is : DataKind]
  BY DEF TypeOK
<1>2. msg[u][x] # Blank /\ msg[u][x] # Stale
  BY DEF Secret, SecretKind, Blank, Stale
<1> QED
  BY <1>1, <1>2

\* A step of one thread t, which ends up at c: its own secrets are still
\* guarded, and every cell holds what it held, no secret, or a secret of t.
LEMMA SecretUpdated ==
    ASSUME TypeOK, SecretIsOwed, NEW t \in Thread, NEW c,
           call' = [call EXCEPT ![t] = c],
           \A u \in Unit, x \in CellStart :
              \/ /\ msg'[u][x] = msg[u][x]
                 /\ msg[u][x].by = t => Guarded(msg[u][x], c, u, x)
              \/ ~Secret(msg'[u][x])
              \/ msg'[u][x].by = t /\ Guarded(msg'[u][x], c, u, x)
    PROVE  SecretIsOwed'
<1> SUFFICES ASSUME NEW u \in Unit, NEW x \in CellStart,
                    Secret(msg'[u][x]), msg'[u][x].in \notin Unwiped
             PROVE  /\ call'[msg'[u][x].by].native = msg'[u][x].in
                    /\ WillErase(call'[msg'[u][x].by], u, x)
  BY DEF SecretIsOwed, WillErase, MayStain, ErasedFrom, Erases, Steps, PathOf, StepOf,
         Unit, Secret
<1>1. CASE msg'[u][x] = msg[u][x] /\ msg[u][x].by = t
  BY <1>1 DEF TypeOK, Guarded
<1>2. CASE msg'[u][x] = msg[u][x] /\ msg[u][x].by # t
  <2>1. msg[u][x].by \in Thread
    BY <1>2, SecretMarked
  <2>2. call'[msg[u][x].by] = call[msg[u][x].by]
    BY <1>2, <2>1 DEF TypeOK
  <2> QED
    BY <1>2, <2>2 DEF SecretIsOwed
<1>3. CASE msg'[u][x].by = t /\ Guarded(msg'[u][x], c, u, x)
  BY <1>3 DEF TypeOK, Guarded
<1> QED
  BY <1>1, <1>2, <1>3

\* What a thread that executes step k of native n writes is guarded where the
\* call goes, if that place erases all that step k and those before it may
\* have stained.
LEMMA WrittenGuarded ==
    ASSUME TypeOK, NEW t \in Thread, Stepping(t), NEW c,
           c.native = call[t].native,
           NEW u \in Unit, NEW x \in CellStart,
           call[t].native \notin Unwiped =>
              (x \in MayStain(call[t].native, call[t].pc + 1)
                 => IF c.rung = 0 THEN x \in MayStain(c.native, c.pc)
                                  ELSE x \in ErasedFrom(PathOf(c), c.rung)),
           NEW m, m = Written(t, Current(t).writes)[u][x], m # msg[u][x]
    PROVE  m.by = t /\ Guarded(m, c, u, x)
<1> DEFINE n == call[t].native
           k == call[t].pc
           data == Current(t).writes
           d == CHOOSE e \in data : x \in e.cells
<1>1. n \in Native /\ k \in Nat \ {0} /\ Current(t) = Steps(n)[k] /\ Active(t)
  BY SteppingTyped DEF Stepping
<1>2. msg \in [Unit -> [CellStart -> MarkType]]
  BY DEF TypeOK, MarkType
<1>3. /\ u = Body(t).unit
      /\ \E e \in data : x \in e.cells
      /\ m = Mark(t, d.is)
  BY <1>2 DEF Written
<1>4. d \in data /\ x \in d.cells
  BY <1>3
<1>5. m.by = t /\ m.in = n /\ m.is = d.is
  BY <1>3 DEF Mark
<1>6. ASSUME Secret(m), n \notin Unwiped
      PROVE  WillErase(c, u, x)
  <2>1. x \in MayStain(n, k + 1)
    BY <1>1, <1>4, <1>5, <1>6, WriteStains DEF Secret
  <2>2. Code[c.native].unit = u
    BY <1>3 DEF Body
  <2> QED
    BY <1>6, <2>1, <2>2 DEF WillErase
<1> QED
  BY <1>5, <1>6 DEF Guarded

\* What a thread has written so far is guarded where it goes, under the same
\* condition.
LEMMA OldGuarded ==
    ASSUME TypeOK, SecretIsOwed, NEW t \in Thread, Stepping(t), NEW c,
           c.native = call[t].native,
           NEW u \in Unit, NEW x \in CellStart, msg[u][x].by = t,
           call[t].native \notin Unwiped =>
              (x \in MayStain(call[t].native, call[t].pc + 1)
                 => IF c.rung = 0 THEN x \in MayStain(c.native, c.pc)
                                  ELSE x \in ErasedFrom(PathOf(c), c.rung))
    PROVE  Guarded(msg[u][x], c, u, x)
<1> SUFFICES ASSUME Secret(msg[u][x]), msg[u][x].in \notin Unwiped
             PROVE  c.native = msg[u][x].in /\ WillErase(c, u, x)
  BY DEF Guarded
<1>1. call[t].native = msg[u][x].in /\ WillErase(call[t], u, x)
  BY DEF SecretIsOwed
<1>2. /\ call[t].native \in Native
      /\ call[t].pc \in Nat
      /\ call[t].pc + 1 \in Nat
      /\ call[t].pc <= call[t].pc + 1
      /\ call[t].rung = 0
  BY SteppingTyped
<1>3. x \in MayStain(call[t].native, call[t].pc) /\ Code[call[t].native].unit = u
  BY <1>1, <1>2 DEF WillErase
<1>4. x \in MayStain(call[t].native, call[t].pc + 1)
  BY <1>2, <1>3, MayStainGrows
<1> QED
  BY <1>1, <1>3, <1>4 DEF WillErase

\* A thread that advances gets to where all that it may have stained is still
\* known to be stained, or is erased.
LEMMA ErasesAdvance ==
    ASSUME TypeOK, NEW t \in Thread, Stepping(t), NEW k \in Nat \ {0},
           Wipes(call[t].native), Advance(t, k)
    PROVE  \E c \in CallType :
              /\ call' = [call EXCEPT ![t] = c]
              /\ c.native = call[t].native
              /\ call[t].native \notin Unwiped =>
                   \A x \in MayStain(call[t].native, call[t].pc + 1) :
                      IF c.rung = 0 THEN x \in MayStain(c.native, c.pc)
                                    ELSE x \in ErasedFrom(PathOf(c), c.rung)
<1> DEFINE n == call[t].native
           len == Len(Steps(n))
<1>1. PICK c \in CallType :
         /\ Placed(c)
         /\ call' = [call EXCEPT ![t] = c]
         /\ c.native = n
         /\ c.exit = 0
         /\ \/ c.rung = 0 /\ c.pc = call[t].pc + k
            \/ c.rung = 1 /\ c.pc = call[t].pc /\ call[t].pc + k > len
  BY AdvancePlaced
<1>2. n \in Native /\ call[t].pc \in Nat \ {0} /\ call[t].pc \in 1..len /\ len \in Nat
  BY SteppingTyped
<1>3. CASE c.rung = 0 /\ c.pc = call[t].pc + k
  <2>1. call[t].pc + 1 \in Nat /\ c.pc \in Nat /\ call[t].pc + 1 <= c.pc
    BY <1>2, <1>3
  <2>2. MayStain(n, call[t].pc + 1) \subseteq MayStain(n, c.pc)
    BY <1>2, <2>1, MayStainGrows
  <2> QED
    BY <1>1, <1>3, <2>2
<1>4. CASE c.rung = 1
  <2>1. call[t].pc + 1 \in Nat /\ len + 1 \in Nat /\ call[t].pc + 1 <= len + 1
    BY <1>2
  <2>2. MayStain(n, call[t].pc + 1) \subseteq MayStain(n, len + 1)
    BY <1>2, <2>1, MayStainGrows
  <2>3. n \notin Unwiped => MayStain(n, len + 1) \subseteq ErasedFrom(Code[n].done, 1)
    BY DEF Wipes
  <2>4. PathOf(c) = Code[n].done
    BY <1>1 DEF PathOf
  <2>5. n \notin Unwiped =>
           \A x \in MayStain(n, call[t].pc + 1) : x \in ErasedFrom(PathOf(c), c.rung)
    BY <1>4, <2>2, <2>3, <2>4
  <2>6. c.rung # 0
    BY <1>4
  <2> QED
    BY <1>1, <2>5, <2>6
<1> QED
  BY <1>1, <1>3, <1>4

\* One rung on, what t has written is guarded, unless the rung erased it.
LEMMA RungGuarded ==
    ASSUME TypeOK, SecretIsOwed, NEW t \in Thread, Unwinding(t),
           NEW c, c.native = call[t].native, c.rung = call[t].rung + 1,
           c.rung # 0, PathOf(c) = Path(t),
           NEW u \in Unit, NEW x \in CellStart, msg[u][x].by = t,
           u = Body(t).unit => x \notin Erases(Path(t), call[t].rung)
    PROVE  Guarded(msg[u][x], c, u, x)
<1> SUFFICES ASSUME Secret(msg[u][x]), msg[u][x].in \notin Unwiped
             PROVE  c.native = msg[u][x].in /\ WillErase(c, u, x)
  BY DEF Guarded
<1>1. call[t].native = msg[u][x].in /\ WillErase(call[t], u, x)
  BY DEF SecretIsOwed
<1>2. /\ call[t].rung \in Nat \ {0}
      /\ call[t].rung <= Len(Path(t))
      /\ Path(t) \in Seq(RungType)
  BY UnwindingTyped
<1>3. x \in ErasedFrom(Path(t), call[t].rung) /\ Code[call[t].native].unit = u
  BY <1>1, <1>2 DEF WillErase, Path
<1>4. x \in ErasedFrom(Path(t), call[t].rung + 1)
  BY <1>2, <1>3, ErasedNext DEF Body
<1> QED
  BY <1>1, <1>3, <1>4 DEF WillErase

\* Every step leaves the secrets in the scratch buffers to calls that will
\* erase them, when the natives erase what they may have stained on every exit.
LEMMA SecretStep ==
    ASSUME \A n \in Native : Wipes(n),
           TypeOK, SecretIsOwed, [Next]_vars
    PROVE  SecretIsOwed'
<1>1. ASSUME NEW t \in Thread, NEW n \in Calls[t], Begin(t, n)
      PROVE  SecretIsOwed'
  <2> DEFINE c == [native |-> n, pc |-> 1, exit |-> 0, rung |-> 0]
  <2>1. ASSUME NEW u \in Unit, NEW x \in CellStart, msg[u][x].by = t
        PROVE  Guarded(msg[u][x], c, u, x)
    <3>1. call[t].native = ""
      <4>1. Idle.native = ""
        BY DEF Idle
      <4> QED
        BY <1>1, <4>1 DEF Begin, Active
    <3>2. Secret(msg[u][x]) => msg[u][x].in # ""
      BY SecretMarked, CodeAssumption
    <3> QED
      BY <2>1, <3>1, <3>2 DEF SecretIsOwed, Guarded
  <2> QED
    BY <1>1, <2>1, SecretUpdated DEF Begin
<1>2. ASSUME NEW t \in Thread, Stepping(t), NEW c,
             call' = [call EXCEPT ![t] = c], c.native = call[t].native,
             call[t].native \notin Unwiped =>
               \A x \in MayStain(call[t].native, call[t].pc + 1) :
                  IF c.rung = 0 THEN x \in MayStain(c.native, c.pc)
                                ELSE x \in ErasedFrom(PathOf(c), c.rung),
             msg' \in {msg, Written(t, Current(t).writes)}
      PROVE  SecretIsOwed'
  <2>1. ASSUME NEW u \in Unit, NEW x \in CellStart
        PROVE  \/ /\ msg'[u][x] = msg[u][x]
                  /\ msg[u][x].by = t => Guarded(msg[u][x], c, u, x)
               \/ msg'[u][x].by = t /\ Guarded(msg'[u][x], c, u, x)
    <3>1. CASE msg'[u][x] = msg[u][x]
      BY <1>2, <2>1, <3>1, OldGuarded
    <3>2. CASE msg'[u][x] # msg[u][x]
      <4>1. msg'[u][x] = Written(t, Current(t).writes)[u][x]
        BY <1>2, <3>2
      <4> QED
        BY <1>2, <2>1, <3>2, <4>1, WrittenGuarded
    <3> QED
      BY <3>1, <3>2
  <2> QED
    BY <1>2, <2>1, SecretUpdated
<1>3. ASSUME NEW t \in Thread, Proceed(t)
      PROVE  SecretIsOwed'
  <2>1. /\ Stepping(t)
        /\ Advance(t, 1)
        /\ msg' \in {msg, Written(t, Current(t).writes)}
        /\ Wipes(call[t].native)
    BY <1>3, SteppingTyped DEF Proceed
  <2> QED
    BY <1>2, <2>1, ErasesAdvance
<1>4. ASSUME NEW t \in Thread, Skip(t)
      PROVE  SecretIsOwed'
  <2>1. /\ Stepping(t)
        /\ Current(t).skips \in Nat \ {0}
        /\ Advance(t, Current(t).skips)
        /\ msg' \in {msg, Written(t, Current(t).writes)}
        /\ Wipes(call[t].native)
    BY <1>4, SteppingTyped DEF Skip
  <2> QED
    BY <1>2, <2>1, ErasesAdvance
<1>5. ASSUME NEW t \in Thread, Fail(t)
      PROVE  SecretIsOwed'
  <2> DEFINE n == call[t].native
             k == call[t].pc
  <2>1. /\ n \in Native
        /\ k \in 1..Len(Steps(n))
        /\ Current(t) = Steps(n)[k]
        /\ Stepping(t)
        /\ msg' \in {msg, Written(t, Current(t).writes)}
    BY <1>5, SteppingTyped DEF Fail
  <2>2. PICK e \in 1..Len(Current(t).fail) :
            call' = [call EXCEPT ![t].exit = e, ![t].rung = 1]
    BY <1>5 DEF Fail
  <2>3. PICK c \in CallType :
            /\ Placed(c)
            /\ call' = [call EXCEPT ![t] = c]
            /\ c.native = n
            /\ c.pc = k
            /\ c.exit = e
            /\ c.rung = 1
            /\ PathOf(c) = Current(t).fail[e]
    BY <2>1, <2>2, FailPlaced, Zenon
  <2>4. n \notin Unwiped =>
           \A x \in MayStain(n, k + 1) : x \in ErasedFrom(PathOf(c), c.rung)
    BY <2>1, <2>2, <2>3 DEF Wipes
  <2>5. c.rung # 0
    BY <2>3
  <2> QED
    BY <1>2, <2>1, <2>3, <2>4, <2>5
<1>6. ASSUME NEW t \in Thread,
             \/ ReleaseResource(t) \/ WipeScratch(t) \/ DetachRandom(t)
             \/ DropResult(t) \/ LeaveUnset(t) \/ FormatError(t)
             \/ ThrowException(t)
      PROVE  SecretIsOwed'
  <2>1. /\ Unwinding(t)
        /\ call' = [call EXCEPT ![t].rung = @ + 1]
    BY <1>6 DEF ReleaseResource, WipeScratch, DetachRandom, DropResult, LeaveUnset,
                FormatError, ThrowException, AtRung
  <2>2. PICK c \in CallType :
            /\ Placed(c)
            /\ call' = [call EXCEPT ![t] = c]
            /\ c.native = call[t].native
            /\ c.pc = call[t].pc
            /\ c.rung = call[t].rung + 1
            /\ c.rung # 0
            /\ PathOf(c) = Path(t)
    BY <2>1, RungPlaced, Zenon
  <2>3. Active(t) /\ Body(t).unit \in Unit /\ CurrentRung(t) \in RungType
    BY <2>1, UnwindingTyped, RungTyped, ScriptTyped DEF Body
  <2>4. msg \in [Unit -> [CellStart -> MarkType]]
    BY DEF TypeOK, MarkType
  <2>5. ASSUME NEW u \in Unit, NEW x \in CellStart
        PROVE  \/ /\ msg'[u][x] = msg[u][x]
                  /\ msg[u][x].by = t => Guarded(msg[u][x], c, u, x)
               \/ ~Secret(msg'[u][x])
    <3>1. CASE WipeScratch(t)
      <4>1. CASE u = Body(t).unit
        <5>1. msg'[u][x] = Blank
          BY <3>1, <2>3, <2>4, <4>1 DEF WipeScratch
        <5> QED
          BY <5>1 DEF Secret, SecretKind, Blank
      <4>2. CASE u # Body(t).unit
        <5>1. msg'[u][x] = msg[u][x]
          BY <3>1, <2>3, <2>4, <4>2 DEF WipeScratch
        <5> QED
          BY <2>1, <2>2, <4>2, <5>1, RungGuarded
      <4> QED
        BY <4>1, <4>2
    <3>2. CASE FormatError(t)
      <4> DEFINE text == Text(CurrentRung(t))
      <4>1. msg' = Written(t, {text}) /\ CurrentRung(t).op = "say"
        BY <3>2 DEF FormatError, AtRung
      <4>2. CASE u = Body(t).unit /\ x \in CurrentRung(t).cells
        <5>1. text.cells = CurrentRung(t).cells /\ text.is = "text"
          BY DEF Text
        <5>2. (CHOOSE d \in {text} : x \in d.cells) = text
          BY <4>2, <5>1
        <5>3. msg'[u][x] = Mark(t, "text")
          BY <2>4, <4>1, <4>2, <5>1, <5>2 DEF Written
        <5> QED
          BY <5>3 DEF Secret, SecretKind, Mark
      <4>3. CASE ~(u = Body(t).unit /\ x \in CurrentRung(t).cells)
        <5>1. text.cells = CurrentRung(t).cells
          BY DEF Text
        <5>2. msg'[u][x] = msg[u][x]
          BY <2>4, <4>1, <4>3, <5>1 DEF Written
        <5>3. u = Body(t).unit => x \notin Erases(Path(t), call[t].rung)
          BY <4>1, <4>3 DEF Erases, CurrentRung
        <5> QED
          BY <2>1, <2>2, <5>2, <5>3, RungGuarded
      <4> QED
        BY <4>2, <4>3
    <3>3. CASE \/ ReleaseResource(t) \/ DetachRandom(t) \/ DropResult(t)
               \/ LeaveUnset(t) \/ ThrowException(t)
      <4>1. /\ msg'[u][x] = msg[u][x]
            /\ CurrentRung(t).op # "zero"
            /\ CurrentRung(t).op # "say"
        BY <3>3 DEF ReleaseResource, DetachRandom, DropResult, LeaveUnset,
                    ThrowException, AtRung
      <4>2. x \notin Erases(Path(t), call[t].rung)
        BY <4>1 DEF Erases, CurrentRung
      <4> QED
        BY <2>1, <2>2, <4>1, <4>2, RungGuarded
    <3> QED
      BY <1>6, <3>1, <3>2, <3>3
  <2> QED
    BY <2>2, <2>5, SecretUpdated
<1>7. ASSUME NEW t \in Thread, Return(t)
      PROVE  SecretIsOwed'
  <2>1. ASSUME NEW u \in Unit, NEW x \in CellStart,
               Secret(msg[u][x]), msg[u][x].by = t, msg[u][x].in \notin Unwiped
        PROVE  FALSE
    <3>1. call[t].native = msg[u][x].in /\ WillErase(call[t], u, x)
      BY <2>1 DEF SecretIsOwed
    <3>2. Active(t)
      <4>1. msg[u][x].in # ""
        BY <2>1, SecretMarked, CodeAssumption
      <4>2. Idle.native = ""
        BY DEF Idle
      <4> QED
        BY <3>1, <4>1, <4>2 DEF Active
    <3>3. Path(t) \in Seq(RungType) /\ call[t] \in CallType
      BY <3>2, ActivePlaced, PlacedTyped DEF Path
    <3>4. call[t].rung \in Nat /\ Len(Path(t)) \in Nat
      BY <3>3, LenProperties DEF CallType
    <3>5. call[t].rung # 0 /\ call[t].rung > Len(Path(t))
      BY <1>7, <3>4 DEF Return, Returning
    <3>6. x \in ErasedFrom(Path(t), call[t].rung)
      BY <3>1, <3>5 DEF WillErase, Path
    <3>7. call[t].rung..Len(Path(t)) = {}
      BY <3>4, <3>5
    <3> QED
      BY <3>6, <3>7 DEF ErasedFrom
  <2>2. ASSUME NEW u \in Unit, NEW x \in CellStart
        PROVE  \/ msg'[u][x] = msg[u][x]
               \/ ~Secret(msg'[u][x])
    <3>1. msg \in [Unit -> [CellStart -> MarkType]] /\ msg' = Left(t)
      BY <1>7 DEF Return, TypeOK, MarkType
    <3>2. msg'[u][x] = msg[u][x] \/ msg'[u][x] = Stale
      BY <3>1 DEF Left
    <3> QED
      BY <3>2 DEF Secret, SecretKind, Stale
  <2>3. ASSUME NEW u \in Unit, NEW x \in CellStart, msg[u][x].by = t
        PROVE  Guarded(msg[u][x], Idle, u, x)
    BY <2>1, <2>3 DEF Guarded
  <2> QED
    BY <1>7, <2>2, <2>3, SecretUpdated DEF Return
<1>8. CASE UNCHANGED vars
  <2> SUFFICES ASSUME NEW u \in Unit, NEW x \in CellStart,
                      Secret(msg'[u][x]), msg'[u][x].in \notin Unwiped
               PROVE  /\ call'[msg'[u][x].by].native = msg'[u][x].in
                      /\ WillErase(call'[msg'[u][x].by], u, x)
    BY DEF SecretIsOwed, WillErase, MayStain, ErasedFrom, Erases, Steps, PathOf,
           StepOf, Unit, Secret
  <2> QED
    BY <1>8 DEF vars, SecretIsOwed
<1> QED
  BY <1>1, <1>3, <1>4, <1>5, <1>6, <1>7, <1>8 DEF Next, Run

\* Natives that erase, on every exit, the scratch cells they may have written a
\* seed, a key or a wallet text into leave no such secret behind when they have
\* returned, but for those named in Unwiped, however their threads interleave.
THEOREM SecretsErased ==
    ASSUME \A n \in Native : Wipes(n)
    PROVE  Spec => []SecretsDieWithCall
<1>1. Init => SecretIsOwed
  <2> SUFFICES ASSUME Init PROVE SecretIsOwed
    OBVIOUS
  <2>1. \A u \in Unit, x \in CellStart : ~Secret(msg[u][x])
    BY DEF Init, Secret, SecretKind, Blank
  <2> QED
    BY <2>1 DEF SecretIsOwed
<1>2. TypeOK /\ SecretIsOwed /\ [Next]_vars => SecretIsOwed'
  BY SecretStep
<1>3. SecretIsOwed => SecretsDieWithCall
  BY DEF SecretIsOwed, SecretsDieWithCall
<1> QED
  BY <1>1, <1>2, <1>3, TypeCorrect, PTL DEF Spec

\* A secret in msg belongs to a call that has yet to erase it, at every statement
\* and for whatever threads share the buffer.
THEOREM SecretAlwaysOwed ==
    ASSUME \A n \in Native : Wipes(n)
    PROVE  Spec => []SecretIsOwed
<1>1. Init => SecretIsOwed
  <2> SUFFICES ASSUME Init PROVE SecretIsOwed
    OBVIOUS
  <2>1. \A u \in Unit, x \in CellStart : ~Secret(msg[u][x])
    BY DEF Init, Secret, SecretKind, Blank
  <2> QED
    BY <2>1 DEF SecretIsOwed
<1>2. TypeOK /\ SecretIsOwed /\ [Next]_vars => SecretIsOwed'
  BY SecretStep
<1> QED
  BY <1>1, <1>2, TypeCorrect, PTL DEF Spec

----------------------------------------------------------------------------
(* Result or exception.                                                    *)

\* A step of one thread t, which ends up at c with a result or not and with an
\* exception or not.
LEMMA OutcomeUpdated ==
    ASSUME TypeOK, OutcomeIsOwed, NEW t \in Thread, NEW c, NEW v, NEW x,
           call' = [call EXCEPT ![t] = c], value' = [value EXCEPT ![t] = v],
           thrown' = [thrown EXCEPT ![t] = x],
           IF c = Idle THEN ~v /\ ~x ELSE Decides(c, v, x)
    PROVE  OutcomeIsOwed'
<1> SUFFICES ASSUME NEW s \in Thread
             PROVE  IF call'[s] # Idle THEN Decides(call'[s], value'[s], thrown'[s])
                                       ELSE ~value'[s] /\ ~thrown'[s]
  BY DEF OutcomeIsOwed, Active, Decides, MayMake, MustMake, OpFrom, Steps, PathOf, StepOf
<1>1. CASE s = t
  BY <1>1 DEF TypeOK
<1>2. CASE s # t
  BY <1>2 DEF TypeOK, OutcomeIsOwed, Active
<1> QED
  BY <1>1, <1>2

\* One rung on, the operations to come are those of before but for this one.
LEMMA OpNext ==
    ASSUME NEW path \in Seq(RungType), NEW k \in Nat \ {0}, k <= Len(path), NEW op
    PROVE  OpFrom(path, k, op) <=> (path[k].op = op \/ OpFrom(path, k + 1, op))
<1>1. Len(path) \in Nat
  BY LenProperties
<1>2. \A i : i \in k..Len(path) <=> i = k \/ i \in k + 1..Len(path)
  BY <1>1
<1> QED
  BY <1>2 DEF OpFrom

\* Past its last rung a path does nothing.
LEMMA OpPast ==
    ASSUME NEW path \in Seq(RungType), NEW k \in Nat, k > Len(path), NEW op
    PROVE  ~OpFrom(path, k, op)
<1>1. Len(path) \in Nat
  BY LenProperties
<1>2. k..Len(path) = {}
  BY <1>1
<1> QED
  BY <1>2 DEF OpFrom

\* A result there may be before a step there may be later, and one there is for
\* sure later was there for sure before, or this step made it.
LEMMA MayMakeGrows ==
    ASSUME NEW n \in Native, NEW k \in Nat, NEW l \in Nat, k <= l, MayMake(n, k)
    PROVE  MayMake(n, l)
<1>1. PICK i \in 1..k - 1 : Steps(n)[i].makes
  BY DEF MayMake
<1>2. i \in 1..l - 1
  OBVIOUS
<1> QED
  BY <1>1, <1>2 DEF MayMake

LEMMA MustMakeGrows ==
    ASSUME NEW n \in Native, NEW k \in Nat, NEW l \in Nat, l <= k, MustMake(n, l)
    PROVE  MustMake(n, k)
<1>1. PICK i \in 1..l - 1 :
        /\ Steps(n)[i].makes
        /\ \A m \in 1..i : Steps(n)[m].skips > 0 /\ m + Steps(n)[m].skips > i =>
             <<n, m>> \in Odd /\ m + Steps(n)[m].skips > Len(Steps(n))
  BY DEF MustMake
<1>2. i \in 1..k - 1
  OBVIOUS
<1> QED
  BY <1>1, <1>2 DEF MustMake

LEMMA MustMakeStep ==
    ASSUME NEW n \in Native, NEW k \in Nat \ {0}, MustMake(n, k + 1)
    PROVE  MustMake(n, k) \/ Steps(n)[k].makes
<1>1. PICK i \in 1..k + 1 - 1 :
        /\ Steps(n)[i].makes
        /\ \A m \in 1..i : Steps(n)[m].skips > 0 /\ m + Steps(n)[m].skips > i =>
             <<n, m>> \in Odd /\ m + Steps(n)[m].skips > Len(Steps(n))
  BY DEF MustMake
<1>2. i = k \/ i \in 1..k - 1
  OBVIOUS
<1> QED
  BY <1>1, <1>2 DEF MustMake

LEMMA MustMakeSkip ==
    ASSUME NEW n \in Native, NEW k \in Nat \ {0}, NEW l \in Nat,
           Steps(n)[k].skips \in Nat \ {0}, l <= k + Steps(n)[k].skips, MustMake(n, l)
    PROVE  \/ MustMake(n, k)
           \/ <<n, k>> \in Odd /\ k + Steps(n)[k].skips > Len(Steps(n))
<1>1. PICK i \in 1..l - 1 :
        /\ Steps(n)[i].makes
        /\ \A m \in 1..i : Steps(n)[m].skips > 0 /\ m + Steps(n)[m].skips > i =>
             <<n, m>> \in Odd /\ m + Steps(n)[m].skips > Len(Steps(n))
  BY DEF MustMake
<1>2. CASE i \in 1..k - 1
  BY <1>1, <1>2 DEF MustMake
<1>3. CASE i \notin 1..k - 1
  <2>1. k \in 1..i /\ Steps(n)[k].skips > 0 /\ k + Steps(n)[k].skips > i
    BY <1>3
  <2> QED
    BY <1>1, <2>1
<1> QED
  BY <1>2, <1>3

\* A thread that advances with the result it must have by then.
LEMMA DecidesAdvance ==
    ASSUME TypeOK, NEW t \in Thread, Stepping(t), NEW k \in Nat \ {0}, NEW v \in BOOLEAN,
           Decided(call[t].native), Advance(t, k),
           v => MayMake(call[t].native, call[t].pc + k),
           \A l \in Nat : /\ l <= call[t].pc + k
                          /\ MustMake(call[t].native, l)
                          => \/ v
                             \/ /\ <<call[t].native, call[t].pc>> \in Odd
                                /\ call[t].pc + k > Len(Steps(call[t].native))
    PROVE  \E c \in CallType :
              call' = [call EXCEPT ![t] = c] /\ c # Idle /\ Decides(c, v, FALSE)
<1> DEFINE n == call[t].native
           len == Len(Steps(n))
<1>1. PICK c \in CallType :
         /\ Placed(c)
         /\ call' = [call EXCEPT ![t] = c]
         /\ c.native = n
         /\ c.exit = 0
         /\ \/ c.rung = 0 /\ c.pc = call[t].pc + k
            \/ c.rung = 1 /\ c.pc = call[t].pc /\ call[t].pc + k > len
  BY AdvancePlaced
<1>2. call[t].pc \in Nat \ {0} /\ call[t].pc \in 1..len /\ len \in Nat
  BY SteppingTyped
<1>3. c # Idle
  <2>1. c.native # "" /\ Idle.native = ""
    BY <1>1, SteppingTyped, ScriptTyped DEF Idle
  <2> QED
    BY <2>1
<1>4. CASE c.rung = 0 /\ c.pc = call[t].pc + k
  <2>1. c.pc \in 1..len /\ c.pc \in Nat
    BY <1>1, <1>2 DEF Placed, Steps
  <2>2. MustMake(n, c.pc) => v
    BY <1>2, <1>4, <2>1
  <2> QED
    BY <1>1, <1>3, <1>4, <2>2 DEF Decides
<1>5. CASE c.rung = 1 /\ c.pc = call[t].pc /\ call[t].pc + k > len
  <2>1. v \/ <<n, call[t].pc>> \in Odd
    <3>1. len + 1 \in Nat /\ len + 1 <= call[t].pc + k
      BY <1>2, <1>5
    <3>2. MustMake(n, len + 1)
      BY DEF Decided
    <3> QED
      BY <3>1, <3>2
  <2>2. PathOf(c) = Code[n].done
    BY <1>1 DEF PathOf
  <2>3. \A op \in {"throw", "unmake", "unset"} : ~OpFrom(PathOf(c), 1, op)
    BY <2>2 DEF Decided
  <2>4. c.rung # 0 /\ c.rung = 1 /\ c.exit = 0 /\ c.native = n /\ c.pc = call[t].pc
    BY <1>1, <1>5
  <2>5. Decides(c, v, FALSE)
    <3>1. CASE v
      BY <2>3, <2>4, <3>1 DEF Decides
    <3>2. CASE <<n, call[t].pc>> \in Odd
      <4>1. <<c.native, c.pc>> \in Odd
        BY <2>4, <3>2
      <4> QED
        BY <2>4, <4>1 DEF Decides
    <3> QED
      BY <2>1, <3>1, <3>2
  <2> QED
    BY <1>1, <1>3, <2>5
<1> QED
  BY <1>1, <1>4, <1>5

\* What is known of the outcome of a thread about to execute a step.
LEMMA SteppingOutcome ==
    ASSUME TypeOK, OutcomeIsOwed, NEW t \in Thread, Stepping(t)
    PROVE  /\ ~thrown[t] /\ value[t] \in BOOLEAN
           /\ value[t] => MayMake(call[t].native, call[t].pc)
           /\ MustMake(call[t].native, call[t].pc) => value[t]
<1>1. Decides(call[t], value[t], thrown[t]) /\ call[t].rung = 0
  BY DEF OutcomeIsOwed, Stepping
<1> QED
  BY <1>1 DEF Decides, TypeOK

\* The rungs.
LEMMA OutcomeUnwinds ==
    ASSUME TypeOK, OutcomeIsOwed, NEW t \in Thread,
           Unwinding(t), call' = [call EXCEPT ![t].rung = @ + 1],
           NEW v \in BOOLEAN, NEW x \in BOOLEAN,
           value' = [value EXCEPT ![t] = v], thrown' = [thrown EXCEPT ![t] = x],
           CurrentRung(t).op = "throw" => x,
           CurrentRung(t).op = "unmake" => ~v,
           CurrentRung(t).op \notin {"unmake", "unset"} => v = value[t],
           CurrentRung(t).op # "throw" => x = thrown[t]
    PROVE  OutcomeIsOwed'
<1>1. PICK c \in CallType :
         /\ Placed(c)
         /\ call' = [call EXCEPT ![t] = c]
         /\ c.native = call[t].native
         /\ c.pc = call[t].pc
         /\ c.exit = call[t].exit
         /\ c.rung = call[t].rung + 1
         /\ c.rung # 0
         /\ PathOf(c) = Path(t)
  BY RungPlaced, Zenon
<1> DEFINE path == Path(t)
           k == call[t].rung
<1>2. k \in Nat \ {0} /\ k <= Len(path) /\ path \in Seq(RungType)
  BY UnwindingTyped
<1>3. Decides(call[t], value[t], thrown[t]) /\ path = PathOf(call[t])
  BY UnwindingTyped DEF OutcomeIsOwed, Path
<1>4. CurrentRung(t).op = path[k].op
  BY DEF CurrentRung
<1>5. \A op : OpFrom(path, k, op) <=> path[k].op = op \/ OpFrom(path, k + 1, op)
  BY <1>2, OpNext
<1> HIDE DEF path, k
<1>6. Decides(c, v, x)
  <2>1. CASE <<call[t].native, call[t].pc>> \in Odd
    BY <1>1, <2>1 DEF Decides
  <2>2. CASE /\ call[t].exit = 0 /\ value[t] /\ ~thrown[t]
             /\ \A op \in {"throw", "unmake", "unset"} : ~OpFrom(path, k, op)
    <3>1. /\ path[k].op \notin {"throw", "unmake", "unset"}
          /\ \A op \in {"throw", "unmake", "unset"} : ~OpFrom(path, k + 1, op)
      BY <1>5, <2>2
    <3>2. v /\ ~x
      BY <1>4, <2>2, <3>1
    <3> QED
      BY <1>1, <2>2, <3>1, <3>2 DEF Decides, path, k
  <2>3. CASE /\ call[t].exit # 0
             /\ thrown[t] \/ OpFrom(path, k, "throw")
             /\ value[t] => OpFrom(path, k, "unmake")
             /\ ~OpFrom(path, k, "unset")
    <3>1. path[k].op # "unset" /\ ~OpFrom(path, k + 1, "unset")
      BY <1>5, <2>3
    <3>2. x \/ OpFrom(path, k + 1, "throw")
      BY <1>4, <1>5, <2>3
    <3>3. v => OpFrom(path, k + 1, "unmake")
      BY <1>4, <1>5, <2>3, <3>1
    <3> QED
      BY <1>1, <2>3, <3>1, <3>2, <3>3 DEF Decides, path, k
  <2> QED
    BY <1>2, <1>3, <2>1, <2>2, <2>3 DEF Decides, k
<1>7. c # Idle
  <2>1. Idle.rung = 0
    BY DEF Idle
  <2> QED
    BY <1>1, <2>1
<1> QED
  BY <1>1, <1>6, <1>7, OutcomeUpdated

\* Every step leaves a call on the way to exactly one of the two, when no path of
\* its native is undecided.
LEMMA OutcomeStep ==
    ASSUME \A n \in Native : Decided(n),
           TypeOK, OutcomeIsOwed, [Next]_vars
    PROVE  OutcomeIsOwed'
<1>1. CASE UNCHANGED vars
  <2> SUFFICES ASSUME NEW u \in Thread
               PROVE  IF Active(u)' THEN Decides(call[u], value[u], thrown[u])'
                                    ELSE ~value'[u] /\ ~thrown'[u]
    BY DEF OutcomeIsOwed
  <2>1. call' = call /\ value' = value /\ thrown' = thrown
    BY <1>1 DEF vars
  <2>2. call'[u] = call[u] /\ value'[u] = value[u] /\ thrown'[u] = thrown[u]
    BY <2>1
  <2>3. Active(u)' <=> Active(u)
    BY <2>2 DEF Active
  <2>4. Decides(call[u], value[u], thrown[u])' <=> Decides(call[u], value[u], thrown[u])
    BY <2>2 DEF Decides, MayMake, MustMake, OpFrom, Steps, PathOf, StepOf
  <2> QED
    BY <2>2, <2>3, <2>4 DEF OutcomeIsOwed
<1>2. ASSUME NEW t \in Thread, NEW n \in Calls[t], Begin(t, n)
      PROVE  OutcomeIsOwed'
  <2> DEFINE c == [native |-> n, pc |-> 1, exit |-> 0, rung |-> 0]
  <2>1. call' = [call EXCEPT ![t] = c] /\ value' = value /\ thrown' = thrown
    BY <1>2 DEF Begin
  <2>2. ~value[t] /\ ~thrown[t]
    BY <1>2 DEF Begin, OutcomeIsOwed
  <2>3. value' = [value EXCEPT ![t] = FALSE] /\ thrown' = [thrown EXCEPT ![t] = FALSE]
    BY <2>1, <2>2 DEF TypeOK
  <2>4. ~MustMake(n, 1)
    BY DEF MustMake
  <2>5. c.rung = 0 /\ c.native = n /\ c.pc = 1 /\ Idle.pc = 0
    BY DEF Idle
  <2> HIDE DEF c
  <2>6. c # Idle
    BY <2>5
  <2>7. Decides(c, FALSE, FALSE)
    BY <2>4, <2>5 DEF Decides
  <2> QED
    BY <2>1, <2>3, <2>6, <2>7, OutcomeUpdated
<1>3. ASSUME NEW t \in Thread, Proceed(t)
      PROVE  OutcomeIsOwed'
  <2> DEFINE n == call[t].native
             k == call[t].pc
             v == value[t] \/ Steps(n)[k].makes
  <2>1. /\ n \in Native /\ k \in Nat \ {0}
        /\ Current(t) = Steps(n)[k] /\ Stepping(t) /\ Advance(t, 1)
    BY <1>3, SteppingTyped DEF Proceed
  <2>2. ~thrown[t] /\ (value[t] => MayMake(n, k)) /\ (MustMake(n, k) => value[t])
    BY <2>1, SteppingOutcome
  <2>3. v => MayMake(n, k + 1)
    <3>1. CASE value[t]
      BY <2>1, <2>2, <3>1, MayMakeGrows
    <3>2. CASE Steps(n)[k].makes
      <4>1. k \in 1..k + 1 - 1
        BY <2>1
      <4> QED
        BY <3>2, <4>1 DEF MayMake
    <3> QED
      BY <3>1, <3>2
  <2>4. ASSUME NEW l \in Nat, l <= k + 1, MustMake(n, l) PROVE v
    <3>1. MustMake(n, k + 1)
      BY <2>1, <2>4, MustMakeGrows
    <3> QED
      BY <2>1, <2>2, <3>1, MustMakeStep
  <2>5. /\ value' = [value EXCEPT ![t] = v] /\ thrown' = [thrown EXCEPT ![t] = FALSE]
        /\ v \in BOOLEAN
    BY <1>3, <2>1, <2>2 DEF Proceed, TypeOK
  <2> HIDE DEF v
  <2>6. \A l \in Nat : /\ l <= call[t].pc + 1
                       /\ MustMake(call[t].native, l)
                       => \/ v
                          \/ /\ <<call[t].native, call[t].pc>> \in Odd
                             /\ call[t].pc + 1 > Len(Steps(call[t].native))
    BY <2>4
  <2>7. Decided(call[t].native) /\ (v => MayMake(call[t].native, call[t].pc + 1))
    BY <2>1, <2>3
  <2>8. \E c \in CallType :
           call' = [call EXCEPT ![t] = c] /\ c # Idle /\ Decides(c, v, FALSE)
    <3>1. 1 \in Nat \ {0} /\ v \in BOOLEAN /\ Stepping(t) /\ Advance(t, 1)
      BY <2>1, <2>5
    <3> QED
      BY <2>6, <2>7, <3>1, DecidesAdvance, ZenonT(30)
  <2> QED
    BY <2>5, <2>8, OutcomeUpdated
<1>4. ASSUME NEW t \in Thread, Skip(t)
      PROVE  OutcomeIsOwed'
  <2> DEFINE n == call[t].native
             k == call[t].pc
             j == Current(t).skips
             v == value[t]
  <2>1. /\ n \in Native /\ k \in Nat \ {0} /\ j \in Nat \ {0}
        /\ Current(t) = Steps(n)[k] /\ Stepping(t) /\ Advance(t, j)
    BY <1>4, SteppingTyped DEF Skip
  <2>2. ~thrown[t] /\ v \in BOOLEAN /\ (v => MayMake(n, k)) /\ (MustMake(n, k) => v)
    BY <2>1, SteppingOutcome
  <2>3. v => MayMake(n, k + j)
    BY <2>1, <2>2, MayMakeGrows
  <2>4. ASSUME NEW l \in Nat, l <= k + j, MustMake(n, l)
        PROVE  v \/ (<<n, k>> \in Odd /\ k + j > Len(Steps(n)))
    BY <2>1, <2>2, <2>4, MustMakeSkip
  <2>5. value' = [value EXCEPT ![t] = v] /\ thrown' = [thrown EXCEPT ![t] = FALSE]
    BY <1>4, <2>2 DEF Skip, TypeOK
  <2> HIDE DEF v, j
  <2>6. \A l \in Nat : /\ l <= call[t].pc + j
                       /\ MustMake(call[t].native, l)
                       => \/ v
                          \/ /\ <<call[t].native, call[t].pc>> \in Odd
                             /\ call[t].pc + j > Len(Steps(call[t].native))
    BY <2>4
  <2>7. Decided(call[t].native) /\ (v => MayMake(call[t].native, call[t].pc + j))
    BY <2>1, <2>3
  <2>8. \E c \in CallType :
           call' = [call EXCEPT ![t] = c] /\ c # Idle /\ Decides(c, v, FALSE)
    <3>1. j \in Nat \ {0} /\ v \in BOOLEAN /\ Stepping(t) /\ Advance(t, j)
      BY <2>1, <2>2
    <3> QED
      BY <2>6, <2>7, <3>1, DecidesAdvance, ZenonT(30)
  <2> QED
    BY <2>5, <2>8, OutcomeUpdated
<1>5. ASSUME NEW t \in Thread, Fail(t)
      PROVE  OutcomeIsOwed'
  <2> DEFINE n == call[t].native
             k == call[t].pc
             v == value[t] /\ ~Current(t).makes
  <2>1. /\ n \in Native /\ k \in 1..Len(Steps(n))
        /\ Current(t) = Steps(n)[k] /\ Stepping(t)
    BY <1>5, SteppingTyped DEF Fail
  <2>2. PICK e \in 1..Len(Current(t).fail) :
            call' = [call EXCEPT ![t].exit = e, ![t].rung = 1]
    BY <1>5 DEF Fail
  <2>3. PICK c \in CallType :
            /\ Placed(c)
            /\ call' = [call EXCEPT ![t] = c]
            /\ c.native = n
            /\ c.pc = k
            /\ c.exit = e
            /\ c.rung = 1
            /\ PathOf(c) = Current(t).fail[e]
    BY <2>1, <2>2, FailPlaced, Zenon
  <2>4. ~thrown[t] /\ (value[t] => MayMake(n, k))
    BY <2>1, SteppingOutcome
  <2> DEFINE path == Steps(n)[k].fail[e]
  <2>5. \/ <<n, k>> \in Odd
        \/ /\ OpFrom(path, 1, "throw") /\ ~OpFrom(path, 1, "unset")
           /\ MayMake(n, k) => OpFrom(path, 1, "unmake")
    BY <2>1, <2>2 DEF Decided
  <2>6. v \in BOOLEAN /\ (v => value[t])
    BY DEF TypeOK
  <2>7. value' = [value EXCEPT ![t] = v] /\ thrown' = [thrown EXCEPT ![t] = FALSE]
    BY <1>5, <2>4 DEF Fail, TypeOK
  <2>8. PathOf(c) = path /\ c.rung # 0 /\ c.exit # 0
    BY <2>1, <2>2, <2>3
  <2> HIDE DEF v, path
  <2>9. Decides(c, v, FALSE)
    <3>1. CASE <<n, k>> \in Odd
      <4>1. <<c.native, c.pc>> \in Odd
        BY <2>3, <3>1
      <4> QED
        BY <2>8, <4>1 DEF Decides
    <3>2. CASE /\ OpFrom(path, 1, "throw") /\ ~OpFrom(path, 1, "unset")
               /\ MayMake(n, k) => OpFrom(path, 1, "unmake")
      <4>1. v => OpFrom(path, 1, "unmake")
        BY <2>4, <2>6, <3>2
      <4>2. c.rung = 1
        BY <2>3
      <4> QED
        BY <2>8, <3>2, <4>1, <4>2 DEF Decides
    <3> QED
      BY <2>5, <3>1, <3>2
  <2>10. c # Idle
    <3>1. Idle.rung = 0
      BY DEF Idle
    <3> QED
      BY <2>8, <3>1
  <2> QED
    BY <2>3, <2>7, <2>9, <2>10, OutcomeUpdated
<1>6. ASSUME NEW t \in Thread,
             \/ ReleaseResource(t) \/ WipeScratch(t) \/ DetachRandom(t) \/ FormatError(t)
      PROVE  OutcomeIsOwed'
  <2>1. /\ Unwinding(t) /\ call' = [call EXCEPT ![t].rung = @ + 1]
        /\ CurrentRung(t).op \in {"free", "zero", "off", "say"}
        /\ value' = value /\ thrown' = thrown
    BY <1>6 DEF ReleaseResource, WipeScratch, DetachRandom, FormatError, AtRung
  <2>2. /\ value' = [value EXCEPT ![t] = value[t]]
        /\ thrown' = [thrown EXCEPT ![t] = thrown[t]]
        /\ value[t] \in BOOLEAN /\ thrown[t] \in BOOLEAN
    BY <2>1 DEF TypeOK
  <2>3. CurrentRung(t).op \notin {"throw", "unmake", "unset"}
    BY <2>1
  <2> QED
    BY <2>1, <2>2, <2>3, OutcomeUnwinds
<1>7. ASSUME NEW t \in Thread, DropResult(t) \/ LeaveUnset(t)
      PROVE  OutcomeIsOwed'
  <2>1. PICK v \in BOOLEAN :
          /\ Unwinding(t) /\ call' = [call EXCEPT ![t].rung = @ + 1]
          /\ CurrentRung(t).op \in {"unmake", "unset"}
          /\ CurrentRung(t).op = "unmake" => ~v
          /\ value' = [value EXCEPT ![t] = v] /\ thrown' = thrown
    BY <1>7 DEF DropResult, LeaveUnset, AtRung
  <2>2. thrown' = [thrown EXCEPT ![t] = thrown[t]] /\ thrown[t] \in BOOLEAN
    BY <2>1 DEF TypeOK
  <2>3. CurrentRung(t).op # "throw"
    BY <2>1
  <2> QED
    BY <2>1, <2>2, <2>3, OutcomeUnwinds
<1>8. ASSUME NEW t \in Thread, ThrowException(t)
      PROVE  OutcomeIsOwed'
  <2>1. /\ Unwinding(t) /\ call' = [call EXCEPT ![t].rung = @ + 1]
        /\ CurrentRung(t).op = "throw"
        /\ value' = value /\ thrown' = [thrown EXCEPT ![t] = TRUE]
    BY <1>8 DEF ThrowException, AtRung
  <2>2. value' = [value EXCEPT ![t] = value[t]] /\ value[t] \in BOOLEAN
    BY <2>1 DEF TypeOK
  <2>3. CurrentRung(t).op # "unmake"
    BY <2>1
  <2> QED
    BY <2>1, <2>2, <2>3, OutcomeUnwinds
<1>9. ASSUME NEW t \in Thread, Return(t)
      PROVE  OutcomeIsOwed'
  BY <1>9, OutcomeUpdated DEF Return
<1> QED
  BY <1>1, <1>2, <1>3, <1>4, <1>5, <1>6, <1>7, <1>8, <1>9 DEF Next, Run

\* A call that is not on a path of Odd is on the way to exactly one of a result
\* and an exception, at every statement, for natives none of whose paths is undecided.
THEOREM OutcomeAlwaysOwed ==
    ASSUME \A n \in Native : Decided(n)
    PROVE  Spec => []OutcomeIsOwed
<1>1. Init => OutcomeIsOwed
  BY DEF Init, OutcomeIsOwed, Active
<1>2. TypeOK /\ OutcomeIsOwed /\ [Next]_vars => OutcomeIsOwed'
  BY OutcomeStep
<1> QED
  BY <1>1, <1>2, TypeCorrect, PTL DEF Spec

\* Java gets a result or an exception from every call, and never both, but from
\* the paths named in Odd, whatever fails and whatever the other threads do.
THEOREM OneOutcomeAlways ==
    ASSUME \A n \in Native : Decided(n)
    PROVE  Spec => []OneOutcome
<1>1. TypeOK /\ OutcomeIsOwed => OneOutcome
  <2> SUFFICES ASSUME TypeOK, OutcomeIsOwed, NEW t \in Thread, Returning(t),
                      LeftAt(t) \notin Odd
               PROVE  value[t] # thrown[t]
    BY DEF OneOutcome
  <2>1. Active(t)
    <3>1. Idle.rung = 0
      BY DEF Idle
    <3> QED
      BY <3>1 DEF Returning, Active
  <2>2. call[t] \in CallType /\ Path(t) \in Seq(RungType)
    BY <2>1, ActivePlaced, PlacedTyped DEF Path
  <2>3. call[t].rung \in Nat /\ call[t].rung # 0 /\ call[t].rung > Len(Path(t))
    <3>1. call[t].rung \in Nat
      BY <2>2 DEF CallType
    <3> QED
      BY <3>1 DEF Returning
  <2>4. \A op : ~OpFrom(Path(t), call[t].rung, op)
    BY <2>2, <2>3, OpPast
  <2>5. Decides(call[t], value[t], thrown[t])
    BY <2>1 DEF OutcomeIsOwed
  <2> QED
    BY <2>3, <2>4, <2>5 DEF Decides, Path, LeftAt
<1> QED
  BY <1>1, OutcomeAlwaysOwed, TypeCorrect, PTL DEF Spec

==============================================================================
